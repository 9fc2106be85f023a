---------------------------- MODULE MCCreatePayment ----------------------------
(* TLC instances of CreatePayment.                                         *)
EXTENDS CreatePaymentInv, TLC

CONSTANTS r1, r2, r3, k1

ThreeRequests == {r1, r2, r3}
OneKey == {k1}

\* Three requests of one scope: an original, a concurrent one and a retry.
AllSameKey == [r \in Payments |-> k1]

===============================================================================
