--------------------------- MODULE MCSpendingLimits ---------------------------
(* TLC instance of SpendingLimits: three requests of one amount, which     *)
(* together stay within the daily limit.                                   *)
EXTENDS SpendingLimits, TLC

CONSTANTS r1, r2, r3

ThreeRequests == {r1, r2, r3}
OneEach == [r \in Requests |-> 1]

Symmetry == Permutations(ThreeRequests)

===============================================================================
