--------------------------- MODULE CustomerRequests ---------------------------
(* payments-api: the payment requests of one customer on one rail, and the *)
(* clock the controls on them read.                                        *)
EXTENDS Integers, FiniteSets, Functions

CONSTANTS Requests,     \* requests of the customer, each with its own key
          Amount,       \* Amount[r]: the amount of request r, to any decimals
          Cent,         \* the units of Amount that make a cent
          MaxTime       \* bound: the clock stops here

ASSUME RequestsAssumption ==
    /\ IsFiniteSet(Requests)
    /\ Amount \in [Requests -> Nat]
    /\ Cent \in Nat \ {0}
    /\ MaxTime \in Nat

VARIABLE clock          \* time.time()

\* Stored[r]: the cents of payments.amount, which rounds half a cent up.
Stored == [r \in Requests |-> (2 * Amount[r] + Cent) \div (2 * Cent)]

Total(amount, requests) == SumFunctionOnSet(amount, requests)

===============================================================================
