-------------------------- MODULE MCPaymentControls --------------------------
(* TLC instance of PaymentControls: one request of 5 cents and two of 10.5  *)
(* cents, which the counter takes for 10 and the table for 11.  The counter *)
(* lets one large request through, or the small one and no other; what it   *)
(* refuses is paid only after a lost command.                               *)
EXTENDS PaymentControls, TLC

CONSTANTS r1, r2, r3

Large == {r2, r3}
AllRequests == {r1} \cup Large
SmallOrLarge == [r \in Requests |-> IF r \in Large THEN 21 ELSE 10]
TwoDimensions == <<"MERCHANT", "CUSTOMER">>
RateLimits == [MERCHANT |-> 3, CUSTOMER |-> 2]
UpToThree == 0 .. 3

\* Requests of one amount are interchangeable.
Symmetry == Permutations(Large)

\* Bounds: the daily limit loses its Redis or the other controls theirs, not both, and
\* the last tick comes before a second failure.  Requests overlap after a first payment,
\* one command of the daily limit having failed, before the last tick, each to a payment,
\* and one at a time up to its risk decision: AML rules, commits and records overlap
\* with them in any order.
Bounded ==
    /\ outages["daily"] = 0 \/ outages["velocity"] + outages["later"] = 0
    /\ outages["daily"] + outages["velocity"] + outages["later"] < 2 \/ clock < MaxTime
    /\ \/ inTurn
       \/ /\ paid # {} /\ clock < MaxTime
          /\ outages["daily"] = 1 /\ outages["velocity"] = 0 /\ outages["later"] = 0
          /\ \A r \in Requests : pc[r] = "done" => r \in paid
          /\ Cardinality({r \in InFlight : stage[r] = "before"}) < 2

===============================================================================
