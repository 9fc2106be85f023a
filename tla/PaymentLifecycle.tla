--------------------------- MODULE PaymentLifecycle ---------------------------
(***************************************************************************)
(* What payments-processor promises to merchants, to the provider and to   *)
(* the consumers of its events, without outbox, workers, transactions or   *)
(* retries: a payment is settled once, the provider is asked to move money *)
(* of unsettled payments only, a confirmation rests on an acceptance, the  *)
(* status and its announcement appear in one step, and nothing is          *)
(* delivered that was not announced.                                       *)
(***************************************************************************)
CONSTANT Payments           \* the payment ids that may ever be created

VARIABLES
    status,     \* status[p]: what GET /payments/{id} returns
    accepted,   \* payments the provider has accepted
    announced,  \* terminal events that were promised to consumers
    delivered   \* terminal events that consumers have received

vars == <<status, accepted, announced, delivered>>

Settled == {"CONFIRMED", "FAILED"}

Unsettled == {"RECEIVED", "PROCESSING"}

Announcement(p, s) ==
    [payment |-> p,
     type    |-> IF s = "CONFIRMED" THEN "PaymentConfirmed" ELSE "PaymentFailed"]

Init ==
    /\ status = [p \in Payments |-> "ABSENT"]
    /\ accepted = {}
    /\ announced = {}
    /\ delivered = {}

Create(p) ==
    /\ status[p] = "ABSENT"
    /\ status' = [status EXCEPT ![p] = "RECEIVED"]
    /\ UNCHANGED <<accepted, announced, delivered>>

\* The provider is asked, and accepts.
Accept(p) ==
    /\ status[p] \in Unsettled
    /\ accepted' = accepted \cup {p}
    /\ UNCHANGED <<status, announced, delivered>>

\* An attempt has failed and another one will follow.
Retry(p) ==
    /\ status[p] \in Unsettled
    /\ status' = [status EXCEPT ![p] = "PROCESSING"]
    /\ UNCHANGED <<accepted, announced, delivered>>

Settle(p, s) ==
    /\ status[p] \in Unsettled
    /\ s = "CONFIRMED" => p \in accepted
    /\ status' = [status EXCEPT ![p] = s]
    /\ announced' = announced \cup {Announcement(p, s)}
    /\ UNCHANGED <<accepted, delivered>>

\* At least once: what was delivered may be delivered again.
Deliver(a) ==
    /\ a \in announced
    /\ delivered' = delivered \cup {a}
    /\ UNCHANGED <<status, accepted, announced>>

Next ==
    \/ \E p \in Payments :
         \/ Create(p) \/ Accept(p) \/ Retry(p)
         \/ \E s \in Settled : Settle(p, s)
    \/ \E a \in announced : Deliver(a)

Spec == Init /\ [][Next]_vars

===============================================================================
