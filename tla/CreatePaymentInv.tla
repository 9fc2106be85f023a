--------------------------- MODULE CreatePaymentInv ---------------------------
(***************************************************************************)
(* The inductive invariant behind the safety properties of CreatePayment.  *)
(* MCCreatePayment model-checks it; CreatePaymentProofs proves it.         *)
(***************************************************************************)
EXTENDS CreatePayment

\* Whoever persists has a decision of the controls in hand.
Decided ==
    \A r \in Payments :
        pc[r] \in {"commit", "observe"} => decided[r] \in CreatedStatus

\* Every 202 names the payment of the scope's snapshot.
AnswersTrue ==
    \A r \in Payments :
        Accepted(r) => /\ HasSnapshot(KeyOf[r])
                       /\ answer[r].body.payment = snapshot[KeyOf[r]].payment

\* After its commit a request owns the scope's snapshot.
ObserverOwns ==
    \A r \in Payments :
        pc[r] = "observe" => snapshot[KeyOf[r]].payment = r

\* Who lost the INSERT can read the winner's snapshot.
LoserFinds ==
    \A r \in Payments : pc[r] = "lost_race" => HasSnapshot(KeyOf[r])

\* While Redis answers, whoever is past the gate holds the lock of the scope.
GateHeld ==
    ~gateOpened =>
        \A r \in Payments : InControls(r) => redisLock[KeyOf[r]]

CreateInv ==
    /\ TypeOK
    /\ Decided
    /\ CommittedTogether
    /\ AnswersTrue
    /\ ObserverOwns
    /\ LoserFinds
    /\ GateHeld
    /\ GateIsExclusive

===============================================================================
