-------------------------- MODULE ReviewedProcessing --------------------------
(***************************************************************************)
(* The reviewers of payments-api and the worker of payments-processor on   *)
(* the same tables: a payment may be held for review, decided by competing *)
(* requests, and processed while a reviewer is still between the read and  *)
(* the write.                                                              *)
(***************************************************************************)
EXTENDS OutboxWorker

CONSTANT Reviews            \* review requests

VARIABLE reviews            \* reviews[v]: review request v

R == INSTANCE ReviewPayment

allVars == <<vars, reviews>>

SystemTypeOK == TypeOK /\ R!ReviewTypeOK

SystemInit == Init /\ R!ReviewInit

\* payments-api commits a payment in IN_REVIEW together with its event.
SubmitForReview(p) ==
    /\ payments[p].status = "ABSENT"
    /\ payments' = [payments EXCEPT ![p] = NewPayment("IN_REVIEW")]
    /\ outbox' = AddEvent(outbox, "PaymentReviewRequired", p)
    /\ UNCHANGED <<lock, envVars, workerVars, reviews>>

SystemNext ==
    \/ Next /\ UNCHANGED reviews
    \/ \E p \in Payments : SubmitForReview(p)
    \/ R!ReviewNext /\ UNCHANGED <<envVars, workerVars>>

SystemSpec == SystemInit /\ [][SystemNext]_allVars

-------------------------------------------------------------------------------
HeldForReview(p) ==
    \E e \in DOMAIN outbox : /\ outbox[e].type = "PaymentReviewRequired"
                             /\ outbox[e].aggregate = p

Committed(p, d) ==
    \E v \in Reviews : /\ reviews[v] # R!NotStarted
                       /\ reviews[v].step = "committed"
                       /\ reviews[v].payment = p
                       /\ reviews[v].decision = d

\* The review gate (use_cases/review_payment.py): no money of a payment that was
\* held for review moves before an approval of it is committed, whatever else
\* the reviewers, the worker and crashes do.
ApprovedBeforeMoved ==
    \A p \in Payments :
        HeldForReview(p) /\ p \in accepted => Committed(p, "approve")

\* A held payment changes hands only through a committed decision, and an
\* approved payment is never lost: until it is final, or rejected after all, a
\* request for it is pending.
ApprovedIsProcessed ==
    \A p \in Payments :
        Committed(p, "approve") =>
            \/ PendingRequest(p)
            \/ payments[p].status \in FinalStatus
            \/ Committed(p, "reject")

\* "Only valid when current status is IN_REVIEW": the row a decision overwrites
\* is in IN_REVIEW.
OnlyFromReview ==
    [][\A v \in Reviews :
         reviews[v] # reviews'[v] /\ reviews'[v].step = "committed"
             => payments[reviews'[v].payment].status = "IN_REVIEW"]_allVars

===============================================================================
