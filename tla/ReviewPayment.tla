---------------------------- MODULE ReviewPayment ----------------------------
(***************************************************************************)
(* payments-api, POST /payments/{id}/approve and /reject: a reviewer       *)
(* decides a payment that the controls held back in IN_REVIEW.  An element *)
(* of Reviews is one HTTP request.  The request reads the row, awaits, and *)
(* then writes it in a transaction of its own statement; row locks are     *)
(* shared with whoever else updates payments ("lock").                     *)
(***************************************************************************)
EXTENDS PaymentStore

CONSTANT Reviews            \* review requests

VARIABLES
    payments,   \* table "payments"
    outbox,     \* table "outbox_events"
    lock,       \* lock[p]: who holds the lock of row p
    reviews     \* reviews[v]: request v

Decision == {"approve", "reject"}

\* loaded: the status check passed; committed: the decision is in the database;
\* invalid: 4xx, not in review; failed: rolled back.
ReviewStep == {"new", "loaded", "committed", "invalid", "failed"}

NotStarted == [step |-> "new"]

Review == [step : ReviewStep \ {"new"}, payment : Payments, decision : Decision]

ReviewTypeOK == reviews \in [Reviews -> Review \cup {NotStarted}]

ReviewInit == reviews = [v \in Reviews |-> NotStarted]

\* Request v is about to write decision d.
Decides(v, d) == reviews[v].step = "loaded" /\ reviews[v].decision = d

Reach(v, step) == reviews' = [reviews EXCEPT ![v].step = step]

\* The row as the SELECT returned it permits a review.
InReview(p) == payments[p].status = "IN_REVIEW"

\* _load_review_payment_or_raise
LoadForReview(v, p, d) ==
    /\ reviews[v] = NotStarted
    /\ reviews' = [reviews EXCEPT ![v] =
         [step     |-> IF InReview(p) THEN "loaded" ELSE "invalid",
          payment  |-> p,
          decision |-> d]]
    /\ UNCHANGED <<payments, outbox, lock>>

\* update_status: UPDATE ... WHERE payment_id = p, which waits for the row lock
\* and looks at no column of the row it then finds.
UpdateStatus(p, status) ==
    /\ lock[p] = {}
    /\ payments' = [payments EXCEPT ![p] = StatusUpdated(@, status)]

\* Faulty variant: the approval does not enqueue the event.
ApproveSilently(v) ==
    /\ Decides(v, "approve")
    /\ UpdateStatus(reviews[v].payment, "RECEIVED")
    /\ Reach(v, "committed")
    /\ UNCHANGED <<outbox, lock>>

\* ApproveReviewPaymentUseCase: the row and the event that starts the worker.
Approve(v) ==
    /\ Decides(v, "approve")
    /\ UpdateStatus(reviews[v].payment, "RECEIVED")
    /\ outbox' = AddEvent(outbox, "PaymentRequested", reviews[v].payment)
    /\ Reach(v, "committed")
    /\ UNCHANGED lock

\* Faulty variant: the rejection enqueues the worker's event as well.
RejectEnqueues(v) ==
    /\ Decides(v, "reject")
    /\ UpdateStatus(reviews[v].payment, "BLOCKED")
    /\ outbox' = AddEvent(outbox, "PaymentRequested", reviews[v].payment)
    /\ Reach(v, "committed")
    /\ UNCHANGED lock

\* Faulty variant: a status the enumeration does not have.
RejectAsRejected(v) ==
    /\ Decides(v, "reject")
    /\ UpdateStatus(reviews[v].payment, "REJECTED")
    /\ Reach(v, "committed")
    /\ UNCHANGED <<outbox, lock>>

\* RejectReviewPaymentUseCase
Reject(v) ==
    /\ Decides(v, "reject")
    /\ UpdateStatus(reviews[v].payment, "BLOCKED")
    /\ Reach(v, "committed")
    /\ UNCHANGED <<outbox, lock>>

\* The process dies or a statement raises before the commit.
FailReview(v) ==
    /\ reviews[v].step = "loaded"
    /\ Reach(v, "failed")
    /\ UNCHANGED <<payments, outbox, lock>>

ReviewNext ==
    \E v \in Reviews :
        \/ \E p \in Payments, d \in Decision : LoadForReview(v, p, d)
        \/ Approve(v)
        \/ Reject(v)
        \/ FailReview(v)

===============================================================================
