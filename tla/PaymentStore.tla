----------------------------- MODULE PaymentStore -----------------------------
(***************************************************************************)
(* The two PostgreSQL tables every service works on, "payments" and        *)
(* "outbox_events" (shared/contracts), and the statements the repositories *)
(* run on them.  The module has no variables: a table is a parameter, so   *)
(* that the components and their compositions share one vocabulary.        *)
(*                                                                         *)
(* A payment row keeps the columns the protocol reads: status and version. *)
(* An outbox event is named by its position in the table, which stands for *)
(* its created_at; "due" is next_attempt_at <= now.                        *)
(***************************************************************************)
EXTENDS Naturals, Sequences, FiniteSets

CONSTANT Payments           \* the payment ids that may ever be created

PaymentStatus ==
    {"RECEIVED", "IN_REVIEW", "BLOCKED", "PROCESSING", "CONFIRMED", "FAILED"}

EventType ==
    {"PaymentRequested", "PaymentConfirmed", "PaymentFailed",
     "PaymentReviewRequired"}

OutboxStatus == {"PENDING", "SENT", "FAILED"}

\* Rows.  "ABSENT" is the status of a payment that has not been inserted.
NoRow == [status |-> "ABSENT", version |-> 0]

PaymentRow == [status : PaymentStatus \cup {"ABSENT"}, version : Nat]

OutboxEvent == [type      : EventType,
                aggregate : Payments,
                status    : OutboxStatus,
                attempts  : Nat,
                due       : BOOLEAN]

\* The statuses the worker ends with, and the event that announces each.
FinalStatus == {"CONFIRMED", "FAILED"}

TerminalEvent == {"PaymentConfirmed", "PaymentFailed"}

Announces(status) ==
    IF status = "CONFIRMED" THEN "PaymentConfirmed" ELSE "PaymentFailed"

-------------------------------------------------------------------------------
(* Statements on "payments".                                               *)

\* A row as it is inserted: the ORM's default version is 1.
NewPayment(status) == [status |-> status, version |-> 1]

\* UPDATE ... SET status = PROCESSING, version = version + 1.
MarkedProcessing(row) ==
    [status |-> "PROCESSING", version |-> row.version + 1]

\* UPDATE ... SET status = CONFIRMED | FAILED, version = version + 2.  The WHERE
\* clause names the payment only: any previous status is overwritten.
Finalized(row, status) == [status |-> status, version |-> row.version + 2]

\* UPDATE ... SET status = ..., by a reviewer: the version is left alone.
StatusUpdated(row, status) == [row EXCEPT !.status = status]

-------------------------------------------------------------------------------
(* Statements on "outbox_events".                                          *)

NewEvent(type, p) ==
    [type |-> type, aggregate |-> p, status |-> "PENDING",
     attempts |-> 0, due |-> TRUE]

AddEvent(table, type, p) == Append(table, NewEvent(type, p))

MarkSent(table, e) == [table EXCEPT ![e].status = "SENT"]

MarkFailed(table, e, n) ==
    [table EXCEPT ![e].status = "FAILED", ![e].attempts = n]

\* Faulty variant: a status the enumeration does not have.
RescheduleAsRetry(table, e, n) ==
    [table EXCEPT ![e].status = "RETRY", ![e].attempts = n, ![e].due = FALSE]

Reschedule(table, e, n) ==
    [table EXCEPT ![e].attempts = n, ![e].due = FALSE]

\* SELECT ... WHERE event_type IN types AND status = PENDING AND due.
PendingDue(table, types) ==
    {e \in DOMAIN table : /\ table[e].type \in types
                          /\ table[e].status = "PENDING"
                          /\ table[e].due}

\* ... ORDER BY created_at LIMIT n.
Oldest(ids, n) == {e \in ids : Cardinality({f \in ids : f < e}) < n}

===============================================================================
