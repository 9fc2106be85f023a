----------------------------- MODULE OutboxWorker -----------------------------
(***************************************************************************)
(* payments-processor: the polling worker that drains the outbox, asks the *)
(* provider to confirm each requested payment, writes the result and the   *)
(* terminal event in one transaction, and then relays terminal events to   *)
(* the message broker.  One element of Workers is one worker process; the  *)
(* deployment runs one.                                                    *)
(*                                                                         *)
(* A step ends where the code awaits the database, the provider or the     *)
(* broker.  Between two commits a worker's writes are visible to nobody    *)
(* else: they are kept in "loaded" and applied by the committing step,     *)
(* while "lock" holds the payment's row lock.                              *)
(***************************************************************************)
EXTENDS PaymentStore

CONSTANTS Workers,          \* worker processes
          BatchSize,        \* settings.batch_size
          MaxAttempts,      \* settings.max_event_attempts
          FanoutEnabled     \* event_publisher.is_enabled

ASSUME ConfigAssumption ==
    /\ BatchSize \in Nat \ {0}
    /\ MaxAttempts \in Nat \ {0}
    /\ FanoutEnabled \in BOOLEAN

VARIABLES
    payments,   \* table "payments" as committed
    outbox,     \* table "outbox_events" as committed
    lock,       \* lock[p]: the workers whose open transaction has written row p
    accepted,   \* payments the provider has accepted
    published,  \* events the broker has received
    pc,         \* pc[w]: where worker w is in run_once
    batch,      \* batch[w]: events fetched and not yet taken
    current,    \* current[w]: the event being handled
    loaded,     \* loaded[w]: the worker's ORM copy of the payment row
    reply       \* reply[w]: outcome of the provider call or of the publish

dbVars == <<payments, outbox, lock>>
envVars == <<accepted, published>>
workerVars == <<pc, batch, current, loaded, reply>>
vars == <<dbVars, envVars, workerVars>>

\* An event as the worker holds it: its row and the attempts it had when fetched.
Fetched == [event : Nat, attempts : Nat]
NoFetched == [event |-> 0, attempts |-> 0]

\* "confirmed": confirmed without partial failure; "partial": any other answer;
\* "transient": a ProcessorError (timeout, 5xx) after the retries; "unexpected":
\* any other exception.
ProviderReply == {"confirmed", "partial", "transient", "unexpected"}
PublishReply == {"published", "publish_error"}

Step == {"idle", "loop", "mark", "call", "finalize", "fanout", "record"}

RequestedTypes == {"PaymentRequested"}
\* Faulty variant: one event type is missing from the selection.
FanoutTypesIncomplete == {"PaymentConfirmed", "PaymentReviewRequired"}

FanoutTypes == {"PaymentConfirmed", "PaymentFailed", "PaymentReviewRequired"}

TypeOK ==
    /\ payments \in [Payments -> PaymentRow]
    /\ outbox \in Seq(OutboxEvent)
    /\ lock \in [Payments -> SUBSET Workers]
    /\ accepted \subseteq Payments
    /\ published \subseteq Nat
    /\ pc \in [Workers -> Step]
    /\ batch \in [Workers -> SUBSET Fetched]
    /\ current \in [Workers -> Fetched]
    /\ loaded \in [Workers -> PaymentRow]
    /\ reply \in [Workers -> ProviderReply \cup PublishReply \cup {"none"}]

Init ==
    /\ payments = [p \in Payments |-> NoRow]
    /\ outbox = <<>>
    /\ lock = [p \in Payments |-> {}]
    /\ accepted = {}
    /\ published = {}
    /\ pc = [w \in Workers |-> "idle"]
    /\ batch = [w \in Workers |-> {}]
    /\ current = [w \in Workers |-> NoFetched]
    /\ loaded = [w \in Workers |-> NoRow]
    /\ reply = [w \in Workers |-> "none"]

-------------------------------------------------------------------------------
(* The environment: payments-api, the clock and the provider.              *)

\* payments-api commits a payment in RECEIVED together with its event.
Submit(p) ==
    /\ payments[p].status = "ABSENT"
    /\ payments' = [payments EXCEPT ![p] = NewPayment("RECEIVED")]
    /\ outbox' = AddEvent(outbox, "PaymentRequested", p)
    /\ UNCHANGED <<lock, envVars, workerVars>>

\* The back-off of event e elapses.
BecomeDue(e) ==
    /\ ~outbox[e].due
    /\ outbox' = [outbox EXCEPT ![e].due = TRUE]
    /\ UNCHANGED <<payments, lock, envVars, workerVars>>

\* The payment named by the event that worker w is handling.
Target(w) == outbox[current[w].event].aggregate

\* The provider accepts the payment it is being asked to confirm; its answer
\* may still be lost on the way back.
ProviderAccepts(w) ==
    /\ pc[w] = "call"
    /\ accepted' = accepted \cup {Target(w)}
    /\ UNCHANGED <<dbVars, published, workerVars>>

-------------------------------------------------------------------------------
(* Requested events: _process_event.                                       *)

\* The oldest due events, with the attempts the SELECT read.
FetchOldest(table, types) ==
    {[event |-> e, attempts |-> table[e].attempts] :
        e \in Oldest(PendingDue(table, types), BatchSize)}

\* run_once opens a session and selects the batch.
FetchRequested(w) ==
    /\ pc[w] = "idle"
    /\ pc' = [pc EXCEPT ![w] = "loop"]
    /\ batch' = [batch EXCEPT ![w] = FetchOldest(outbox, RequestedTypes)]
    /\ UNCHANGED <<dbVars, envVars, current, loaded, reply>>

\* Take the next event of the batch, oldest first.
Take(w, b) ==
    /\ b \in batch[w]
    /\ \A other \in batch[w] : b.event <= other.event
    /\ batch' = [batch EXCEPT ![w] = @ \ {b}]
    /\ current' = [current EXCEPT ![w] = b]

\* SELECT the payment of the next event; without a row the event is failed.
LoadPayment(w) ==
    /\ pc[w] = "loop"
    /\ \E b \in batch[w] :
         LET row == payments[outbox[b.event].aggregate] IN
         /\ Take(w, b)
         /\ loaded' = [loaded EXCEPT ![w] = row]
         /\ IF row.status = "ABSENT"
            THEN /\ outbox' = MarkFailed(outbox, b.event, b.attempts + 1)
                 /\ UNCHANGED pc
            ELSE /\ pc' = [pc EXCEPT ![w] = "mark"]
                 /\ UNCHANGED outbox
    /\ UNCHANGED <<payments, lock, envVars, reply>>

\* The conditional UPDATE: it waits for the row's lock, then compares the
\* version that was loaded with the committed one.
VersionMatches(w) == payments[Target(w)].version = loaded[w].version

\* Faulty variant: the UPDATE does not wait for the row's lock.
RowAlwaysFree(p) == TRUE

RowFree(p) == lock[p] = {}

MarkProcessing(w) ==
    /\ pc[w] = "mark"
    /\ RowFree(Target(w))
    /\ VersionMatches(w)
    /\ lock' = [lock EXCEPT ![Target(w)] = @ \cup {w}]
    /\ loaded' = [loaded EXCEPT ![w] = MarkedProcessing(@)]
    /\ pc' = [pc EXCEPT ![w] = "call"]
    /\ UNCHANGED <<payments, outbox, envVars, batch, current, reply>>

\* The locals of one event go out of scope.
Forget(w) ==
    /\ current' = [current EXCEPT ![w] = NoFetched]
    /\ loaded' = [loaded EXCEPT ![w] = NoRow]
    /\ reply' = [reply EXCEPT ![w] = "none"]

\* No row matched, which the UPDATE finds without waiting for the lock: the event
\* is taken to be somebody else's, marked SENT and committed.
LoseRace(w) ==
    /\ pc[w] = "mark"
    /\ ~VersionMatches(w)
    /\ outbox' = MarkSent(outbox, current[w].event)
    /\ pc' = [pc EXCEPT ![w] = "loop"]
    /\ Forget(w)
    /\ UNCHANGED <<payments, lock, envVars, batch>>

\* The provider command returns or raises.  A payment is reported confirmed
\* only when the provider has accepted it; an accepted one may get any answer.
ProviderAnswers(w) ==
    /\ pc[w] = "call"
    /\ \E r \in ProviderReply :
         /\ r = "confirmed" => Target(w) \in accepted
         /\ reply' = [reply EXCEPT ![w] = r]
    /\ pc' = [pc EXCEPT ![w] = "finalize"]
    /\ UNCHANGED <<dbVars, envVars, batch, current, loaded>>

\* _handle_processor_error gives up at the last attempt.
LastAttempt(w) == current[w].attempts + 1 >= MaxAttempts

\* Faulty variant: a payment that has been announced is not announced again.
SettleAnnouncingOnce(w, status, table) ==
    /\ payments' = [payments EXCEPT ![Target(w)] = Finalized(loaded[w], status)]
    /\ outbox' = IF \E e \in DOMAIN outbox : /\ outbox[e].aggregate = Target(w)
                                             /\ outbox[e].type \in TerminalEvent
                 THEN table
                 ELSE AddEvent(table, Announces(status), Target(w))

\* The payment row and the outbox table a transaction writes, by outcome.
Settle(w, status, table) ==
    /\ payments' = [payments EXCEPT ![Target(w)] = Finalized(loaded[w], status)]
    /\ outbox' = AddEvent(table, Announces(status), Target(w))

SettleConfirmed(w) ==
    /\ reply[w] = "confirmed"
    /\ Settle(w, "CONFIRMED", MarkSent(outbox, current[w].event))

\* Faulty variant: a partial failure counts as a confirmation.
SettlePartialAsConfirmed(w) ==
    /\ reply[w] = "partial"
    /\ Settle(w, "CONFIRMED", MarkSent(outbox, current[w].event))

\* Faulty variant: mark_sent is forgotten on the partial-failure path.
SettlePartialUnmarked(w) ==
    /\ reply[w] = "partial"
    /\ Settle(w, "FAILED", outbox)

SettlePartial(w) ==
    /\ reply[w] = "partial"
    /\ Settle(w, "FAILED", MarkSent(outbox, current[w].event))

\* Faulty variant: the payment is failed and its event rescheduled.
SettleFailedRetried(w) ==
    /\ \/ reply[w] = "unexpected"
       \/ reply[w] = "transient" /\ LastAttempt(w)
    /\ Settle(w, "FAILED",
              Reschedule(outbox, current[w].event, current[w].attempts))

SettleFailed(w) ==
    /\ \/ reply[w] = "unexpected"
       \/ reply[w] = "transient" /\ LastAttempt(w)
    /\ Settle(w, "FAILED",
              MarkFailed(outbox, current[w].event, current[w].attempts + 1))

\* Faulty variant: the event is failed although the payment is to be retried.
RetryNever(w) ==
    /\ reply[w] = "transient"
    /\ ~LastAttempt(w)
    /\ payments' = [payments EXCEPT ![Target(w)] = loaded[w]]
    /\ outbox' = MarkFailed(outbox, current[w].event, current[w].attempts + 1)

RetryLater(w) ==
    /\ reply[w] = "transient"
    /\ ~LastAttempt(w)
    /\ payments' = [payments EXCEPT ![Target(w)] = loaded[w]]
    /\ outbox' = Reschedule(outbox, current[w].event, current[w].attempts + 1)

\* Write the outcome and commit, which releases the row.
Finalize(w) ==
    /\ pc[w] = "finalize"
    /\ \/ SettleConfirmed(w)
       \/ SettlePartial(w)
       \/ SettleFailed(w)
       \/ RetryLater(w)
    /\ lock' = [lock EXCEPT ![Target(w)] = @ \ {w}]
    /\ pc' = [pc EXCEPT ![w] = "loop"]
    /\ Forget(w)
    /\ UNCHANGED <<envVars, batch>>

-------------------------------------------------------------------------------
(* Fan-out: _publish_fanout_events, after the last requested event.        *)

FetchFanout(w) ==
    /\ pc[w] = "loop"
    /\ batch[w] = {}
    /\ FanoutEnabled
    /\ pc' = [pc EXCEPT ![w] = "fanout"]
    /\ batch' = [batch EXCEPT ![w] = FetchOldest(outbox, FanoutTypes)]
    /\ UNCHANGED <<dbVars, envVars, current, loaded, reply>>

\* Publish the next event; the broker may have it although publish raised.
Publish(w) ==
    /\ pc[w] = "fanout"
    /\ \E b \in batch[w], r \in PublishReply :
         /\ Take(w, b)
         /\ reply' = [reply EXCEPT ![w] = r]
         /\ \/ published' = published \cup {b.event}
            \/ r = "publish_error" /\ UNCHANGED published
    /\ pc' = [pc EXCEPT ![w] = "record"]
    /\ UNCHANGED <<dbVars, accepted, loaded>>

\* Faulty variant: an event whose publication failed to the end counts as SENT.
FanoutGivenUpAsSent(w) ==
    IF reply[w] = "published" \/ LastAttempt(w)
    THEN MarkSent(outbox, current[w].event)
    ELSE Reschedule(outbox, current[w].event, current[w].attempts + 1)

\* mark_sent, or _handle_fanout_failure; then commit.
FanoutWritten(w) ==
    LET e == current[w].event
        n == current[w].attempts + 1
    IN  CASE reply[w] = "published" -> MarkSent(outbox, e)
          [] reply[w] # "published" /\ LastAttempt(w) -> MarkFailed(outbox, e, n)
          [] OTHER -> Reschedule(outbox, e, n)

RecordFanout(w) ==
    /\ pc[w] = "record"
    /\ outbox' = FanoutWritten(w)
    /\ pc' = [pc EXCEPT ![w] = "fanout"]
    /\ Forget(w)
    /\ UNCHANGED <<payments, lock, envVars, batch>>

\* run_once returns; run_forever sleeps and polls again.
EndRun(w) ==
    /\ batch[w] = {}
    /\ pc[w] = IF FanoutEnabled THEN "fanout" ELSE "loop"
    /\ pc' = [pc EXCEPT ![w] = "idle"]
    /\ UNCHANGED <<dbVars, envVars, batch, current, loaded, reply>>

\* The process dies, or a statement or the commit fails: the transaction rolls
\* back, the rest of the batch is dropped and run_forever starts over.
Abort(w) ==
    /\ pc[w] # "idle"
    /\ lock' = [p \in Payments |-> lock[p] \ {w}]
    /\ pc' = [pc EXCEPT ![w] = "idle"]
    /\ batch' = [batch EXCEPT ![w] = {}]
    /\ Forget(w)
    /\ UNCHANGED <<payments, outbox, envVars>>

-------------------------------------------------------------------------------
WorkerStep(w) ==
    \/ FetchRequested(w) \/ LoadPayment(w) \/ MarkProcessing(w) \/ LoseRace(w)
    \/ ProviderAnswers(w) \/ Finalize(w)
    \/ FetchFanout(w) \/ Publish(w) \/ RecordFanout(w) \/ EndRun(w)

Next ==
    \/ \E p \in Payments : Submit(p)
    \/ \E e \in DOMAIN outbox : BecomeDue(e)
    \/ \E w \in Workers : WorkerStep(w) \/ ProviderAccepts(w) \/ Abort(w)

Spec == Init /\ [][Next]_vars

\* The deployment runs one worker process.
SingleWorker == \A v, w \in Workers : v = w

\* run_forever always polls again, back-offs elapse, and no crash or database
\* error hits the same step every time it is tried (SF).
Fairness ==
    /\ \A e \in 1 .. 2 * Cardinality(Payments) :
         WF_vars(e \in DOMAIN outbox /\ BecomeDue(e))
    /\ \A w \in Workers :
         /\ WF_vars(FetchRequested(w))
         /\ SF_vars(LoadPayment(w))
         /\ SF_vars(MarkProcessing(w))
         /\ SF_vars(ProviderAnswers(w))
         /\ SF_vars(Finalize(w))
         /\ SF_vars(FetchFanout(w))
         /\ SF_vars(Publish(w))
         /\ SF_vars(RecordFanout(w))
         /\ SF_vars(EndRun(w))

FairSpec == Spec /\ Fairness

-------------------------------------------------------------------------------
(* Safety, for any number of workers.                                      *)

Calling(w) == pc[w] \in {"call", "finalize"}

\* No two workers are between mark_processing and commit for one payment, so
\* the provider is never asked twice at the same time to move the same money.
ProviderExclusion ==
    \A v, w \in Workers :
        Calling(v) /\ Calling(w) /\ Target(v) = Target(w) => v = w

\* A payment is CONFIRMED, and announced as such, only if the provider accepted
\* it: neither a timeout, nor a partial failure, nor a retry may lead there.
ConfirmedByProvider ==
    /\ \A p \in Payments : payments[p].status = "CONFIRMED" => p \in accepted
    /\ \A e \in DOMAIN outbox :
         outbox[e].type = "PaymentConfirmed" => outbox[e].aggregate \in accepted

\* At-least-once fan-out: an event is marked SENT only after the broker has it,
\* wherever the worker crashes between publish and commit.
SentWasPublished ==
    \A e \in DOMAIN outbox :
        outbox[e].type \in FanoutTypes /\ outbox[e].status = "SENT"
            => e \in published

Announcements(p) ==
    {e \in DOMAIN outbox : /\ outbox[e].aggregate = p
                           /\ outbox[e].type \in TerminalEvent}

\* Whatever several workers write over each other, the final status that a row shows
\* has been announced (_process_payment_event: update and outbox row in one commit).
FinalIsAnnounced ==
    \A p \in Payments :
        payments[p].status \in FinalStatus =>
            \E e \in Announcements(p) : outbox[e].type = Announces(payments[p].status)

-------------------------------------------------------------------------------
(* Safety with one worker.                                                 *)

PendingRequest(p) ==
    \E e \in DOMAIN outbox : /\ outbox[e].type = "PaymentRequested"
                             /\ outbox[e].aggregate = p
                             /\ outbox[e].status = "PENDING"

\* The outbox never loses a payment: as long as a payment is not final, an event
\* is pending that will make the worker come back to it.
NoStranded ==
    \A p \in Payments :
        payments[p].status \in {"RECEIVED", "PROCESSING"} => PendingRequest(p)

\* Row and outbox agree at every commit: a final payment has exactly one terminal
\* event, the one that announces its status, and any other payment has none.
AnnouncedOnce ==
    \A p \in Payments :
        IF payments[p].status \in FinalStatus
        THEN \E e \in Announcements(p) :
               /\ Announcements(p) = {e}
               /\ outbox[e].type = Announces(payments[p].status)
        ELSE Announcements(p) = {}

\* A final status is never left, although every UPDATE but mark_processing's
\* names the row by its id only.
FinalForever ==
    [][\A p \in Payments :
         payments[p].status \in FinalStatus => payments'[p] = payments[p]]_payments

\* The terminal events among the rows "events" of the outbox.
Announced(events) ==
    {[payment |-> outbox[e].aggregate, type |-> outbox[e].type] :
        e \in {f \in events \cap DOMAIN outbox : outbox[f].type \in TerminalEvent}}

Lifecycle == INSTANCE PaymentLifecycle WITH
    status    <- [p \in Payments |-> payments[p].status],
    announced <- Announced(DOMAIN outbox),
    delivered <- Announced(published)

\* Outbox, row locks, versions and retries implement the abstract life of a
\* payment: among others, the provider is never asked again to move the money of a
\* settled payment, and no consumer hears of a status the table does not show.
ImplementsLifecycle == Lifecycle!Spec

-------------------------------------------------------------------------------
(* Liveness with one worker.                                               *)

\* Retries end: every submitted payment reaches a final status.
RequestsSettle ==
    \A p \in Payments :
        payments[p].status = "RECEIVED" ~> payments[p].status \in FinalStatus

\* Every event of the outbox, requested or fanned out, stops being PENDING.
EventsDrain ==
    \A e \in 1 .. 2 * Cardinality(Payments) :
        e \in DOMAIN outbox ~>
            (e \in DOMAIN outbox /\ outbox[e].status # "PENDING")

===============================================================================
