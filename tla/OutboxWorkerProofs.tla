-------------------------- MODULE OutboxWorkerProofs --------------------------
(***************************************************************************)
(* Machine-checked proofs about OutboxWorker.                              *)
(***************************************************************************)
EXTENDS OutboxWorkerInv, TLAPS

USE ConfigAssumption

\* Statements never delete an event nor change what it is about.
Keeps(table, new) ==
    /\ DOMAIN table \subseteq DOMAIN new
    /\ \A e \in DOMAIN table : /\ new[e].type = table[e].type
                               /\ new[e].aggregate = table[e].aggregate

-------------------------------------------------------------------------------
(* The statements on outbox_events.                                        *)

\* AddEvent appends one pending event and leaves every other row alone.
LEMMA AddEventFacts ==
    ASSUME NEW table \in Seq(OutboxEvent), NEW t \in EventType,
           NEW p \in Payments
    PROVE  /\ AddEvent(table, t, p) \in Seq(OutboxEvent)
           /\ DOMAIN AddEvent(table, t, p) = 1 .. Len(table) + 1
           /\ \A e \in DOMAIN table : AddEvent(table, t, p)[e] = table[e]
           /\ AddEvent(table, t, p)[Len(table) + 1] = NewEvent(t, p)
           /\ Keeps(table, AddEvent(table, t, p))
<1>1. NewEvent(t, p) \in OutboxEvent
  BY DEF NewEvent, OutboxEvent, OutboxStatus
<1> QED BY <1>1 DEF AddEvent, Keeps

\* Replacing one row of the table.
WithRow(table, e, row) == [table EXCEPT ![e] = row]

\* A replaced row changes nothing else in the table.
LEMMA RowUpdateFacts ==
    ASSUME NEW table \in Seq(OutboxEvent), NEW e \in DOMAIN table,
           NEW row \in OutboxEvent,
           row.type = table[e].type, row.aggregate = table[e].aggregate
    PROVE  /\ WithRow(table, e, row) \in Seq(OutboxEvent)
           /\ DOMAIN WithRow(table, e, row) = DOMAIN table
           /\ Keeps(table, WithRow(table, e, row))
           /\ \A d \in DOMAIN table :
                d # e => WithRow(table, e, row)[d] = table[d]
           /\ WithRow(table, e, row)[e] = row
<1>1. table \in [1 .. Len(table) -> OutboxEvent] /\ Len(table) \in Nat
  OBVIOUS
<1>2. WithRow(table, e, row) \in [1 .. Len(table) -> OutboxEvent]
  BY <1>1 DEF WithRow
<1> QED BY <1>1, <1>2 DEF Keeps, WithRow

\* mark_sent
LEMMA MarkSentFacts ==
    ASSUME NEW table \in Seq(OutboxEvent), NEW e \in DOMAIN table
    PROVE  /\ MarkSent(table, e) \in Seq(OutboxEvent)
           /\ DOMAIN MarkSent(table, e) = DOMAIN table
           /\ Keeps(table, MarkSent(table, e))
           /\ \A d \in DOMAIN table : d # e => MarkSent(table, e)[d] = table[d]
           /\ MarkSent(table, e)[e].status = "SENT"
<1> DEFINE row == [table[e] EXCEPT !.status = "SENT"]
<1>1. table[e] \in OutboxEvent
  OBVIOUS
<1>2. row \in OutboxEvent /\ row.type = table[e].type
        /\ row.aggregate = table[e].aggregate /\ row.status = "SENT"
  BY <1>1 DEF OutboxEvent, OutboxStatus
<1>3. MarkSent(table, e) = WithRow(table, e, row)
  BY DEF WithRow, MarkSent
<1> HIDE DEF row
<1> QED BY <1>2, <1>3, RowUpdateFacts

\* mark_failed
LEMMA MarkFailedFacts ==
    ASSUME NEW table \in Seq(OutboxEvent), NEW e \in DOMAIN table, NEW n \in Nat
    PROVE  /\ MarkFailed(table, e, n) \in Seq(OutboxEvent)
           /\ DOMAIN MarkFailed(table, e, n) = DOMAIN table
           /\ Keeps(table, MarkFailed(table, e, n))
           /\ \A d \in DOMAIN table :
                d # e => MarkFailed(table, e, n)[d] = table[d]
           /\ MarkFailed(table, e, n)[e].status = "FAILED"
<1> DEFINE row == [table[e] EXCEPT !.status = "FAILED", !.attempts = n]
<1>1. table[e] \in OutboxEvent
  OBVIOUS
<1>2. row \in OutboxEvent /\ row.type = table[e].type
        /\ row.aggregate = table[e].aggregate /\ row.status = "FAILED"
  BY <1>1 DEF OutboxEvent, OutboxStatus
<1>3. MarkFailed(table, e, n) = WithRow(table, e, row)
  BY DEF WithRow, MarkFailed
<1> HIDE DEF row
<1> QED BY <1>2, <1>3, RowUpdateFacts

\* reschedule
LEMMA RescheduleFacts ==
    ASSUME NEW table \in Seq(OutboxEvent), NEW e \in DOMAIN table, NEW n \in Nat
    PROVE  /\ Reschedule(table, e, n) \in Seq(OutboxEvent)
           /\ DOMAIN Reschedule(table, e, n) = DOMAIN table
           /\ Keeps(table, Reschedule(table, e, n))
           /\ \A d \in DOMAIN table :
                d # e => Reschedule(table, e, n)[d] = table[d]
           /\ Reschedule(table, e, n)[e].status = table[e].status
<1> DEFINE row == [table[e] EXCEPT !.attempts = n, !.due = FALSE]
<1>1. table[e] \in OutboxEvent
  OBVIOUS
<1>2. row \in OutboxEvent /\ row.type = table[e].type
        /\ row.aggregate = table[e].aggregate /\ row.status = table[e].status
  BY <1>1 DEF OutboxEvent, OutboxStatus
<1>3. Reschedule(table, e, n) = WithRow(table, e, row)
  BY DEF WithRow, Reschedule
<1> HIDE DEF row
<1> QED BY <1>2, <1>3, RowUpdateFacts

\* Neither statement that records a failure marks an event SENT.
LEMMA FailureStatementFacts ==
    ASSUME NEW table \in Seq(OutboxEvent), NEW e \in DOMAIN table, NEW n \in Nat,
           NEW new \in {MarkFailed(table, e, n), Reschedule(table, e, n)}
    PROVE  /\ new \in Seq(OutboxEvent)
           /\ DOMAIN new = DOMAIN table
           /\ Keeps(table, new)
           /\ \A d \in DOMAIN table : d # e => new[d] = table[d]
           /\ new[e].status = "SENT" => table[e].status = "SENT"
<1>1. CASE new = MarkFailed(table, e, n)
  BY <1>1, MarkFailedFacts
<1>2. CASE new = Reschedule(table, e, n)
  BY <1>2, RescheduleFacts
<1> QED BY <1>1, <1>2

\* A SELECT returns pending events of the table, each once, with their attempts.
LEMMA FetchOldestFacts ==
    ASSUME NEW table \in Seq(OutboxEvent), NEW types
    PROVE  /\ FetchOldest(table, types) \in SUBSET Fetched
           /\ \A b \in FetchOldest(table, types) :
                /\ b.event \in DOMAIN table
                /\ table[b.event].type \in types
                /\ table[b.event].status = "PENDING"
           /\ \A b, c \in FetchOldest(table, types) : b.event = c.event => b = c
<1>1. \A e \in DOMAIN table : e \in Nat /\ table[e].attempts \in Nat
  <2>1. \A e \in DOMAIN table : e \in Nat /\ table[e] \in OutboxEvent
    OBVIOUS
  <2> QED BY <2>1 DEF OutboxEvent
<1>2. \A e \in Oldest(PendingDue(table, types), BatchSize) :
        e \in DOMAIN table /\ table[e].type \in types
          /\ table[e].status = "PENDING"
  BY DEF Oldest, PendingDue
<1> QED BY <1>1, <1>2 DEF FetchOldest, Fetched

-------------------------------------------------------------------------------
(* SharedInv, one lemma per action.                                        *)

\* The payment a worker is working on, while it works on one.
LEMMA TargetIsPayment ==
    ASSUME TypeOK, HoldsEvents, NEW w \in Workers, Handling(w)
    PROVE  /\ current[w].event \in DOMAIN outbox
           /\ Target(w) \in Payments
           /\ current[w].attempts + 1 \in Nat
<1>1. outbox \in Seq(OutboxEvent) /\ current[w].event \in DOMAIN outbox
  BY DEF TypeOK, HoldsEvents
<1>2. outbox[current[w].event] \in OutboxEvent
  BY <1>1
<1>3. current[w] \in Fetched
  BY DEF TypeOK
<1> QED BY <1>1, <1>2, <1>3 DEF Target, OutboxEvent, Fetched

\* If no worker moves and the table only grows, what workers hold is still held.
LEMMA TargetsKept ==
    ASSUME TypeOK, HoldsEvents, Keeps(outbox, outbox'),
           NEW w \in Workers, Handling(w), current'[w] = current[w]
    PROVE  /\ Target(w)' = Target(w)
           /\ current[w].event \in DOMAIN outbox'
BY TargetIsPayment DEF Target, Keeps

\* A payment committed by payments-api (_persist_outbox_events) disturbs no
\* worker: the outbox only grows.
LEMMA SubmitShared ==
    ASSUME SharedInv, NEW p \in Payments, Submit(p)
    PROVE  SharedInv'
<1> USE DEF SharedInv, Submit, workerVars, envVars
<1>1. outbox \in Seq(OutboxEvent)
  BY DEF TypeOK
<1>2. /\ outbox' \in Seq(OutboxEvent)
      /\ DOMAIN outbox' = 1 .. Len(outbox) + 1
      /\ \A e \in DOMAIN outbox : outbox'[e] = outbox[e]
      /\ outbox'[Len(outbox) + 1] = NewEvent("PaymentRequested", p)
      /\ Keeps(outbox, outbox')
  <2>1. outbox' = AddEvent(outbox, "PaymentRequested", p)
    OBVIOUS
  <2>2. "PaymentRequested" \in EventType
    BY DEF EventType
  <2> HIDE DEF SharedInv, Submit
  <2> QED BY <1>1, <2>1, <2>2, AddEventFacts
<1>3. \A w \in Workers : Handling(w) => Target(w)' = Target(w)
  BY <1>2, TargetsKept
<1>4. TypeOK'
  <2>1. NewPayment("RECEIVED") \in PaymentRow
    BY DEF PaymentRow, NewPayment, PaymentStatus
  <2> QED BY <1>2, <2>1 DEF TypeOK
<1>5. HoldsEvents'
  BY <1>2 DEF HoldsEvents, Handling, Keeps
<1>6. LocksHeld'
  BY <1>3 DEF LocksHeld, Calling, Handling
<1>7. OpenIsProcessing'
  BY DEF OpenIsProcessing, Calling
<1>8. RepliesTrue'
  BY <1>3 DEF RepliesTrue, Handling
<1>9. ConfirmedByProvider'
  BY <1>1, <1>2 DEF ConfirmedByProvider, NewPayment, NewEvent, TypeOK
<1>10. SentWasPublished'
  BY <1>1, <1>2 DEF SentWasPublished, NewEvent
<1> QED BY <1>4, <1>5, <1>6, <1>7, <1>8, <1>9, <1>10

\* An event whose next_attempt_at passes keeps its type, status and payment.
LEMMA BecomeDueShared ==
    ASSUME SharedInv, NEW e \in DOMAIN outbox, BecomeDue(e)
    PROVE  SharedInv'
<1> USE DEF SharedInv, BecomeDue, dbVars, envVars, workerVars
<1> DEFINE row == [outbox[e] EXCEPT !.due = TRUE]
<1>1. outbox \in Seq(OutboxEvent) /\ outbox[e] \in OutboxEvent
  BY DEF TypeOK
<1>2. /\ outbox' \in Seq(OutboxEvent)
      /\ DOMAIN outbox' = DOMAIN outbox
      /\ Keeps(outbox, outbox')
      /\ \A d \in DOMAIN outbox : outbox'[d].status = outbox[d].status
  <2>1. row \in OutboxEvent /\ row.type = outbox[e].type
          /\ row.aggregate = outbox[e].aggregate
          /\ row.status = outbox[e].status
    BY <1>1 DEF OutboxEvent
  <2>2. outbox' = WithRow(outbox, e, row)
    BY DEF WithRow
  <2> HIDE DEF row, BecomeDue
  <2>3. /\ WithRow(outbox, e, row) \in Seq(OutboxEvent)
        /\ DOMAIN WithRow(outbox, e, row) = DOMAIN outbox
        /\ Keeps(outbox, WithRow(outbox, e, row))
        /\ \A d \in DOMAIN outbox :
             d # e => WithRow(outbox, e, row)[d] = outbox[d]
        /\ WithRow(outbox, e, row)[e] = row
    BY <1>1, <2>1, RowUpdateFacts
  <2> QED BY <2>1, <2>2, <2>3
<1>3. \A w \in Workers : Handling(w) => Target(w)' = Target(w)
  BY <1>2, TargetsKept
<1>4. TypeOK'
  BY <1>2 DEF TypeOK
<1>5. HoldsEvents'
  BY <1>2 DEF HoldsEvents, Handling, Keeps
<1>6. LocksHeld'
  BY <1>3 DEF LocksHeld, Calling, Handling
<1>7. OpenIsProcessing'
  BY DEF OpenIsProcessing, Calling
<1>8. RepliesTrue'
  BY <1>3 DEF RepliesTrue, Handling
<1>9. ConfirmedByProvider'
  BY <1>2 DEF ConfirmedByProvider, Keeps
<1>10. SentWasPublished'
  BY <1>2 DEF SentWasPublished, Keeps
<1> QED BY <1>4, <1>5, <1>6, <1>7, <1>8, <1>9, <1>10


\* An acceptance by the provider only makes more confirmations true.
LEMMA ProviderAcceptsShared ==
    ASSUME SharedInv, NEW w \in Workers, ProviderAccepts(w)
    PROVE  SharedInv'
<1> USE DEF SharedInv, ProviderAccepts, dbVars, envVars, workerVars
<1>3. \A v \in Workers : Handling(v) => Target(v)' = Target(v)
  BY DEF Target
<1>4. TypeOK'
  BY TargetIsPayment DEF TypeOK, Handling
<1>5. HoldsEvents'
  BY DEF HoldsEvents, Handling
<1>6. LocksHeld'
  BY <1>3 DEF LocksHeld, Calling, Handling
<1>7. OpenIsProcessing'
  BY DEF OpenIsProcessing, Calling
<1>8. RepliesTrue'
  BY <1>3 DEF RepliesTrue, Handling
<1>9. ConfirmedByProvider'
  BY DEF ConfirmedByProvider
<1>10. SentWasPublished'
  BY DEF SentWasPublished
<1> QED BY <1>4, <1>5, <1>6, <1>7, <1>8, <1>9, <1>10


\* fetch_pending_requested hands out PaymentRequested events of the table.
LEMMA FetchRequestedShared ==
    ASSUME SharedInv, NEW w \in Workers, FetchRequested(w)
    PROVE  SharedInv'
<1> USE DEF SharedInv, FetchRequested, dbVars, envVars, workerVars
<1>1. /\ batch'[w] \subseteq Fetched
      /\ \A b \in batch'[w] : /\ b.event \in DOMAIN outbox
                              /\ outbox[b.event].type \in RequestedTypes
  BY FetchOldestFacts DEF TypeOK
<1>3. \A v \in Workers : Handling(v) => Target(v)' = Target(v)
  BY DEF Target
<1>4. TypeOK'
  BY <1>1 DEF TypeOK, Step
<1>5. HoldsEvents'
  BY <1>1 DEF HoldsEvents, Handling, TypeOK
<1>6. LocksHeld'
  BY <1>3 DEF LocksHeld, Calling, Handling
<1>7. OpenIsProcessing'
  BY DEF OpenIsProcessing, Calling
<1>8. RepliesTrue'
  BY <1>3 DEF RepliesTrue, Handling, TypeOK
<1>9. ConfirmedByProvider'
  BY DEF ConfirmedByProvider
<1>10. SentWasPublished'
  BY DEF SentWasPublished
<1> QED BY <1>4, <1>5, <1>6, <1>7, <1>8, <1>9, <1>10


\* fetch_pending_fanout_events hands out fan-out events of the table.
LEMMA FetchFanoutShared ==
    ASSUME SharedInv, NEW w \in Workers, FetchFanout(w)
    PROVE  SharedInv'
<1> USE DEF SharedInv, FetchFanout, dbVars, envVars, workerVars
<1>1. /\ batch'[w] \subseteq Fetched
      /\ \A b \in batch'[w] : /\ b.event \in DOMAIN outbox
                              /\ outbox[b.event].type \in FanoutTypes
  BY FetchOldestFacts DEF TypeOK
<1>3. \A v \in Workers : Handling(v) => Target(v)' = Target(v)
  BY DEF Target
<1>4. TypeOK'
  BY <1>1 DEF TypeOK, Step
<1>5. HoldsEvents'
  BY <1>1 DEF HoldsEvents, Handling, TypeOK
<1>6. LocksHeld'
  BY <1>3 DEF LocksHeld, Calling, Handling
<1>7. OpenIsProcessing'
  BY DEF OpenIsProcessing, Calling
<1>8. RepliesTrue'
  BY <1>3 DEF RepliesTrue, Handling, TypeOK
<1>9. ConfirmedByProvider'
  BY DEF ConfirmedByProvider
<1>10. SentWasPublished'
  BY DEF SentWasPublished
<1> QED BY <1>4, <1>5, <1>6, <1>7, <1>8, <1>9, <1>10


\* run_once returns with nothing in hand.
LEMMA EndRunShared ==
    ASSUME SharedInv, NEW w \in Workers, EndRun(w)
    PROVE  SharedInv'
<1> USE DEF SharedInv, EndRun, dbVars, envVars, workerVars
<1>3. \A v \in Workers : Handling(v) => Target(v)' = Target(v)
  BY DEF Target
<1>4. TypeOK'
  BY DEF TypeOK, Step
<1>5. HoldsEvents'
  BY DEF HoldsEvents, Handling
<1>6. LocksHeld'
  BY <1>3 DEF LocksHeld, Calling, Handling, TypeOK
<1>7. OpenIsProcessing'
  BY DEF OpenIsProcessing, Calling, TypeOK
<1>8. RepliesTrue'
  BY <1>3 DEF RepliesTrue, Handling, TypeOK
<1>9. ConfirmedByProvider'
  BY DEF ConfirmedByProvider
<1>10. SentWasPublished'
  BY DEF SentWasPublished
<1> QED BY <1>4, <1>5, <1>6, <1>7, <1>8, <1>9, <1>10

\* Taking an event off the batch.
LEMMA TakeFacts ==
    ASSUME TypeOK, HoldsEvents, NEW w \in Workers,
           NEW b \in batch[w], Take(w, b)
    PROVE  /\ b \in Fetched /\ b.event \in DOMAIN outbox /\ b.attempts + 1 \in Nat
           /\ batch' \in [Workers -> SUBSET Fetched]
           /\ batch'[w] = batch[w] \ {b}
           /\ \A v \in Workers : v # w => batch'[v] = batch[v]
           /\ current' \in [Workers -> Fetched]
           /\ current'[w] = b
           /\ \A v \in Workers : v # w => current'[v] = current[v]
<1>1. b \in Fetched /\ b.event \in DOMAIN outbox
  BY DEF TypeOK, HoldsEvents
<1> QED BY <1>1 DEF Take, TypeOK, Fetched


\* get_by_id, and _mark_missing_payment when there is no row.
LEMMA LoadPaymentShared ==
    ASSUME SharedInv, NEW w \in Workers, LoadPayment(w)
    PROVE  SharedInv'
<1> USE DEF SharedInv, LoadPayment, dbVars, envVars, workerVars
<1> SUFFICES ASSUME NEW b \in batch[w],
                    Take(w, b),
                    loaded' = [loaded EXCEPT
                                 ![w] = payments[outbox[b.event].aggregate]],
                    \/ /\ outbox' = MarkFailed(outbox, b.event, b.attempts + 1)
                       /\ UNCHANGED pc
                    \/ /\ pc' = [pc EXCEPT ![w] = "mark"]
                       /\ UNCHANGED outbox
             PROVE  SharedInv'
  BY DEF Take
<1> HIDE DEF LoadPayment
<1>a. /\ pc[w] = "loop"
      /\ UNCHANGED <<payments, lock, accepted, published, reply>>
  BY DEF LoadPayment
<1>b. outbox \in Seq(OutboxEvent)
  BY DEF TypeOK
<1>1. /\ b \in Fetched /\ b.event \in DOMAIN outbox /\ b.attempts + 1 \in Nat
      /\ batch' \in [Workers -> SUBSET Fetched]
      /\ batch'[w] = batch[w] \ {b}
      /\ \A v \in Workers : v # w => batch'[v] = batch[v]
      /\ current' \in [Workers -> Fetched]
      /\ current'[w] = b
      /\ \A v \in Workers : v # w => current'[v] = current[v]
  BY TakeFacts
<1>2. /\ outbox' \in Seq(OutboxEvent)
      /\ DOMAIN outbox' = DOMAIN outbox
      /\ Keeps(outbox, outbox')
      /\ \A d \in DOMAIN outbox :
           \/ outbox'[d].status = outbox[d].status
           \/ outbox'[d].status = "FAILED"
  <2> DEFINE failed == MarkFailed(outbox, b.event, b.attempts + 1)
  <2>1. /\ failed \in Seq(OutboxEvent)
        /\ DOMAIN failed = DOMAIN outbox
        /\ Keeps(outbox, failed)
        /\ \A d \in DOMAIN outbox : d # b.event => failed[d] = outbox[d]
        /\ failed[b.event].status = "FAILED"
    BY <1>1, <1>b, MarkFailedFacts
  <2>2. outbox' = failed \/ outbox' = outbox
    OBVIOUS
  <2> HIDE DEF failed
  <2> QED BY <1>b, <2>1, <2>2 DEF Keeps
<1>d. outbox[b.event].type \in RequestedTypes
  BY <1>a DEF HoldsEvents
<1>c. payments[outbox[b.event].aggregate] \in PaymentRow
  <2>1. outbox[b.event] \in OutboxEvent
    BY <1>b, <1>1
  <2> QED BY <2>1 DEF OutboxEvent, TypeOK
<1>3. \A v \in Workers : v # w /\ Handling(v) => Target(v)' = Target(v)
  BY <1>1, <1>2, TargetsKept
<1>4. TypeOK'
  BY <1>a, <1>1, <1>2, <1>c DEF TypeOK, Step
<1>5. HoldsEvents'
  <2>1. pc'[w] \in {"loop", "mark"} /\ \A v \in Workers : v # w => pc'[v] = pc[v]
    BY <1>a DEF TypeOK
  <2>2. \A d \in DOMAIN outbox : /\ d \in DOMAIN outbox'
                                /\ outbox'[d].type = outbox[d].type
    BY <1>2 DEF Keeps
  <2> SUFFICES ASSUME NEW v \in Workers
               PROVE  /\ \A c \in batch'[v] :
                           /\ c.event \in DOMAIN outbox'
                           /\ outbox'[c.event].type \in
                                (IF pc'[v] \in {"fanout", "record"}
                                 THEN FanoutTypes ELSE RequestedTypes)
                      /\ Handling(v)' =>
                           /\ current'[v].event \in DOMAIN outbox'
                           /\ outbox'[current'[v].event].type \in
                                (IF pc'[v] = "record" THEN FanoutTypes
                                                      ELSE RequestedTypes)
    BY DEF HoldsEvents
  <2>3. CASE v = w
    BY <1>1, <1>a, <1>d, <2>1, <2>2, <2>3 DEF HoldsEvents
  <2>4. CASE v # w
    BY <1>1, <2>1, <2>2, <2>4 DEF HoldsEvents, Handling
  <2> QED BY <2>3, <2>4
<1>6. LocksHeld'
  BY <1>a, <1>3 DEF LocksHeld, Calling, Handling, TypeOK
<1>7. OpenIsProcessing'
  BY <1>a DEF OpenIsProcessing, Calling, TypeOK
<1>8. RepliesTrue'
  BY <1>a, <1>1, <1>3 DEF RepliesTrue, Handling, TypeOK
<1>9. ConfirmedByProvider'
  BY <1>a, <1>2 DEF ConfirmedByProvider, Keeps
<1>10. SentWasPublished'
  BY <1>a, <1>2 DEF SentWasPublished, Keeps
<1> QED BY <1>4, <1>5, <1>6, <1>7, <1>8, <1>9, <1>10


\* mark_processing takes the row lock only when nobody holds it.
LEMMA MarkProcessingShared ==
    ASSUME SharedInv, NEW w \in Workers, MarkProcessing(w)
    PROVE  SharedInv'
<1> USE DEF SharedInv, MarkProcessing, dbVars, envVars, workerVars
<1>1. Target(w) \in Payments /\ Handling(w)
  BY TargetIsPayment DEF Handling
<1>2. MarkedProcessing(loaded[w]) \in PaymentRow
  BY DEF TypeOK, PaymentRow, MarkedProcessing, PaymentStatus
<1>3. \A v \in Workers : Handling(v) => Target(v)' = Target(v)
  BY DEF Target
<1>4. TypeOK'
  BY <1>1, <1>2 DEF TypeOK, Step
<1>5. HoldsEvents'
  BY DEF HoldsEvents, Handling, TypeOK
<1>6. LocksHeld'
  BY <1>1, <1>3 DEF LocksHeld, RowFree, Calling, Handling, TypeOK
<1>7. OpenIsProcessing'
  BY DEF OpenIsProcessing, Calling, TypeOK, MarkedProcessing
<1>8. RepliesTrue'
  BY <1>3 DEF RepliesTrue, Handling, TypeOK
<1>9. ConfirmedByProvider'
  BY DEF ConfirmedByProvider
<1>10. SentWasPublished'
  BY DEF SentWasPublished
<1> QED BY <1>4, <1>5, <1>6, <1>7, <1>8, <1>9, <1>10


\* An answer "confirmed" is remembered only for an accepted payment.
LEMMA ProviderAnswersShared ==
    ASSUME SharedInv, NEW w \in Workers, ProviderAnswers(w)
    PROVE  SharedInv'
<1> USE DEF SharedInv, ProviderAnswers, dbVars, envVars, workerVars
<1>1. Target(w) \in Payments /\ Handling(w)
  BY TargetIsPayment DEF Handling
<1>3. \A v \in Workers : Handling(v) => Target(v)' = Target(v)
  BY DEF Target
<1>4. TypeOK'
  BY DEF TypeOK, Step
<1>5. HoldsEvents'
  BY DEF HoldsEvents, Handling, TypeOK
<1>6. LocksHeld'
  BY <1>3 DEF LocksHeld, Calling, Handling, TypeOK
<1>7. OpenIsProcessing'
  BY DEF OpenIsProcessing, Calling, TypeOK
<1>8. RepliesTrue'
  BY <1>1, <1>3 DEF RepliesTrue, Handling, TypeOK
<1>9. ConfirmedByProvider'
  BY DEF ConfirmedByProvider
<1>10. SentWasPublished'
  BY DEF SentWasPublished
<1> QED BY <1>4, <1>5, <1>6, <1>7, <1>8, <1>9, <1>10


\* A rollback gives the locks back and forgets what the worker held.
LEMMA AbortShared ==
    ASSUME SharedInv, NEW w \in Workers, Abort(w)
    PROVE  SharedInv'
<1> USE DEF SharedInv, Abort, dbVars, envVars, workerVars
<1>3. \A v \in Workers : v # w /\ Handling(v) => Target(v)' = Target(v)
  BY DEF Target, Forget, TypeOK
<1>4. TypeOK'
  BY DEF TypeOK, Step, Forget, Fetched, NoFetched, PaymentRow, NoRow
<1>5. HoldsEvents'
  BY DEF HoldsEvents, Handling, TypeOK, Forget
<1>6. LocksHeld'
  BY <1>3 DEF LocksHeld, Calling, Handling, TypeOK
<1>7. OpenIsProcessing'
  BY DEF OpenIsProcessing, Calling, TypeOK, Forget
<1>8. RepliesTrue'
  BY <1>3 DEF RepliesTrue, Handling, TypeOK, Forget
<1>9. ConfirmedByProvider'
  BY DEF ConfirmedByProvider
<1>10. SentWasPublished'
  BY DEF SentWasPublished
<1> QED BY <1>4, <1>5, <1>6, <1>7, <1>8, <1>9, <1>10

\* What one commit of _process_payment_event does to the two tables: either the
\* payment stays PROCESSING and its event pending, or the payment becomes final,
\* its event leaves PENDING and one terminal event is appended.
Retried(w, row) ==
    /\ row.status = "PROCESSING"
    /\ DOMAIN outbox' = DOMAIN outbox
    /\ outbox'[current[w].event].status = outbox[current[w].event].status

Settled(w, row) ==
    /\ row.status \in FinalStatus
    /\ row.status = "CONFIRMED" => reply[w] = "confirmed"
    /\ DOMAIN outbox' = 1 .. Len(outbox) + 1
    /\ outbox'[Len(outbox) + 1] = NewEvent(Announces(row.status), Target(w))
    /\ outbox'[current[w].event].status # "PENDING"

\* Each outcome path of _process_payment_event writes one row and appends at most
\* one event, a confirmation only for an accepted payment.
LEMMA SettleEffect ==
    ASSUME TypeOK, HoldsEvents, NEW w \in Workers, Handling(w),
           NEW status \in FinalStatus, NEW table \in Seq(OutboxEvent),
           DOMAIN table = DOMAIN outbox, Keeps(outbox, table),
           \A d \in DOMAIN outbox : d # current[w].event => table[d] = outbox[d],
           table[current[w].event].status # "PENDING",
           status = "CONFIRMED" => reply[w] = "confirmed",
           Settle(w, status, table)
    PROVE  /\ outbox' \in Seq(OutboxEvent)
           /\ Keeps(outbox, outbox')
           /\ \A d \in DOMAIN outbox :
                d # current[w].event => outbox'[d] = outbox[d]
           /\ \E row \in PaymentRow :
                /\ payments' = [payments EXCEPT ![Target(w)] = row]
                /\ Settled(w, row)
<1> DEFINE row == Finalized(loaded[w], status)
<1>1. /\ outbox \in Seq(OutboxEvent) /\ Target(w) \in Payments
      /\ current[w].event \in DOMAIN outbox
      /\ Announces(status) \in EventType
  BY TargetIsPayment DEF TypeOK, Announces, EventType
<1>2. /\ outbox' \in Seq(OutboxEvent)
      /\ DOMAIN outbox' = 1 .. Len(table) + 1
      /\ \A d \in DOMAIN table : outbox'[d] = table[d]
      /\ outbox'[Len(table) + 1] = NewEvent(Announces(status), Target(w))
      /\ Keeps(table, outbox')
  BY <1>1, AddEventFacts DEF Settle
<1>3. Len(table) = Len(outbox)
  BY <1>1
<1>4. row \in PaymentRow /\ row.status = status
  BY DEF TypeOK, PaymentRow, PaymentStatus, FinalStatus, Finalized
<1>5. payments' = [payments EXCEPT ![Target(w)] = row]
  BY DEF Settle
<1> HIDE DEF row
<1>6. Settled(w, row)
  BY <1>1, <1>2, <1>3, <1>4 DEF Settled
<1> QED BY <1>1, <1>2, <1>4, <1>5, <1>6 DEF Keeps

\* The commit of _process_payment_event: one row is PROCESSING or final, the lock
\* of that row is released, everything else stays.
LEMMA FinalizeEffect ==
    ASSUME SharedInv, NEW w \in Workers, Finalize(w)
    PROVE  /\ outbox' \in Seq(OutboxEvent)
           /\ Keeps(outbox, outbox')
           /\ \A d \in DOMAIN outbox :
                d # current[w].event => outbox'[d] = outbox[d]
           /\ \E row \in PaymentRow :
                /\ payments' = [payments EXCEPT ![Target(w)] = row]
                /\ Retried(w, row) \/ Settled(w, row)
<1> DEFINE e == current[w].event
           n == current[w].attempts + 1
<1>1. /\ TypeOK /\ HoldsEvents /\ Handling(w)
      /\ outbox \in Seq(OutboxEvent)
      /\ loaded[w] \in PaymentRow /\ loaded[w].status = "PROCESSING"
  BY DEF SharedInv, Finalize, Handling, OpenIsProcessing, Calling, TypeOK
<1>2. Target(w) \in Payments /\ e \in DOMAIN outbox /\ n \in Nat
  BY <1>1, TargetIsPayment
<1>3. CASE SettleConfirmed(w) \/ SettlePartial(w)
  <2> DEFINE table == MarkSent(outbox, e)
  <2>1. /\ table \in Seq(OutboxEvent)
        /\ DOMAIN table = DOMAIN outbox
        /\ Keeps(outbox, table)
        /\ \A d \in DOMAIN outbox : d # e => table[d] = outbox[d]
        /\ table[e].status # "PENDING"
    <3> HIDE DEF e, n
    <3> QED BY <1>1, <1>2, MarkSentFacts
  <2>2. \E status \in FinalStatus :
          /\ status = "CONFIRMED" => reply[w] = "confirmed"
          /\ Settle(w, status, table)
    BY <1>3 DEF SettleConfirmed, SettlePartial, FinalStatus
  <2> HIDE DEF table
  <2> QED BY <1>1, <2>1, <2>2, SettleEffect
<1>4. CASE SettleFailed(w)
  <2> DEFINE table == MarkFailed(outbox, e, n)
  <2>1. /\ table \in Seq(OutboxEvent)
        /\ DOMAIN table = DOMAIN outbox
        /\ Keeps(outbox, table)
        /\ \A d \in DOMAIN outbox : d # e => table[d] = outbox[d]
        /\ table[e].status # "PENDING"
    <3> HIDE DEF e, n
    <3> QED BY <1>1, <1>2, MarkFailedFacts
  <2>2. \E status \in FinalStatus :
          /\ status = "CONFIRMED" => reply[w] = "confirmed"
          /\ Settle(w, status, table)
    BY <1>4 DEF SettleFailed, FinalStatus
  <2> HIDE DEF table
  <2> QED BY <1>1, <2>1, <2>2, SettleEffect
<1>5. CASE RetryLater(w)
  <2> DEFINE table == Reschedule(outbox, e, n)
  <2>1. /\ table \in Seq(OutboxEvent)
        /\ DOMAIN table = DOMAIN outbox
        /\ Keeps(outbox, table)
        /\ \A d \in DOMAIN outbox : d # e => table[d] = outbox[d]
        /\ table[e].status = outbox[e].status
    <3> HIDE DEF e, n
    <3> QED BY <1>1, <1>2, RescheduleFacts
  <2>2. /\ payments' = [payments EXCEPT ![Target(w)] = loaded[w]]
        /\ outbox' = table
    BY <1>5 DEF RetryLater
  <2> HIDE DEF table
  <2>3. Retried(w, loaded[w])
    BY <1>1, <2>1, <2>2 DEF Retried
  <2> QED BY <1>1, <2>1, <2>2, <2>3
<1> QED BY <1>3, <1>4, <1>5 DEF Finalize

\* The commit at the end of _process_payment_event keeps the shared invariant.
LEMMA FinalizeShared ==
    ASSUME SharedInv, NEW w \in Workers, Finalize(w)
    PROVE  SharedInv'
<1> USE DEF SharedInv
<1>1. /\ pc[w] = "finalize" /\ Handling(w) /\ Calling(w)
      /\ lock' = [lock EXCEPT ![Target(w)] = @ \ {w}]
      /\ pc' = [pc EXCEPT ![w] = "loop"]
      /\ Forget(w)
      /\ UNCHANGED <<accepted, published, batch>>
      /\ outbox \in Seq(OutboxEvent)
      /\ Target(w) \in Payments
      /\ current[w].event \in DOMAIN outbox
      /\ outbox[current[w].event].type = "PaymentRequested"
  BY TargetIsPayment
     DEF Finalize, envVars, TypeOK, Handling, Calling, HoldsEvents, RequestedTypes
<1>2. /\ outbox' \in Seq(OutboxEvent)
      /\ Keeps(outbox, outbox')
      /\ \A d \in DOMAIN outbox : d # current[w].event => outbox'[d] = outbox[d]
      /\ \E row \in PaymentRow :
           /\ payments' = [payments EXCEPT ![Target(w)] = row]
           /\ Retried(w, row) \/ Settled(w, row)
  BY FinalizeEffect
<1>3. \A v \in Workers : v # w /\ Handling(v) => Target(v)' = Target(v)
  BY <1>1, <1>2, TargetsKept DEF Forget, TypeOK
<1>4. TypeOK'
  BY <1>1, <1>2 DEF TypeOK, Step, Forget, Fetched, NoFetched, PaymentRow, NoRow
<1>5. HoldsEvents'
  BY <1>1, <1>2 DEF HoldsEvents, Handling, TypeOK, Keeps, Forget
<1>6. LocksHeld'
  BY <1>1, <1>3 DEF LocksHeld, Calling, Handling, TypeOK
<1>7. OpenIsProcessing'
  BY <1>1 DEF OpenIsProcessing, Calling, TypeOK, Forget
<1>8. RepliesTrue'
  BY <1>1, <1>3 DEF RepliesTrue, Handling, TypeOK, Forget
<1>9. ConfirmedByProvider'
  <2> PICK row \in PaymentRow :
             /\ payments' = [payments EXCEPT ![Target(w)] = row]
             /\ Retried(w, row) \/ Settled(w, row)
    BY <1>2
  <2>1. row.status = "CONFIRMED" => Target(w) \in accepted
    BY <1>1 DEF Retried, Settled, RepliesTrue
  <2>2. \A p \in Payments : payments'[p].status = "CONFIRMED" => p \in accepted'
    BY <1>1, <2>1 DEF ConfirmedByProvider, TypeOK
  <2>3. CASE Retried(w, row)
    BY <1>1, <1>2, <2>2, <2>3 DEF Retried, ConfirmedByProvider, Keeps
  <2>4. CASE Settled(w, row)
    <3>1. /\ outbox'[Len(outbox) + 1].aggregate = Target(w)
          /\ outbox'[Len(outbox) + 1].type = "PaymentConfirmed"
               => Target(w) \in accepted
      BY <2>1, <2>4 DEF Settled, NewEvent, Announces, FinalStatus
    <3>2. \A d \in DOMAIN outbox' : d \in DOMAIN outbox \/ d = Len(outbox) + 1
      BY <1>1, <2>4 DEF Settled
    <3> QED BY <1>1, <1>2, <2>2, <3>1, <3>2 DEF ConfirmedByProvider, Keeps
  <2> QED BY <2>3, <2>4
<1>10. SentWasPublished'
  <2>1. ASSUME NEW d \in DOMAIN outbox', d \notin DOMAIN outbox
        PROVE  outbox'[d].status = "PENDING"
    BY <1>1, <1>2, <2>1 DEF Retried, Settled, NewEvent
  <2>2. outbox'[current[w].event].type \notin FanoutTypes
    BY <1>1, <1>2 DEF Keeps, FanoutTypes
  <2> QED BY <1>1, <1>2, <2>1, <2>2 DEF SentWasPublished
<1> QED BY <1>4, <1>5, <1>6, <1>7, <1>8, <1>9, <1>10


\* mark_sent by the loser of mark_processing touches a requested event, never one
\* of the fan-out.
LEMMA LoseRaceShared ==
    ASSUME SharedInv, NEW w \in Workers, LoseRace(w)
    PROVE  SharedInv'
<1> USE DEF SharedInv
<1>1. /\ pc[w] = "mark" /\ Handling(w)
      /\ outbox' = MarkSent(outbox, current[w].event)
      /\ pc' = [pc EXCEPT ![w] = "loop"]
      /\ Forget(w)
      /\ UNCHANGED <<payments, lock, accepted, published, batch>>
      /\ outbox \in Seq(OutboxEvent)
      /\ current[w].event \in DOMAIN outbox
      /\ outbox[current[w].event].type = "PaymentRequested"
  BY TargetIsPayment DEF LoseRace, envVars, TypeOK, Handling, HoldsEvents, RequestedTypes
<1>2. /\ outbox' \in Seq(OutboxEvent)
      /\ DOMAIN outbox' = DOMAIN outbox
      /\ Keeps(outbox, outbox')
      /\ \A d \in DOMAIN outbox : d # current[w].event => outbox'[d] = outbox[d]
  BY <1>1, MarkSentFacts
<1>3. \A v \in Workers : v # w /\ Handling(v) => Target(v)' = Target(v)
  BY <1>1, <1>2, TargetsKept DEF Forget, TypeOK
<1>4. TypeOK'
  BY <1>1, <1>2 DEF TypeOK, Step, Forget, Fetched, NoFetched, PaymentRow, NoRow
<1>5. HoldsEvents'
  BY <1>1, <1>2 DEF HoldsEvents, Handling, TypeOK, Keeps, Forget
<1>6. LocksHeld'
  BY <1>1, <1>3 DEF LocksHeld, Calling, Handling, TypeOK
<1>7. OpenIsProcessing'
  BY <1>1 DEF OpenIsProcessing, Calling, TypeOK, Forget
<1>8. RepliesTrue'
  BY <1>1, <1>3 DEF RepliesTrue, Handling, TypeOK, Forget
<1>9. ConfirmedByProvider'
  BY <1>1, <1>2 DEF ConfirmedByProvider, Keeps
<1>10. SentWasPublished'
  BY <1>1, <1>2 DEF SentWasPublished, Keeps, FanoutTypes
<1> QED BY <1>4, <1>5, <1>6, <1>7, <1>8, <1>9, <1>10


\* publish: "published" is remembered only when the broker has the event.
LEMMA PublishShared ==
    ASSUME SharedInv, NEW w \in Workers, Publish(w)
    PROVE  SharedInv'
<1> USE DEF SharedInv
<1> PICK b \in batch[w], r \in PublishReply :
           /\ Take(w, b)
           /\ reply' = [reply EXCEPT ![w] = r]
           /\ \/ published' = published \cup {b.event}
              \/ r = "publish_error" /\ UNCHANGED published
  BY DEF Publish
<1>1. /\ pc[w] = "fanout"
      /\ pc' = [pc EXCEPT ![w] = "record"]
      /\ UNCHANGED <<payments, outbox, lock, accepted, loaded>>
  BY DEF Publish, dbVars
<1>2. /\ b \in Fetched /\ b.event \in DOMAIN outbox
      /\ batch' \in [Workers -> SUBSET Fetched]
      /\ batch'[w] = batch[w] \ {b}
      /\ \A v \in Workers : v # w => batch'[v] = batch[v]
      /\ current' \in [Workers -> Fetched]
      /\ current'[w] = b
      /\ \A v \in Workers : v # w => current'[v] = current[v]
  BY TakeFacts
<1>3. \A v \in Workers : v # w /\ Handling(v) => Target(v)' = Target(v)
  BY <1>1, <1>2 DEF Target
<1>a. published \subseteq published' /\ published' \subseteq Nat
        /\ (r = "published" => b.event \in published')
  BY <1>2 DEF TypeOK, Fetched
<1>4. TypeOK'
  BY <1>1, <1>2, <1>a DEF TypeOK, Step
<1>5. HoldsEvents'
  BY <1>1, <1>2 DEF HoldsEvents, Handling, TypeOK
<1>6. LocksHeld'
  BY <1>1, <1>3 DEF LocksHeld, Calling, Handling, TypeOK
<1>7. OpenIsProcessing'
  BY <1>1 DEF OpenIsProcessing, Calling, TypeOK
<1>8. RepliesTrue'
  BY <1>1, <1>2, <1>3, <1>a DEF RepliesTrue, Handling, TypeOK
<1>9. ConfirmedByProvider'
  BY <1>1 DEF ConfirmedByProvider
<1>10. SentWasPublished'
  BY <1>1, <1>a DEF SentWasPublished
<1> QED BY <1>4, <1>5, <1>6, <1>7, <1>8, <1>9, <1>10


\* mark_sent or _handle_fanout_failure: SENT only for a published event.
LEMMA RecordFanoutShared ==
    ASSUME SharedInv, NEW w \in Workers, RecordFanout(w)
    PROVE  SharedInv'
<1> USE DEF SharedInv
<1>1. /\ pc[w] = "record" /\ Handling(w)
      /\ outbox' = FanoutWritten(w)
      /\ pc' = [pc EXCEPT ![w] = "fanout"]
      /\ Forget(w)
      /\ UNCHANGED <<payments, lock, accepted, published, batch>>
      /\ outbox \in Seq(OutboxEvent)
      /\ current[w].event \in DOMAIN outbox
      /\ current[w].attempts + 1 \in Nat
  BY TargetIsPayment DEF RecordFanout, envVars, TypeOK, Handling
<1>2. /\ outbox' \in Seq(OutboxEvent)
      /\ DOMAIN outbox' = DOMAIN outbox
      /\ Keeps(outbox, outbox')
      /\ \A d \in DOMAIN outbox : d # current[w].event => outbox'[d] = outbox[d]
      /\ outbox'[current[w].event].status = "SENT"
           => \/ reply[w] = "published"
              \/ outbox[current[w].event].status = "SENT"
  <2> DEFINE e == current[w].event
             n == current[w].attempts + 1
  <2>1. \/ /\ reply[w] = "published"
           /\ outbox' = MarkSent(outbox, e)
        \/ outbox' \in {MarkFailed(outbox, e, n), Reschedule(outbox, e, n)}
    BY <1>1 DEF FanoutWritten
  <2>2. CASE /\ reply[w] = "published"
             /\ outbox' = MarkSent(outbox, e)
    BY <1>1, <2>2, MarkSentFacts
  <2>3. CASE outbox' \in {MarkFailed(outbox, e, n), Reschedule(outbox, e, n)}
    BY <1>1, <2>3, FailureStatementFacts
  <2> QED BY <2>1, <2>2, <2>3
<1>3. \A v \in Workers : v # w /\ Handling(v) => Target(v)' = Target(v)
  BY <1>1, <1>2, TargetsKept DEF Forget, TypeOK
<1>4. TypeOK'
  BY <1>1, <1>2 DEF TypeOK, Step, Forget, Fetched, NoFetched, PaymentRow, NoRow
<1>5. HoldsEvents'
  BY <1>1, <1>2 DEF HoldsEvents, Handling, TypeOK, Keeps, Forget
<1>6. LocksHeld'
  BY <1>1, <1>3 DEF LocksHeld, Calling, Handling, TypeOK
<1>7. OpenIsProcessing'
  BY <1>1 DEF OpenIsProcessing, Calling, TypeOK, Forget
<1>8. RepliesTrue'
  BY <1>1, <1>3 DEF RepliesTrue, Handling, TypeOK, Forget
<1>9. ConfirmedByProvider'
  BY <1>1, <1>2 DEF ConfirmedByProvider, Keeps
<1>10. SentWasPublished'
  BY <1>1, <1>2 DEF SentWasPublished, Keeps, RepliesTrue
<1> QED BY <1>4, <1>5, <1>6, <1>7, <1>8, <1>9, <1>10

-------------------------------------------------------------------------------
(* The invariants for any number of payments and workers.                  *)

\* OutboxWorker.__init__: nothing is held and the tables are empty.
LEMMA SharedInvInit == Init => SharedInv
<1> SUFFICES ASSUME Init PROVE SharedInv
  OBVIOUS
<1>1. TypeOK
  BY DEF Init, TypeOK, PaymentRow, NoRow, Step, Fetched, NoFetched
<1>2. HoldsEvents /\ LocksHeld /\ OpenIsProcessing /\ RepliesTrue
  BY DEF Init, HoldsEvents, LocksHeld, OpenIsProcessing, RepliesTrue, Handling,
         Calling
<1>3. ConfirmedByProvider /\ SentWasPublished
  BY DEF Init, ConfirmedByProvider, SentWasPublished, NoRow
<1> QED BY <1>1, <1>2, <1>3 DEF SharedInv

\* Every step of run_forever and of its environment keeps the shared invariant.
LEMMA SharedInvNext == SharedInv /\ [Next]_vars => SharedInv'
<1> SUFFICES ASSUME SharedInv, [Next]_vars PROVE SharedInv'
  OBVIOUS
<1>1. CASE \E p \in Payments : Submit(p)
  BY <1>1, SubmitShared
<1>2. CASE \E e \in DOMAIN outbox : BecomeDue(e)
  BY <1>2, BecomeDueShared
<1>3. CASE \E w \in Workers : WorkerStep(w) \/ ProviderAccepts(w) \/ Abort(w)
  BY <1>3, FetchRequestedShared, LoadPaymentShared, MarkProcessingShared,
     LoseRaceShared, ProviderAnswersShared, FinalizeShared, FetchFanoutShared,
     PublishShared, RecordFanoutShared, EndRunShared, ProviderAcceptsShared,
     AbortShared DEF WorkerStep
<1>4. CASE UNCHANGED vars
  <2> USE <1>4 DEF vars, dbVars, envVars, workerVars, SharedInv
  <2>1. TypeOK'
    BY DEF TypeOK
  <2>2. HoldsEvents' /\ LocksHeld' /\ OpenIsProcessing' /\ RepliesTrue'
    BY DEF HoldsEvents, LocksHeld, OpenIsProcessing, RepliesTrue, Handling,
           Calling, Target
  <2>3. ConfirmedByProvider' /\ SentWasPublished'
    BY DEF ConfirmedByProvider, SentWasPublished
  <2> QED BY <2>1, <2>2, <2>3
<1> QED BY <1>1, <1>2, <1>3, <1>4 DEF Next

\* The shared invariant of any number of worker processes: workers hold events of
\* the table, locks match open transactions, remembered outcomes are true.
THEOREM SharedInvariant == Spec => []SharedInv
BY SharedInvInit, SharedInvNext, PTL DEF Spec

\* Every variable keeps its type, whatever the number of workers.
THEOREM TypeCorrect == Spec => []TypeOK
<1>1. SharedInv => TypeOK
  BY DEF SharedInv
<1> QED BY <1>1, SharedInvariant, PTL

\* However many workers poll the same outbox, at most one of them is asking the
\* provider about a given payment: the row lock taken by mark_processing is kept
\* until the commit.
THEOREM ExclusiveCall == Spec => []ProviderExclusion
<1>1. SharedInv => ProviderExclusion
  <2> SUFFICES ASSUME SharedInv, NEW v \in Workers, NEW w \in Workers,
                      Calling(v), Calling(w), Target(v) = Target(w)
               PROVE  v = w
    BY DEF ProviderExclusion
  <2>1. Target(v) \in Payments
    BY TargetIsPayment DEF SharedInv, Calling, Handling
  <2> QED BY <2>1 DEF SharedInv, LocksHeld
<1> QED BY <1>1, SharedInvariant, PTL

\* Neither a retry, nor a race of workers, nor a crash confirms a payment the
\* provider has not accepted.
THEOREM NoFalseConfirmation == Spec => []ConfirmedByProvider
<1>1. SharedInv => ConfirmedByProvider
  BY DEF SharedInv
<1> QED BY <1>1, SharedInvariant, PTL

\* An event leaves the fan-out as SENT only once the broker has it.
THEOREM FanoutAtLeastOnce == Spec => []SentWasPublished
<1>1. SharedInv => SentWasPublished
  BY DEF SharedInv
<1> QED BY <1>1, SharedInvariant, PTL

\* Every step of a worker but the commit of a payment leaves the payments alone
\* and adds no event.
LEMMA WorkerTables ==
    ASSUME SharedInv, NEW w \in Workers, ~Finalize(w),
           WorkerStep(w) \/ ProviderAccepts(w) \/ Abort(w)
    PROVE  /\ payments' = payments
           /\ DOMAIN outbox' = DOMAIN outbox
           /\ Keeps(outbox, outbox')
<1> DEFINE Kept == /\ payments' = payments
                   /\ DOMAIN outbox' = DOMAIN outbox
                   /\ Keeps(outbox, outbox')
<1>1. TypeOK /\ HoldsEvents /\ outbox \in Seq(OutboxEvent)
  BY DEF SharedInv, TypeOK
<1>2. ASSUME UNCHANGED <<payments, outbox>> PROVE Kept
  BY <1>2 DEF Keeps
<1>3. CASE LoadPayment(w)
  <2>1. PICK b \in batch[w] :
          /\ payments' = payments
          /\ \/ outbox' = MarkFailed(outbox, b.event, b.attempts + 1)
             \/ outbox' = outbox
    BY <1>3 DEF LoadPayment
  <2>2. b.event \in DOMAIN outbox /\ b.attempts + 1 \in Nat
    BY <1>1 DEF HoldsEvents, TypeOK, Fetched
  <2> QED BY <1>1, <1>2, <2>1, <2>2, MarkFailedFacts
<1>4. CASE LoseRace(w)
  BY <1>1, <1>4, TargetIsPayment, MarkSentFacts DEF LoseRace, Handling
<1>5. CASE RecordFanout(w)
  <2> DEFINE e == current[w].event
             n == current[w].attempts + 1
  <2>1. e \in DOMAIN outbox /\ n \in Nat
    BY <1>1, <1>5, TargetIsPayment DEF RecordFanout, Handling
  <2>2. outbox' \in {MarkSent(outbox, e), MarkFailed(outbox, e, n),
                     Reschedule(outbox, e, n)}
    BY <1>5 DEF RecordFanout, FanoutWritten
  <2>3. payments' = payments
    BY <1>5 DEF RecordFanout
  <2> HIDE DEF e, n
  <2>4. CASE outbox' = MarkSent(outbox, e)
    BY <1>1, <2>1, <2>3, <2>4, MarkSentFacts
  <2>5. CASE outbox' \in {MarkFailed(outbox, e, n), Reschedule(outbox, e, n)}
    BY <1>1, <2>1, <2>3, <2>5, FailureStatementFacts
  <2> QED BY <2>2, <2>4, <2>5
<1>6. CASE FetchRequested(w) \/ MarkProcessing(w) \/ ProviderAnswers(w)
  BY <1>2, <1>6 DEF FetchRequested, MarkProcessing, ProviderAnswers, dbVars
<1>7. CASE FetchFanout(w) \/ Publish(w) \/ EndRun(w)
  BY <1>2, <1>7 DEF FetchFanout, Publish, EndRun, dbVars
<1>8. CASE ProviderAccepts(w) \/ Abort(w)
  BY <1>2, <1>8 DEF ProviderAccepts, Abort, dbVars
<1> QED BY <1>3, <1>4, <1>5, <1>6, <1>7, <1>8 DEF WorkerStep

\* The clock only makes an event due.
LEMMA DueTables ==
    ASSUME SharedInv, NEW e \in DOMAIN outbox, BecomeDue(e)
    PROVE  /\ payments' = payments
           /\ DOMAIN outbox' = DOMAIN outbox
           /\ Keeps(outbox, outbox')
<1>1. outbox \in Seq(OutboxEvent)
  BY DEF SharedInv, TypeOK
<1> QED BY <1>1 DEF BecomeDue, Keeps

\* An announcement stays, and a row that shows no new final status needs no other.
LEMMA AnnouncementStays ==
    ASSUME FinalIsAnnounced, Keeps(outbox, outbox'),
           \A p \in Payments : payments'[p].status \in FinalStatus
                => payments'[p].status = payments[p].status
    PROVE  FinalIsAnnounced'
BY DEF FinalIsAnnounced, Announcements, Keeps

LEMMA AnnouncementStep ==
    ASSUME SharedInv, FinalIsAnnounced, [Next]_vars
    PROVE  FinalIsAnnounced'
<1>0. payments \in [Payments -> PaymentRow] /\ outbox \in Seq(OutboxEvent)
  BY DEF SharedInv, TypeOK
<1>1. ASSUME payments' = payments, Keeps(outbox, outbox')
      PROVE  FinalIsAnnounced'
  BY <1>1, AnnouncementStays
<1>2. ASSUME NEW p \in Payments, Submit(p)
      PROVE  FinalIsAnnounced'
  <2>1. "PaymentRequested" \in EventType
    BY DEF EventType
  <2>2. Keeps(outbox, outbox')
    BY <1>0, <1>2, <2>1, AddEventFacts DEF Submit
  <2>3. /\ payments'[p].status \notin FinalStatus
        /\ \A q \in Payments : q # p => payments'[q] = payments[q]
    BY <1>0, <1>2 DEF Submit, NewPayment, FinalStatus
  <2> QED BY <2>2, <2>3, AnnouncementStays
<1>3. ASSUME NEW w \in Workers, Finalize(w)
      PROVE  FinalIsAnnounced'
  <2>1. PICK row \in PaymentRow :
          /\ payments' = [payments EXCEPT ![Target(w)] = row]
          /\ Retried(w, row) \/ Settled(w, row)
    BY <1>3, FinalizeEffect
  <2>2. Keeps(outbox, outbox')
    BY <1>3, FinalizeEffect
  <2>3. PICK p \in Payments : p = Target(w)
    BY <1>3, TargetIsPayment DEF SharedInv, Finalize, Handling
  <2>4. /\ payments'[p] = row
        /\ \A q \in Payments : q # p => payments'[q] = payments[q]
    BY <1>0, <2>1, <2>3
  <2>5. CASE Retried(w, row)
    BY <2>2, <2>4, <2>5, AnnouncementStays DEF Retried, FinalStatus
  <2>6. CASE Settled(w, row)
    <3> DEFINE k == Len(outbox) + 1
    <3>1. /\ k \in DOMAIN outbox' /\ outbox'[k].aggregate = p
          /\ outbox'[k].type = Announces(row.status)
      BY <1>0, <2>3, <2>6 DEF Settled, NewEvent
    <3>2. Announces(row.status) \in TerminalEvent
      BY DEF Announces, TerminalEvent
    <3> HIDE DEF k
    <3>3. k \in Announcements(p)'
      BY <3>1, <3>2 DEF Announcements
    <3>4. ASSUME NEW q \in Payments, q # p, payments'[q].status \in FinalStatus
          PROVE  \E e \in Announcements(q)' : outbox'[e].type = Announces(payments'[q].status)
      <4>1. PICK e \in Announcements(q) : outbox[e].type = Announces(payments[q].status)
        BY <2>4, <3>4 DEF FinalIsAnnounced
      <4>2. e \in Announcements(q)' /\ outbox'[e].type = outbox[e].type
        BY <2>2 DEF Announcements, Keeps
      <4> QED BY <2>4, <3>4, <4>1, <4>2
    <3> QED BY <2>4, <3>1, <3>3, <3>4 DEF FinalIsAnnounced
  <2> QED BY <2>1, <2>5, <2>6
<1>4. ASSUME NEW w \in Workers, ~Finalize(w),
             WorkerStep(w) \/ ProviderAccepts(w) \/ Abort(w)
      PROVE  FinalIsAnnounced'
  BY <1>1, <1>4, WorkerTables
<1>5. ASSUME NEW e \in DOMAIN outbox, BecomeDue(e)
      PROVE  FinalIsAnnounced'
  BY <1>1, <1>5, DueTables
<1>6. CASE UNCHANGED vars
  BY <1>1, <1>6 DEF vars, dbVars, Keeps
<1> QED BY <1>2, <1>3, <1>4, <1>5, <1>6 DEF Next, WorkerStep

\* A row never shows a final status that no event announces, however many workers
\* process a payment again and write over each other (_process_payment_event).
THEOREM FinalAnnounced == Spec => []FinalIsAnnounced
<1>1. Init => FinalIsAnnounced
  BY DEF Init, NoRow, FinalStatus, FinalIsAnnounced
<1> QED BY <1>1, SharedInvariant, AnnouncementStep, PTL DEF Spec

-------------------------------------------------------------------------------
(* With one worker: SingleInv, one lemma per action that it takes part in. *)

\* The part of SingleInv that speaks of the tables only.
TablesAgree == OneRequest /\ NoOrphan /\ RequestsMatch /\ AnnouncedOnce

\* The tables still agree if payments are untouched and no request is.
LEMMA TablesKept ==
    ASSUME TypeOK, TablesAgree, payments' = payments,
           DOMAIN outbox' = DOMAIN outbox, Keeps(outbox, outbox'),
           \A d \in DOMAIN outbox : outbox[d].type = "PaymentRequested"
                => outbox'[d].status = outbox[d].status
    PROVE  TablesAgree'
<1> USE DEF TablesAgree, Keeps
<1>1. OneRequest' /\ NoOrphan'
  BY DEF OneRequest, NoOrphan
<1>2. \A p \in Payments : PendingRequest(p)' <=> PendingRequest(p)
  BY DEF PendingRequest
<1>3. RequestsMatch'
  BY <1>2 DEF RequestsMatch
<1>4. \A p \in Payments : Announcements(p)' = Announcements(p)
  BY DEF Announcements
<1>5. AnnouncedOnce'
  BY <1>4 DEF AnnouncedOnce, Announcements
<1> QED BY <1>1, <1>3, <1>5

\* A submitted payment comes with its one request (_persist_outbox_events).
LEMMA SubmitTables ==
    ASSUME SharedInv, SingleInv, NEW p \in Payments, Submit(p)
    PROVE  TablesAgree'
<1> DEFINE k == Len(outbox) + 1
<1>1. /\ outbox \in Seq(OutboxEvent) /\ DOMAIN outbox = 1 .. Len(outbox)
      /\ payments \in [Payments -> PaymentRow]
      /\ payments[p].status = "ABSENT"
      /\ payments' = [payments EXCEPT ![p] = NewPayment("RECEIVED")]
  BY DEF SharedInv, TypeOK, Submit
<1>2. /\ DOMAIN outbox' = 1 .. k
      /\ \A e \in DOMAIN outbox : outbox'[e] = outbox[e]
      /\ outbox'[k] = NewEvent("PaymentRequested", p)
  <2>1. outbox \in Seq(OutboxEvent) /\ "PaymentRequested" \in EventType
    BY <1>1 DEF EventType
  <2>2. outbox' = AddEvent(outbox, "PaymentRequested", p)
    BY DEF Submit
  <2> QED BY <2>1, <2>2, AddEventFacts
<1>3. /\ DOMAIN outbox' = DOMAIN outbox \cup {k} /\ k \notin DOMAIN outbox
      /\ outbox'[k].type = "PaymentRequested" /\ outbox'[k].aggregate = p
      /\ outbox'[k].status = "PENDING"
  BY <1>1, <1>2 DEF NewEvent
<1>4. \A e \in DOMAIN outbox : outbox[e].aggregate # p
  BY <1>1 DEF SingleInv, NoOrphan
<1>5. /\ payments'[p].status = "RECEIVED"
      /\ \A q \in Payments : q # p => payments'[q] = payments[q]
  BY <1>1 DEF NewPayment
<1> HIDE DEF k
<1>6. OneRequest'
  BY <1>2, <1>3, <1>4 DEF OneRequest, SingleInv
<1>7. NoOrphan'
  <2>1. \A e \in DOMAIN outbox : outbox[e] \in OutboxEvent
    BY <1>1
  <2>2. \A e \in DOMAIN outbox : outbox[e].aggregate \in Payments
    BY <2>1 DEF OutboxEvent
  <2> SUFFICES ASSUME NEW d \in DOMAIN outbox'
               PROVE  payments'[outbox'[d].aggregate].status # "ABSENT"
    BY DEF NoOrphan
  <2>3. CASE d = k
    BY <1>3, <1>5, <2>3
  <2>4. CASE d \in DOMAIN outbox
    BY <1>2, <1>4, <1>5, <2>2, <2>4 DEF NoOrphan, SingleInv
  <2> QED BY <1>3, <2>3, <2>4
<1>8. RequestsMatch'
  <2>1. PendingRequest(p)'
    BY <1>3 DEF PendingRequest
  <2>2. \A q \in Payments : q # p => (PendingRequest(q)' <=> PendingRequest(q))
    BY <1>2, <1>3 DEF PendingRequest
  <2> QED BY <1>5, <2>1, <2>2 DEF RequestsMatch, SingleInv
<1>9. AnnouncedOnce'
  <2>1. \A q \in Payments : Announcements(q)' = Announcements(q)
    BY <1>2, <1>3 DEF Announcements, TerminalEvent
  <2>2. \A q \in Payments : \A e \in Announcements(q) : outbox'[e] = outbox[e]
    BY <1>2 DEF Announcements
  <2>3. payments[p].status \notin FinalStatus /\ payments'[p].status \notin FinalStatus
    BY <1>1, <1>5 DEF FinalStatus
  <2> QED BY <1>5, <2>1, <2>2, <2>3 DEF AnnouncedOnce, SingleInv
<1> QED BY <1>6, <1>7, <1>8, <1>9 DEF TablesAgree

\* The commit of _process_payment_event leaves row, request and announcement in
\* agreement on every outcome path.
LEMMA FinalizeTables ==
    ASSUME SharedInv, SingleInv, NEW w \in Workers, Finalize(w)
    PROVE  TablesAgree'
<1>a. /\ Target(w) \in Payments /\ current[w].event \in DOMAIN outbox
      /\ Len(outbox) + 1 \in Nat
  BY TargetIsPayment DEF SharedInv, TypeOK, Finalize, Handling
<1> PICK p \in Payments, e \in DOMAIN outbox, k \in Nat :
           p = Target(w) /\ e = current[w].event /\ k = Len(outbox) + 1
  BY <1>a
<1>1. /\ outbox \in Seq(OutboxEvent) /\ DOMAIN outbox = 1 .. Len(outbox)
      /\ payments \in [Payments -> PaymentRow]
      /\ e \in DOMAIN outbox /\ p \in Payments /\ p = outbox[e].aggregate
      /\ outbox[e].type = "PaymentRequested"
      /\ outbox[e].status = "PENDING"
  BY TargetIsPayment
     DEF SharedInv, SingleInv, TypeOK, Finalize, Handling, HoldsEvents,
         RequestedTypes, HeldPending, Target
<1>2. /\ Keeps(outbox, outbox')
      /\ \A d \in DOMAIN outbox : d # e => outbox'[d] = outbox[d]
  BY FinalizeEffect
<1>3. PICK row \in PaymentRow :
        /\ payments' = [payments EXCEPT ![p] = row]
        /\ Retried(w, row) \/ Settled(w, row)
  BY FinalizeEffect
<1>4. /\ payments[p].status \in {"RECEIVED", "PROCESSING"}
      /\ payments'[p] = row
      /\ \A q \in Payments : q # p => payments'[q] = payments[q]
  BY <1>1, <1>3 DEF SingleInv, RequestsMatch, PendingRequest
<1>5. Announcements(p) = {}
  BY <1>1, <1>4 DEF SingleInv, AnnouncedOnce, FinalStatus
<1>6. \A d \in DOMAIN outbox : outbox[d].aggregate \in Payments
  <2>1. \A d \in DOMAIN outbox : outbox[d] \in OutboxEvent
    BY <1>1
  <2> QED BY <2>1 DEF OutboxEvent
<1>7. row.status # "ABSENT"
  BY <1>3 DEF Retried, Settled, FinalStatus
<1>8. CASE Retried(w, row)
  <2>1. /\ DOMAIN outbox' = DOMAIN outbox
        /\ outbox'[e].status = outbox[e].status
        /\ row.status = "PROCESSING"
    BY <1>8 DEF Retried
  <2>2. OneRequest' /\ NoOrphan'
    BY <1>2, <1>4, <1>6, <1>7, <2>1 DEF OneRequest, NoOrphan, SingleInv, Keeps
  <2>3. RequestsMatch'
    <3>1. \A q \in Payments : PendingRequest(q)' <=> PendingRequest(q)
      BY <1>2, <2>1 DEF PendingRequest, Keeps
    <3> QED BY <1>4, <2>1, <3>1 DEF RequestsMatch, SingleInv
  <2>4. AnnouncedOnce'
    <3>1. \A q \in Payments : Announcements(q)' = Announcements(q)
      BY <1>2, <2>1 DEF Announcements, Keeps
    <3>2. \A q \in Payments : \A d \in Announcements(q) :
            outbox'[d].type = outbox[d].type
      BY <1>2 DEF Announcements, Keeps
    <3> QED BY <1>4, <1>5, <2>1, <3>1, <3>2
            DEF AnnouncedOnce, SingleInv, FinalStatus
  <2> QED BY <2>2, <2>3, <2>4 DEF TablesAgree
<1>9. CASE Settled(w, row)
  <2>1. /\ DOMAIN outbox' = DOMAIN outbox \cup {k} /\ k \notin DOMAIN outbox
        /\ outbox'[k].type = Announces(row.status)
        /\ outbox'[k].aggregate = p
        /\ outbox'[e].status # "PENDING"
        /\ row.status \in FinalStatus
        /\ Announces(row.status) \in TerminalEvent
        /\ Announces(row.status) # "PaymentRequested"
    <3>1. /\ DOMAIN outbox' = 1 .. k
          /\ outbox'[k] = NewEvent(Announces(row.status), p)
          /\ outbox'[e].status # "PENDING"
          /\ row.status \in FinalStatus
      BY <1>9 DEF Settled
    <3>2. DOMAIN outbox' = DOMAIN outbox \cup {k} /\ k \notin DOMAIN outbox
      BY <1>1, <3>1
    <3> QED BY <3>1, <3>2 DEF NewEvent, Announces, TerminalEvent
  <2>2. OneRequest'
    BY <1>2, <2>1 DEF OneRequest, SingleInv, Keeps
  <2>3. NoOrphan'
    BY <1>2, <1>4, <1>6, <1>7, <2>1 DEF NoOrphan, SingleInv, Keeps
  <2>4. RequestsMatch'
    <3>1. ~PendingRequest(p)'
      <4> SUFFICES ASSUME NEW d \in DOMAIN outbox',
                          outbox'[d].type = "PaymentRequested",
                          outbox'[d].aggregate = p,
                          outbox'[d].status = "PENDING"
                   PROVE  FALSE
        BY DEF PendingRequest
      <4>1. d \in DOMAIN outbox
        BY <2>1
      <4>2. d = e
        BY <1>1, <1>2, <4>1 DEF OneRequest, SingleInv, Keeps
      <4> QED BY <2>1, <4>2
    <3>2. \A q \in Payments : q # p => (PendingRequest(q)' <=> PendingRequest(q))
      BY <1>1, <1>2, <2>1 DEF PendingRequest, Keeps
    <3>3. payments'[p].status \notin {"RECEIVED", "PROCESSING"}
      BY <1>4, <2>1 DEF FinalStatus
    <3>4. \A q \in Payments : q # p =>
            (PendingRequest(q)' <=> payments'[q].status \in {"RECEIVED", "PROCESSING"})
      BY <1>4, <3>2 DEF RequestsMatch, SingleInv
    <3> QED BY <3>1, <3>3, <3>4 DEF RequestsMatch
  <2>5. AnnouncedOnce'
    <3>a. \A d \in DOMAIN outbox :
            ~(outbox'[d].aggregate = p /\ outbox'[d].type \in TerminalEvent)
      BY <1>2, <1>5 DEF Announcements, Keeps
    <3>1. Announcements(p)' = {k}
      BY <2>1, <3>a DEF Announcements
    <3>2. \A q \in Payments : q # p => Announcements(q)' = Announcements(q)
      BY <1>2, <2>1 DEF Announcements, Keeps
    <3>3. \A q \in Payments : \A d \in Announcements(q) :
            outbox'[d].type = outbox[d].type
      BY <1>2 DEF Announcements, Keeps
    <3>4. \A q \in Payments : q # p =>
            IF payments'[q].status \in FinalStatus
            THEN \E d \in Announcements(q)' :
                   /\ Announcements(q)' = {d}
                   /\ outbox'[d].type = Announces(payments'[q].status)
            ELSE Announcements(q)' = {}
      BY <1>4, <3>2, <3>3 DEF AnnouncedOnce, SingleInv
    <3>5. /\ payments'[p].status \in FinalStatus
          /\ outbox'[k].type = Announces(payments'[p].status)
      BY <1>4, <2>1
    <3> QED BY <3>1, <3>4, <3>5 DEF AnnouncedOnce
  <2> QED BY <2>2, <2>3, <2>4, <2>5 DEF TablesAgree
<1> QED BY <1>3, <1>8, <1>9

\* The invariant holds what a lone worker relies on.
LEMMA SingleIsHeld == SingleInv => HeldInv
BY DEF SingleInv, HeldInv

\* The lone worker never loses the race for a row, nor finds an event whose
\* payment is missing: those two branches of _process_event are for others.
LEMMA AlwaysWins ==
    ASSUME SharedInv, HeldInv, NEW w \in Workers
    PROVE  /\ ~LoseRace(w)
           /\ LoadPayment(w) => outbox' = outbox /\ pc' = [pc EXCEPT ![w] = "mark"]
<1>1. ~LoseRace(w)
  BY DEF LoseRace, HeldInv, LoadedFresh
<1>2. \A b \in batch[w] : payments[outbox[b.event].aggregate].status # "ABSENT"
  BY DEF SharedInv, HoldsEvents, HeldInv, NoOrphan
<1> QED BY <1>1, <1>2 DEF LoadPayment

\* What the lone worker holds stays pending, through every action.
LEMMA SingleHeld ==
    ASSUME SharedInv, HeldInv, SingleWorker, Next
    PROVE  HeldPending' /\ LoadedFresh'
<1> USE DEF dbVars, envVars, workerVars
<1>1. /\ TypeOK /\ HoldsEvents /\ outbox \in Seq(OutboxEvent)
      /\ DOMAIN outbox = 1 .. Len(outbox)
  BY DEF SharedInv, TypeOK
<1>2. ASSUME NEW p \in Payments, Submit(p)
      PROVE  HeldPending' /\ LoadedFresh'
  <2>1. \A e \in DOMAIN outbox : outbox'[e] = outbox[e]
    <3>1. "PaymentRequested" \in EventType
      BY DEF EventType
    <3>2. outbox' = AddEvent(outbox, "PaymentRequested", p)
      BY <1>2 DEF Submit
    <3> QED BY <1>1, <3>1, <3>2, AddEventFacts
  <2>2. \A w \in Workers : pc[w] = "mark" =>
          /\ current[w].event \in DOMAIN outbox
          /\ Target(w) # p
    BY <1>2 DEF SharedInv, HoldsEvents, Handling, HeldInv, NoOrphan, Target,
                Submit
  <2>3. HeldPending'
    BY <1>1, <1>2, <2>1 DEF HeldPending, HeldInv, HoldsEvents, Handling, Submit
  <2>4. LoadedFresh'
    BY <1>1, <1>2, <2>1, <2>2
       DEF LoadedFresh, HeldInv, VersionMatches, Target, Submit, TypeOK
  <2> QED BY <2>3, <2>4
<1>3. ASSUME NEW e \in DOMAIN outbox, BecomeDue(e)
      PROVE  HeldPending' /\ LoadedFresh'
  <2>1. /\ DOMAIN outbox' = DOMAIN outbox
        /\ \A d \in DOMAIN outbox : /\ outbox'[d].status = outbox[d].status
                                    /\ outbox'[d].aggregate = outbox[d].aggregate
    BY <1>1, <1>3 DEF BecomeDue
  <2>2. HeldPending'
    BY <1>1, <1>3, <2>1 DEF HeldPending, HeldInv, HoldsEvents, Handling, BecomeDue
  <2>3. LoadedFresh'
    BY <1>1, <1>3, <2>1 DEF LoadedFresh, HeldInv, VersionMatches, Target,
                            HoldsEvents, Handling, BecomeDue
  <2> QED BY <2>2, <2>3
<1>4. ASSUME NEW w \in Workers,
             ProviderAccepts(w) \/ ProviderAnswers(w) \/ MarkProcessing(w)
      PROVE  HeldPending' /\ LoadedFresh'
  <2>1. /\ pc[w] \in {"call", "mark"} /\ pc'[w] \in {"call", "finalize"}
        /\ UNCHANGED <<payments, outbox, batch, current>>
    BY <1>1, <1>4 DEF ProviderAccepts, ProviderAnswers, MarkProcessing, TypeOK
  <2> QED BY <2>1 DEF HeldPending, LoadedFresh, HeldInv, SingleWorker
<1>5. ASSUME NEW w \in Workers, FetchRequested(w) \/ FetchFanout(w)
      PROVE  HeldPending' /\ LoadedFresh'
  <2>1. /\ pc'[w] \in {"loop", "fanout"}
        /\ \A b \in batch'[w] : outbox'[b.event].status = "PENDING"
        /\ \A b, c \in batch'[w] : b.event = c.event => b = c
    BY <1>1, <1>5, FetchOldestFacts DEF FetchRequested, FetchFanout, TypeOK
  <2> QED BY <2>1 DEF HeldPending, LoadedFresh, SingleWorker
<1>6. ASSUME NEW w \in Workers, LoadPayment(w)
      PROVE  HeldPending' /\ LoadedFresh'
  <2>1. outbox' = outbox /\ pc'[w] = "mark" /\ pc[w] = "loop" /\ payments' = payments
    BY <1>1, <1>6, AlwaysWins DEF LoadPayment, TypeOK
  <2> PICK b \in batch[w] :
        /\ Take(w, b)
        /\ loaded' = [loaded EXCEPT ![w] = payments[outbox[b.event].aggregate]]
    BY <1>6 DEF LoadPayment
  <2>2. /\ batch'[w] = batch[w] \ {b} /\ current'[w] = b
        /\ loaded'[w] = payments[outbox[b.event].aggregate]
    BY <1>1, TakeFacts DEF TypeOK
  <2>3. HeldPending'
    BY <2>1, <2>2 DEF HeldPending, HeldInv, SingleWorker
  <2>4. LoadedFresh'
    BY <2>1, <2>2 DEF LoadedFresh, SingleWorker, VersionMatches, Target
  <2> QED BY <2>3, <2>4
<1>7. ASSUME NEW w \in Workers, Finalize(w)
      PROVE  HeldPending' /\ LoadedFresh'
  <2>1. /\ \A d \in DOMAIN outbox : d # current[w].event => outbox'[d] = outbox[d]
        /\ pc[w] = "finalize" /\ pc'[w] = "loop" /\ batch' = batch
    BY <1>1, <1>7, FinalizeEffect DEF Finalize, TypeOK
  <2> QED BY <1>1, <2>1
          DEF HeldPending, LoadedFresh, HeldInv, SingleWorker, HoldsEvents
<1>8. ASSUME NEW w \in Workers, Publish(w) \/ RecordFanout(w)
      PROVE  HeldPending' /\ LoadedFresh'
  <2>1. /\ pc'[w] \in {"fanout", "record"}
        /\ batch'[w] \subseteq batch[w]
    BY <1>1, <1>8 DEF Publish, RecordFanout, Take, TypeOK
  <2> QED BY <2>1 DEF HeldPending, LoadedFresh, HeldInv, SingleWorker
<1>9. ASSUME NEW w \in Workers, EndRun(w) \/ Abort(w)
      PROVE  HeldPending' /\ LoadedFresh'
  <2>1. pc'[w] = "idle" /\ batch'[w] = {}
    BY <1>1, <1>9 DEF EndRun, Abort, TypeOK
  <2> QED BY <2>1 DEF HeldPending, LoadedFresh, SingleWorker
<1> QED
  BY <1>2, <1>3, <1>4, <1>5, <1>6, <1>7, <1>8, <1>9, AlwaysWins
     DEF Next, WorkerStep

\* Every step of the lone worker leaves the two tables in agreement.
LEMMA SingleTables ==
    ASSUME SharedInv, SingleInv, Next
    PROVE  TablesAgree'
<1> USE DEF dbVars, envVars, workerVars
<1>1. /\ TypeOK /\ HoldsEvents /\ outbox \in Seq(OutboxEvent) /\ TablesAgree /\ HeldInv
  BY DEF SharedInv, TypeOK, SingleInv, TablesAgree, HeldInv
<1>2. ASSUME payments' = payments, outbox' = outbox
      PROVE  TablesAgree'
  BY <1>1, <1>2, TablesKept DEF Keeps
<1>3. ASSUME NEW e \in DOMAIN outbox, BecomeDue(e)
      PROVE  TablesAgree'
  <2>1. /\ DOMAIN outbox' = DOMAIN outbox
        /\ \A d \in DOMAIN outbox : /\ outbox'[d].status = outbox[d].status
                                    /\ outbox'[d].type = outbox[d].type
                                    /\ outbox'[d].aggregate = outbox[d].aggregate
        /\ payments' = payments
    BY <1>1, <1>3 DEF BecomeDue
  <2> QED BY <1>1, <2>1, TablesKept DEF Keeps
<1>4. ASSUME NEW w \in Workers, RecordFanout(w)
      PROVE  TablesAgree'
  <2> DEFINE e == current[w].event
             n == current[w].attempts + 1
  <2>1. /\ e \in DOMAIN outbox /\ n \in Nat
        /\ outbox[e].type # "PaymentRequested"
    BY <1>1, <1>4, TargetIsPayment
       DEF RecordFanout, Handling, HoldsEvents, FanoutTypes
  <2>2. outbox' \in {MarkSent(outbox, e), MarkFailed(outbox, e, n),
                     Reschedule(outbox, e, n)}
    BY <1>4 DEF RecordFanout, FanoutWritten
  <2>3. /\ DOMAIN outbox' = DOMAIN outbox
        /\ Keeps(outbox, outbox')
        /\ \A d \in DOMAIN outbox : d # e => outbox'[d] = outbox[d]
    <3>1. CASE outbox' = MarkSent(outbox, e)
      BY <1>1, <2>1, <3>1, MarkSentFacts
    <3>2. CASE outbox' \in {MarkFailed(outbox, e, n), Reschedule(outbox, e, n)}
      BY <1>1, <2>1, <3>2, FailureStatementFacts
    <3> QED BY <2>2, <3>1, <3>2
  <2>4. payments' = payments
    BY <1>4 DEF RecordFanout
  <2> HIDE DEF e, n
  <2> QED BY <1>1, <2>1, <2>3, <2>4, TablesKept
<1>5. ASSUME NEW w \in Workers, WorkerStep(w) \/ ProviderAccepts(w) \/ Abort(w),
             ~Finalize(w), ~RecordFanout(w)
      PROVE  payments' = payments /\ outbox' = outbox
  <2>1. CASE LoadPayment(w)
    BY <1>1, <2>1, AlwaysWins DEF LoadPayment
  <2>2. CASE FetchRequested(w) \/ MarkProcessing(w) \/ ProviderAnswers(w)
    BY <2>2 DEF FetchRequested, MarkProcessing, ProviderAnswers
  <2>3. CASE FetchFanout(w) \/ Publish(w) \/ EndRun(w)
    BY <2>3 DEF FetchFanout, Publish, EndRun
  <2>4. CASE ProviderAccepts(w) \/ Abort(w)
    BY <2>4 DEF ProviderAccepts, Abort
  <2> QED BY <1>1, <1>5, <2>1, <2>2, <2>3, <2>4, AlwaysWins DEF WorkerStep
<1> QED BY <1>2, <1>3, <1>4, <1>5, SubmitTables, FinalizeTables DEF Next

\* Empty tables agree.
LEMMA SingleInvInit == Init => SingleInv
BY DEF Init, SingleInv, OneRequest, NoOrphan, RequestsMatch, PendingRequest,
       AnnouncedOnce, Announcements, HeldPending, LoadedFresh, NoRow, FinalStatus

\* Every step of run_forever with one worker keeps the single-worker invariant.
LEMMA SingleInvNext ==
    SingleWorker /\ SharedInv /\ SingleInv /\ [Next]_vars => SingleInv'
<1> SUFFICES ASSUME SingleWorker, SharedInv, SingleInv, [Next]_vars
             PROVE  SingleInv'
  OBVIOUS
<1>1. CASE Next
  BY <1>1, SingleHeld, SingleTables DEF SingleInv, HeldInv, TablesAgree
<1>2. CASE UNCHANGED vars
  <2> USE <1>2 DEF vars, dbVars, envVars, workerVars
  <2>1. OneRequest' /\ NoOrphan' /\ RequestsMatch'
    BY DEF SingleInv, OneRequest, NoOrphan, RequestsMatch, PendingRequest
  <2>2. AnnouncedOnce'
    BY DEF SingleInv, AnnouncedOnce, Announcements
  <2>3. HeldPending' /\ LoadedFresh'
    BY DEF SingleInv, HeldPending, LoadedFresh, VersionMatches, Target
  <2> QED BY <2>1, <2>2, <2>3 DEF SingleInv
<1> QED BY <1>1, <1>2

\* With one worker process the tables agree at every commit: a request is pending
\* exactly for the payments that are not final.
THEOREM SingleInvariant == ASSUME SingleWorker PROVE Spec => []SingleInv
<1>1. SingleWorker
  OBVIOUS
<1>2. Init => SingleInv
  BY SingleInvInit
<1>3. SharedInv /\ SingleInv /\ [Next]_vars => SingleInv'
  BY <1>1, SingleInvNext
<1> QED BY <1>2, <1>3, SharedInvariant, PTL DEF Spec

\* With one worker no payment is lost: while it is RECEIVED or PROCESSING, an
\* event is pending for it, through retries and crashes at any step.
THEOREM NothingStranded == ASSUME SingleWorker PROVE Spec => []NoStranded
<1>1. SingleInv => NoStranded
  BY DEF SingleInv, RequestsMatch, NoStranded
<1> QED BY <1>1, SingleInvariant, PTL

\* With one worker the row and the outbox agree at every commit.
THEOREM OneAnnouncement == ASSUME SingleWorker PROVE Spec => []AnnouncedOnce
<1>1. SingleInv => AnnouncedOnce
  BY DEF SingleInv
<1> QED BY <1>1, SingleInvariant, PTL

\* With one worker a final status is final: the commit writes a row whose request
\* is pending, and a pending request belongs to a payment that is not final.
THEOREM FinalStaysFinal == ASSUME SingleWorker PROVE Spec => FinalForever
<1> DEFINE Kept == \A p \in Payments :
                      payments[p].status \in FinalStatus => payments'[p] = payments[p]
<1>1. SharedInv /\ SingleInv /\ [Next]_vars => [Kept]_payments
  <2> SUFFICES ASSUME SharedInv, SingleInv, Next
               PROVE  Kept \/ payments' = payments
    BY DEF vars, dbVars
  <2>1. payments \in [Payments -> PaymentRow]
    BY DEF SharedInv, TypeOK
  <2>2. ASSUME NEW p \in Payments, Submit(p)
        PROVE  Kept
    BY <2>1, <2>2 DEF Submit, FinalStatus
  <2>3. ASSUME NEW w \in Workers, Finalize(w)
        PROVE  Kept
    <3>1. /\ current[w].event \in DOMAIN outbox /\ Target(w) \in Payments
          /\ outbox[current[w].event].type = "PaymentRequested"
          /\ outbox[current[w].event].status = "PENDING"
      BY <2>3, TargetIsPayment
         DEF SharedInv, SingleInv, Finalize, Handling, HoldsEvents,
             RequestedTypes, HeldPending
    <3>2. payments[Target(w)].status \notin FinalStatus
      BY <3>1 DEF SingleInv, RequestsMatch, PendingRequest, Target, FinalStatus
    <3>3. \E row : payments' = [payments EXCEPT ![Target(w)] = row]
      BY <2>3, FinalizeEffect
    <3> QED BY <2>1, <3>1, <3>2, <3>3
  <2>4. ASSUME NEW w \in Workers, ~Finalize(w),
               WorkerStep(w) \/ ProviderAccepts(w) \/ Abort(w)
        PROVE  payments' = payments
    BY <2>4 DEF WorkerStep, FetchRequested, LoadPayment, MarkProcessing, LoseRace,
                ProviderAnswers, FetchFanout, Publish, RecordFanout, EndRun,
                ProviderAccepts, Abort, dbVars
  <2>5. ASSUME NEW e \in DOMAIN outbox, BecomeDue(e)
        PROVE  payments' = payments
    BY <2>5 DEF BecomeDue
  <2> HIDE DEF Kept
  <2> QED BY <2>2, <2>3, <2>4, <2>5 DEF Next
<1> QED BY <1>1, SharedInvariant, SingleInvariant, PTL DEF Spec, FinalForever

(***************************************************************************)
(* With one worker process, OutboxWorker implements PaymentLifecycle, for  *)
(* any number of payments, any batch size and any number of attempts.      *)
(***************************************************************************)

\* The values the abstract variables take.
Statuses == [p \in Payments |-> payments[p].status]
Promised == Announced(DOMAIN outbox)
Heard == Announced(published)

\* The broker has heard of events of the outbox only.
PublishedExist == published \subseteq DOMAIN outbox

\* The announcement that event e makes.
AnnouncementOf(e) == [payment |-> outbox[e].aggregate, type |-> outbox[e].type]

\* Steps that leave statuses and announcements alone are invisible.
LEMMA Unseen ==
    ASSUME UNCHANGED <<Statuses, accepted, Promised, Heard>>
    PROVE  [Lifecycle!Next]_(Lifecycle!vars)
BY DEF Lifecycle!vars, Statuses, Promised, Heard

\* Rows of the outbox are never deleted nor given another meaning, so that a set of
\* old events goes on announcing the same.
LEMMA AnnouncedKept ==
    ASSUME Keeps(outbox, outbox'), NEW E, E \subseteq DOMAIN outbox
    PROVE  Announced(E)' = Announced(E)
<1>1. \A e \in E : /\ e \in DOMAIN outbox /\ e \in DOMAIN outbox'
                   /\ outbox'[e].type = outbox[e].type
                   /\ outbox'[e].aggregate = outbox[e].aggregate
  BY DEF Keeps
<1>2. {f \in E \cap DOMAIN outbox' : outbox'[f].type \in TerminalEvent}
        = {f \in E \cap DOMAIN outbox : outbox[f].type \in TerminalEvent}
  BY <1>1
<1> QED BY <1>1, <1>2 DEF Announced

\* Statements that add no event add no announcement.
LEMMA NothingNew ==
    ASSUME PublishedExist, Keeps(outbox, outbox'), DOMAIN outbox' = DOMAIN outbox,
           UNCHANGED published
    PROVE  PublishedExist' /\ UNCHANGED <<Promised, Heard>>
<1>1. Announced(DOMAIN outbox)' = Announced(DOMAIN outbox)
  BY AnnouncedKept
<1>2. Announced(published)' = Announced(published)
  BY AnnouncedKept DEF PublishedExist
<1> QED BY <1>1, <1>2 DEF PublishedExist, Promised, Heard

\* One more event announces what it says, if it is a terminal one.
LEMMA OneNew ==
    ASSUME PublishedExist, UNCHANGED published, outbox \in Seq(OutboxEvent),
           Keeps(outbox, outbox'), DOMAIN outbox' = 1 .. Len(outbox) + 1,
           NEW type \in EventType, NEW p \in Payments,
           outbox'[Len(outbox) + 1] = NewEvent(type, p)
    PROVE  /\ PublishedExist'
           /\ Heard' = Heard
           /\ Promised' = IF type \in TerminalEvent
                          THEN Promised \cup {[payment |-> p, type |-> type]}
                          ELSE Promised
<1> DEFINE k == Len(outbox) + 1
<1>1. /\ DOMAIN outbox' = DOMAIN outbox \cup {k} /\ k \notin DOMAIN outbox
      /\ outbox'[k].type = type /\ outbox'[k].aggregate = p
  BY DEF NewEvent
<1> HIDE DEF k
<1>2. Announced(DOMAIN outbox)' = IF type \in TerminalEvent
        THEN Announced(DOMAIN outbox) \cup {[payment |-> p, type |-> type]}
        ELSE Announced(DOMAIN outbox)
  <2>1. \A e \in DOMAIN outbox : /\ outbox'[e].type = outbox[e].type
                                 /\ outbox'[e].aggregate = outbox[e].aggregate
    BY DEF Keeps
  <2>2. PICK old, new : /\ old = {f \in DOMAIN outbox : outbox[f].type \in TerminalEvent}
                        /\ new = {f \in DOMAIN outbox' : outbox'[f].type \in TerminalEvent}
    OBVIOUS
  <2>3. Announced(DOMAIN outbox)
          = {[payment |-> outbox[e].aggregate, type |-> outbox[e].type] : e \in old}
    BY <2>2 DEF Announced
  <2>4. Announced(DOMAIN outbox)'
          = {[payment |-> outbox'[e].aggregate, type |-> outbox'[e].type] : e \in new}
    BY <2>2 DEF Announced
  <2>5. {[payment |-> outbox'[e].aggregate, type |-> outbox'[e].type] : e \in old}
          = {[payment |-> outbox[e].aggregate, type |-> outbox[e].type] : e \in old}
    <3>1. \A e \in old : /\ outbox'[e].type = outbox[e].type
                         /\ outbox'[e].aggregate = outbox[e].aggregate
      BY <2>1, <2>2
    <3> QED BY <3>1
  <2>6. CASE type \in TerminalEvent
    <3>1. new = old \cup {k}
      BY <1>1, <2>1, <2>2, <2>6
    <3>2. {[payment |-> outbox'[e].aggregate, type |-> outbox'[e].type] : e \in new}
            = {[payment |-> outbox'[e].aggregate, type |-> outbox'[e].type] : e \in old}
                \cup {[payment |-> outbox'[k].aggregate, type |-> outbox'[k].type]}
      BY <3>1
    <3>3. [payment |-> outbox'[k].aggregate, type |-> outbox'[k].type]
            = [payment |-> p, type |-> type]
      BY <1>1
    <3>4. Announced(DOMAIN outbox)'
            = Announced(DOMAIN outbox) \cup {[payment |-> p, type |-> type]}
      BY ONLY <2>3, <2>4, <2>5, <3>2, <3>3
    <3> QED BY <2>6, <3>4
  <2>7. CASE type \notin TerminalEvent
    <3>1. new = old
      BY <1>1, <2>1, <2>2, <2>7
    <3>2. Announced(DOMAIN outbox)' = Announced(DOMAIN outbox)
      BY ONLY <2>3, <2>4, <2>5, <3>1
    <3> QED BY <2>7, <3>2
  <2> QED BY <2>6, <2>7
<1>3. Heard' = Heard
  BY AnnouncedKept DEF PublishedExist, Heard
<1> QED BY <1>1, <1>2, <1>3 DEF PublishedExist, Promised

\* The commit of payments-api is the abstract creation.
LEMMA SubmitSeen ==
    ASSUME SharedInv, PublishedExist, NEW p \in Payments, Submit(p)
    PROVE  PublishedExist' /\ Lifecycle!Create(p)
<1>1. /\ outbox \in Seq(OutboxEvent) /\ payments \in [Payments -> PaymentRow]
      /\ "PaymentRequested" \in EventType /\ "PaymentRequested" \notin TerminalEvent
  BY DEF SharedInv, TypeOK, EventType, TerminalEvent
<1>2. /\ Keeps(outbox, outbox') /\ DOMAIN outbox' = 1 .. Len(outbox) + 1
      /\ outbox'[Len(outbox) + 1] = NewEvent("PaymentRequested", p)
  BY <1>1, AddEventFacts DEF Submit
<1>3. PublishedExist' /\ Heard' = Heard /\ Promised' = Promised
  BY <1>1, <1>2, OneNew DEF Submit, envVars
<1>4. /\ Statuses[p] = "ABSENT"
      /\ Statuses' = [Statuses EXCEPT ![p] = "RECEIVED"]
      /\ accepted' = accepted
  BY <1>1 DEF Submit, Statuses, NewPayment, envVars
<1> QED BY <1>3, <1>4 DEF Lifecycle!Create, Statuses, Promised, Heard

\* The request a worker is working on belongs to an unsettled payment.
LEMMA CallsUnsettled ==
    ASSUME SharedInv, SingleInv, NEW w \in Workers, Calling(w)
    PROVE  /\ Target(w) \in Payments
           /\ payments[Target(w)].status \in Lifecycle!Unsettled
<1>1. /\ current[w].event \in DOMAIN outbox /\ Target(w) \in Payments
      /\ outbox[current[w].event].type = "PaymentRequested"
      /\ outbox[current[w].event].status = "PENDING"
  BY TargetIsPayment
     DEF SharedInv, SingleInv, Calling, Handling, HoldsEvents, RequestedTypes,
         HeldPending
<1>2. PendingRequest(Target(w))
  BY <1>1 DEF PendingRequest, Target
<1> QED BY <1>1, <1>2 DEF SingleInv, RequestsMatch, Lifecycle!Unsettled

\* The provider is asked about unsettled payments only.
LEMMA AcceptSeen ==
    ASSUME SharedInv, SingleInv, PublishedExist, NEW w \in Workers,
           ProviderAccepts(w)
    PROVE  PublishedExist' /\ \E p \in Payments : Lifecycle!Accept(p)
<1>1. Target(w) \in Payments /\ Statuses[Target(w)] \in Lifecycle!Unsettled
  BY CallsUnsettled DEF ProviderAccepts, Calling, Statuses
<1>2. PublishedExist' /\ UNCHANGED <<Statuses, Promised, Heard>>
  BY DEF ProviderAccepts, dbVars, PublishedExist, Statuses, Promised, Heard, Announced
<1>3. Lifecycle!Accept(Target(w))
  BY <1>1, <1>2 DEF ProviderAccepts, Lifecycle!Accept, Statuses, Promised, Heard
<1> QED BY <1>1, <1>2, <1>3

\* The commit of _process_payment_event settles the payment and announces it in one
\* step, or leaves it to the next attempt.
LEMMA FinalizeSeen ==
    ASSUME SharedInv, SingleInv, PublishedExist, NEW w \in Workers, Finalize(w)
    PROVE  /\ PublishedExist'
           /\ \E p \in Payments : \/ Lifecycle!Retry(p)
                                  \/ \E s \in Lifecycle!Settled : Lifecycle!Settle(p, s)
<1>1. PICK p \in Payments : p = Target(w) /\ Statuses[p] \in Lifecycle!Unsettled
  BY CallsUnsettled DEF Finalize, Calling, Statuses
<1>2. /\ outbox \in Seq(OutboxEvent) /\ payments \in [Payments -> PaymentRow]
      /\ UNCHANGED <<accepted, published>>
  BY DEF SharedInv, TypeOK, Finalize, envVars
<1>3. PICK row \in PaymentRow : /\ payments' = [payments EXCEPT ![p] = row]
                                /\ Retried(w, row) \/ Settled(w, row)
  BY <1>1, FinalizeEffect
<1>4. Keeps(outbox, outbox')
  BY FinalizeEffect
<1>5. Statuses' = [Statuses EXCEPT ![p] = row.status]
  BY <1>1, <1>2, <1>3 DEF Statuses
<1>6. CASE Retried(w, row)
  <2>1. PublishedExist' /\ UNCHANGED <<Promised, Heard>>
    BY <1>2, <1>4, <1>6, NothingNew DEF Retried
  <2>2. Lifecycle!Retry(p)
    BY <1>1, <1>2, <1>5, <1>6, <2>1
       DEF Retried, Lifecycle!Retry, Statuses, Promised, Heard
  <2> QED BY <1>1, <2>1, <2>2
<1>7. CASE Settled(w, row)
  <2>1. Announces(row.status) \in EventType \cap TerminalEvent
    BY DEF Announces, EventType, TerminalEvent
  <2>2. /\ PublishedExist' /\ Heard' = Heard
        /\ Promised' = Promised \cup {[payment |-> p, type |-> Announces(row.status)]}
    BY <1>1, <1>2, <1>4, <1>7, <2>1, OneNew DEF Settled
  <2>3. row.status = "CONFIRMED" => p \in accepted
    BY <1>1, <1>7 DEF Settled, Finalize, SharedInv, RepliesTrue
  <2>4. row.status \in Lifecycle!Settled
    BY <1>7 DEF Settled, FinalStatus, Lifecycle!Settled
  <2>5. Lifecycle!Settle(p, row.status)
    BY <1>1, <1>2, <1>5, <2>2, <2>3
       DEF Lifecycle!Settle, Lifecycle!Announcement, Announces, Statuses, Promised,
           Heard
  <2> QED BY <1>1, <2>2, <2>4, <2>5
<1> QED BY <1>3, <1>6, <1>7

\* A publication delivers an announcement, or an event that announces nothing.
LEMMA PublishSeen ==
    ASSUME SharedInv, PublishedExist, NEW w \in Workers, Publish(w)
    PROVE  PublishedExist' /\ [Lifecycle!Next]_(Lifecycle!vars)
<1>1. UNCHANGED <<payments, outbox, accepted>>
  BY DEF Publish, dbVars
<1>2. UNCHANGED <<Statuses, Promised>>
  BY <1>1 DEF Statuses, Promised, Announced
<1>3. PICK b \in batch[w] : published' = published \cup {b.event} \/ UNCHANGED published
  BY DEF Publish
<1>4. b.event \in DOMAIN outbox
  BY DEF SharedInv, HoldsEvents
<1>5. CASE UNCHANGED published
  BY <1>1, <1>2, <1>5, Unseen DEF PublishedExist, Heard, Announced
<1>6. CASE published' = published \cup {b.event}
  <2>1. PublishedExist'
    BY <1>1, <1>4, <1>6 DEF PublishedExist
  <2>2. CASE outbox[b.event].type \in TerminalEvent
    <3>1. AnnouncementOf(b.event) \in Promised
      BY <1>4, <2>2 DEF Promised, Announced, AnnouncementOf
    <3>2. Heard' = Heard \cup {AnnouncementOf(b.event)}
      BY <1>1, <1>4, <1>6, <2>2 DEF Heard, Announced, AnnouncementOf
    <3> DEFINE a == AnnouncementOf(b.event)
    <3> HIDE DEF a
    <3>3. a \in Promised /\ Heard' = Heard \cup {a}
      BY <3>1, <3>2 DEF a
    <3>4. Lifecycle!Deliver(a)
      BY <1>1, <1>2, <3>3 DEF Lifecycle!Deliver, Statuses, Promised, Heard
    <3> QED BY <2>1, <3>3, <3>4 DEF Lifecycle!Next, Promised
  <2>3. CASE outbox[b.event].type \notin TerminalEvent
    <3>1. Heard' = Heard
      BY <1>1, <1>6, <2>3 DEF Heard, Announced
    <3> QED BY <1>1, <1>2, <2>1, <3>1, Unseen
  <2> QED BY <2>2, <2>3
<1> QED BY <1>3, <1>5, <1>6

\* Every step of the system is a step of the abstract life of a payment, or unseen.
LEMMA StepSeen ==
    ASSUME SingleWorker, SharedInv, SingleInv, PublishedExist, [Next]_vars
    PROVE  PublishedExist' /\ [Lifecycle!Next]_(Lifecycle!vars)
<1> USE DEF dbVars, envVars, workerVars
<1>1. TypeOK /\ HoldsEvents /\ outbox \in Seq(OutboxEvent)
  BY DEF SharedInv, TypeOK
<1>2. ASSUME UNCHANGED <<payments, accepted, published>>,
             DOMAIN outbox' = DOMAIN outbox, Keeps(outbox, outbox')
      PROVE  PublishedExist' /\ [Lifecycle!Next]_(Lifecycle!vars)
  BY <1>2, NothingNew, Unseen DEF Statuses
<1>3. ASSUME NEW p \in Payments, Submit(p)
      PROVE  PublishedExist' /\ [Lifecycle!Next]_(Lifecycle!vars)
  BY <1>3, SubmitSeen DEF Lifecycle!Next
<1>4. ASSUME NEW e \in DOMAIN outbox, BecomeDue(e)
      PROVE  PublishedExist' /\ [Lifecycle!Next]_(Lifecycle!vars)
  <2>1. /\ DOMAIN outbox' = DOMAIN outbox /\ Keeps(outbox, outbox')
        /\ UNCHANGED <<payments, accepted, published>>
    BY <1>1, <1>4 DEF BecomeDue, Keeps
  <2> QED BY <1>2, <2>1
<1>5. ASSUME NEW w \in Workers, RecordFanout(w)
      PROVE  PublishedExist' /\ [Lifecycle!Next]_(Lifecycle!vars)
  <2> DEFINE e == current[w].event
             n == current[w].attempts + 1
  <2>1. e \in DOMAIN outbox /\ n \in Nat
    BY <1>1, <1>5, TargetIsPayment DEF RecordFanout, Handling
  <2>2. outbox' \in {MarkSent(outbox, e), MarkFailed(outbox, e, n),
                     Reschedule(outbox, e, n)}
    BY <1>5 DEF RecordFanout, FanoutWritten
  <2>3. DOMAIN outbox' = DOMAIN outbox /\ Keeps(outbox, outbox')
    <3>1. CASE outbox' = MarkSent(outbox, e)
      BY <1>1, <2>1, <3>1, MarkSentFacts
    <3>2. CASE outbox' \in {MarkFailed(outbox, e, n), Reschedule(outbox, e, n)}
      BY <1>1, <2>1, <3>2, FailureStatementFacts
    <3> QED BY <2>2, <3>1, <3>2
  <2> QED BY <1>2, <1>5, <2>3 DEF RecordFanout
<1>6. ASSUME NEW w \in Workers,
             WorkerStep(w) \/ Abort(w),
             ~Finalize(w), ~RecordFanout(w), ~Publish(w)
      PROVE  UNCHANGED <<payments, outbox, accepted, published>>
  <2>1. CASE LoadPayment(w)
    BY <2>1, SingleIsHeld, AlwaysWins DEF LoadPayment
  <2>2. CASE FetchRequested(w) \/ MarkProcessing(w) \/ ProviderAnswers(w)
    BY <2>2 DEF FetchRequested, MarkProcessing, ProviderAnswers
  <2>3. CASE FetchFanout(w) \/ EndRun(w) \/ Abort(w)
    BY <2>3 DEF FetchFanout, EndRun, Abort
  <2> QED BY <1>6, <2>1, <2>2, <2>3, SingleIsHeld, AlwaysWins DEF WorkerStep
<1>7. ASSUME NEW w \in Workers, WorkerStep(w) \/ ProviderAccepts(w) \/ Abort(w)
      PROVE  PublishedExist' /\ [Lifecycle!Next]_(Lifecycle!vars)
  <2>1. CASE Finalize(w)
    BY <2>1, FinalizeSeen DEF Lifecycle!Next
  <2>2. CASE ProviderAccepts(w)
    BY <2>2, AcceptSeen DEF Lifecycle!Next
  <2>3. CASE UNCHANGED <<payments, outbox, accepted, published>>
    BY <1>2, <2>3 DEF Keeps
  <2> QED BY <1>5, <1>6, <1>7, <2>1, <2>2, <2>3, PublishSeen
<1>8. CASE UNCHANGED vars
  BY <1>2, <1>8 DEF vars, Keeps
<1> QED BY <1>3, <1>4, <1>7, <1>8 DEF Next

\* payments-processor with one worker implements the abstract life of a payment:
\* batches, row locks, retries, crashes and fan-out included.
THEOREM LifecycleImplemented == ASSUME SingleWorker PROVE Spec => ImplementsLifecycle
<1>1. Init => PublishedExist /\ Lifecycle!Init
  BY DEF Init, PublishedExist, Lifecycle!Init, NoRow, Announced
<1>2. SharedInv /\ SingleInv /\ PublishedExist /\ [Next]_vars
        => PublishedExist' /\ [Lifecycle!Next]_(Lifecycle!vars)
  BY StepSeen
<1> QED
  BY <1>1, <1>2, SharedInvariant, SingleInvariant, PTL
     DEF Spec, ImplementsLifecycle, Lifecycle!Spec

===============================================================================
