------------------------ MODULE ReviewedProcessingProofs ------------------------
(***************************************************************************)
(* Reviewers and workers on the same tables, for any number of payments,   *)
(* review requests and workers: the worker's shared invariant survives the *)
(* reviewers, and no money of a held payment moves before an approval.     *)
(* With one worker process an approved payment is never lost.              *)
(***************************************************************************)
EXTENDS ReviewedProcessing, OutboxWorkerProofs

\* The worker has been told of the payment.
Requested(p) ==
    \E e \in DOMAIN outbox : /\ outbox[e].type = "PaymentRequested"
                             /\ outbox[e].aggregate = p

\* The worker is told of a held payment by an approval only.
RequestsApproved ==
    \A p \in Payments : HeldForReview(p) /\ Requested(p) => Committed(p, "approve")

\* The provider hears of a payment from a worker that was told of it.
AcceptedRequested == \A p \in accepted : Requested(p)

\* For any number of workers.
GateInv ==
    /\ SharedInv
    /\ NoOrphan
    /\ R!ReviewTypeOK
    /\ RequestsApproved
    /\ AcceptedRequested

\* With one worker.
PendingInv == HeldPending /\ LoadedFresh /\ NoStranded /\ ApprovedIsProcessed

-------------------------------------------------------------------------------
(* What payments-api does to the tables.                                   *)

\* Every row of the outbox stays as it is.
Extends(table, new) ==
    \A e \in DOMAIN table : e \in DOMAIN new /\ new[e] = table[e]

\* A transaction of payments-api: it writes rows of payments, none of them CONFIRMED,
\* and may append one event; no worker moves.
ApiCommit(t, p) ==
    /\ payments' \in [Payments -> PaymentRow]
    /\ \A q \in Payments :
         payments'[q].status = "CONFIRMED" => payments[q].status = "CONFIRMED"
    /\ outbox' = outbox \/ outbox' = AddEvent(outbox, t, p)
    /\ UNCHANGED <<lock, envVars, workerVars>>

\* The outbox after such a transaction (_persist_outbox_events).
LEMMA ApiOutbox ==
    ASSUME SharedInv, NEW t \in EventType, NEW p \in Payments, ApiCommit(t, p)
    PROVE  /\ outbox' \in Seq(OutboxEvent)
           /\ Extends(outbox, outbox') /\ Keeps(outbox, outbox')
           /\ \A e \in DOMAIN outbox' \ DOMAIN outbox :
                outbox'[e] = NewEvent(t, p) /\ outbox' = AddEvent(outbox, t, p)
           /\ outbox' = AddEvent(outbox, t, p) =>
                \E e \in DOMAIN outbox' : outbox'[e] = NewEvent(t, p)
<1>1. outbox \in Seq(OutboxEvent)
  BY DEF SharedInv, TypeOK
<1>2. CASE outbox' = outbox /\ outbox' # AddEvent(outbox, t, p)
  BY <1>1, <1>2 DEF Extends, Keeps
<1>3. CASE outbox' = AddEvent(outbox, t, p)
  <2>1. /\ AddEvent(outbox, t, p) \in Seq(OutboxEvent)
        /\ DOMAIN AddEvent(outbox, t, p) = 1 .. Len(outbox) + 1
        /\ \A e \in DOMAIN outbox : AddEvent(outbox, t, p)[e] = outbox[e]
        /\ AddEvent(outbox, t, p)[Len(outbox) + 1] = NewEvent(t, p)
        /\ Keeps(outbox, AddEvent(outbox, t, p))
    BY <1>1, AddEventFacts
  <2>2. DOMAIN outbox = 1 .. Len(outbox) /\ Len(outbox) \in Nat
    BY <1>1
  <2> QED BY <1>3, <2>1, <2>2 DEF Extends
<1> QED BY <1>2, <1>3 DEF ApiCommit

\* No transaction of payments-api disturbs a worker.
LEMMA ApiShared ==
    ASSUME SharedInv, NEW t \in EventType \ {"PaymentConfirmed"},
           NEW p \in Payments, ApiCommit(t, p)
    PROVE  SharedInv'
<1> USE DEF SharedInv, ApiCommit, envVars, workerVars
<1>1. outbox \in Seq(OutboxEvent)
  BY DEF TypeOK
<1>2. /\ outbox' \in Seq(OutboxEvent)
      /\ Extends(outbox, outbox') /\ Keeps(outbox, outbox')
      /\ \A e \in DOMAIN outbox' \ DOMAIN outbox : outbox'[e] = NewEvent(t, p)
  <2> HIDE DEF SharedInv, ApiCommit
  <2> QED BY ApiOutbox
<1>3. \A w \in Workers : Handling(w) => Target(w)' = Target(w)
  BY <1>2, TargetsKept
<1>4. TypeOK'
  BY <1>2 DEF TypeOK
<1>5. HoldsEvents'
  BY <1>2 DEF HoldsEvents, Handling, Keeps
<1>6. LocksHeld'
  BY <1>3 DEF LocksHeld, Calling, Handling
<1>7. OpenIsProcessing'
  BY DEF OpenIsProcessing, Calling
<1>8. RepliesTrue'
  BY <1>3 DEF RepliesTrue, Handling
<1>9. ConfirmedByProvider'
  BY <1>2 DEF ConfirmedByProvider, NewEvent, Extends
<1>10. SentWasPublished'
  BY <1>2 DEF SentWasPublished, NewEvent, Extends
<1> QED BY <1>4, <1>5, <1>6, <1>7, <1>8, <1>9, <1>10

\* What a lone worker holds stays pending and fresh: payments-api never touches the
\* version of a row that exists.
LEMMA ApiHeld ==
    ASSUME SharedInv, HeldInv, NEW t \in EventType, NEW p \in Payments,
           ApiCommit(t, p),
           \A q \in Payments : payments[q].status # "ABSENT"
                                 => payments'[q].version = payments[q].version
    PROVE  HeldPending' /\ LoadedFresh'
<1>1. Extends(outbox, outbox') /\ Keeps(outbox, outbox')
  BY ApiOutbox
<1>2. TypeOK /\ HoldsEvents /\ UNCHANGED workerVars
  BY DEF SharedInv, ApiCommit
<1>3. HeldPending'
  BY <1>1, <1>2 DEF HeldPending, HeldInv, HoldsEvents, Handling, Extends, workerVars
<1>4. LoadedFresh'
  <2> SUFFICES ASSUME NEW w \in Workers, pc[w] = "mark"
               PROVE  VersionMatches(w)'
    BY <1>2 DEF LoadedFresh, workerVars
  <2>1. /\ Target(w) \in Payments /\ Target(w)' = Target(w)
        /\ payments[Target(w)].status # "ABSENT"
    BY <1>1, <1>2, TargetIsPayment, TargetsKept
       DEF Handling, HeldInv, NoOrphan, Target, workerVars
  <2> QED BY <1>2, <2>1 DEF HeldInv, LoadedFresh, VersionMatches, workerVars
<1> QED BY <1>3, <1>4

\* A request that was pending still is.
LEMMA ApiPending ==
    ASSUME SharedInv, NEW t \in EventType, NEW p \in Payments, ApiCommit(t, p),
           NEW q \in Payments, PendingRequest(q)
    PROVE  PendingRequest(q)'
BY ApiOutbox DEF PendingRequest, Extends

-------------------------------------------------------------------------------
(* What each process does to the tables and to the reviews.                *)

\* Rows that exist are never deleted.
RowsStay ==
    \A p \in Payments : payments[p].status # "ABSENT" => payments'[p].status # "ABSENT"

\* A committed decision stays committed.
DecisionsStay ==
    \A p \in Payments, d \in R!Decision : Committed(p, d) => Committed(p, d)'

\* payments-api inserts a payment together with its event.
LEMMA CreationEffect ==
    ASSUME SharedInv, NEW p \in Payments, UNCHANGED reviews,
           NEW t \in {"PaymentRequested", "PaymentReviewRequired"},
           \/ t = "PaymentRequested" /\ Submit(p)
           \/ t = "PaymentReviewRequired" /\ SubmitForReview(p)
    PROVE  /\ ApiCommit(t, p)
           /\ payments[p].status = "ABSENT" /\ payments'[p].status # "ABSENT"
           /\ \A q \in Payments : q # p => payments'[q] = payments[q]
           /\ outbox' = AddEvent(outbox, t, p)
           /\ RowsStay
<1>1. payments \in [Payments -> PaymentRow]
  BY DEF SharedInv, TypeOK
<1>2. PICK s \in {"RECEIVED", "IN_REVIEW"} :
        /\ payments[p].status = "ABSENT"
        /\ payments' = [payments EXCEPT ![p] = NewPayment(s)]
        /\ outbox' = AddEvent(outbox, t, p)
        /\ UNCHANGED <<lock, envVars, workerVars>>
  BY DEF Submit, SubmitForReview
<1>3. NewPayment(s) \in PaymentRow /\ NewPayment(s).status = s
  BY DEF NewPayment, PaymentRow, PaymentStatus
<1> QED BY <1>1, <1>2, <1>3 DEF ApiCommit, RowsStay

\* A reviewer's decision: the row keeps its version, and an approval comes with
\* the event that starts the worker.
LEMMA DecisionEffect ==
    ASSUME SharedInv, R!ReviewTypeOK, NEW v \in Reviews,
           R!Approve(v) \/ R!Reject(v), UNCHANGED <<envVars, workerVars>>,
           NEW p, p = reviews[v].payment
    PROVE  /\ p \in Payments
           /\ ApiCommit("PaymentRequested", p)
           /\ \A q \in Payments : payments'[q].version = payments[q].version
           /\ \A q \in Payments : q # p => payments'[q] = payments[q]
           /\ payments'[p].status \in {"RECEIVED", "BLOCKED"}
           /\ outbox' = AddEvent(outbox, "PaymentRequested", p)
                => Committed(p, "approve")'
           /\ outbox' # AddEvent(outbox, "PaymentRequested", p)
                => Committed(p, "reject")'
           /\ \A q \in Payments, d \in R!Decision :
                Committed(q, d)' => Committed(q, d) \/ q = p
           /\ R!ReviewTypeOK' /\ DecisionsStay /\ RowsStay
<1>1. /\ payments \in [Payments -> PaymentRow]
      /\ reviews \in [Reviews -> R!Review \cup {R!NotStarted}]
  BY DEF SharedInv, TypeOK, R!ReviewTypeOK
<1>2. /\ reviews[v] \in R!Review /\ p \in Payments
      /\ reviews' = [reviews EXCEPT ![v].step = "committed"]
  BY <1>1 DEF R!Approve, R!Reject, R!Decides, R!Review, R!NotStarted, R!Reach
<1>3. /\ reviews'[v] \in R!Review /\ reviews'[v].step = "committed"
      /\ reviews'[v].payment = p /\ reviews'[v].decision = reviews[v].decision
      /\ \A u \in Reviews : u # v => reviews'[u] = reviews[u]
      /\ reviews'[v] # R!NotStarted
  BY <1>1, <1>2 DEF R!Review, R!ReviewStep, R!NotStarted
<1>4. R!ReviewTypeOK'
  BY <1>1, <1>2, <1>3 DEF R!ReviewTypeOK
<1>5. DecisionsStay
  BY <1>2, <1>3 DEF DecisionsStay, Committed, R!Approve, R!Reject, R!Decides
<1>6. PICK s \in {"RECEIVED", "BLOCKED"} :
        /\ payments' = [payments EXCEPT ![p] = StatusUpdated(payments[p], s)]
        /\ outbox' = outbox \/ outbox' = AddEvent(outbox, "PaymentRequested", p)
        /\ lock' = lock
  <2>1. CASE R!Approve(v)
    <3>1. payments' = [payments EXCEPT ![p] = StatusUpdated(payments[p], "RECEIVED")]
      BY <2>1 DEF R!Approve, R!UpdateStatus, R!StatusUpdated, StatusUpdated
    <3> QED BY <2>1, <3>1 DEF R!Approve, R!AddEvent, AddEvent, R!NewEvent, NewEvent
  <2>2. CASE R!Reject(v)
    <3>1. payments' = [payments EXCEPT ![p] = StatusUpdated(payments[p], "BLOCKED")]
      BY <2>2 DEF R!Reject, R!UpdateStatus, R!StatusUpdated, StatusUpdated
    <3> QED BY <2>2, <3>1 DEF R!Reject
  <2> QED BY <2>1, <2>2
<1>7. /\ StatusUpdated(payments[p], s) \in PaymentRow
      /\ StatusUpdated(payments[p], s).status = s
      /\ StatusUpdated(payments[p], s).version = payments[p].version
  BY <1>1, <1>2 DEF StatusUpdated, PaymentRow, PaymentStatus
<1>8. /\ ApiCommit("PaymentRequested", p) /\ RowsStay
      /\ \A q \in Payments : payments'[q].version = payments[q].version
      /\ \A q \in Payments : q # p => payments'[q] = payments[q]
      /\ payments'[p].status = s
  BY <1>1, <1>2, <1>6, <1>7 DEF ApiCommit, RowsStay
<1>9. /\ reviews[v].decision = "approve" => Committed(p, "approve")'
      /\ reviews[v].decision = "reject" => Committed(p, "reject")'
  BY <1>3 DEF Committed
<1>10. /\ R!Reject(v) => outbox' # AddEvent(outbox, "PaymentRequested", p)
  <2>1. outbox \in Seq(OutboxEvent) /\ "PaymentRequested" \in EventType
    BY DEF SharedInv, TypeOK, EventType
  <2>2. DOMAIN AddEvent(outbox, "PaymentRequested", p) = 1 .. Len(outbox) + 1
    BY <1>2, <2>1, AddEventFacts
  <2> QED BY <2>1, <2>2 DEF R!Reject
<1>11. \A q \in Payments, d \in R!Decision :
         Committed(q, d)' => Committed(q, d) \/ q = p
  BY <1>3 DEF Committed
<1>12. \/ reviews[v].decision = "approve" /\ ~R!Reject(v)
          /\ outbox' = AddEvent(outbox, "PaymentRequested", p)
       \/ reviews[v].decision = "reject" /\ R!Reject(v)
  BY DEF R!Approve, R!Reject, R!Decides, R!AddEvent, AddEvent, R!NewEvent, NewEvent
<1> QED
  BY <1>2, <1>4, <1>5, <1>6, <1>8, <1>9, <1>10, <1>11, <1>12

\* A review that is read, refused or rolled back decides nothing.
LEMMA UndecidedEffect ==
    ASSUME R!ReviewTypeOK, NEW v \in Reviews,
           \/ R!FailReview(v)
           \/ \E p \in Payments, d \in R!Decision : R!LoadForReview(v, p, d)
    PROVE  /\ UNCHANGED <<payments, outbox, lock>>
           /\ R!ReviewTypeOK'
           /\ \A p \in Payments, d \in R!Decision : Committed(p, d)' = Committed(p, d)
<1>1. reviews \in [Reviews -> R!Review \cup {R!NotStarted}]
  BY DEF R!ReviewTypeOK
<1>2. /\ UNCHANGED <<payments, outbox, lock>>
      /\ reviews' = [reviews EXCEPT ![v] = reviews'[v]]
      /\ reviews'[v] \in R!Review
      /\ reviews'[v].step # "committed"
      /\ reviews[v] = R!NotStarted \/ reviews[v].step # "committed"
  <2>1. CASE R!FailReview(v)
    BY <1>1, <2>1 DEF R!FailReview, R!Reach, R!Review, R!NotStarted, R!ReviewStep
  <2>2. CASE \E p \in Payments, d \in R!Decision : R!LoadForReview(v, p, d)
    BY <1>1, <2>2 DEF R!LoadForReview, R!Review, R!NotStarted, R!ReviewStep
  <2> QED BY <2>1, <2>2
<1> HIDE DEF R!Review
<1>3. R!ReviewTypeOK'
  BY <1>1, <1>2 DEF R!ReviewTypeOK
<1>4. \A u \in Reviews : u # v => reviews'[u] = reviews[u]
  BY <1>1, <1>2
<1> QED BY <1>2, <1>3, <1>4 DEF Committed

-------------------------------------------------------------------------------
(* The gate, for any number of workers and reviewers.                      *)

NewEvents == DOMAIN outbox' \ DOMAIN outbox

\* Event e tells the worker of an approved payment.
AfterApproval(e) ==
    /\ outbox[e].type = "PaymentRequested"
    /\ \E p \in Payments : outbox[e].aggregate = p /\ Committed(p, "approve")

\* An event is added for a payment that exists; the worker is told of a payment,
\* or a payment is held, when the payment is created or its approval committed.
NewEventsJustified ==
    \A e \in NewEvents :
        /\ payments'[outbox'[e].aggregate].status # "ABSENT"
        /\ outbox'[e].type \in {"PaymentRequested", "PaymentReviewRequired"} =>
             \/ payments[outbox'[e].aggregate].status = "ABSENT" /\ NewEvents = {e}
             \/ AfterApproval(e)'

\* With that, and nothing deleted, the gate is kept.
LEMMA GateKept ==
    ASSUME GateInv, SharedInv', Keeps(outbox, outbox'), RowsStay, DecisionsStay,
           NewEventsJustified
    PROVE  /\ NoOrphan' /\ RequestsApproved'
           /\ \A p \in Payments : Requested(p) => Requested(p)'
<1>1. /\ outbox \in Seq(OutboxEvent) /\ outbox' \in Seq(OutboxEvent)
      /\ \A e \in DOMAIN outbox : outbox[e].aggregate \in Payments
      /\ \A e \in DOMAIN outbox' : outbox'[e].aggregate \in Payments
  <2>1. outbox \in Seq(OutboxEvent) /\ outbox' \in Seq(OutboxEvent)
    BY DEF GateInv, SharedInv, TypeOK
  <2>2. /\ \A e \in DOMAIN outbox : outbox[e] \in OutboxEvent
        /\ \A e \in DOMAIN outbox' : outbox'[e] \in OutboxEvent
    BY <2>1
  <2> QED BY <2>1, <2>2 DEF OutboxEvent
<1>2. \A e \in DOMAIN outbox : /\ e \in DOMAIN outbox'
                               /\ outbox'[e].type = outbox[e].type
                               /\ outbox'[e].aggregate = outbox[e].aggregate
  BY DEF Keeps
<1>3. NoOrphan'
  <2> SUFFICES ASSUME NEW e \in DOMAIN outbox'
               PROVE  payments'[outbox'[e].aggregate].status # "ABSENT"
    BY DEF NoOrphan
  <2>1. CASE e \in DOMAIN outbox
    BY <1>1, <1>2, <2>1 DEF GateInv, NoOrphan, RowsStay
  <2>2. CASE e \notin DOMAIN outbox
    BY <2>2 DEF NewEventsJustified, NewEvents
  <2> QED BY <2>1, <2>2
<1>4. RequestsApproved'
  <2> SUFFICES ASSUME NEW p \in Payments,
                      NEW h \in DOMAIN outbox', NEW r \in DOMAIN outbox',
                      outbox'[h].type = "PaymentReviewRequired",
                      outbox'[h].aggregate = p,
                      outbox'[r].type = "PaymentRequested",
                      outbox'[r].aggregate = p
               PROVE  Committed(p, "approve")'
    BY DEF RequestsApproved, HeldForReview, Requested
  <2>1. "approve" \in R!Decision
    BY DEF R!Decision
  <2>2. CASE h \in DOMAIN outbox /\ r \in DOMAIN outbox
    BY <1>2, <2>1, <2>2
       DEF GateInv, RequestsApproved, HeldForReview, Requested, DecisionsStay
  <2>3. CASE h \notin DOMAIN outbox
    <3>1. payments[p].status = "ABSENT" /\ NewEvents = {h}
      BY <2>3 DEF NewEventsJustified, NewEvents, AfterApproval
    <3>2. r \in DOMAIN outbox
      BY <3>1 DEF NewEvents
    <3> QED BY <1>2, <3>1, <3>2 DEF GateInv, NoOrphan
  <2>4. CASE h \in DOMAIN outbox /\ r \notin DOMAIN outbox
    <3>1. payments[p].status # "ABSENT"
      BY <1>2, <2>4 DEF GateInv, NoOrphan
    <3>2. AfterApproval(r)'
      BY <2>4, <3>1 DEF NewEventsJustified, NewEvents
    <3> QED BY <3>2 DEF AfterApproval
  <2> QED BY <2>2, <2>3, <2>4
<1>5. \A p \in Payments : Requested(p) => Requested(p)'
  BY <1>2 DEF Requested
<1> QED BY <1>3, <1>4, <1>5

\* A worker, or the clock, adds terminal events only.
LEMMA WorkerGate ==
    ASSUME GateInv, UNCHANGED reviews,
           \/ \E w \in Workers : WorkerStep(w) \/ ProviderAccepts(w) \/ Abort(w)
           \/ \E e \in DOMAIN outbox : BecomeDue(e)
    PROVE  GateInv'
<1>1. SharedInv'
  BY SharedInvNext DEF Next, GateInv
<1>2. R!ReviewTypeOK' /\ DecisionsStay
  BY DEF GateInv, R!ReviewTypeOK, DecisionsStay, Committed
<1>3. Keeps(outbox, outbox') /\ RowsStay /\ NewEventsJustified
  <2>1. CASE UNCHANGED payments /\ DOMAIN outbox' = DOMAIN outbox
                                /\ Keeps(outbox, outbox')
    BY <2>1 DEF RowsStay, NewEventsJustified, NewEvents
  <2>2. ASSUME NEW w \in Workers, Finalize(w)
        PROVE  Keeps(outbox, outbox') /\ RowsStay /\ NewEventsJustified
    <3>1. /\ payments \in [Payments -> PaymentRow] /\ outbox \in Seq(OutboxEvent)
          /\ Target(w) \in Payments
      BY <2>2, TargetIsPayment DEF Finalize, Handling, GateInv, SharedInv, TypeOK
    <3>2. PICK row \in PaymentRow : /\ payments' = [payments EXCEPT ![Target(w)] = row]
                                    /\ Retried(w, row) \/ Settled(w, row)
      BY <2>2, FinalizeEffect DEF GateInv
    <3>3. Keeps(outbox, outbox')
      BY <2>2, FinalizeEffect DEF GateInv
    <3>4. row.status # "ABSENT"
      BY <3>2 DEF Retried, Settled, FinalStatus
    <3>5. RowsStay /\ payments'[Target(w)].status # "ABSENT"
      BY <3>1, <3>2, <3>4 DEF RowsStay
    <3>6. CASE Retried(w, row)
      BY <3>3, <3>5, <3>6 DEF Retried, NewEventsJustified, NewEvents
    <3>7. CASE Settled(w, row)
      <4>1. /\ NewEvents = {Len(outbox) + 1}
            /\ outbox'[Len(outbox) + 1].aggregate = Target(w)
            /\ outbox'[Len(outbox) + 1].type \in TerminalEvent
        BY <3>1, <3>7 DEF Settled, NewEvents, NewEvent, Announces, TerminalEvent
      <4> QED BY <3>3, <3>5, <4>1 DEF NewEventsJustified, TerminalEvent
    <3> QED BY <3>2, <3>3, <3>5, <3>6, <3>7
  <2> QED BY <2>1, <2>2, WorkerTables, DueTables DEF GateInv
<1>4. NoOrphan' /\ RequestsApproved' /\ \A p \in Payments : Requested(p) => Requested(p)'
  BY <1>1, <1>2, <1>3, GateKept
<1>5. \A p \in accepted' : \/ p \in accepted
                           \/ p \in Payments /\ Requested(p)
  <2>1. ASSUME NEW w \in Workers, ProviderAccepts(w)
        PROVE  Target(w) \in Payments /\ Requested(Target(w))
    BY <2>1, TargetIsPayment
       DEF ProviderAccepts, GateInv, SharedInv, HoldsEvents, Handling, Requested,
           Target, RequestedTypes
  <2>2. ASSUME NEW w \in Workers, ProviderAccepts(w)
        PROVE  accepted' = accepted \cup {Target(w)}
    BY <2>2 DEF ProviderAccepts
  <2>3. ASSUME NEW w \in Workers, WorkerStep(w) \/ Abort(w)
        PROVE  accepted' = accepted
    BY <2>3 DEF WorkerStep, FetchRequested, LoadPayment, MarkProcessing, LoseRace,
                ProviderAnswers, Finalize, FetchFanout, Publish, RecordFanout,
                EndRun, Abort, envVars
  <2>4. ASSUME NEW e \in DOMAIN outbox, BecomeDue(e)
        PROVE  accepted' = accepted
    BY <2>4 DEF BecomeDue, envVars
  <2>5. CASE \E w \in Workers : ProviderAccepts(w)
    BY <2>1, <2>2, <2>5
  <2>6. CASE accepted' = accepted
    BY <2>6
  <2> QED BY <2>3, <2>4, <2>5, <2>6
<1>6. AcceptedRequested'
  <2>1. accepted \subseteq Payments
    BY DEF GateInv, SharedInv, TypeOK
  <2> QED BY <1>4, <1>5, <2>1 DEF AcceptedRequested, GateInv
<1> QED BY <1>1, <1>2, <1>4, <1>6 DEF GateInv

\* payments-api creates payments that were not there, held for review or not.
LEMMA CreationGate ==
    ASSUME GateInv, NEW p \in Payments, UNCHANGED reviews,
           Submit(p) \/ SubmitForReview(p)
    PROVE  GateInv'
<1>1. PICK t \in {"PaymentRequested", "PaymentReviewRequired"} :
        /\ ApiCommit(t, p)
        /\ payments[p].status = "ABSENT" /\ payments'[p].status # "ABSENT"
        /\ outbox' = AddEvent(outbox, t, p)
        /\ RowsStay
  BY CreationEffect DEF GateInv
<1>2. t \in EventType \ {"PaymentConfirmed"}
  BY DEF EventType
<1>3. SharedInv'
  BY <1>1, <1>2, ApiShared DEF GateInv
<1>4. R!ReviewTypeOK' /\ DecisionsStay
  BY DEF GateInv, R!ReviewTypeOK, DecisionsStay, Committed
<1>5. Keeps(outbox, outbox') /\ NewEventsJustified
  <2>1. /\ Keeps(outbox, outbox')
        /\ \A e \in NewEvents : outbox'[e] = NewEvent(t, p)
    BY <1>1, <1>2, ApiOutbox DEF GateInv, NewEvents
  <2>2. NewEvents = {Len(outbox) + 1}
    <3>1. outbox \in Seq(OutboxEvent)
      BY DEF GateInv, SharedInv, TypeOK
    <3> QED BY <1>1, <1>2, <3>1, AddEventFacts DEF NewEvents
  <2> QED BY <1>1, <2>1, <2>2 DEF NewEventsJustified, NewEvent
<1>6. NoOrphan' /\ RequestsApproved' /\ \A q \in Payments : Requested(q) => Requested(q)'
  BY <1>1, <1>3, <1>4, <1>5, GateKept
<1>7. AcceptedRequested'
  BY <1>1, <1>6 DEF AcceptedRequested, GateInv, ApiCommit, envVars, SharedInv, TypeOK
<1> QED BY <1>3, <1>4, <1>6, <1>7 DEF GateInv

\* A reviewer tells the worker of a payment only in approving it.
LEMMA DecisionGate ==
    ASSUME GateInv, NEW v \in Reviews, R!Approve(v) \/ R!Reject(v),
           UNCHANGED <<envVars, workerVars>>
    PROVE  GateInv'
<1> PICK p : p = reviews[v].payment
  OBVIOUS
<1> DEFINE t == "PaymentRequested"
<1>1. /\ p \in Payments /\ ApiCommit(t, p)
      /\ payments'[p].status # "ABSENT"
      /\ outbox' = AddEvent(outbox, t, p) => Committed(p, "approve")'
      /\ R!ReviewTypeOK' /\ DecisionsStay /\ RowsStay
  BY DecisionEffect DEF GateInv
<1>2. t \in EventType \ {"PaymentConfirmed"}
  BY DEF EventType
<1> HIDE DEF t
<1>3. SharedInv'
  BY <1>1, <1>2, ApiShared DEF GateInv
<1>4. Keeps(outbox, outbox') /\ NewEventsJustified
  <2>1. /\ Keeps(outbox, outbox')
        /\ \A e \in NewEvents : /\ outbox'[e] = NewEvent(t, p)
                                 /\ outbox' = AddEvent(outbox, t, p)
    BY <1>1, <1>2, ApiOutbox DEF GateInv, NewEvents
  <2>2. \A e \in NewEvents : AfterApproval(e)'
    BY <1>1, <2>1 DEF AfterApproval, NewEvent, t
  <2> QED BY <1>1, <2>1, <2>2 DEF NewEventsJustified, NewEvent
<1>5. NoOrphan' /\ RequestsApproved' /\ \A q \in Payments : Requested(q) => Requested(q)'
  BY <1>1, <1>3, <1>4, GateKept
<1>6. AcceptedRequested'
  BY <1>1, <1>5 DEF AcceptedRequested, GateInv, ApiCommit, envVars, SharedInv, TypeOK
<1> QED BY <1>1, <1>3, <1>5, <1>6 DEF GateInv

LEMMA GateInvInit == SystemInit => GateInv
BY SharedInvInit
   DEF SystemInit, Init, GateInv, NoOrphan, R!ReviewInit, R!ReviewTypeOK,
       RequestsApproved, HeldForReview, AcceptedRequested

\* The steps of the composition, by who takes them: a worker, the provider or the
\* clock; payments-api creating a payment; a reviewer deciding; a reviewer reading,
\* or failing.
WorkerTurn ==
    /\ UNCHANGED reviews
    /\ \/ \E w \in Workers : WorkerStep(w) \/ ProviderAccepts(w) \/ Abort(w)
       \/ \E e \in DOMAIN outbox : BecomeDue(e)

CreationTurn(p) == UNCHANGED reviews /\ (Submit(p) \/ SubmitForReview(p))

DecisionTurn(v) ==
    UNCHANGED <<envVars, workerVars>> /\ (R!Approve(v) \/ R!Reject(v))

UndecidedTurn(v) ==
    /\ UNCHANGED <<envVars, workerVars>>
    /\ \/ R!FailReview(v)
       \/ \E p \in Payments, d \in R!Decision : R!LoadForReview(v, p, d)

LEMMA SystemSteps ==
    SystemNext <=> \/ WorkerTurn
                   \/ \E p \in Payments : CreationTurn(p)
                   \/ \E v \in Reviews : DecisionTurn(v) \/ UndecidedTurn(v)
BY DEF SystemNext, Next, SubmitForReview, R!ReviewNext, WorkerTurn, CreationTurn,
       DecisionTurn, UndecidedTurn

LEMMA GateInvNext == GateInv /\ [SystemNext]_allVars => GateInv'
<1> SUFFICES ASSUME GateInv, [SystemNext]_allVars
             PROVE  GateInv'
  OBVIOUS
<1>1. ASSUME UNCHANGED <<payments, outbox, lock, envVars, workerVars>>,
             R!ReviewTypeOK',
             \A p \in Payments, d \in R!Decision : Committed(p, d)' = Committed(p, d)
      PROVE  GateInv'
  <2>1. UNCHANGED vars
    BY <1>1 DEF vars, dbVars
  <2>2. SharedInv'
    BY <2>1, SharedInvNext DEF GateInv
  <2> QED
    BY <1>1, <2>2
       DEF GateInv, NoOrphan, RequestsApproved, HeldForReview, Requested,
           AcceptedRequested, R!Decision, envVars
<1>2. CASE UNCHANGED allVars
  <2>1. UNCHANGED <<payments, outbox, lock, envVars, workerVars, reviews>>
    BY <1>2 DEF allVars, vars, dbVars
  <2>2. R!ReviewTypeOK'
    BY <2>1 DEF GateInv, R!ReviewTypeOK
  <2>3. \A p \in Payments, d \in R!Decision : Committed(p, d)' = Committed(p, d)
    BY <2>1 DEF Committed
  <2> QED BY <1>1, <2>1, <2>2, <2>3
<1>3. ASSUME NEW v \in Reviews, UndecidedTurn(v)
      PROVE  GateInv'
  BY <1>1, <1>3, UndecidedEffect DEF GateInv, UndecidedTurn
<1>4. ASSUME NEW p \in Payments, CreationTurn(p)
      PROVE  GateInv'
  BY <1>4, CreationGate DEF CreationTurn
<1>5. ASSUME NEW v \in Reviews, DecisionTurn(v)
      PROVE  GateInv'
  BY <1>5, DecisionGate DEF DecisionTurn
<1>6. ASSUME WorkerTurn
      PROVE  GateInv'
  BY <1>6, WorkerGate DEF WorkerTurn
<1>7. CASE SystemNext
  BY <1>3, <1>4, <1>5, <1>6, <1>7, SystemSteps
<1> QED BY <1>2, <1>7

\* The worker's shared invariant and the gate, with reviewers at work.
THEOREM GateInvariant == SystemSpec => []GateInv
BY GateInvInit, GateInvNext, PTL DEF SystemSpec

\* Every variable of the composition keeps its type.
THEOREM SystemTypeCorrect == SystemSpec => []SystemTypeOK
<1>1. GateInv => SystemTypeOK
  BY DEF GateInv, SharedInv, SystemTypeOK
<1> QED BY <1>1, GateInvariant, PTL

\* The review gate (ApproveReviewPaymentUseCase): no money of a payment that was
\* held for review moves before an approval of it is committed, with any number of
\* reviewers and workers.
THEOREM ReviewGate == SystemSpec => []ApprovedBeforeMoved
<1>1. GateInv => ApprovedBeforeMoved
  BY DEF GateInv, SharedInv, TypeOK, ApprovedBeforeMoved, RequestsApproved,
         AcceptedRequested
<1> QED BY <1>1, GateInvariant, PTL

\* A reviewer cannot make the table announce what the provider did not accept.
THEOREM NoFalseConfirmationReviewed == SystemSpec => []ConfirmedByProvider
<1>1. GateInv => ConfirmedByProvider
  BY DEF GateInv, SharedInv
<1> QED BY <1>1, GateInvariant, PTL

\* The final status that a row shows has been announced, whatever several workers
\* and reviewers write over each other (_process_payment_event).
THEOREM AnnouncedReviewed == SystemSpec => []FinalIsAnnounced
<1>1. SystemInit => FinalIsAnnounced
  BY DEF SystemInit, Init, NoRow, FinalStatus, FinalIsAnnounced
<1>2. SharedInv /\ R!ReviewTypeOK /\ FinalIsAnnounced /\ [SystemNext]_allVars => FinalIsAnnounced'
  <2> SUFFICES ASSUME SharedInv, R!ReviewTypeOK, FinalIsAnnounced, [SystemNext]_allVars
               PROVE  FinalIsAnnounced'
    OBVIOUS
  <2>0. {"PaymentRequested", "PaymentReviewRequired"} \subseteq EventType
    BY DEF EventType
  <2>1. CASE [Next]_vars
    BY <2>1, AnnouncementStep
  <2>2. ASSUME NEW p \in Payments, SubmitForReview(p)
        PROVE  FinalIsAnnounced'
    <3>1. UNCHANGED reviews
      BY <2>2 DEF SubmitForReview
    <3>2. /\ payments'[p].status \notin FinalStatus
          /\ \A q \in Payments : q # p => payments'[q] = payments[q]
      BY <2>2 DEF SubmitForReview, SharedInv, TypeOK, NewPayment, FinalStatus
    <3>3. ApiCommit("PaymentReviewRequired", p)
      BY <2>2, <3>1, CreationEffect
    <3>4. Keeps(outbox, outbox')
      BY <2>0, <3>3, ApiOutbox
    <3> QED BY <3>2, <3>4, AnnouncementStays
  <2>3. ASSUME NEW v \in Reviews, R!Approve(v) \/ R!Reject(v), UNCHANGED <<envVars, workerVars>>
        PROVE  FinalIsAnnounced'
    <3>1. PICK p : p = reviews[v].payment
      OBVIOUS
    <3>2. /\ p \in Payments /\ ApiCommit("PaymentRequested", p)
          /\ payments'[p].status \in {"RECEIVED", "BLOCKED"}
          /\ \A q \in Payments : q # p => payments'[q] = payments[q]
      BY <2>3, <3>1, DecisionEffect
    <3>3. Keeps(outbox, outbox')
      BY <2>0, <3>2, ApiOutbox
    <3> QED BY <3>2, <3>3, AnnouncementStays DEF FinalStatus
  <2>4. ASSUME NEW v \in Reviews,
               \/ R!FailReview(v)
               \/ \E p \in Payments, d \in R!Decision : R!LoadForReview(v, p, d)
        PROVE  FinalIsAnnounced'
    <3>1. UNCHANGED <<payments, outbox>>
      BY <2>4, UndecidedEffect
    <3> QED BY <3>1, AnnouncementStays DEF Keeps
    <2>5. CASE UNCHANGED allVars
    BY <2>1, <2>5 DEF allVars
  <2> QED BY <2>1, <2>2, <2>3, <2>4, <2>5 DEF SystemNext, R!ReviewNext
<1> QED BY <1>1, <1>2, GateInvariant, PTL DEF SystemSpec, GateInv

-------------------------------------------------------------------------------
(* With one worker: nothing approved is lost.                              *)

LEMMA PendingInvInit == SystemInit => PendingInv
BY DEF SystemInit, Init, PendingInv, HeldPending, LoadedFresh, NoStranded,
       ApprovedIsProcessed, NoRow, R!ReviewInit, Committed

Open == {"RECEIVED", "PROCESSING"}

\* No step leaves payment p behind: its request is pending afterwards, or it is
\* settled, or it is rejected, or nothing happens to it.
PendingStep(p) ==
    \/ PendingRequest(p)'
    \/ payments'[p].status \in FinalStatus
    \/ payments'[p].status = "BLOCKED" /\ Committed(p, "reject")'
    \/ /\ payments'[p].status \in Open => payments[p].status \in Open
       /\ payments[p].status \in FinalStatus => payments'[p] = payments[p]
       /\ PendingRequest(p) => PendingRequest(p)'

\* An approval comes with its request.
ApprovalsRequest ==
    \A p \in Payments :
        Committed(p, "approve")' => Committed(p, "approve") \/ PendingRequest(p)'

LEMMA PendingKept ==
    ASSUME PendingInv, HeldPending', LoadedFresh', DecisionsStay,
           ApprovalsRequest, \A p \in Payments : PendingStep(p)
    PROVE  PendingInv'
<1>1. NoStranded'
  BY DEF PendingInv, NoStranded, PendingStep, FinalStatus, Open
<1>2. ApprovedIsProcessed'
  <2>1. \A p \in Payments : Committed(p, "reject") => Committed(p, "reject")'
    BY DEF DecisionsStay, R!Decision
  <2> QED BY <2>1 DEF PendingInv, ApprovedIsProcessed, PendingStep, ApprovalsRequest
<1> QED BY <1>1, <1>2 DEF PendingInv

\* With one worker, an event is marked SENT or FAILED only together with the final
\* status of its payment.
LEMMA WorkerPending ==
    ASSUME SingleWorker, GateInv, PendingInv, UNCHANGED reviews,
           \/ \E w \in Workers : WorkerStep(w) \/ ProviderAccepts(w) \/ Abort(w)
           \/ \E e \in DOMAIN outbox : BecomeDue(e)
    PROVE  PendingInv'
<1>1. SharedInv /\ HeldInv /\ TypeOK /\ HoldsEvents /\ outbox \in Seq(OutboxEvent)
      /\ payments \in [Payments -> PaymentRow]
  BY DEF GateInv, PendingInv, HeldInv, SharedInv, TypeOK
<1>2. Next
  BY DEF Next
<1>3. HeldPending' /\ LoadedFresh'
  BY <1>1, <1>2, SingleHeld
<1>4. DecisionsStay /\ ApprovalsRequest
  BY DEF DecisionsStay, ApprovalsRequest, Committed
<1>5. ASSUME NEW w \in Workers, Finalize(w), NEW p \in Payments
      PROVE  PendingStep(p)
  <2> DEFINE e == current[w].event
  <2>1. /\ e \in DOMAIN outbox /\ Target(w) \in Payments
        /\ outbox[e].type = "PaymentRequested" /\ outbox[e].status = "PENDING"
        /\ outbox[e].aggregate = Target(w)
    BY <1>1, <1>5, TargetIsPayment
       DEF Finalize, Handling, HoldsEvents, RequestedTypes, HeldInv, HeldPending,
           Target
  <2>2. /\ Keeps(outbox, outbox')
        /\ \A d \in DOMAIN outbox : d # e => outbox'[d] = outbox[d]
    BY <1>1, <1>5, FinalizeEffect
  <2>3. PICK row \in PaymentRow : /\ payments' = [payments EXCEPT ![Target(w)] = row]
                                  /\ Retried(w, row) \/ Settled(w, row)
    BY <1>1, <1>5, FinalizeEffect
  <2> HIDE DEF e
  <2>4. CASE p # Target(w)
    <3>1. payments'[p] = payments[p]
      BY <1>1, <2>3, <2>4
    <3>2. PendingRequest(p) => PendingRequest(p)'
      BY <2>1, <2>2, <2>4 DEF PendingRequest, Keeps
    <3> QED BY <3>1, <3>2 DEF PendingStep
  <2>5. CASE p = Target(w) /\ Settled(w, row)
    BY <1>1, <2>3, <2>5 DEF PendingStep, Settled
  <2>6. CASE p = Target(w) /\ Retried(w, row)
    <3>1. PendingRequest(p)'
      BY <2>1, <2>2, <2>6 DEF PendingRequest, Keeps, Retried, e
    <3> QED BY <3>1 DEF PendingStep
  <2> QED BY <2>3, <2>4, <2>5, <2>6
<1>6. ASSUME NEW w \in Workers, ~Finalize(w), NEW p \in Payments,
             WorkerStep(w) \/ ProviderAccepts(w) \/ Abort(w)
      PROVE  PendingStep(p)
  <2>1. payments' = payments
    BY <1>1, <1>6, WorkerTables
  <2>2. CASE RecordFanout(w)
    <3> DEFINE e == current[w].event
               n == current[w].attempts + 1
    <3>1. /\ e \in DOMAIN outbox /\ n \in Nat
          /\ outbox[e].type # "PaymentRequested"
      BY <1>1, <2>2, TargetIsPayment
         DEF RecordFanout, Handling, HoldsEvents, FanoutTypes
    <3>2. outbox' \in {MarkSent(outbox, e), MarkFailed(outbox, e, n),
                       Reschedule(outbox, e, n)}
      BY <2>2 DEF RecordFanout, FanoutWritten
    <3>3. \A d \in DOMAIN outbox : d # e => outbox'[d] = outbox[d]
      <4>1. CASE outbox' = MarkSent(outbox, e)
        BY <1>1, <3>1, <4>1, MarkSentFacts
      <4>2. CASE outbox' \in {MarkFailed(outbox, e, n), Reschedule(outbox, e, n)}
        BY <1>1, <3>1, <4>2, FailureStatementFacts
      <4> QED BY <3>2, <4>1, <4>2
    <3>4. DOMAIN outbox' = DOMAIN outbox
      BY <1>1, <1>6, WorkerTables
    <3> HIDE DEF e
    <3>5. PendingRequest(p) => PendingRequest(p)'
      BY <3>1, <3>3, <3>4 DEF PendingRequest
    <3> QED BY <2>1, <3>5 DEF PendingStep
  <2>3. CASE outbox' = outbox
    BY <2>1, <2>3 DEF PendingStep, PendingRequest
  <2>4. CASE FetchRequested(w) \/ MarkProcessing(w) \/ ProviderAnswers(w)
    BY <2>3, <2>4 DEF FetchRequested, MarkProcessing, ProviderAnswers, dbVars
  <2>5. CASE FetchFanout(w) \/ Publish(w) \/ EndRun(w)
    BY <2>3, <2>5 DEF FetchFanout, Publish, EndRun, dbVars
  <2>6. CASE ProviderAccepts(w) \/ Abort(w)
    BY <2>3, <2>6 DEF ProviderAccepts, Abort, dbVars
  <2> QED BY <1>1, <1>6, <2>2, <2>3, <2>4, <2>5, <2>6, AlwaysWins DEF WorkerStep
<1>7. ASSUME NEW e \in DOMAIN outbox, BecomeDue(e), NEW p \in Payments
      PROVE  PendingStep(p)
  <2>1. PendingRequest(p) => PendingRequest(p)'
    BY <1>1, <1>7 DEF BecomeDue, PendingRequest
  <2> QED BY <1>7, <2>1 DEF BecomeDue, PendingStep
<1>8. \A p \in Payments : PendingStep(p)
  BY <1>5, <1>6, <1>7
<1> QED BY <1>3, <1>4, <1>8, PendingKept

\* A payment is created RECEIVED together with its request, or held.
LEMMA CreationPending ==
    ASSUME GateInv, PendingInv, NEW p \in Payments, UNCHANGED reviews,
           Submit(p) \/ SubmitForReview(p)
    PROVE  PendingInv'
<1>1. PICK t \in {"PaymentRequested", "PaymentReviewRequired"} :
        /\ \/ t = "PaymentRequested" /\ Submit(p)
           \/ t = "PaymentReviewRequired" /\ SubmitForReview(p)
        /\ ApiCommit(t, p)
        /\ payments[p].status = "ABSENT"
        /\ \A q \in Payments : q # p => payments'[q] = payments[q]
        /\ outbox' = AddEvent(outbox, t, p)
  BY CreationEffect DEF GateInv
<1>2. t \in EventType /\ SharedInv /\ HeldInv /\ payments \in [Payments -> PaymentRow]
  BY DEF EventType, GateInv, PendingInv, HeldInv, SharedInv, TypeOK
<1>3. HeldPending' /\ LoadedFresh'
  BY <1>1, <1>2, ApiHeld
<1>4. DecisionsStay /\ ApprovalsRequest
  BY DEF DecisionsStay, ApprovalsRequest, Committed
<1>5. \A q \in Payments : PendingRequest(q) => PendingRequest(q)'
  BY <1>1, <1>2, ApiPending
<1>6. CASE t = "PaymentRequested"
  <2>1. \E e \in DOMAIN outbox' : outbox'[e] = NewEvent(t, p)
    BY <1>1, <1>2, ApiOutbox
  <2>2. PendingRequest(p)'
    BY <1>6, <2>1 DEF PendingRequest, NewEvent
  <2>3. \A q \in Payments : PendingStep(q)
    BY <1>1, <1>5, <2>2 DEF PendingStep
  <2> QED BY <1>3, <1>4, <2>3, PendingKept
<1>7. CASE t = "PaymentReviewRequired"
  <2>1. payments'[p].status = "IN_REVIEW"
    BY <1>1, <1>2, <1>7 DEF SubmitForReview, NewPayment
  <2>2. \A q \in Payments : PendingStep(q)
    BY <1>1, <1>5, <2>1 DEF PendingStep, Open, FinalStatus
  <2> QED BY <1>3, <1>4, <2>2, PendingKept
<1> QED BY <1>1, <1>6, <1>7

\* An approval commits the row and its request together; a rejection closes the row.
LEMMA DecisionPending ==
    ASSUME GateInv, PendingInv, NEW v \in Reviews, R!Approve(v) \/ R!Reject(v),
           UNCHANGED <<envVars, workerVars>>
    PROVE  PendingInv'
<1> DEFINE t == "PaymentRequested"
<1>1. PICK p : p = reviews[v].payment
  OBVIOUS
<1>2. /\ p \in Payments /\ ApiCommit(t, p)
      /\ \A q \in Payments : payments'[q].version = payments[q].version
      /\ \A q \in Payments : q # p => payments'[q] = payments[q]
      /\ outbox' = AddEvent(outbox, t, p) => Committed(p, "approve")'
      /\ outbox' # AddEvent(outbox, t, p) => Committed(p, "reject")'
      /\ \A q \in Payments, d \in R!Decision :
           Committed(q, d)' => Committed(q, d) \/ q = p
      /\ DecisionsStay
  BY <1>1, DecisionEffect DEF GateInv
<1>3. t \in EventType /\ SharedInv /\ HeldInv
  BY DEF EventType, GateInv, PendingInv, HeldInv
<1>4. HeldPending' /\ LoadedFresh'
  BY <1>2, <1>3, ApiHeld
<1>5. \A q \in Payments : PendingRequest(q) => PendingRequest(q)'
  BY <1>2, <1>3, ApiPending
<1>6. \A q \in Payments : q # p => PendingStep(q)
  BY <1>2, <1>5 DEF PendingStep
<1>7. CASE R!Approve(v)
  <2>1. outbox' = AddEvent(outbox, t, p)
    BY <1>1, <1>7 DEF R!Approve, R!AddEvent, AddEvent, R!NewEvent, NewEvent
  <2>2. \E e \in DOMAIN outbox' : outbox'[e] = NewEvent(t, p)
    BY <1>2, <1>3, <2>1, ApiOutbox
  <2>3. PendingRequest(p)'
    BY <2>2 DEF PendingRequest, NewEvent
  <2>4. \A q \in Payments : PendingStep(q)
    BY <1>6, <2>3 DEF PendingStep
  <2>5. ApprovalsRequest
    BY <1>2, <2>3 DEF ApprovalsRequest, R!Decision
  <2> QED BY <1>2, <1>4, <2>4, <2>5, PendingKept
<1>8. CASE R!Reject(v)
  <2>1. reviews \in [Reviews -> R!Review \cup {R!NotStarted}]
    BY DEF GateInv, R!ReviewTypeOK
  <2>2. /\ reviews[v] \in R!Review /\ reviews[v].decision = "reject"
        /\ reviews' = [reviews EXCEPT ![v].step = "committed"]
    BY <1>8, <2>1 DEF R!Reject, R!Decides, R!Review, R!NotStarted, R!Reach
  <2>3. /\ reviews'[v].step = "committed" /\ reviews'[v].payment = p
        /\ reviews'[v].decision = "reject" /\ reviews'[v] # R!NotStarted
        /\ \A u \in Reviews : u # v => reviews'[u] = reviews[u]
    BY <1>1, <2>1, <2>2 DEF R!Review, R!NotStarted
  <2>4. Committed(p, "reject")'
    BY <2>3 DEF Committed
  <2>5. ApprovalsRequest
    BY <2>3 DEF ApprovalsRequest, Committed
  <2>6. payments'[p].status = "BLOCKED"
    <3>1. payments \in [Payments -> PaymentRow]
      BY DEF GateInv, SharedInv, TypeOK
    <3> QED
      BY <1>1, <1>2, <1>8, <3>1
         DEF R!Reject, R!UpdateStatus, R!StatusUpdated, PaymentRow
  <2>7. \A q \in Payments : PendingStep(q)
    BY <1>6, <2>4, <2>6 DEF PendingStep
  <2> QED BY <1>2, <1>4, <2>5, <2>7, PendingKept
<1> QED BY <1>7, <1>8

LEMMA PendingInvNext ==
    ASSUME SingleWorker
    PROVE  GateInv /\ PendingInv /\ [SystemNext]_allVars => PendingInv'
<1> SUFFICES ASSUME GateInv, PendingInv, [SystemNext]_allVars
             PROVE  PendingInv'
  OBVIOUS
<1>1. ASSUME UNCHANGED <<payments, outbox, lock, envVars, workerVars>>,
             \A p \in Payments, d \in R!Decision : Committed(p, d)' = Committed(p, d)
      PROVE  PendingInv'
  BY <1>1
     DEF PendingInv, HeldPending, LoadedFresh, VersionMatches, Target, NoStranded,
         ApprovedIsProcessed, PendingRequest, R!Decision, workerVars
<1>2. CASE UNCHANGED allVars
  <2>1. UNCHANGED <<payments, outbox, lock, envVars, workerVars, reviews>>
    BY <1>2 DEF allVars, vars, dbVars
  <2>2. \A p \in Payments, d \in R!Decision : Committed(p, d)' = Committed(p, d)
    BY <2>1 DEF Committed
  <2> QED BY <1>1, <2>1, <2>2
<1>3. ASSUME NEW v \in Reviews, UndecidedTurn(v)
      PROVE  PendingInv'
  BY <1>1, <1>3, UndecidedEffect DEF GateInv, UndecidedTurn
<1>4. ASSUME NEW p \in Payments, CreationTurn(p)
      PROVE  PendingInv'
  BY <1>4, CreationPending DEF CreationTurn
<1>5. ASSUME NEW v \in Reviews, DecisionTurn(v)
      PROVE  PendingInv'
  BY <1>5, DecisionPending DEF DecisionTurn
<1>6. ASSUME WorkerTurn
      PROVE  PendingInv'
  BY <1>6, WorkerPending DEF WorkerTurn
<1>7. CASE SystemNext
  BY <1>3, <1>4, <1>5, <1>6, <1>7, SystemSteps
<1> QED BY <1>2, <1>7

\* What the lone worker holds is pending, with reviewers at work.
THEOREM PendingInvariant == ASSUME SingleWorker PROVE SystemSpec => []PendingInv
BY PendingInvInit, GateInvariant, PendingInvNext, PTL DEF SystemSpec

\* ApproveReviewPaymentUseCase: an approved payment is never lost. Until it is
\* final, or rejected after all, a request for it is pending.
THEOREM ApprovalNotLost == ASSUME SingleWorker PROVE SystemSpec => []ApprovedIsProcessed
<1>1. PendingInv => ApprovedIsProcessed
  BY DEF PendingInv
<1> QED BY <1>1, PendingInvariant, PTL

\* Nor is any other payment the worker is to process, although two requests may now
\* be pending for it and a reviewer may overwrite a final status.
THEOREM NothingStrandedReviewed == ASSUME SingleWorker PROVE SystemSpec => []NoStranded
<1>1. PendingInv => NoStranded
  BY DEF PendingInv
<1> QED BY <1>1, PendingInvariant, PTL

===============================================================================
