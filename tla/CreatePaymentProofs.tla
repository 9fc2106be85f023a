-------------------------- MODULE CreatePaymentProofs --------------------------
(***************************************************************************)
(* Idempotency, for any number of requests, scopes and polls: CreateInv is *)
(* inductive.  The first part follows the local steps of a request, the    *)
(* second the tables, the third the gate.                                  *)
(***************************************************************************)
EXTENDS CreatePaymentInv, TLAPS

\* get_snapshot returns a payload, or nothing, and never both.
LEMMA SnapshotFacts ==
    ASSUME TypeOK, NEW k \in Keys
    PROVE  /\ HasSnapshot(k) => /\ snapshot[k] \in Payload
                                /\ snapshot[k].payment \in Payments
           /\ ~HasSnapshot(k) => snapshot[k].payment = "none"
BY DEF TypeOK, HasSnapshot, Payload, Nothing

\* _build_response_from_existing_payment builds a well-formed payload.
LEMMA FromRowFacts ==
    ASSUME TypeOK, NEW k \in Keys, NEW p \in RowsOf(k)
    PROVE  FromRow(p) \in Payload /\ FromRow(p).payment = p /\ p \in Payments
BY DEF TypeOK, RowsOf, FromRow, Payload, PaymentRow

\* One response: the locals of the other requests stay as they are.
LEMMA RespondFacts ==
    ASSUME TypeOK, NEW r \in Payments, NEW code \in Code,
           NEW body \in Payload \cup {Nothing}, Respond(r, code, body)
    PROVE  /\ pc' \in [Payments -> Step]
           /\ answer' \in [Payments -> [code : Code, body : Payload \cup {Nothing}]]
           /\ polls' = polls /\ decided' = decided
           /\ pc'[r] = "done"
           /\ answer'[r] = [code |-> code, body |-> body]
           /\ \A q \in Payments : q # r => pc'[q] = pc[q] /\ answer'[q] = answer[q]
BY DEF TypeOK, Respond, Step

\* One step forward without a response.
LEMMA GotoFacts ==
    ASSUME TypeOK, NEW r \in Payments, NEW step \in Step, Goto(r, step)
    PROVE  /\ pc' \in [Payments -> Step]
           /\ polls' = polls /\ decided' = decided /\ answer' = answer
           /\ pc'[r] = step
           /\ \A q \in Payments : q # r => pc'[q] = pc[q]
BY DEF TypeOK, Goto

\* A step of request r that reads the tables only: it ends without a 202, or with
\* the snapshot's payment, or it goes on to a step that owns nothing.
Moves(r, targets) ==
    \/ \E step \in targets : Goto(r, step)
    \/ \E code \in Code \ {"accepted"} : Respond(r, code, Nothing)
    \/ \E body \in Payload : /\ Respond(r, "accepted", body)
                             /\ HasSnapshot(KeyOf[r])
                             /\ body.payment = snapshot[KeyOf[r]].payment

\* _try_return_replayed_response answers the snapshot or goes on.
LEMMA ReplayMoves ==
    ASSUME CreateInv, NEW r \in Payments, NEW step \in Step, ReplayOr(r, step)
    PROVE  Moves(r, {step})
<1>1. KeyOf[r] \in Keys
  BY CreateAssumption
<1>2. CASE HasSnapshot(KeyOf[r])
  <2>1. snapshot[KeyOf[r]] \in Payload
    BY <1>1, <1>2, SnapshotFacts DEF CreateInv
  <2> QED BY <1>2, <2>1 DEF ReplayOr, Moves
<1>3. CASE ~HasSnapshot(KeyOf[r])
  BY <1>3 DEF ReplayOr, Moves
<1> QED BY <1>2, <1>3

\* A row found under the scope is the snapshot's payment (both are committed
\* together), so answering from the row names the same payment.
LEMMA RowMoves ==
    ASSUME CreateInv, NEW r \in Payments, NEW p \in RowsOf(KeyOf[r]),
           Respond(r, "accepted", FromRow(p))
    PROVE  Moves(r, {})
<1>1. KeyOf[r] \in Keys
  BY CreateAssumption
<1>2. FromRow(p) \in Payload /\ FromRow(p).payment = p
  BY <1>1, FromRowFacts DEF CreateInv
<1>3. HasSnapshot(KeyOf[r]) /\ p = snapshot[KeyOf[r]].payment
  BY <1>1 DEF CreateInv, CommittedTogether
<1> QED BY <1>2, <1>3 DEF Moves

\* The steps that only read the tables.
Reading(r) ==
    \/ Start(r) \/ AcquireLock(r) \/ AcquireFailsOpen(r) \/ RejectByControls(r)
    \/ LoseInsert(r) \/ ResolveConflict(r) \/ Observe(r)
    \/ PollSnapshot(r) \/ PollRow(r) \/ GiveUp(r) \/ Fail(r)

Onward == {"lock", "poll", "controls", "lost_race", "poll_row", "sleep"}

\* Every reading step moves its request as Moves says; only a lost INSERT, which
\* leaves a winner's snapshot behind, leads to lost_race.
LEMMA ReadingMoves ==
    ASSUME CreateInv, NEW r \in Payments, Reading(r)
    PROVE  /\ UNCHANGED tables
           /\ Moves(r, Onward)
           /\ pc'[r] = "lost_race" => HasSnapshot(KeyOf[r])
<1> USE DEF Code
<1>1. KeyOf[r] \in Keys /\ TypeOK
  BY CreateAssumption DEF CreateInv
<1>2. CASE Start(r)
  <2>1. Moves(r, {"lock"})
    BY <1>2, ReplayMoves DEF Start, Step
  <2> QED BY <1>1, <1>2, <2>1 DEF Moves, Start, Onward, Goto, Respond, TypeOK
<1>3. CASE AcquireLock(r)
  BY <1>1, <1>3 DEF AcquireLock, Moves, Onward, Goto, TypeOK
<1>4. CASE AcquireFailsOpen(r)
  BY <1>1, <1>4 DEF AcquireFailsOpen, Moves, Onward, Goto, TypeOK
<1>5. CASE RejectByControls(r)
  BY <1>1, <1>5 DEF RejectByControls, Moves, Respond, TypeOK
<1>6. CASE LoseInsert(r)
  <2>1. HasSnapshot(KeyOf[r])
    BY <1>1, <1>6 DEF LoseInsert, KeyFree, CreateInv, CommittedTogether
  <2> QED BY <1>6, <2>1 DEF LoseInsert, Moves, Onward
<1>7. CASE ResolveConflict(r)
  <2>1. HasSnapshot(KeyOf[r])
    BY <1>7 DEF ResolveConflict, CreateInv, LoserFinds
  <2>2. snapshot[KeyOf[r]] \in Payload
    BY <1>1, <2>1, SnapshotFacts
  <2>3. Respond(r, "accepted", snapshot[KeyOf[r]]) /\ UNCHANGED tables
    BY <1>7, <2>1 DEF ResolveConflict
  <2>4. pc'[r] = "done"
    BY <1>1, <2>3 DEF Respond, TypeOK
  <2> QED BY <2>1, <2>2, <2>3, <2>4 DEF Moves
<1>8. CASE Observe(r)
  <2> DEFINE body == [payment |-> r, status |-> decided[r]]
  <2>1. body \in Payload
    BY <1>8 DEF Observe, CreateInv, Decided, Payload, CreatedStatus, PaymentStatus
  <2>2. snapshot[KeyOf[r]].payment = r
    BY <1>8 DEF Observe, CreateInv, ObserverOwns
  <2>3. HasSnapshot(KeyOf[r])
    BY <1>1, <2>2, SnapshotFacts, CreateAssumption
  <2>4. Respond(r, "accepted", body) /\ UNCHANGED tables
    BY <1>8 DEF Observe
  <2>5. pc'[r] = "done"
    BY <1>1, <2>4 DEF Respond, TypeOK
  <2>6. body.payment = r
    OBVIOUS
  <2> HIDE DEF body
  <2> QED BY <2>1, <2>2, <2>3, <2>4, <2>5, <2>6 DEF Moves
<1>9. CASE PollSnapshot(r)
  <2>1. Moves(r, {"poll_row"})
    BY <1>9, ReplayMoves DEF PollSnapshot, Step
  <2> QED BY <1>1, <1>9, <2>1 DEF Moves, PollSnapshot, Onward, Goto, Respond, TypeOK
<1>10. CASE PollRow(r)
  <2>1. CASE \E p \in RowsOf(KeyOf[r]) : Respond(r, "accepted", FromRow(p))
    <3>1. Moves(r, {})
      BY <2>1, RowMoves
    <3> QED BY <1>1, <1>10, <3>1 DEF Moves, PollRow, Respond, TypeOK
  <2>2. CASE Goto(r, "sleep")
    BY <1>1, <1>10, <2>2 DEF PollRow, Moves, Onward, Goto, TypeOK
  <2> QED BY <1>10, <2>1, <2>2 DEF PollRow
<1>11. CASE GiveUp(r)
  BY <1>1, <1>11 DEF GiveUp, Moves, Respond, TypeOK
<1>12. CASE Fail(r)
  BY <1>1, <1>12 DEF Fail, Moves, Respond, TypeOK
<1> QED
  BY <1>2, <1>3, <1>4, <1>5, <1>6, <1>7, <1>8, <1>9, <1>10, <1>11, <1>12
     DEF Reading

-------------------------------------------------------------------------------
\* What a step leaves behind in Redis is a set of keys.
LEMMA RedisTyped ==
    ASSUME TypeOK, [Next]_vars
    PROVE  redisLock' \in [Keys -> BOOLEAN] /\ gateOpened' \in BOOLEAN
BY CreateAssumption
   DEF TypeOK, Next, RequestStep, vars, redis, Start, Fail, StatusMoves, ExpireLock,
       AcquireLock, AcquireFailsOpen, PassControls, RejectByControls, Persist,
       LoseInsert, ResolveConflict, Observe, PollSnapshot, PollRow, Wake, GiveUp

\* The invariant without the gate.
TablesInv ==
    /\ TypeOK
    /\ Decided
    /\ CommittedTogether
    /\ AnswersTrue
    /\ ObserverOwns
    /\ LoserFinds

\* Tables that do not change stay in agreement.
LEMMA TablesKept ==
    ASSUME CommittedTogether, UNCHANGED tables
    PROVE  CommittedTogether'
BY DEF CommittedTogether, tables, RowsOf, HasSnapshot, EventsOf

\* Steps that only read keep rows, events, snapshots and answers in agreement.
LEMMA ReadingKeeps ==
    ASSUME CreateInv, NEW r \in Payments, Reading(r), [Next]_vars
    PROVE  TablesInv'
<1>1. /\ UNCHANGED tables
      /\ Moves(r, Onward)
      /\ pc'[r] = "lost_race" => HasSnapshot(KeyOf[r])
  BY ReadingMoves
<1>2. redisLock' \in [Keys -> BOOLEAN] /\ gateOpened' \in BOOLEAN
  BY RedisTyped DEF CreateInv
<1>3. /\ pc' \in [Payments -> Step]
      /\ answer' \in [Payments -> [code : Code, body : Payload \cup {Nothing}]]
      /\ polls' = polls /\ decided' = decided
      /\ pc'[r] \in Onward \cup {"done"}
      /\ \A q \in Payments : q # r => pc'[q] = pc[q] /\ answer'[q] = answer[q]
      /\ \/ answer'[r] = answer[r]
         \/ answer'[r].code # "accepted"
         \/ /\ HasSnapshot(KeyOf[r])
            /\ answer'[r].body.payment = snapshot[KeyOf[r]].payment
  <2>1. CASE \E step \in Onward : Goto(r, step)
    <3>1. PICK step \in Onward : Goto(r, step)
      BY <2>1
    <3>2. step \in Step
      BY <3>1 DEF Onward, Step
    <3>3. /\ pc' \in [Payments -> Step]
          /\ polls' = polls /\ decided' = decided /\ answer' = answer
          /\ pc'[r] = step
          /\ \A q \in Payments : q # r => pc'[q] = pc[q]
      BY <3>1, <3>2, GotoFacts DEF CreateInv
    <3>4. answer \in [Payments -> [code : Code, body : Payload \cup {Nothing}]]
      BY DEF CreateInv, TypeOK
    <3> QED BY <3>1, <3>3, <3>4
  <2>2. CASE \E code \in Code \ {"accepted"} : Respond(r, code, Nothing)
    <3>1. PICK code \in Code \ {"accepted"} : Respond(r, code, Nothing)
      BY <2>2
    <3>2. /\ pc' \in [Payments -> Step]
          /\ answer' \in [Payments -> [code : Code, body : Payload \cup {Nothing}]]
          /\ polls' = polls /\ decided' = decided
          /\ pc'[r] = "done"
          /\ answer'[r] = [code |-> code, body |-> Nothing]
          /\ \A q \in Payments : q # r => pc'[q] = pc[q] /\ answer'[q] = answer[q]
      BY <3>1, RespondFacts DEF CreateInv
    <3>3. answer'[r].code # "accepted"
      BY <3>1, <3>2
    <3> QED BY <3>2, <3>3
  <2>3. CASE \E body \in Payload :
                /\ Respond(r, "accepted", body)
                /\ HasSnapshot(KeyOf[r])
                /\ body.payment = snapshot[KeyOf[r]].payment
    <3>1. PICK body \in Payload :
                /\ Respond(r, "accepted", body)
                /\ HasSnapshot(KeyOf[r])
                /\ body.payment = snapshot[KeyOf[r]].payment
      BY <2>3
    <3>2. "accepted" \in Code
      BY DEF Code
    <3>3. /\ pc' \in [Payments -> Step]
          /\ answer' \in [Payments -> [code : Code, body : Payload \cup {Nothing}]]
          /\ polls' = polls /\ decided' = decided
          /\ pc'[r] = "done"
          /\ answer'[r] = [code |-> "accepted", body |-> body]
          /\ \A q \in Payments : q # r => pc'[q] = pc[q] /\ answer'[q] = answer[q]
      BY <3>1, <3>2, RespondFacts DEF CreateInv
    <3>4. answer'[r].body = body
      BY <3>3
    <3> QED BY <3>1, <3>3, <3>4
  <2> QED BY <1>1, <2>1, <2>2, <2>3 DEF Moves
<1>4. TypeOK'
  BY <1>1, <1>2, <1>3 DEF CreateInv, TypeOK, tables
<1>5. Decided'
  BY <1>3 DEF CreateInv, Decided, Onward
<1>6. CommittedTogether'
  BY <1>1, TablesKept DEF CreateInv
<1>7. AnswersTrue'
  BY <1>1, <1>3 DEF CreateInv, AnswersTrue, Accepted, HasSnapshot, tables
<1>8. ObserverOwns'
  BY <1>1, <1>3 DEF CreateInv, ObserverOwns, Onward, tables
<1>9. LoserFinds'
  BY <1>1, <1>3 DEF CreateInv, LoserFinds, HasSnapshot, tables
<1> QED BY <1>4, <1>5, <1>6, <1>7, <1>8, <1>9 DEF TablesInv

\* The controls choose a status; nothing is written yet.
LEMMA PassControlsKeeps ==
    ASSUME CreateInv, NEW r \in Payments, PassControls(r)
    PROVE  TablesInv'
<1> USE DEF CreateInv, tables, redis
<1>1. PICK status \in CreatedStatus : decided' = [decided EXCEPT ![r] = status]
  BY DEF PassControls, StatusFromDecisions, CreatedStatus
<1>2. /\ pc' = [pc EXCEPT ![r] = "commit"]
      /\ UNCHANGED <<tables, redis, polls, answer>>
  BY DEF PassControls
<1>3. TypeOK'
  BY <1>1, <1>2 DEF TypeOK, Step
<1>4. Decided'
  BY <1>1, <1>2 DEF TypeOK, Decided
<1>5. CommittedTogether'
  BY <1>2, TablesKept
<1>6. AnswersTrue'
  BY <1>2 DEF AnswersTrue, Accepted, HasSnapshot
<1>7. ObserverOwns' /\ LoserFinds'
  BY <1>2 DEF TypeOK, ObserverOwns, LoserFinds, HasSnapshot
<1> QED BY <1>3, <1>4, <1>5, <1>6, <1>7 DEF TablesInv

\* One more poll, within the bound of the loop.
LEMMA WakeKeeps ==
    ASSUME CreateInv, NEW r \in Payments, Wake(r)
    PROVE  TablesInv'
<1> USE DEF CreateInv, Wake, tables, redis
<1>1. TypeOK'
  BY CreateAssumption DEF TypeOK, Step
<1>2. Decided'
  BY DEF TypeOK, Decided
<1>3. CommittedTogether'
  BY TablesKept
<1>4. AnswersTrue'
  BY DEF AnswersTrue, Accepted, HasSnapshot
<1>5. ObserverOwns' /\ LoserFinds'
  BY DEF TypeOK, ObserverOwns, LoserFinds, HasSnapshot
<1> QED BY <1>1, <1>2, <1>3, <1>4, <1>5 DEF TablesInv

\* A lock that expires changes no table and no request.
LEMMA ExpireLockKeeps ==
    ASSUME CreateInv, NEW k \in Keys, ExpireLock(k)
    PROVE  TablesInv'
<1> USE DEF CreateInv, ExpireLock, tables, local
<1>1. TypeOK'
  BY DEF TypeOK
<1>2. CommittedTogether'
  BY TablesKept
<1>3. Decided' /\ AnswersTrue'
  BY DEF Decided, AnswersTrue, Accepted, HasSnapshot
<1>4. ObserverOwns' /\ LoserFinds'
  BY DEF ObserverOwns, LoserFinds, HasSnapshot
<1> QED BY <1>1, <1>2, <1>3, <1>4 DEF TablesInv

\* The worker and the reviewers move rows that exist to statuses that exist.
LEMMA StatusMovesKeeps ==
    ASSUME CreateInv, NEW p \in Payments, StatusMoves(p)
    PROVE  TablesInv'
<1> USE DEF CreateInv, StatusMoves, redis, local
<1>1. PICK status \in LaterStatus(snapshot[KeyOf[p]].status) :
        payments' = [payments EXCEPT ![p].status = status]
  OBVIOUS
<1>2. status \in PaymentStatus /\ payments[p].status # "ABSENT"
  BY <1>1 DEF LaterStatus, PaymentStatus
<1>3. /\ payments' \in [Payments -> PaymentRow]
      /\ \A q \in Payments :
           payments'[q].status = "ABSENT" <=> payments[q].status = "ABSENT"
  <2>1. payments \in [Payments -> PaymentRow]
    BY DEF TypeOK
  <2>2. [payments[p] EXCEPT !.status = status] \in PaymentRow
    BY <1>2, <2>1 DEF PaymentRow
  <2>3. payments' = [payments EXCEPT ![p] = [payments[p] EXCEPT !.status = status]]
    BY <1>1
  <2>4. payments' \in [Payments -> PaymentRow]
    BY <2>1, <2>2, <2>3
  <2>5. payments'[p].status = status /\ status # "ABSENT"
    BY <1>2, <2>1, <2>3 DEF PaymentRow, PaymentStatus
  <2> QED BY <1>2, <2>1, <2>3, <2>4, <2>5
<1>4. TypeOK'
  BY <1>3 DEF TypeOK
<1>5. CommittedTogether'
  BY <1>3 DEF CommittedTogether, RowsOf, HasSnapshot, EventsOf
<1>6. Decided' /\ AnswersTrue' /\ ObserverOwns' /\ LoserFinds'
  BY DEF Decided, AnswersTrue, Accepted, ObserverOwns, LoserFinds, HasSnapshot
<1> QED BY <1>4, <1>5, <1>6 DEF TablesInv

\* add_outbox_event appends: the new event is its payment's only new one, and the
\* events of the other payments stay where they are.
LEMMA AddEventFacts ==
    ASSUME TypeOK, NEW r \in Payments, NEW type \in EventType,
           outbox' = AddEvent(outbox, type, r)
    PROVE  /\ outbox' \in Seq(OutboxEvent)
           /\ EventsOf(r) = {} =>
                \E e \in EventsOf(r)' : EventsOf(r)' = {e} /\ outbox'[e].type = type
           /\ \A p \in Payments \ {r} :
                /\ EventsOf(p)' = EventsOf(p)
                /\ \A e \in EventsOf(p) : outbox'[e] = outbox[e]
<1> DEFINE event == NewEvent(type, r)
<1>1. /\ event \in OutboxEvent
      /\ event.type = type
      /\ event.aggregate = r
  BY DEF NewEvent, OutboxEvent, OutboxStatus
<1>2. outbox \in Seq(OutboxEvent) /\ outbox' = Append(outbox, event)
  BY DEF TypeOK, AddEvent
<1> HIDE DEF event
<1> DEFINE last == Len(outbox) + 1
<1>3. /\ outbox' \in Seq(OutboxEvent)
      /\ DOMAIN outbox' = DOMAIN outbox \cup {last}
      /\ last \notin DOMAIN outbox
      /\ outbox'[last] = event
      /\ \A e \in DOMAIN outbox : outbox'[e] = outbox[e]
  BY <1>1, <1>2
<1> HIDE DEF last
<1>4. EventsOf(r) = {} => EventsOf(r)' = {last}
  BY <1>1, <1>3 DEF EventsOf
<1>5. \A p \in Payments \ {r} :
        /\ EventsOf(p)' = EventsOf(p)
        /\ \A e \in EventsOf(p) : outbox'[e] = outbox[e]
  BY <1>1, <1>3 DEF EventsOf
<1> QED BY <1>1, <1>3, <1>4, <1>5

\* What the commit's event rule comes to: the event of the status, or none.
LEMMA CreatedEventsFacts ==
    ASSUME CreateInv, NEW r \in Payments, NEW status \in CreatedStatus,
           EventsOf(r) = {}, outbox' = CreatedEvents(r, status)
    PROVE  /\ outbox' \in Seq(OutboxEvent)
           /\ IF status # "BLOCKED"
              THEN \E e \in EventsOf(r)' : /\ EventsOf(r)' = {e}
                                           /\ outbox'[e].type = EventFor(status)
              ELSE EventsOf(r)' = {}
           /\ \A p \in Payments \ {r} :
                /\ EventsOf(p)' = EventsOf(p)
                /\ \A e \in EventsOf(p) : outbox'[e] = outbox[e]
<1> USE DEF CreateInv
<1>1. CASE status = "BLOCKED"
  <2>1. outbox' = outbox
    BY <1>1 DEF CreatedEvents
  <2> QED BY <1>1, <2>1 DEF EventsOf, TypeOK
<1>2. CASE status # "BLOCKED"
  <2>1. EventFor(status) \in EventType
    BY DEF EventFor, EventType
  <2>2. outbox' = AddEvent(outbox, EventFor(status), r)
    BY <1>2 DEF CreatedEvents, EventFor, CreatedStatus
  <2> QED BY <1>2, <2>1, <2>2, AddEventFacts
<1> QED BY <1>1, <1>2

\* The commit: row, event and snapshot appear together, under a free key.
LEMMA PersistKeeps ==
    ASSUME CreateInv, NEW r \in Payments, Persist(r)
    PROVE  TablesInv'
<1> DEFINE k == KeyOf[r]
           status == decided[r]
<1>1. k \in Keys /\ TypeOK /\ CommittedTogether
  BY CreateAssumption DEF CreateInv
<1>2. status \in CreatedStatus
  BY DEF Persist, CreateInv, Decided
<1>3. RowsOf(k) = {} /\ ~HasSnapshot(k)
  BY DEF Persist, KeyFree
<1>4. snapshot[k] = Nothing
  BY <1>3 DEF HasSnapshot
<1>5. \A p \in Payments : KeyOf[p] = k => EventsOf(p) = {}
  BY <1>1, <1>4, CreateAssumption DEF CommittedTogether, Nothing
<1> DEFINE taken == [payment |-> r, status |-> status]
<1>6. /\ payments' = [payments EXCEPT ![r] = NewPayment(status)]
      /\ outbox' = CreatedEvents(r, status)
      /\ snapshot' = [snapshot EXCEPT ![k] = taken]
      /\ redis' = redis
      /\ pc' = [pc EXCEPT ![r] = "observe"]
      /\ polls' = polls /\ decided' = decided /\ answer' = answer
  BY DEF Persist, Goto
<1>7. /\ taken \in Payload /\ taken # Nothing
      /\ taken.payment = r /\ taken.status = status
  BY <1>2, CreateAssumption DEF Payload, Nothing, CreatedStatus, PaymentStatus
<1>8. /\ NewPayment(status) \in PaymentRow
      /\ NewPayment(status).status = status /\ status # "ABSENT"
  BY <1>2 DEF NewPayment, PaymentRow, CreatedStatus, PaymentStatus
<1>9. /\ outbox' \in Seq(OutboxEvent)
      /\ IF status # "BLOCKED"
         THEN \E e \in EventsOf(r)' : /\ EventsOf(r)' = {e}
                                      /\ outbox'[e].type = EventFor(status)
         ELSE EventsOf(r)' = {}
      /\ \A p \in Payments \ {r} :
           /\ EventsOf(p)' = EventsOf(p)
           /\ \A e \in EventsOf(p) : outbox'[e] = outbox[e]
  <2>1. EventsOf(r) = {}
    BY <1>5
  <2> QED BY <1>2, <1>6, <2>1, CreatedEventsFacts
<1> HIDE DEF taken, status
<1>10. /\ payments' \in [Payments -> PaymentRow]
       /\ payments'[r].status # "ABSENT"
       /\ \A p \in Payments \ {r} : payments'[p] = payments[p]
  BY <1>1, <1>6, <1>8 DEF TypeOK
<1>11. /\ snapshot' \in [Keys -> Payload \cup {Nothing}]
       /\ snapshot'[k] = taken
       /\ \A j \in Keys \ {k} : snapshot'[j] = snapshot[j]
  BY <1>1, <1>6, <1>7 DEF TypeOK
<1> HIDE DEF k
<1>12. TypeOK'
  <2>1. pc' \in [Payments -> Step]
    BY <1>1, <1>6 DEF TypeOK, Step
  <2> QED BY <1>1, <1>6, <1>9, <1>10, <1>11, <2>1 DEF TypeOK, redis
<1>13. Decided'
  BY <1>1, <1>2, <1>6 DEF CreateInv, Decided, TypeOK, status
<1>14. CommittedTogether'
  <2>1. ASSUME NEW j \in Keys
        PROVE  RowsOf(j)' = IF HasSnapshot(j)' THEN {snapshot'[j].payment} ELSE {}
    <3>1. CASE j = k
      BY <1>3, <1>7, <1>10, <1>11, <3>1 DEF RowsOf, HasSnapshot, k
    <3>2. CASE j # k
      <4>1. RowsOf(j)' = RowsOf(j)
        BY <1>10, <3>2 DEF RowsOf, k
      <4> QED BY <1>1, <1>11, <3>2, <4>1 DEF CommittedTogether, HasSnapshot
    <3> QED BY <3>1, <3>2
  <2>2. ASSUME NEW p \in Payments
        PROVE  IF /\ snapshot'[KeyOf[p]].payment = p
                  /\ snapshot'[KeyOf[p]].status # "BLOCKED"
               THEN \E e \in EventsOf(p)' :
                      /\ EventsOf(p)' = {e}
                      /\ outbox'[e].type = EventFor(snapshot'[KeyOf[p]].status)
               ELSE EventsOf(p)' = {}
    <3>0. KeyOf[p] \in Keys
      BY CreateAssumption
    <3>1. CASE p = r
      BY <1>7, <1>9, <1>11, <3>1 DEF k
    <3>2. CASE p # r /\ KeyOf[p] = k
      BY <1>5, <1>7, <1>9, <1>11, <3>2
    <3>3. CASE KeyOf[p] # k
      <4>1. p # r /\ snapshot'[KeyOf[p]] = snapshot[KeyOf[p]]
        BY <1>11, <3>0, <3>3 DEF k
      <4>2. /\ EventsOf(p)' = EventsOf(p)
            /\ \A e \in EventsOf(p) : outbox'[e] = outbox[e]
        BY <1>9, <4>1
      <4> QED BY <1>1, <4>1, <4>2 DEF CommittedTogether
    <3> QED BY <3>1, <3>2, <3>3
  <2> QED BY <2>1, <2>2 DEF CommittedTogether
<1>15. AnswersTrue'
  <2> SUFFICES ASSUME NEW q \in Payments, Accepted(q)'
               PROVE  /\ HasSnapshot(KeyOf[q])'
                      /\ answer'[q].body.payment = snapshot'[KeyOf[q]].payment
    BY DEF AnswersTrue
  <2>1. KeyOf[q] \in Keys /\ Accepted(q)
    BY <1>6, CreateAssumption DEF Accepted
  <2>2. /\ HasSnapshot(KeyOf[q])
        /\ answer[q].body.payment = snapshot[KeyOf[q]].payment
    BY <2>1 DEF CreateInv, AnswersTrue
  <2>3. KeyOf[q] # k
    BY <1>3, <2>2
  <2> QED BY <1>6, <1>11, <2>1, <2>2, <2>3 DEF HasSnapshot
<1>16. ObserverOwns'
  <2> SUFFICES ASSUME NEW q \in Payments, pc'[q] = "observe"
               PROVE  snapshot'[KeyOf[q]].payment = q
    BY DEF ObserverOwns
  <2>1. CASE q = r
    BY <1>7, <1>11, <2>1 DEF k
  <2>2. CASE q # r
    <3>1. pc[q] = "observe" /\ KeyOf[q] \in Keys
      BY <1>1, <1>6, <2>2, CreateAssumption DEF TypeOK
    <3>2. snapshot[KeyOf[q]].payment = q
      BY <3>1 DEF CreateInv, ObserverOwns
    <3>3. KeyOf[q] # k
      BY <1>4, <3>2, CreateAssumption DEF Nothing
    <3> QED BY <1>11, <3>1, <3>2, <3>3
  <2> QED BY <2>1, <2>2
<1>17. LoserFinds'
  <2> SUFFICES ASSUME NEW q \in Payments, pc'[q] = "lost_race"
               PROVE  HasSnapshot(KeyOf[q])'
    BY DEF LoserFinds
  <2>1. pc[q] = "lost_race" /\ KeyOf[q] \in Keys
    BY <1>1, <1>6, CreateAssumption DEF TypeOK
  <2>2. HasSnapshot(KeyOf[q])
    BY <2>1 DEF CreateInv, LoserFinds
  <2> QED BY <1>7, <1>11, <2>1, <2>2 DEF HasSnapshot
<1> QED BY <1>12, <1>13, <1>14, <1>15, <1>16, <1>17 DEF TablesInv

\* No step of the system breaks the agreement of the tables and the answers.
LEMMA TablesStep ==
    ASSUME CreateInv, [Next]_vars
    PROVE  TablesInv'
<1>1. ASSUME NEW r \in Payments, Reading(r)
      PROVE  TablesInv'
  BY <1>1, ReadingKeeps
<1>2. ASSUME NEW r \in Payments, PassControls(r) \/ Persist(r) \/ Wake(r)
      PROVE  TablesInv'
  BY <1>2, PassControlsKeeps, PersistKeeps, WakeKeeps
<1>3. ASSUME NEW r \in Payments, StatusMoves(r)
      PROVE  TablesInv'
  BY <1>3, StatusMovesKeeps
<1>4. ASSUME NEW k \in Keys, ExpireLock(k)
      PROVE  TablesInv'
  BY <1>4, ExpireLockKeeps
<1>5. CASE UNCHANGED vars
  <2> USE <1>5 DEF CreateInv, vars, tables, redis, local
  <2>1. TypeOK' /\ Decided'
    BY DEF TypeOK, Decided
  <2>2. CommittedTogether'
    BY TablesKept
  <2>3. AnswersTrue' /\ ObserverOwns' /\ LoserFinds'
    BY DEF AnswersTrue, Accepted, HasSnapshot, ObserverOwns, LoserFinds
  <2> QED BY <2>1, <2>2, <2>3 DEF TablesInv
<1> QED BY <1>1, <1>2, <1>3, <1>4, <1>5 DEF Next, RequestStep, Reading

-------------------------------------------------------------------------------
(* The gate.                                                               *)

\* Only SET NX lets a request through the gate; every other step of a request
\* leaves Redis alone and nobody else moves.
LEMMA NobodyEnters ==
    ASSUME TypeOK, NEW r \in Payments,
           \/ Start(r) \/ PassControls(r) \/ RejectByControls(r) \/ Persist(r)
           \/ LoseInsert(r) \/ ResolveConflict(r) \/ Observe(r) \/ PollSnapshot(r)
           \/ PollRow(r) \/ Wake(r) \/ GiveUp(r) \/ Fail(r) \/ StatusMoves(r)
    PROVE  /\ UNCHANGED redis
           /\ \A q \in Payments : InControls(q)' => InControls(q)
<1> USE DEF TypeOK, InControls, Goto, Respond
<1>1. CASE Start(r) \/ PollSnapshot(r)
  BY <1>1 DEF Start, PollSnapshot, ReplayOr
<1>2. CASE PassControls(r) \/ RejectByControls(r) \/ Persist(r) \/ LoseInsert(r)
  BY <1>2 DEF PassControls, RejectByControls, Persist, LoseInsert
<1>3. CASE ResolveConflict(r) \/ Observe(r)
  BY <1>3 DEF ResolveConflict, Observe
<1>4. CASE PollRow(r) \/ Wake(r) \/ GiveUp(r) \/ Fail(r)
  BY <1>4 DEF PollRow, Wake, GiveUp, Fail
<1>5. CASE StatusMoves(r)
  BY <1>5 DEF StatusMoves, local
<1> QED BY <1>1, <1>2, <1>3, <1>4, <1>5

\* While the gate stands, whoever enters found the lock free, so that nobody else
\* of the scope is inside.
LEMMA GateStep ==
    ASSUME CreateInv, [Next]_vars
    PROVE  GateHeld' /\ GateIsExclusive'
<1> USE DEF CreateInv
<1>1. CASE gateOpened'
  BY <1>1 DEF GateHeld, GateIsExclusive
<1>2. ASSUME UNCHANGED redis, \A q \in Payments : InControls(q)' => InControls(q)
      PROVE  GateHeld' /\ GateIsExclusive'
  BY <1>2 DEF GateHeld, GateIsExclusive, redis
<1>3. ASSUME NEW r \in Payments, AcquireLock(r), ~gateOpened'
      PROVE  GateHeld' /\ GateIsExclusive'
  <2>1. /\ ~gateOpened /\ KeyOf[r] \in Keys
        /\ redisLock' = [redisLock EXCEPT ![KeyOf[r]] = TRUE]
        /\ pc' = [pc EXCEPT ![r] = IF redisLock[KeyOf[r]] THEN "poll"
                                                          ELSE "controls"]
    BY <1>3, CreateAssumption DEF AcquireLock, Goto
  <2>2. redisLock \in [Keys -> BOOLEAN] /\ pc \in [Payments -> Step]
    BY DEF TypeOK
  <2>3. \A q \in Payments : KeyOf[q] \in Keys
    BY CreateAssumption
  <2>4. \A q \in Payments \ {r} : InControls(q)' => InControls(q)
    BY <2>1, <2>2 DEF InControls
  <2>5. InControls(r)' => ~redisLock[KeyOf[r]]
    BY <2>1, <2>2 DEF InControls
  <2>6. \A q \in Payments \ {r} : InControls(q)' => redisLock[KeyOf[q]]
    BY <2>1, <2>4 DEF GateHeld
  <2>7. GateHeld'
    BY <2>1, <2>2, <2>3, <2>6 DEF GateHeld
  <2>8. GateIsExclusive'
    BY <2>1, <2>4, <2>5, <2>6 DEF GateIsExclusive
  <2> QED BY <2>7, <2>8
<1>4. ASSUME NEW r \in Payments, AcquireFailsOpen(r)
      PROVE  gateOpened'
  BY <1>4 DEF AcquireFailsOpen
<1>5. ASSUME NEW k \in Keys, ExpireLock(k)
      PROVE  gateOpened'
  BY <1>5 DEF ExpireLock
<1>6. CASE UNCHANGED vars
  BY <1>2, <1>6 DEF vars, redis, local, InControls
<1>7. ASSUME NEW r \in Payments, ~gateOpened',
             Start(r) \/ RequestStep(r) \/ Fail(r) \/ StatusMoves(r)
      PROVE  GateHeld' /\ GateIsExclusive'
  BY <1>2, <1>3, <1>4, <1>7, NobodyEnters DEF RequestStep
<1> QED BY <1>1, <1>5, <1>6, <1>7 DEF Next

-------------------------------------------------------------------------------
(* Theorems.                                                               *)

\* An API that has served nothing satisfies the invariant.
LEMMA CreateInvInit == Init => CreateInv
<1> SUFFICES ASSUME Init PROVE CreateInv
  OBVIOUS
<1> USE CreateAssumption DEF Init
<1>1. TypeOK
  <2>1. payments \in [Payments -> PaymentRow]
    BY DEF NoRow, PaymentRow
  <2>2. answer \in [Payments -> [code : Code, body : Payload \cup {Nothing}]]
    BY DEF Code
  <2>3. /\ outbox \in Seq(OutboxEvent)
        /\ snapshot \in [Keys -> Payload \cup {Nothing}]
        /\ polls \in [Payments -> 0 .. MaxPolls]
    OBVIOUS
  <2>4. /\ redisLock \in [Keys -> BOOLEAN]
        /\ gateOpened \in BOOLEAN
        /\ pc \in [Payments -> Step]
        /\ decided \in [Payments -> CreatedStatus \cup {"ABSENT"}]
    BY DEF Step
  <2> QED BY <2>1, <2>2, <2>3, <2>4 DEF TypeOK
<1>2. Decided /\ ObserverOwns /\ LoserFinds
  BY DEF Decided, ObserverOwns, LoserFinds
<1>3. CommittedTogether
  <2>1. \A k \in Keys : RowsOf(k) = {} /\ ~HasSnapshot(k)
    BY DEF RowsOf, HasSnapshot, NoRow
  <2>2. \A p \in Payments : EventsOf(p) = {} /\ snapshot[KeyOf[p]].payment # p
    BY DEF EventsOf, Nothing
  <2> QED BY <2>1, <2>2 DEF CommittedTogether
<1>4. AnswersTrue
  BY DEF AnswersTrue, Accepted
<1>5. GateHeld /\ GateIsExclusive
  BY DEF GateHeld, GateIsExclusive, InControls
<1> QED BY <1>1, <1>2, <1>3, <1>4, <1>5 DEF CreateInv

\* CreateInv holds in every reachable state of the create use case.
THEOREM CreateInvariance == Spec => []CreateInv
<1>1. CreateInv /\ [Next]_vars => CreateInv'
  BY TablesStep, GateStep DEF CreateInv, TablesInv
<1> QED BY <1>1, CreateInvInit, PTL DEF Spec

\* Every table, lock and response keeps its shape, for any requests and scopes.
THEOREM CreateTypes == Spec => []TypeOK
<1>1. CreateInv => TypeOK
  BY DEF CreateInv
<1> QED BY <1>1, CreateInvariance, PTL

\* _persist_payment_transaction is all or nothing: payment, snapshot and event
\* agree for every scope, whoever crashes, loses the INSERT or retries.
THEOREM CommitAgreement == Spec => []CommittedTogether
<1>1. CreateInv => CommittedTogether
  BY DEF CreateInv
<1> QED BY <1>1, CreateInvariance, PTL

\* Idempotency of POST /payments: with any number of concurrent requests, retries,
\* Redis outages and expired locks, all 202 of a scope name its only payment.
THEOREM Idempotency == Spec => []OnePaymentPerKey
<1>1. CreateInv => OnePaymentPerKey
  BY CreateAssumption
     DEF CreateInv, OnePaymentPerKey, AnswersTrue, CommittedTogether
<1> QED BY <1>1, CreateInvariance, PTL

\* IdempotencyService.acquire is a mutual exclusion for a scope's controls as long
\* as Redis answers and no lock expires.
THEOREM GateExclusion == Spec => []GateIsExclusive
<1>1. CreateInv => GateIsExclusive
  BY DEF CreateInv
<1> QED BY <1>1, CreateInvariance, PTL

\* A step of one request moves that request only.
LEMMA OnlyMine ==
    ASSUME TypeOK, NEW q \in Payments, Start(q) \/ RequestStep(q) \/ Fail(q),
           NEW r \in Payments \ {q}
    PROVE  pc'[r] = pc[r]
<1> USE DEF TypeOK, Goto, Respond
<1>1. CASE Start(q) \/ PollSnapshot(q)
  BY <1>1 DEF Start, PollSnapshot, ReplayOr
<1>2. CASE AcquireLock(q) \/ AcquireFailsOpen(q) \/ PassControls(q)
  BY <1>2 DEF AcquireLock, AcquireFailsOpen, PassControls
<1>3. CASE RejectByControls(q) \/ Persist(q) \/ LoseInsert(q)
  BY <1>3 DEF RejectByControls, Persist, LoseInsert
<1>4. CASE ResolveConflict(q) \/ Observe(q)
  BY <1>4 DEF ResolveConflict, Observe
<1>5. CASE PollRow(q) \/ Wake(q) \/ GiveUp(q) \/ Fail(q)
  BY <1>5 DEF PollRow, Wake, GiveUp, Fail
<1> QED BY <1>1, <1>2, <1>3, <1>4, <1>5 DEF RequestStep

\* _resolve_replayed_after_conflict always finds the winner's snapshot: a request
\* that lost the INSERT is never answered 409.
THEOREM LosersAreReplayed == Spec => LoserIsReplayed
<1>1. ASSUME CreateInv, [Next]_vars, NEW r \in Payments,
             pc[r] = "lost_race", pc'[r] = "done"
      PROVE  answer'[r].code \in {"accepted", "error"}
  <2>1. ResolveConflict(r) \/ Fail(r)
    <3>1. pc # pc' /\ TypeOK
      BY <1>1 DEF CreateInv
    <3>2. PICK q \in Payments : Start(q) \/ RequestStep(q) \/ Fail(q)
      BY <1>1, <3>1 DEF Next, vars, local, StatusMoves, ExpireLock
    <3>3. q = r
      BY <1>1, <3>1, <3>2, OnlyMine
    <3> QED
      BY <1>1, <3>2, <3>3
         DEF RequestStep, Start, AcquireLock, AcquireFailsOpen, PassControls,
             RejectByControls, Persist, LoseInsert, Observe, PollSnapshot, PollRow,
             Wake, GiveUp
  <2>2. HasSnapshot(KeyOf[r])
    BY <1>1 DEF CreateInv, LoserFinds
  <2> QED BY <1>1, <2>1, <2>2 DEF CreateInv, TypeOK, ResolveConflict, Fail, Respond
<1>2. CreateInv /\ [Next]_vars =>
        [\A r \in Payments :
           pc[r] = "lost_race" /\ pc'[r] = "done"
             => answer'[r].code \in {"accepted", "error"}]_vars
  BY <1>1
<1> QED BY <1>2, CreateInvariance, PTL DEF Spec, LoserIsReplayed

(***************************************************************************)
(* CreatePayment implements IdempotentCreation, for any number of requests *)
(* and scopes, and a 409 always has a cause.  Both rest on CreateInv.      *)
(***************************************************************************)

\* An answer is the end of its request.
AnswerEnds == \A r \in Payments : answer[r].code # "waiting" => pc[r] = "done"

\* The values the abstract variables take.
Created == [k \in Keys |-> RowsOf(k)]
Answered == {r \in Payments : pc[r] = "done"}
Told == [r \in Payments |-> IF Accepted(r) THEN {answer[r].body.payment} ELSE {}]

\* A request that has been answered takes no further step.
LEMMA NotDone ==
    ASSUME NEW r \in Payments, Start(r) \/ RequestStep(r) \/ Fail(r)
    PROVE  pc[r] # "done"
BY DEF Start, RequestStep, Fail, AcquireLock, AcquireFailsOpen, PassControls,
       RejectByControls, Persist, LoseInsert, ResolveConflict, Observe,
       PollSnapshot, PollRow, Wake, GiveUp

\* A step that answers nobody and creates nothing is invisible to clients.
LEMMA Invisible ==
    ASSUME UNCHANGED <<Created, Answered, Told>>
    PROVE  [Promise!Next]_(Promise!vars)
BY DEF Promise!vars, Created, Answered, Told

\* A request that moves on without an answer.
LEMMA GotoInvisible ==
    ASSUME CreateInv, AnswerEnds, NEW r \in Payments, pc[r] # "done",
           pc' \in [Payments -> Step], pc'[r] # "done", UNCHANGED answer,
           \A q \in Payments : q # r => pc'[q] = pc[q]
    PROVE  AnswerEnds' /\ UNCHANGED <<Answered, Told>>
BY DEF AnswerEnds, Accepted, Answered, Told

\* Steps that only read the tables answer their request as the promise allows.
LEMMA ReadingPromised ==
    ASSUME CreateInv, AnswerEnds, NEW r \in Payments, Reading(r)
    PROVE  AnswerEnds' /\ [Promise!Next]_(Promise!vars)
<1>1. UNCHANGED tables /\ Moves(r, Onward) /\ TypeOK /\ KeyOf[r] \in Keys
  BY ReadingMoves, CreateAssumption DEF CreateInv
<1>2. pc[r] # "done"
  BY NotDone DEF Reading, RequestStep
<1>3. UNCHANGED Created
  BY <1>1 DEF tables, Created, RowsOf
<1>4. ASSUME NEW step \in Onward, Goto(r, step)
      PROVE  AnswerEnds' /\ [Promise!Next]_(Promise!vars)
  <2>1. step \in Step /\ step # "done"
    BY DEF Onward, Step
  <2>2. /\ pc' \in [Payments -> Step] /\ pc'[r] # "done" /\ UNCHANGED answer
        /\ \A q \in Payments : q # r => pc'[q] = pc[q]
    BY <1>1, <1>4, <2>1, GotoFacts
  <2> QED BY <1>2, <1>3, <2>2, GotoInvisible, Invisible
<1>5. ASSUME NEW code \in Code, NEW body \in Payload \cup {Nothing},
             Respond(r, code, body)
      PROVE  /\ AnswerEnds'
             /\ Answered' = Answered \cup {r}
             /\ code # "accepted" => Told' = Told
             /\ code = "accepted" => Told' = [Told EXCEPT ![r] = {body.payment}]
  <2>1. /\ pc' \in [Payments -> Step] /\ pc'[r] = "done"
        /\ answer'[r] = [code |-> code, body |-> body]
        /\ \A q \in Payments : q # r => pc'[q] = pc[q] /\ answer'[q] = answer[q]
    BY <1>1, <1>5, RespondFacts
  <2>2. AnswerEnds' /\ Answered' = Answered \cup {r}
    BY <2>1 DEF AnswerEnds, Accepted, Answered
  <2>3. ~Accepted(r)
    BY <1>2 DEF AnswerEnds, Accepted
  <2>4. \A q \in Payments : q # r => Told'[q] = Told[q]
    BY <2>1 DEF Told, Accepted
  <2>5. /\ Told[r] = {}
        /\ Told'[r] = IF code = "accepted" THEN {body.payment} ELSE {}
    BY <2>1, <2>3 DEF Told, Accepted
  <2>6. \A q \in Payments : code # "accepted" => Told'[q] = Told[q]
    BY <2>4, <2>5
  <2>7. /\ Told = [q \in Payments |-> Told[q]]
        /\ Told' = [q \in Payments |-> Told'[q]]
    BY DEF Told
  <2>8. code # "accepted" => Told' = Told
    BY <2>6, <2>7
  <2>9. code = "accepted" => Told' = [Told EXCEPT ![r] = {body.payment}]
    BY <2>4, <2>5, <2>7
  <2> QED BY <2>2, <2>8, <2>9
<1>6. ASSUME NEW code \in Code \ {"accepted"}, Respond(r, code, Nothing)
      PROVE  AnswerEnds' /\ [Promise!Next]_(Promise!vars)
  <2>1. AnswerEnds' /\ Answered' = Answered \cup {r} /\ Told' = Told
    BY <1>5, <1>6
  <2>2. Promise!Refuse(r)
    BY <1>2, <1>3, <2>1 DEF Promise!Refuse, Created, Answered, Told
  <2> QED BY <2>1, <2>2 DEF Promise!Next
<1>7. ASSUME NEW body \in Payload, Respond(r, "accepted", body),
             HasSnapshot(KeyOf[r]), body.payment = snapshot[KeyOf[r]].payment
      PROVE  AnswerEnds' /\ [Promise!Next]_(Promise!vars)
  <2>1. /\ AnswerEnds' /\ Answered' = Answered \cup {r}
        /\ Told' = [Told EXCEPT ![r] = {body.payment}]
    BY <1>5, <1>7 DEF Code
  <2>2. body.payment \in Created[KeyOf[r]]
    BY <1>1, <1>7 DEF CreateInv, CommittedTogether, Created
  <2>3. Promise!Tell(r)
    BY <1>2, <1>3, <2>1, <2>2 DEF Promise!Tell, Created, Answered, Told
  <2> QED BY <2>1, <2>3 DEF Promise!Next
<1> QED BY <1>1, <1>4, <1>6, <1>7 DEF Moves

\* The commit creates the only payment of its scope.
LEMMA PersistPromised ==
    ASSUME CreateInv, AnswerEnds, NEW r \in Payments, Persist(r)
    PROVE  AnswerEnds' /\ [Promise!Next]_(Promise!vars)
<1>1. TypeOK /\ KeyOf[r] \in Keys /\ RowsOf(KeyOf[r]) = {} /\ pc[r] # "done"
  BY CreateAssumption DEF CreateInv, Persist, KeyFree
<1>2. /\ pc' \in [Payments -> Step] /\ pc'[r] # "done" /\ UNCHANGED answer
      /\ \A q \in Payments : q # r => pc'[q] = pc[q]
  BY <1>1, GotoFacts DEF Persist, Step
<1>3. AnswerEnds' /\ UNCHANGED <<Answered, Told>>
  BY <1>1, <1>2, GotoInvisible
<1>4. payments'[r].status # "ABSENT"
      /\ \A q \in Payments : q # r => payments'[q] = payments[q]
  BY <1>1 DEF Persist, NewPayment, TypeOK, CreateInv, Decided, CreatedStatus
<1>5. Created' = [Created EXCEPT ![KeyOf[r]] = {r}]
  <2>1. RowsOf(KeyOf[r])' = {r}
    BY <1>1, <1>4 DEF RowsOf
  <2>2. \A k \in Keys : k # KeyOf[r] => RowsOf(k)' = RowsOf(k)
    BY <1>4 DEF RowsOf
  <2> QED BY <1>1, <2>1, <2>2 DEF Created
<1>6. Promise!Create(r)
  BY <1>1, <1>3, <1>5 DEF Promise!Create, Created, Answered, Told
<1> QED BY <1>3, <1>6 DEF Promise!Next

\* Every step is one of the promise, or invisible.
LEMMA StepPromised ==
    ASSUME CreateInv, AnswerEnds, [Next]_vars
    PROVE  AnswerEnds' /\ [Promise!Next]_(Promise!vars)
<1>1. TypeOK
  BY DEF CreateInv
<1>2. ASSUME UNCHANGED <<Created, local>>
      PROVE  AnswerEnds' /\ [Promise!Next]_(Promise!vars)
  BY <1>2, Invisible DEF local, AnswerEnds, Accepted, Answered, Told
<1>3. ASSUME NEW r \in Payments, PassControls(r) \/ Wake(r)
      PROVE  AnswerEnds' /\ [Promise!Next]_(Promise!vars)
  <2>1. /\ pc' \in [Payments -> Step] /\ pc'[r] # "done" /\ UNCHANGED answer
        /\ \A q \in Payments : q # r => pc'[q] = pc[q]
    BY <1>1, <1>3 DEF PassControls, Wake, TypeOK, Step
  <2>2. UNCHANGED Created
    BY <1>3 DEF PassControls, Wake, tables, Created, RowsOf
  <2>3. pc[r] # "done"
    BY <1>3, NotDone DEF RequestStep
  <2> QED BY <2>1, <2>2, <2>3, GotoInvisible, Invisible
<1>4. ASSUME NEW p \in Payments, StatusMoves(p)
      PROVE  UNCHANGED <<Created, local>>
  <2>1. /\ payments[p].status # "ABSENT" /\ payments'[p].status # "ABSENT"
        /\ \A q \in Payments : q # p => payments'[q] = payments[q]
    BY <1>1, <1>4 DEF StatusMoves, LaterStatus, TypeOK, PaymentRow
  <2>2. \A k \in Keys : RowsOf(k)' = RowsOf(k)
    BY <2>1 DEF RowsOf
  <2> QED BY <1>4, <2>2 DEF StatusMoves, Created
<1>5. ASSUME (\E k \in Keys : ExpireLock(k)) \/ UNCHANGED vars
      PROVE  UNCHANGED <<Created, local>>
  BY <1>5 DEF ExpireLock, vars, tables, local, Created, RowsOf
<1>6. ASSUME NEW r \in Payments, Start(r) \/ RequestStep(r) \/ Fail(r)
      PROVE  AnswerEnds' /\ [Promise!Next]_(Promise!vars)
  BY <1>3, <1>6, ReadingPromised, PersistPromised DEF RequestStep, Reading
<1> QED BY <1>2, <1>4, <1>5, <1>6 DEF Next

\* POST /payments implements the abstract promise for any number of requests, of
\* scopes and of polls, whatever Redis does and whoever dies.
THEOREM PromiseKept == Spec => ImplementsPromise
<1>1. Init => AnswerEnds /\ Promise!Init
  BY DEF Init, AnswerEnds, Accepted, Promise!Init, RowsOf, NoRow
<1>2. CreateInv /\ AnswerEnds /\ [Next]_vars
        => AnswerEnds' /\ [Promise!Next]_(Promise!vars)
  BY StepPromised
<1> QED BY <1>1, <1>2, CreateInvariance, PTL DEF Spec, ImplementsPromise, Promise!Spec

-------------------------------------------------------------------------------
(* A 409 has a cause.                                                      *)

PassedGate(q) ==
    InControls(q) \/ answer[q].code \in {"accepted", "rejected", "error"}

\* Those who found the lock of their scope taken.
Behind(r) == pc[r] \in {"poll", "poll_row", "sleep"} \/ answer[r].code = "conflict"

\* A lock, and whoever waits behind it, point at a request that passed the gate.
LockHasOwner ==
    \A k \in Keys :
        redisLock[k] \/ (\E r \in Payments : KeyOf[r] = k /\ Behind(r))
            => \E q \in Payments : KeyOf[q] = k /\ PassedGate(q)

\* Who has passed the gate stays a cause: only a loser of the INSERT might be
\* answered 409, and it finds the winner's snapshot.
LEMMA PassedForGood ==
    ASSUME CreateInv, AnswerEnds, [Next]_vars, NEW q \in Payments, PassedGate(q)
    PROVE  PassedGate(q)'
<1> USE DEF PassedGate, InControls, Goto, Respond
<1>1. TypeOK
  BY DEF CreateInv
<1>2. ASSUME pc'[q] = pc[q], answer'[q] = answer[q]
      PROVE  PassedGate(q)'
  BY <1>2
<1>3. ASSUME Start(q) \/ RequestStep(q) \/ Fail(q)
      PROVE  PassedGate(q)'
  <2>1. InControls(q)
    <3>1. pc[q] # "done"
      BY <1>3, NotDone
    <3> QED BY <3>1 DEF AnswerEnds
  <2>2. CASE PassControls(q) \/ RejectByControls(q) \/ Persist(q) \/ LoseInsert(q)
    BY <1>1, <2>2 DEF PassControls, RejectByControls, Persist, LoseInsert, TypeOK
  <2>3. CASE Observe(q) \/ Fail(q)
    BY <1>1, <2>3 DEF Observe, Fail, TypeOK
  <2>4. CASE ResolveConflict(q)
    <3>1. HasSnapshot(KeyOf[q])
      BY <2>4 DEF ResolveConflict, CreateInv, LoserFinds
    <3> QED BY <1>1, <2>4, <3>1 DEF ResolveConflict, TypeOK
  <2> QED
    BY <1>3, <2>1, <2>2, <2>3, <2>4
       DEF Start, RequestStep, AcquireLock, AcquireFailsOpen, PollSnapshot, PollRow,
           Wake, GiveUp
<1>4. ASSUME NEW r \in Payments \ {q}, Start(r) \/ RequestStep(r) \/ Fail(r)
      PROVE  pc'[q] = pc[q] /\ answer'[q] = answer[q]
  <2> USE <1>1 DEF TypeOK
  <2>1. CASE Start(r) \/ PollSnapshot(r)
    BY <2>1 DEF Start, PollSnapshot, ReplayOr
  <2>2. CASE AcquireLock(r) \/ AcquireFailsOpen(r) \/ PassControls(r)
    BY <2>2 DEF AcquireLock, AcquireFailsOpen, PassControls
  <2>3. CASE RejectByControls(r) \/ Persist(r) \/ LoseInsert(r)
    BY <2>3 DEF RejectByControls, Persist, LoseInsert
  <2>4. CASE ResolveConflict(r) \/ Observe(r)
    BY <2>4 DEF ResolveConflict, Observe
  <2>5. CASE PollRow(r) \/ Wake(r) \/ GiveUp(r) \/ Fail(r)
    BY <2>5 DEF PollRow, Wake, GiveUp, Fail
  <2> QED BY <1>4, <2>1, <2>2, <2>3, <2>4, <2>5 DEF RequestStep
<1>5. ASSUME UNCHANGED local
      PROVE  pc'[q] = pc[q] /\ answer'[q] = answer[q]
  BY <1>5 DEF local
<1>6. ASSUME \/ \E r \in Payments : StatusMoves(r)
             \/ \E k \in Keys : ExpireLock(k)
             \/ UNCHANGED vars
      PROVE  UNCHANGED local
  BY <1>6 DEF StatusMoves, ExpireLock, vars
<1> HIDE DEF PassedGate, InControls, Goto, Respond
<1> QED BY <1>2, <1>3, <1>4, <1>5, <1>6 DEF Next

\* Whoever comes to wait found the lock taken, or was waiting already.
LEMMA WaitersFoundLock ==
    ASSUME CreateInv, AnswerEnds, [Next]_vars, NEW r \in Payments, Behind(r)'
    PROVE  Behind(r) \/ redisLock[KeyOf[r]]
<1> USE DEF Behind, Goto, Respond
<1>1. TypeOK
  BY DEF CreateInv
<1> SUFFICES ASSUME pc'[r] # pc[r] \/ answer'[r] # answer[r]
             PROVE  Behind(r) \/ redisLock[KeyOf[r]]
  OBVIOUS
<1> USE <1>1 DEF TypeOK
<1>2. PICK q \in Payments : Start(q) \/ RequestStep(q) \/ Fail(q)
  BY DEF Next, vars, local, StatusMoves, ExpireLock
<1>3. CASE Start(q) \/ PollSnapshot(q)
  BY <1>3 DEF Start, PollSnapshot, ReplayOr
<1>4. CASE AcquireLock(q) \/ AcquireFailsOpen(q) \/ PassControls(q)
  BY <1>4 DEF AcquireLock, AcquireFailsOpen, PassControls
<1>5. CASE RejectByControls(q) \/ Persist(q) \/ LoseInsert(q)
  BY <1>5 DEF RejectByControls, Persist, LoseInsert
<1>6. CASE ResolveConflict(q) \/ Observe(q)
  <2>1. pc[q] = "lost_race" => HasSnapshot(KeyOf[q])
    BY DEF CreateInv, LoserFinds
  <2> QED BY <1>6, <2>1 DEF ResolveConflict, Observe
<1>7. CASE PollRow(q) \/ Wake(q) \/ GiveUp(q) \/ Fail(q)
  BY <1>7 DEF PollRow, Wake, GiveUp, Fail
<1> QED BY <1>2, <1>3, <1>4, <1>5, <1>6, <1>7 DEF RequestStep

\* Whoever takes a lock has passed the gate.
LEMMA LockTakenInside ==
    ASSUME CreateInv, [Next]_vars, NEW k \in Keys, redisLock'[k], ~redisLock[k]
    PROVE  \E q \in Payments : KeyOf[q] = k /\ PassedGate(q)'
<1> USE DEF PassedGate, InControls, Goto, CreateInv, TypeOK
<1>1. PICK r \in Payments : AcquireLock(r) \/ AcquireFailsOpen(r)
  BY DEF Next, RequestStep, vars, redis, Start, Fail, StatusMoves, ExpireLock,
         PassControls, RejectByControls, Persist, LoseInsert, ResolveConflict,
         Observe, PollSnapshot, PollRow, Wake, GiveUp
<1>2. KeyOf[r] = k
  BY <1>1 DEF AcquireLock, AcquireFailsOpen
<1>3. pc'[r] = "controls"
  BY <1>1, <1>2 DEF AcquireLock, AcquireFailsOpen
<1> QED BY <1>2, <1>3

\* _resolve_pending_idempotent_request answers 409 only behind a request of the
\* scope that got past the gate, whatever Redis loses, for any number of requests.
THEOREM ConflictsHaveCauses == Spec => []ConflictHasCause
<1>1. Init => LockHasOwner /\ AnswerEnds
  BY CreateAssumption DEF Init, LockHasOwner, Behind, AnswerEnds
<1>2. ASSUME CreateInv, AnswerEnds, LockHasOwner, [Next]_vars
      PROVE  LockHasOwner'
  <2> SUFFICES ASSUME NEW k \in Keys,
                      \/ redisLock'[k]
                      \/ \E r \in Payments : KeyOf[r] = k /\ Behind(r)'
               PROVE  \E q \in Payments : KeyOf[q] = k /\ PassedGate(q)'
    BY DEF LockHasOwner
  <2>1. CASE redisLock[k] \/ \E r \in Payments : KeyOf[r] = k /\ Behind(r)
    BY <1>2, <2>1, PassedForGood DEF LockHasOwner
  <2>2. CASE ~redisLock[k] /\ ~\E r \in Payments : KeyOf[r] = k /\ Behind(r)
    BY <1>2, <2>2, WaitersFoundLock, LockTakenInside
  <2> QED BY <2>1, <2>2
<1>3. CreateInv /\ AnswerEnds /\ LockHasOwner => ConflictHasCause
  <2> SUFFICES ASSUME CreateInv, AnswerEnds, LockHasOwner,
                      NEW r \in Payments, answer[r].code = "conflict"
               PROVE  \E q \in Payments \ {r} : KeyOf[q] = KeyOf[r] /\ PassedGate(q)
    BY DEF ConflictHasCause, PassedGate
  <2>1. PICK q \in Payments : KeyOf[q] = KeyOf[r] /\ PassedGate(q)
    BY CreateAssumption DEF LockHasOwner, Behind
  <2>2. q # r
    BY <2>1 DEF PassedGate, InControls, AnswerEnds
  <2> QED BY <2>1, <2>2
<1>4. CreateInv /\ AnswerEnds /\ [Next]_vars => AnswerEnds'
  BY StepPromised
<1> QED BY <1>1, <1>2, <1>3, <1>4, CreateInvariance, PTL DEF Spec

===============================================================================
