---------------------------- MODULE CreatePayment ----------------------------
(***************************************************************************)
(* payments-api, POST /payments: CreatePaymentUseCase.execute and the      *)
(* idempotency machinery around it -- the Redis SET NX gate, the snapshot  *)
(* table, the unique constraints and the polling of late-comers.           *)
(*                                                                         *)
(* An element of Payments is one HTTP request; it also names the payment   *)
(* the request creates, whose id is drawn afresh (new_uuid) per request.   *)
(* A retry by the client is another request with the same key.  A key      *)
(* stands for the scope (merchant id, Idempotency-Key).                    *)
(***************************************************************************)
EXTENDS PaymentStore

CONSTANTS Keys,             \* idempotency scopes
          KeyOf,            \* KeyOf[r]: the scope of request r
          MaxPolls          \* iterations of _resolve_pending_idempotent_request

ASSUME CreateAssumption ==
    /\ KeyOf \in [Payments -> Keys]
    /\ MaxPolls \in Nat \ {0}
    /\ "none" \notin Payments      \* it stands for "no payment"

VARIABLES
    payments,   \* table "payments"
    outbox,     \* table "outbox_events"
    snapshot,   \* snapshot[k]: the idempotency_records row of scope k
    redisLock,  \* redisLock[k]: the scope's key exists in Redis
    gateOpened, \* a Redis command has failed, or a lock has expired
    pc,         \* pc[r]: where request r is
    polls,      \* polls[r]: finished iterations of the polling loop
    decided,    \* decided[r]: the status the controls decided
    answer      \* answer[r]: the HTTP response

tables == <<payments, outbox, snapshot>>
redis == <<redisLock, gateOpened>>
local == <<pc, polls, decided, answer>>
vars == <<tables, redis, local>>

\* The statuses a payment can be created with.
CreatedStatus == {"RECEIVED", "IN_REVIEW", "BLOCKED"}

Nothing == [payment |-> "none", status |-> "ABSENT"]

\* The payload of a 202: the payment's id and status.
Payload == [payment : Payments, status : PaymentStatus]

\* accepted: 202; conflict: 409; rejected: 4xx from the controls; error: 500, or
\* no response because the process died.
Code == {"waiting", "accepted", "conflict", "rejected", "error"}

Step == {"new", "lock", "controls", "commit", "lost_race", "observe",
         "poll", "poll_row", "sleep", "done"}

TypeOK ==
    /\ payments \in [Payments -> PaymentRow]
    /\ outbox \in Seq(OutboxEvent)
    /\ snapshot \in [Keys -> Payload \cup {Nothing}]
    /\ redisLock \in [Keys -> BOOLEAN]
    /\ gateOpened \in BOOLEAN
    /\ pc \in [Payments -> Step]
    /\ polls \in [Payments -> 0 .. MaxPolls]
    /\ decided \in [Payments -> CreatedStatus \cup {"ABSENT"}]
    /\ answer \in [Payments -> [code : Code, body : Payload \cup {Nothing}]]

Init ==
    /\ payments = [r \in Payments |-> NoRow]
    /\ outbox = <<>>
    /\ snapshot = [k \in Keys |-> Nothing]
    /\ redisLock = [k \in Keys |-> FALSE]
    /\ gateOpened = FALSE
    /\ pc = [r \in Payments |-> "new"]
    /\ polls = [r \in Payments |-> 0]
    /\ decided = [r \in Payments |-> "ABSENT"]
    /\ answer = [r \in Payments |-> [code |-> "waiting", body |-> Nothing]]

-------------------------------------------------------------------------------
(* Reads.                                                                  *)

HasSnapshot(k) == snapshot[k] # Nothing

\* get_by_merchant_and_idempotency: the payments inserted under scope k.
RowsOf(k) == {p \in Payments : KeyOf[p] = k /\ payments[p].status # "ABSENT"}

\* _build_response_from_existing_payment: the row as it is now.
FromRow(p) == [payment |-> p, status |-> payments[p].status]

-------------------------------------------------------------------------------
(* Control flow of a request.                                              *)

Goto(r, step) ==
    /\ pc' = [pc EXCEPT ![r] = step]
    /\ UNCHANGED <<polls, decided, answer>>

Respond(r, code, body) ==
    /\ pc' = [pc EXCEPT ![r] = "done"]
    /\ answer' = [answer EXCEPT ![r] = [code |-> code, body |-> body]]
    /\ UNCHANGED <<polls, decided>>

\* _try_return_replayed_response, or go on.
ReplayOr(r, step) ==
    IF HasSnapshot(KeyOf[r])
    THEN Respond(r, "accepted", snapshot[KeyOf[r]])
    ELSE Goto(r, step)

Start(r) ==
    /\ pc[r] = "new"
    /\ ReplayOr(r, "lock")
    /\ UNCHANGED <<tables, redis>>

\* Faulty variant: SET without NX.
AcquireWithoutNx(r) ==
    /\ pc[r] = "lock"
    /\ redisLock' = [redisLock EXCEPT ![KeyOf[r]] = TRUE]
    /\ Goto(r, "controls")
    /\ UNCHANGED <<tables, gateOpened>>

\* Faulty variant: SET NX is sent again after a lost reply and finds its own key.
AcquireSentTwice(r) ==
    /\ pc[r] = "lock"
    /\ redisLock' = [redisLock EXCEPT ![KeyOf[r]] = TRUE]
    /\ \/ redisLock[KeyOf[r]] /\ Goto(r, "poll")
       \/ ~redisLock[KeyOf[r]] /\ \E step \in {"controls", "poll"} : Goto(r, step)
    /\ UNCHANGED <<tables, gateOpened>>

\* IdempotencyService.acquire: SET key NX EX ttl.
AcquireLock(r) ==
    /\ pc[r] = "lock"
    /\ redisLock' = [redisLock EXCEPT ![KeyOf[r]] = TRUE]
    /\ Goto(r, IF redisLock[KeyOf[r]] THEN "poll" ELSE "controls")
    /\ UNCHANGED <<tables, gateOpened>>

\* A RedisError is answered TRUE; the command may have been executed.
AcquireFailsOpen(r) ==
    /\ pc[r] = "lock"
    /\ gateOpened' = TRUE
    /\ \/ UNCHANGED redisLock
       \/ redisLock' = [redisLock EXCEPT ![KeyOf[r]] = TRUE]
    /\ Goto(r, "controls")
    /\ UNCHANGED tables

\* What _evaluate_risk and _evaluate_aml may answer.
RiskDecision == {"ALLOW", "REVIEW", "BLOCK"}
AmlDecision == {"ALLOW", "REVIEW", "BLOCK"}

\* _resolve_status_from_decisions: the stricter decision prevails.
StatusFromDecisions(risk, aml) ==
    CASE "BLOCK" \in {risk, aml} -> "BLOCKED"
      [] "BLOCK" \notin {risk, aml} /\ "REVIEW" \in {risk, aml} -> "IN_REVIEW"
      [] OTHER -> "RECEIVED"

\* KYC, limits and rate limit pass; risk and AML decide the payment's status ...
PassControls(r) ==
    /\ pc[r] = "controls"
    /\ \E risk \in RiskDecision, aml \in AmlDecision :
         decided' = [decided EXCEPT ![r] = StatusFromDecisions(risk, aml)]
    /\ pc' = [pc EXCEPT ![r] = "commit"]
    /\ UNCHANGED <<tables, redis, polls, answer>>

\* ... or reject the request.  The lock stays in Redis until its TTL.
RejectByControls(r) ==
    /\ pc[r] = "controls"
    /\ Respond(r, "rejected", Nothing)
    /\ UNCHANGED <<tables, redis>>

\* Faulty variant: every payment is requested, whatever the decision.
CreatedEventsUnconditional(r, status) ==
    AddEvent(outbox, "PaymentRequested", r)

\* _persist_outbox_events
CreatedEvents(r, status) ==
    CASE status = "RECEIVED"  -> AddEvent(outbox, "PaymentRequested", r)
      [] status = "IN_REVIEW" -> AddEvent(outbox, "PaymentReviewRequired", r)
      [] status = "BLOCKED"   -> outbox

\* Faulty variant: no unique constraint.
KeyNotUnique(k) == TRUE

\* The unique constraints on (merchant_id, idempotency_key) of both tables.
KeyFree(k) == RowsOf(k) = {} /\ ~HasSnapshot(k)

\* _persist_payment_transaction: payment, event and snapshot in one commit.
Persist(r) ==
    /\ pc[r] = "commit"
    /\ KeyFree(KeyOf[r])
    /\ payments' = [payments EXCEPT ![r] = NewPayment(decided[r])]
    /\ outbox' = CreatedEvents(r, decided[r])
    /\ snapshot' = [snapshot EXCEPT ![KeyOf[r]] =
                      [payment |-> r, status |-> decided[r]]]
    /\ Goto(r, "observe")
    /\ UNCHANGED redis

\* IntegrityError: the whole transaction is rolled back.
LoseInsert(r) ==
    /\ pc[r] = "commit"
    /\ ~KeyFree(KeyOf[r])
    /\ Goto(r, "lost_race")
    /\ UNCHANGED <<tables, redis>>

\* Faulty variant: the IntegrityError becomes a 409.
ResolveConflictAs409(r) ==
    /\ pc[r] = "lost_race"
    /\ Respond(r, "conflict", Nothing)
    /\ UNCHANGED <<tables, redis>>

\* Faulty variant: the loser answers the payment it could not insert.
ResolveWithOwnPayment(r) ==
    /\ pc[r] = "lost_race"
    /\ Respond(r, "accepted", [payment |-> r, status |-> decided[r]])
    /\ UNCHANGED <<tables, redis>>

\* _resolve_replayed_after_conflict: snapshot, else the row, else 409.
ResolveConflict(r) ==
    LET k == KeyOf[r] IN
    /\ pc[r] = "lost_race"
    /\ IF HasSnapshot(k)
       THEN Respond(r, "accepted", snapshot[k])
       ELSE \/ \E p \in RowsOf(k) : Respond(r, "accepted", FromRow(p))
            \/ RowsOf(k) = {} /\ Respond(r, "conflict", Nothing)
    /\ UNCHANGED <<tables, redis>>

\* _after_commit_observability succeeds; the use case returns.
Observe(r) ==
    /\ pc[r] = "observe"
    /\ Respond(r, "accepted", [payment |-> r, status |-> decided[r]])
    /\ UNCHANGED <<tables, redis>>

-------------------------------------------------------------------------------
(* _resolve_pending_idempotent_request: the lock is somebody else's.       *)

PollSnapshot(r) ==
    /\ pc[r] = "poll"
    /\ ReplayOr(r, "poll_row")
    /\ UNCHANGED <<tables, redis>>

PollRow(r) ==
    LET rows == RowsOf(KeyOf[r]) IN
    /\ pc[r] = "poll_row"
    /\ \/ \E p \in rows : Respond(r, "accepted", FromRow(p))
       \/ rows = {} /\ Goto(r, "sleep")
    /\ UNCHANGED <<tables, redis>>

\* Faulty variant: the loop has no bound ...
WakeUnbounded(r) ==
    /\ pc[r] = "sleep"
    /\ polls' = [polls EXCEPT ![r] = @ + 1]
    /\ pc' = [pc EXCEPT ![r] = "poll"]
    /\ UNCHANGED <<tables, redis, decided, answer>>

\* ... or does not count.
WakeUncounted(r) ==
    /\ pc[r] = "sleep"
    /\ polls[r] + 1 < MaxPolls
    /\ Goto(r, "poll")
    /\ UNCHANGED <<tables, redis>>

\* asyncio.sleep, also after the last iteration.
Wake(r) ==
    /\ pc[r] = "sleep"
    /\ polls[r] + 1 < MaxPolls
    /\ polls' = [polls EXCEPT ![r] = @ + 1]
    /\ pc' = [pc EXCEPT ![r] = "poll"]
    /\ UNCHANGED <<tables, redis, decided, answer>>

GiveUp(r) ==
    /\ pc[r] = "sleep"
    /\ polls[r] + 1 >= MaxPolls
    /\ Respond(r, "conflict", Nothing)
    /\ UNCHANGED <<tables, redis>>

-------------------------------------------------------------------------------
(* Failures and the rest of the system.                                    *)

\* The process dies, or a statement raises before, in or after the commit: what
\* was not committed is rolled back, and the client has no 202.
Fail(r) ==
    /\ pc[r] \notin {"new", "done"}
    /\ Respond(r, "error", Nothing)
    /\ UNCHANGED <<tables, redis>>

\* The TTL of the lock runs out, whether or not its owner is done.
ExpireLock(k) ==
    /\ redisLock[k]
    /\ gateOpened' = TRUE
    /\ redisLock' = [redisLock EXCEPT ![k] = FALSE]
    /\ UNCHANGED <<tables, local>>

\* What payments-processor and the reviewers write to a payment that was created with
\* the status; a second worker or reviewer writes late, over the status of another.
LaterStatus(status) ==
    CASE status = "RECEIVED"  -> {"PROCESSING", "CONFIRMED", "FAILED"}
      [] status = "IN_REVIEW" -> {"RECEIVED", "BLOCKED", "PROCESSING", "CONFIRMED", "FAILED"}
      [] OTHER                -> {}

StatusMoves(p) ==
    /\ payments[p].status # "ABSENT"
    /\ \E status \in LaterStatus(snapshot[KeyOf[p]].status) :
         payments' = [payments EXCEPT ![p].status = status]
    /\ UNCHANGED <<outbox, snapshot, redis, local>>

-------------------------------------------------------------------------------
RequestStep(r) ==
    \/ AcquireLock(r) \/ AcquireFailsOpen(r)
    \/ PassControls(r) \/ RejectByControls(r)
    \/ Persist(r) \/ LoseInsert(r) \/ ResolveConflict(r) \/ Observe(r)
    \/ PollSnapshot(r) \/ PollRow(r) \/ Wake(r) \/ GiveUp(r)

Next ==
    \/ \E r \in Payments : Start(r) \/ RequestStep(r) \/ Fail(r) \/ StatusMoves(r)
    \/ \E k \in Keys : ExpireLock(k)

Spec == Init /\ [][Next]_vars

\* A request that has been received is run by the event loop.
FairSpec == Spec /\ \A r \in Payments : WF_vars(RequestStep(r))

-------------------------------------------------------------------------------
(* Safety.                                                                 *)

Accepted(r) == answer[r].code = "accepted"

\* Idempotency: every 202 of a scope names one and the same payment, and that
\* payment is in the table, whatever Redis does and whoever crashes.
OnePaymentPerKey ==
    \A q, r \in Payments :
        KeyOf[q] = KeyOf[r] /\ Accepted(q) /\ Accepted(r) =>
            /\ answer[q].body.payment = answer[r].body.payment
            /\ RowsOf(KeyOf[r]) = {answer[r].body.payment}

EventsOf(p) == {e \in DOMAIN outbox : outbox[e].aggregate = p}

EventFor(status) == IF status = "RECEIVED" THEN "PaymentRequested"
                                           ELSE "PaymentReviewRequired"

\* One transaction: a scope has a snapshot iff it has a payment, the snapshot is
\* of that payment, and the outbox holds exactly the event its status calls for
\* (none for BLOCKED), none for a request that was rolled back.
CommittedTogether ==
    /\ \A k \in Keys : RowsOf(k) = IF HasSnapshot(k) THEN {snapshot[k].payment}
                                                     ELSE {}
    /\ \A p \in Payments :
         LET status == snapshot[KeyOf[p]].status
         IN  IF /\ snapshot[KeyOf[p]].payment = p
                /\ status # "BLOCKED"
             THEN \E e \in EventsOf(p) : /\ EventsOf(p) = {e}
                                         /\ outbox[e].type = EventFor(status)
             ELSE EventsOf(p) = {}

\* A request that lost the race for the unique constraint is replayed the
\* winner's response: it is never answered 409.
LoserIsReplayed ==
    [][\A r \in Payments :
         pc[r] = "lost_race" /\ pc'[r] = "done"
             => answer'[r].code \in {"accepted", "error"}]_vars

InControls(r) == pc[r] \in {"controls", "commit", "lost_race", "observe"}

\* As long as Redis answers and no lock expires, the gate lets one request of a
\* scope through at a time, so that concurrent retries do not consume limits,
\* velocity or rate budget again (IdempotencyService.acquire).
GateIsExclusive ==
    ~gateOpened =>
        \A q, r \in Payments :
            KeyOf[q] = KeyOf[r] /\ InControls(q) /\ InControls(r) => q = r

\* All 202 responses of a scope carry the same status (the snapshot).
SameResponse ==
    \A q, r \in Payments :
        KeyOf[q] = KeyOf[r] /\ Accepted(q) /\ Accepted(r)
            => answer[q].body.status = answer[r].body.status

Promise == INSTANCE IdempotentCreation WITH
    created  <- [k \in Keys |-> RowsOf(k)],
    answered <- {r \in Payments : pc[r] = "done"},
    told     <- [r \in Payments |->
                   IF Accepted(r) THEN {answer[r].body.payment} ELSE {}]

\* Gate, snapshot, constraints and polling implement the abstract promise: among
\* others, a request that was answered 409, 4xx or 500 never commits afterwards.
ImplementsPromise == Promise!Spec

\* A 409 is answered only behind another request of the scope that has got past the
\* gate; a request without a competitor is never refused as a duplicate, even while
\* Redis fails and locks expire (_resolve_pending_idempotent_request).
ConflictHasCause ==
    \A r \in Payments :
        answer[r].code = "conflict" =>
            \E q \in Payments \ {r} :
                /\ KeyOf[q] = KeyOf[r]
                /\ InControls(q) \/ answer[q].code \in {"accepted", "rejected", "error"}

\* Every request is answered: the polling loop ends, nobody waits for a lock.
EveryRequestAnswered ==
    \A r \in Payments : pc[r] # "new" ~> pc[r] = "done"

===============================================================================
