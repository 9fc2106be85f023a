# Specifications of the global payments observability lab

TLA+ modules, TLC runs and TLAPS proofs for the payment services of this
repository: `payments-api` (accepts payments), `payments-processor` (settles
them), and the tables, the Redis keys and the provider they share. Paths are
relative to the repository's `src/`; "api" and "processor" abbreviate
`services/payments-api/payments_api` and
`services/payments-processor/payments_processor`.

1. [Inventory](#1-inventory)
2. [Modules and how they read the code](#2-modules-and-how-they-read-the-code)
3. [Runs, bounds and what they show](#3-runs-bounds-and-what-they-show)
4. [Fairness](#4-fairness)
5. [Proofs](#5-proofs)
6. [Where code and documentation disagree](#6-where-code-and-documentation-disagree)
7. [Not modelled, planned](#7-not-modelled-planned)

## 1. Inventory

A payment enters by `POST /payments`. The api runs its controls (KYC, limits,
rate limit, risk, AML), commits one payment row, at most one outbox event and
one idempotency snapshot in a single transaction, and answers 202. The processor
polls the outbox, asks the provider over HTTP to confirm the payment, and commits
the final status together with a terminal event, which a second pass publishes
to Kafka or RabbitMQ. A payment that the controls hold back waits in `IN_REVIEW`
for `POST /payments/{id}/approve` or `/reject`.

The two services talk to each other through PostgreSQL only. There are no
messages between them and no shared memory: what is hard is the order of
database statements, commits, Redis commands and HTTP calls of several
processes, and a failure between any two of them.

| component | state it keeps | operations | interacts with | hard behaviour | what makes it correct |
|---|---|---|---|---|---|
| outbox worker (processor `workers/`, `repositories/`, `commands/`) | `payments`, `outbox_events`; an open transaction, a batch | fetch, load, mark processing, call, finalize, retry, publish, record | tables, provider, broker | crash between call and commit; several workers on one event; retries | no payment lost, one announcement, final is final, exclusive calls |
| create use case and idempotency (api `use_cases/create_payment.py`, `services/idempotency_service.py`) | `idempotency_records`, a Redis lock with a TTL | replay, lock, controls, persist, resolve conflict, poll | tables, Redis, controls | concurrent retries, Redis failing open, lost INSERT, lost response | one payment per key, atomic commit, everybody answered |
| manual review (api `use_cases/review_payment.py`) | none of its own | load, approve, reject | tables, worker | status read before an await and written after it | nothing moves unapproved, nothing approved is lost |
| payment query (api `use_cases/get_payment.py`) | none | one SELECT | tables | none | none |
| provider call (`shared/resilience`, processor `commands/call_provider.py`) | breaker state in memory | allow, try, retry, succeed, fail | provider, worker | retries x attempts x threshold; recovery | bounded storms, the circuit closes again |
| limits (api `services/limits_service.py`) | Redis counter of the day, velocity set | check amount, day, velocity | Redis, tables | GET then SET; fallback when Redis fails | the limit holds, the counter covers what was paid |
| rate limiter (api `services/rate_limiter_service.py`) | Redis counters per bucket and dimension | read bucket, INCR, EXPIRE, compare | Redis | crash between INCR and EXPIRE; a bucket that ends meanwhile | no bucket lets more through on time than its limit |
| risk, KYC (api `services/risk_service.py`, `kyc_service.py`) | none | pure decisions | create use case | boundaries of scores and ranks | blocked for four signals of five and for no fewer |
| AML (api `services/aml_service.py`) | Redis history written after the commit | evaluate, record | Redis, tables | crash between commit and history; list and table used in turn | what went through unreviewed stays within the thresholds |
| event-bus adapters (processor `event_bus/`) | a broker connection | publish | worker | published although publish raised | at least once |
| provider mock (`services/provider-mock`) | a seeded generator | confirm | worker | timeouts after acceptance | any answer at any time |
| shared contracts (`shared/contracts`) | table definitions | none | everybody | unique constraints, defaults | a common vocabulary |
| HTTP wiring, configuration, migrations, logging, telemetry, edge proxy, load tests, dashboards | none that the protocol reads | none | none | none | not modelled |

`PROJECT.json` lists the same components with their status, and under `hazards`
every place where this code can go wrong in a way a test would hardly reach,
with the properties that would catch it.

## 2. Modules and how they read the code

| module | stands for | role |
|---|---|---|
| `PaymentStore` | `shared/contracts`, the statements of all repositories | rows, events and UPDATEs as operators; no variables |
| `OutboxWorker` | the processor's worker | component |
| `OutboxWorkerInv`, `OutboxWorkerProofs` | | inductive invariants; theorems, the refinement of `PaymentLifecycle` among them |
| `PaymentLifecycle` | what the processor promises | abstract specification |
| `CreatePayment` | the create use case | component |
| `CreatePaymentInv`, `CreatePaymentProofs` | | inductive invariant; theorems, the refinement of `IdempotentCreation` among them |
| `IdempotentCreation` | what the api promises of an `Idempotency-Key` | abstract specification |
| `ReviewPayment` | the two review use cases | component |
| `ReviewedProcessing` | reviewers and worker on the same tables | composition: extends `OutboxWorker`, `INSTANCE ReviewPayment` |
| `ReviewedProcessingProofs` | | inductive invariants, built on the worker's; theorems |
| `ProviderCall` | circuit breaker, retry, provider command | component |
| `ProviderCallProofs` | | inductive invariant; theorems |
| `CustomerRequests` | the requests of one customer, the clock | shared by the three controls below |
| `SpendingLimits` | limits service | component |
| `RateLimiter` | rate limiter | component |
| `AmlRuleEngine` | the AML history and what is read from it | component |
| `ControlRules` | KYC, risk score, AML thresholds, final status | pure operators |
| `PaymentControls` | `_create_payment_with_controls` | composition of the five above |
| `SpendingLimitsProofs`, `RateLimiterProofs` | | inductive invariants, a lemma for each step |
| `AmlRuleEngineProofs` | | lemmas on sums over finite sets and on the history list |
| `PaymentControlsProofs` | | inductive invariants of the composition; theorems |
| `MC...` | | TLC instances |

**Grain.** An action ends where the code awaits something another process can
observe or influence: a statement that reads or locks, a commit, a Redis command,
an HTTP call, a publish, a sleep. Statements whose writes nobody sees before the
commit are folded into the committing action; that the transaction can also roll
back is an action (`Abort`, `Fail`, `FailReview`).

**PaymentStore.** A row keeps `status` and `version`, the columns the protocol
reads; an outbox event keeps its type, payment, status, attempts and whether its
`next_attempt_at` has passed (`due`). An event's position in the table stands for
`created_at`. The status `VALIDATED` of the documentation's lifecycle is written
by no code and is absent.

**OutboxWorker.** `FetchRequested` is the SELECT of `run_once`, `LoadPayment`
the row read of `_process_event` (and `_mark_missing_payment`, which the model
can reach only if a row were missing), `MarkProcessing` the conditional UPDATE
that waits for the row lock and compares the version, `LoseRace` its zero-row
branch (an UPDATE whose condition no committed row meets does not wait for a lock), `ProviderAccepts`/`ProviderAnswers` the provider and the command's
outcome, `Finalize` the rest of `_process_payment_event` with its commit, by
outcome: `SettleConfirmed`, `SettlePartial`, `SettleFailed`, `RetryLater`.
`FetchFanout`, `Publish`, `RecordFanout` are `_publish_fanout_events`. `Abort`
is a crash, a failing statement or a failing commit at any await. The ORM session
is created with `expire_on_commit=False` and its bulk UPDATEs synchronise the
session, so the worker's copy (`loaded`) follows its own writes: a settled payment
has gained three versions, one from `mark_processing` and two from the final
UPDATE. A provider may accept a payment and its answer be lost: acceptance and
answer are two actions. It is taken to accept, if at all, while the call is open: the
mock's default latencies end before the client's timeout of 1.5 s, and a slower
provider, which might accept after the worker has given up, is not modelled. Three retries inside one call are one outcome here and
are modelled in `ProviderCall`.

**CreatePayment.** An element of `Payments` is one HTTP request and names the
payment it would insert; requests of one merchant and `Idempotency-Key` share a
scope (`KeyOf`). `Start` is the snapshot lookup, `AcquireLock` the `SET NX`,
`AcquireFailsOpen` the same on a Redis error (the command may or may not have
been executed), `PassControls`/`RejectByControls` the controls (any
decision of risk and AML, combined as `_resolve_status_from_decisions` does),
`Persist` the transaction, one action because the database commits it as one
(`CommittedTogether` therefore says that the rows, the kind of the event and the snapshot
agree, not that a commit cannot be torn), `LoseInsert` its unique-constraint violation,
`ResolveConflict` what the loser answers, `PollSnapshot`, `PollRow`, `Wake`,
`GiveUp` the loop of a request that found the lock taken, `Observe` the response
of the winner. `ExpireLock` is the TTL; nothing in the code deletes the lock, so a
request that is rejected leaves it behind, and so does the model. `StatusMoves`
is the worker and the reviewers, as far as this component can see them: once the row is
there it may show, at any time and in any order, every status they write to a payment
that was created with its status. No order is assumed, because a second worker or
reviewer may write late, over the status of another.

**ReviewPayment, ReviewedProcessing.** `LoadForReview` reads and checks the
status; `Approve` and `Reject` write it with an UPDATE that names the row by its id,
waiting for the row lock of whoever holds it, the worker included. The composition
shares `payments`, `outbox` and `lock` with the worker.

**ProviderCall.** `Allowed`, `OnSuccess`, `OnFailure`, `TripOpen` are the
methods of `CircuitBreaker`; `AllowCall`, `RefuseCall`, `RetryCall`, `GiveUpCall`,
`FailCall`, `Succeed`, `Wake` the command around them and the worker's treatment
of its outcome. `burst` counts failing requests and is a history variable: it is
not in the code. The bulkhead never blocks, because the worker handles one event
at a time. Jitter only chooses how long a back-off is and is left out.

**CustomerRequests, SpendingLimits.** One customer, rail and day. An amount may have any
number of decimals (`dto.py:14`), so `Amount` is in fractions of a cent, `Cent` of them
to one; the limits are whole cents. `Counted` is `_as_cents`, which rounds half a cent to
the even neighbour, `Stored` the column `Numeric(18, 2)`, which rounds it up: the counter
is compared and written with the one, `spent`, the sum that the fallback reads from the
table, grows by the other. `Arrive` is the beginning of the request's transaction, its
first SELECT, whose time is `created_at` of the payment it may store (`created`; PostgreSQL's
`now()`), and the policy with the bounds of a transaction. `ReadCounter` and `WriteCounter` are the `GET` and `SET` of
the day's amount, `DailyRedisFails` a `RedisError` at either, `CheckTable` the
fallback to `sum_outgoing_since`; `Prune`, `CountWindow`, `AddMember` the three
commands on the sorted set of the velocity window, `VelocityRedisFails` and
`RecountTable` their failure and fallback. `Pay` is the commit, `EndUnpaid` every way
a request ends without a payment that counts. Redis fails command by command and keeps its
keys; a Redis that restarts empty is not modelled. `outages` counts the commands that failed,
by control, so that a property can speak of the failures that matter to it; `admitted`
is a history variable, and so is `inTurn`: no request has begun while another was being
handled. The policy is not changed by the running system, so its cache
is not visible. `MaxInFlight` is not a setting of the code but how many requests its
environment sends at the same time. What the code promises only of requests in turn is
stated so (`inTurn => ...`) and holds of every behaviour as long as they are.

**RateLimiter.** All requests name one merchant, customer and account. `ReadBucket`
is `now_bucket`, read once; `Increment` the `INCR`, `Expire` the `EXPIRE` that follows
the first of a key, `RateRedisFails` a `RedisError` at either, which lets the request
through and whose command may have been executed. Any request may stop between the two.
`RateTick` is what the clock does to keys. `prompt` is a history variable: the requests
let through in the bucket the clock is in. A request that is delayed past the end of its
bucket, or let through by a failed `INCR`, is not counted: the code promises nothing of it.

**AmlRuleEngine.** `Recent` is `_read_history_entries` with the filter of `_sum_recent`
and `_count_near`; `RecordOutgoing` the three commands after the commit, with a time that was read before
them, `RecordPart` those of them that were executed before a `RedisError` or the end of
the process. Nobody can tell a list that is to be trimmed from one that is, because every
reader stops at the same item, so the three are one step.

**ControlRules.** Operators without state, one for each rule. Ratios are compared by
cross multiplication (`amount >= 0.9 * max` is `10 * amount >= 9 * max`).

**PaymentControls.** The order of the use case: `Begin` or `DenyKyc`, `EnforceLimits`,
`EnforceRateLimit`, `EvaluateRisk` (with the AML blocklist, which reads nothing),
`EvaluateTotal`, `EvaluateNear`, `Commit`, `Stamp`, `Record`. An AML total comes from the
list, with the amounts as requested and the times at which they were stamped, or, after a
`RedisError`, from the table, with the amounts and the `created_at` stored there
(`FindOutgoing`). `Stamp` reads the time of a record and `Record` pushes it, so that
entries of overlapping requests may land out of the order of their times. `LoseRecord` is a record that
was lost after the commit, `Abort` every other way to end. Failures, age and KYC level
of the customer and the destination are not followed: the rules may find any. `held`
and `unrecorded` are history variables. `Busy` are the requests being handled, from their
arrival until their record is written or lost; `Begin` keeps them within `MaxInFlight`. `Beside` is how many may have been handled
together with another one: none as long as requests come in turn, then `MaxInFlight - 1`.
The module is `CreatePayment`'s step `PassControls` or
`RejectByControls` seen from inside; `CreatePayment` needs of it only that any status
may come out.

**PaymentLifecycle, IdempotentCreation.** The first knows no outbox, worker or retry: a
payment is created, accepted by the provider while it is not settled, settled once
together with its announcement, and delivered any number of times. The mapping takes
the status from the row, announcements from the terminal events in the outbox and
deliveries from what the broker has (`Lifecycle` in `OutboxWorker`). The second knows
no Redis, snapshot or polling: one payment for each scope, a response that names it, and no
creation by a request that has been answered (`Promise` in `CreatePayment`).

Operators whose comment says "Faulty variant" belong to no specification: they are
plausible bugs, used to confirm that each property can fail (`mutants`).

## 3. Runs, bounds and what they show

| run | states | shows |
|---|---|---|
| `worker_safety` | 105 thousand | one worker, two payments in one batch, two attempts, fan-out: `NoStranded`, `AnnouncedOnce`, `FinalForever`, `ImplementsLifecycle` under crashes everywhere |
| `worker_race` | 262 thousand | two workers, one payment: `ProviderExclusion`, `ConfirmedByProvider`, `SentWasPublished`, `FinalIsAnnounced` |
| `worker_stranded` | violation | two workers can lose a payment |
| `worker_liveness` | 940 | three attempts, fan-out, crashes: `RequestsSettle`, `EventsDrain` |
| `create_concurrent` | 274 thousand | three requests of one key, two polls: `OnePaymentPerKey`, `CommittedTogether`, `GateIsExclusive`, `ConflictHasCause`, `LoserIsReplayed`, `ImplementsPromise`, `EveryRequestAnswered` |
| `create_replay` | violation | two 202 of one key can carry different statuses |
| `review_gate` | 504 thousand | two reviewers, a worker, one payment: `ApprovedBeforeMoved`, `ApprovedIsProcessed`, `NoStranded` |
| `review_toctou` | violation | a decision can overwrite a status other than `IN_REVIEW` |
| `breaker` | 542 | threshold 3, three tries: `StormBound`, `Recovers` |
| `breaker_refused` | violation | an open circuit fails payments nobody was asked about |
| `limits_controls` | 1.3 million | `PaymentControls`, three requests of one customer through all controls, one after the other or two of them at the same time: `WithinDailyLimit`, `CounterCovers`, `OutageBound`, `VelocityLimitInTurn`; `PromptWithinBudget`; `BlockedForFourSignals`; `HistoryCoversTable`, `UnreviewedWithinThreshold`, `SeriesIsReviewed` |
| `limits_race` | violation | three concurrent requests pass a velocity limit of two |

Why the bounds are enough. Two workers are the smallest race on a row and a
third adds only another loser. Two payments in a batch of two make the worker carry
a fetched event across another event's commit; two attempts give both a retry and a
last attempt, three (liveness) a retry after a retry. Three requests of one key are
an owner, a concurrent one and a late retry; scopes do not interact (every read and
write names its scope), so one key suffices for TLC, and the proofs cover any
number. Two polls give a first and a last iteration. Two reviewers allow both pairs
of decisions. In `limits_controls` the
amounts are 5 and twice 10.5 cents, and `Cent = 2` is the smallest unit that has a half:
the counter takes a large request for 10 cents and the table for 11. With a daily limit of
11 the counter lets one large or the small request through, the rest is paid only after a
lost command, and two large ones reach twice the limit; two Redis commands fail, anywhere,
which is what it takes to leave the list or the counter and come back. The clock moves
three times: enough for the velocity window and the AML total window of one to slide past
a payment whose request is still on its way, for the structuring window of three to slide past the first payment, for a
bucket of two to end in the middle of a request, and for the list to have to
outlive the shorter AML window for the sake of the longer one. The list keeps one entry
(`MaxHistory = 0`, since `LTRIM 0 n` keeps n + 1), so that it is trimmed. The constraint
`Bounded` (in `MCPaymentControls`) keeps two things apart that multiply the states: the
counter's failures from those of the other controls, and a second failure from the last
tick; and it keeps, of the states with overlapping requests, those that come after a first
payment and before the last tick, with one failure, of the daily counter (the limit would
let no second payment through without it), with no request that has ended unpaid and with
at most one before its risk score. What is left
has two requests in the AML rules, the commit, the stamp and the record in any order
beside a third payment; without the allowance `Beside` each of `HistoryCoversTable`,
`UnreviewedWithinThreshold` and `SeriesIsReviewed` is violated there. What the constraint
leaves out, the theorems cover. Two of the
three dimensions are enough for a request that passes one and is refused by the next.
The amounts of the two sizes are near the maximum and far from it. The rail is PIX; the
rail of level FULL differs in `MinimumKyc` only and is covered by a theorem. `MaxOutages`, `MaxTime`,
`MaxInFlight` and the constraint `Bounded` are the only bounds that are not of the code. Attempts, polls and tries are bounded by the code itself; the number
of payments, requests and reviewers is bounded by the constants, and no counter
needs a further bound: in `breaker` the circuit itself keeps `burst` finite, as
`StormBound` states.
`CHECK_DEADLOCK FALSE` is set where every request may be answered and nothing is left
to do (`CreatePayment`, `SpendingLimits`, `PaymentControls`); a worker polls for ever.

Symmetry is used in safety runs only, over payments, workers, reviewers and requests
of one amount, which no definition distinguishes.

## 4. Fairness

- `OutboxWorker!FairSpec`: weak fairness of the poll and of each back-off
  (`run_forever` catches every exception and polls again; the clock advances),
  strong fairness of each step of a run, because `Abort` disables them: a crash or
  a database error may hit any step any number of times, but not the same step every
  time it is tried. The provider call always returns or raises (HTTP timeout).
  Neither that the provider ever accepts nor that the broker is ever up is assumed.
- `CreatePayment!FairSpec`: weak fairness of each request's steps: an event loop runs
  its coroutines and every await in them has a timeout. Requests need not arrive,
  and any may die (`Fail`).
- `ProviderCall!FairSpec`: the recovery timeout elapses, a back-off ends, an
  answering provider's call returns, and calls keep being made while they are
  allowed. The last is an assumption about the demand for that provider, without which
  an open breaker has no occasion to close.

## 5. Proofs

`OutboxWorkerProofs` and `CreatePaymentProofs` hold for all values of the constants
that satisfy `ConfigAssumption` and `CreateAssumption` (positive sizes; every request
has a scope).

**The worker, any number of processes** (`SharedInvariant`): `TypeCorrect`,
`ExclusiveCall`, `NoFalseConfirmation`, `FanoutAtLeastOnce`, `FinalAnnounced`. `ProviderExclusion`
alone is not inductive: it follows from `LocksHeld` (a worker holds the lock of a
row exactly while its transaction on it is open, and locks have one holder). That a
confirmation is true needs `RepliesTrue` (what a worker remembers of an answer
stays true until it is written) and `HoldsEvents` (what it holds still names a row
of the outbox of the kind it was selected for). `FinalIsAnnounced` is what remains of
`AnnouncedOnce` with several workers, who may settle a payment twice: the row shows a
final status only if a terminal event of that kind was written. No event is ever
removed and none changes its kind (`Keeps`, proved for every step in `WorkerTables` and
`DueTables`), and a commit that writes a final status writes its event
(`AnnouncementStep`); everything else is `SharedInv`.

**One worker** (`SingleInvariant`, `SharedInv /\ SingleInv`): `NothingStranded`,
`OneAnnouncement`, `FinalStaysFinal`, under the explicit assumption
`SingleWorker`. The argument: each payment has one request event (`OneRequest`); it
is pending exactly as long as the payment is not final (`RequestsMatch`); what the
worker holds is pending, held once (`HeldPending`) and of the current version
(`LoadedFresh`), so the version race is never lost (`AlwaysWins`) and each commit
moves row and events together. With two workers `LoadedFresh` fails, and with it
`NoStranded` (run `worker_stranded`).

**The create use case** (`CreateInvariance`): `CreateTypes`, `CommitAgreement`,
`Idempotency`, `GateExclusion`, `LosersAreReplayed`. `CreateInv` adds to the
properties that every 202 names the payment of the scope's snapshot (`AnswersTrue`),
that a request past its commit owns the snapshot (`ObserverOwns`), that a loser
of the INSERT can find one (`LoserFinds`), and that whoever is past the gate
holds the lock (`GateHeld`, while Redis answers and no lock expires). Idempotency
rests on the unique constraints and on the single transaction, not on Redis: the
lemmas about the tables (`TablesStep`) use no fact about the lock but its type.

Steps that only read (`Reading`) are proved once, through the effect they share
(`Moves`); one lemma per remaining action.

**Refinements.** `LifecycleImplemented`: with one worker, `OutboxWorker` implements
`PaymentLifecycle`. Beyond `SingleInv` the argument needs that a payment whose provider
call is open is not settled (so an acceptance never concerns a settled payment), and
that a commit writes status and terminal event in one step. `PromiseKept`:
`CreatePayment` implements `IdempotentCreation`; a commit is a `Create`, a 202 a `Tell`,
every other answer a `Refuse`; `AnswerEnds` says that only a finished request has been
answered. `ConflictsHaveCauses` needs `LockHasOwner`: a lock,
and whoever waits behind it, points at a request that has passed the gate, and that stays
so.

**Reviewers and workers on the same tables.** `GateInvariant`, for any number of
workers and reviewers: `SystemTypeCorrect`, `ReviewGate`, `NoFalseConfirmationReviewed`,
`AnnouncedReviewed`.
`ApprovedBeforeMoved` says nothing of the path a payment takes from its approval to the
worker. `GateInv` follows it backwards: what a worker accepts was requested
(`AcceptedRequested`), a request event of a payment that was held was written by an
approval (`RequestsApproved`), and no event speaks of a payment
that was not inserted (`NoOrphan`).
The worker's part is `SharedInv`, whose lemmas are cited and not proved again: the
steps of a reviewer change rows and append events, and `SharedInv` survives that.
`PendingInvariant`, with one worker: `ApprovalNotLost`, `NothingStrandedReviewed`.
`OneRequest` and `RequestsMatch` fail here (two approvals write two requests, and a
rejection may meet a pending request); what remains of `SingleInv` is `HeldPending`
and `LoadedFresh`: a reviewer's UPDATE leaves the version alone, so the worker still
never loses the race for it, and reviewers append requests but never settle one.

**The limits** (`LimitsInv`): `LimitsHold` for the service
alone, `DailyLimitHolds`, `CounterIsEnough`, `OutagesAreBounded` for the composed use
case, all of requests in turn and for amounts to any decimals. The counter rounds half a
cent to even and the table up, so the table may have a cent more for each payment of half
a cent (`HalfCents`), and for no other (`CountedCloseToStored`): that cent is part of the
three properties, and without it they are false of the code (section 6).
`WithinDailyLimit` is not inductive: `DailyInv` adds that the counter stays within
the limit, that what was paid exceeds it by at most one further limit, and what each
step of a request has read. `OneInFlight`, which holds as long as `inTurn` does, makes
what a request has read still true when it writes.
`OutagesAreBounded` speaks of commands that fail, not of a Redis that loses its keys.
The composition reuses the lemmas: each of its steps is a step of `SpendingLimits` or
leaves its variables alone.

**The velocity window** (`VelocityInv`, of requests in turn): `VelocityHolds`,
`VelocityLimitHolds`. A request reads the clock once and writes its member later, so what
it knows is about the window that ended when it read. `Sound` states that for any
time from then on: the set has at least as many members as admissions
(`Covered`), and members of the same time are told apart by their counts, without which a
`ZADD` would overwrite a member and lose an admission. `Counting` says that between
`ZREMRANGEBYSCORE` and `ZADD` the set is pruned and the count read is its size. The
composition needs `FlowInv` here: it writes `now` a second time, for the AML record.

**The rate limiter** (`RateInv`, any number of concurrent requests): `ControlsKeepRates`.
`CountsPrompt` compares the requests let through with the counter, those between `INCR`
and `EXPIRE` included, of which there is at most one for each current key;
`OutlivesBucket` says that a key with a TTL expires only after its bucket, which is why a
late or lost `EXPIRE` does no harm and a shorter TTL would; `NothingAhead` that a new
bucket starts at zero.

**The provider call** (`CallInv`): `CallTypes`, `StormsAreBounded`. `Accounted` relates
`burst` to the failed calls (`MaxTries * failures`) and to the tries of the present one
(`Tried`), and says that an open circuit has no call in progress and a half-open one has.

**The risk score**: `SignalsFollowed` and `BlockNeedsAllSignals` for every context and
any set of failure counts, under the default thresholds (`DefaultThresholds`);
`ControlsBlockOnSignals` for the use case.

**Types of the controls, and sums** (`ControlsTyped`, any number of concurrent requests).
The type invariant contains `spent = Total(Stored, paid)`, and `Total` is a function over all
sets of requests. The library's induction on finite sets takes an operator and cannot be
cited, so `AmlRuleEngineProofs` argues by a smallest counterexample
(`SmallestSet`): a solution of the recursive equation exists, two solutions agree, hence
`Total` satisfies its equation and does not depend on the element it starts with. From
that follow `TotalAdd`, `TotalRemove`, `TotalMonotone`. `FlowInv` is the order of the use case,
which makes a payment be counted exactly once.

**The AML list** (`HistoryInv`, any number of overlapping requests): `HistoryHolds`.
`Kept` is the strengthening: a payment whose record was written is too old for both
windows, or the key lives for as long as it counts and the list has it, or as many
later entries as it can hold. The second half concerns a list that is not trimmed: a
`RedisError` between `LPUSH` and `LTRIM` leaves more than 501 entries behind, the payment
itself may be beyond the first 501, and the next `LTRIM` cuts it off. That the *first*
501 entries are no older than it is what every push and trim preserves; that *all*
entries are, is not. A request that has read its time and waits with its push (`Pending`)
breaks this order, at most once; `Listed` counts such entries, and `Kept` adds those that
have been pushed to those that may still be. A payment begins after every time that was
read before, but for the requests handled beside it, which is where `Beside` comes in
(`PendingInv`).

**The AML thresholds** (`ExplainedInv`, any number of overlapping requests):
`ThresholdHolds`, `SeriesHolds`, for the window that ends now and the payments whose
`created_at` it has. The history is read before the commit and written after
it, so a request is judged without those that are handled beside it, and several may
pass together. The theorems say how much that can cost: at most `Beside` payments
more than the threshold allows, none of requests in turn. `BusyInv` bounds the requests
handled together.
For each rule, `ExplainedInv` says that the payments in its window that went through,
together with those that have been evaluated and may still commit (`Room`), are covered by
three sets: at most `Beside` late ones, a set that one evaluation counted and found to fit,
and the lost records. When a request passes its evaluation, what it counted becomes the
second set and the late ones are the other requests busy at that moment
(`JoinsExplained`); a commit, which brings a payment with the `created_at` its request
had all along, and the clock only make the room smaller (`RoomStep`, `StaysExplained`).
Amounts are compared by the lesser of what was requested, which the list holds, and what
the table holds (`LesserAmount`), since one evaluation may have read either.

The bound is on windows that end now, and not on windows in the past, because it is false of
those: a payment created at 0 that commits and is stamped at 2 may have been evaluated when
another payment of time 0 had left the list, and then the window that ended at 0 holds
both. That is the price of `created_at` being the start of the transaction; by
the time the second is committed the window has left that moment behind.

Both theorems assume
`[]NotCrowded`: a full list always has more entries older than the key's life than requests
may have been handled beside one another, that is, the
customer has recorded at most `MaxHistory` payments within the longer window, to those. It is an
assumption about the customer, not about the code: with more payments than that the list
forgets some that still count, and the thresholds may be passed (`PROJECT.json`, hazard
at `aml_service.py:144`). Any list that never fills satisfies it, and so does a full one
whose last entries are old. Run `limits_controls` checks the same two properties
without the assumption: with its three requests no forgotten entry changes a decision.

The assumptions on constants are `CallAssumption`, `LimitsAssumption`, `RateAssumption`, `AmlAssumption`,
`RulesAssumption`, `RailAssumption` and `RequestsAssumption` (finitely many requests with
natural amounts, positive limits and windows, dimensions without repetition).

The invariants were model-checked on the instances of section 3 before they were
proved; those of the AML rules also on lists of one and of two entries, constrained to
`NotCrowded`. Every invariant and every action property of
the passing runs is stated by a theorem. Model-checked only: the liveness properties `RequestsSettle`, `EventsDrain`,
`EveryRequestAnswered` and `Recovers`, which the prover does not support. The theorems on
one worker say so in their hypothesis (`SingleWorker`), the properties of requests in
turn in their statement (`inTurn`); the runs with `expect: violation` show that it is needed for
`NoStranded` and `WithinVelocityLimit`.

## 6. Where code and documentation disagree

Each has a run with a counterexample; `PROJECT.json` (`findings`) quotes the lines.

1. `worker_stranded`: with two workers, the loser of `mark_processing` marks SENT an
   event that the winner has rescheduled; the payment stays `PROCESSING` for ever.
   The default deployment runs one worker, for which the opposite is proved.
2. `create_replay`: a late-comer answered from the row, not from the snapshot, gets
   a later status than the first response carried.
3. `review_toctou`: the status check of a review is not repeated by its UPDATE.
4. `breaker_refused`: `CircuitBreakerOpenError` is raised outside the retried
   operation and ends as "unexpected", so an open circuit fails payments for good.
5. `limits_race`: concurrent requests count the velocity window before any of them
   adds to it and are all admitted. The unit test that asserts the opposite uses
   a fake whose commands never yield. The daily counter has the same shape (GET, compare,
   SET): two requests that both read the old total are both admitted, and no property
   excludes it (`PROJECT.json`, hazard at `limits_service.py:116`).

More observations: the Redis lock is never released, so a retry after a rejection
is answered 409 until the TTL ends (`ConflictHasCause` says that there is no other reason
for a 409). After a Redis outage the daily counter under-reports, which costs at
most a second limit (`OutageBound`). An amount of 1.005 counts 100 cents and is stored as
1.01, so that even with Redis answering and one request at a time the payments of a day
exceed the daily limit by up to a cent for each of them (`WithinDailyLimit` grants that
cent, by name).

## 7. Not modelled, planned

Not modelled: HTTP routing and error mapping, configuration, migrations, logging,
telemetry, edge proxy, load tests and dashboards (no protocol state), the payment
query (a single read), provider strategies (a table), payload contents and DTO
validation. A Redis that loses its keys, and a provider that accepts after the client's
timeout. Durations are abstracted to "may have passed".

Of the controls: several rails of one customer (the limits, the velocity set and every
query are by rail; the AML list is shared by the rails, whose entries can push each
other out of its 501), the parsing of list entries, the change of the day, and a policy
that is changed in the table while it is cached. Overlapping requests are followed
through the limits (`limits_race`), two at a time through the AML rules
(`limits_controls`), and in any number by the proofs, through the rate limiter
(`ControlsKeepRates`), the AML thresholds (`ThresholdHolds`, `SeriesHolds`), the list and
the table (`HistoryHolds`, `ControlsTyped`).

Planned:

1. `PaymentSystem`: `CreatePayment`, worker and reviewers on the same tables,
   replacing `StatusMoves` and `Submit` by the components; idempotency and
   `NoStranded` end to end.
2. Proofs: what else survives of the single-worker theorems with several workers;
   beside the theorems of `SharedInvariant` that is `FinalAnnounced` so far.
