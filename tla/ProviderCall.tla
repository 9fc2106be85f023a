----------------------------- MODULE ProviderCall -----------------------------
(***************************************************************************)
(* payments-processor, CallProviderCommand.execute: one provider's circuit *)
(* breaker, the retries around the HTTP call, and what the worker makes of *)
(* each outcome.  The worker handles one event at a time, so one call is   *)
(* in progress and the bulkhead's semaphore never blocks.  The breaker     *)
(* lives in memory: a restart of the process forgets it.                   *)
(***************************************************************************)
EXTENDS Naturals

CONSTANTS Threshold,        \* CircuitBreakerConfig.failure_threshold
          MaxTries,         \* retry_async(max_attempts)
          MaxAttempts       \* settings.max_event_attempts

ASSUME CallAssumption ==
    /\ Threshold \in Nat \ {0}
    /\ MaxTries \in Nat \ {0}
    /\ MaxAttempts \in Nat \ {0}

VARIABLES
    breaker,    \* CircuitBreaker._state
    failures,   \* CircuitBreaker._failures
    elapsed,    \* recovery_timeout_seconds have passed since _opened_at
    pc,         \* "idle", "calling" the provider, "backoff" between two tries
    try,        \* attempt, the loop variable of retry_async
    event,      \* the outbox event being handled, or handled last
    healthy,    \* the provider answers
    burst       \* HTTP requests that failed since the provider last answered,
                \* was left alone for a recovery timeout, or we restarted

breakerVars == <<breaker, failures, elapsed>>
vars == <<breakerVars, pc, try, event, healthy, burst>>

\* answered: confirmed or partial; retried: rescheduled; failed: the payment is
\* FAILED for good; dropped: rolled back, to be fetched again.
Outcome == {"open", "answered", "retried", "failed", "dropped"}

\* asked: a request for the payment was sent, in this attempt or before.
Event == [attempts : 0 .. MaxAttempts - 1, asked : BOOLEAN, outcome : Outcome]

TypeOK ==
    /\ breaker \in {"closed", "open", "half_open"}
    /\ failures \in 0 .. Threshold
    /\ elapsed \in BOOLEAN
    /\ pc \in {"idle", "calling", "backoff"}
    /\ try \in 1 .. MaxTries
    /\ event \in Event
    /\ healthy \in BOOLEAN
    /\ burst \in Nat

Init ==
    /\ breaker = "closed"
    /\ failures = 0
    /\ elapsed = FALSE
    /\ pc = "idle"
    /\ try = 1
    /\ event = [attempts |-> 0, asked |-> FALSE, outcome |-> "dropped"]
    /\ healthy = TRUE
    /\ burst = 0

-------------------------------------------------------------------------------
(* CircuitBreaker.                                                         *)

\* allow_call does not raise.
Allowed == breaker = "open" => elapsed

\* Faulty variant: the half-open state is never left.
OnSuccessUnnoticed ==
    /\ failures' = 0
    /\ elapsed' = FALSE
    /\ UNCHANGED breaker

OnSuccess ==
    /\ breaker' = "closed"
    /\ failures' = 0
    /\ elapsed' = FALSE

TripOpen ==
    /\ breaker' = "open"
    /\ elapsed' = FALSE

\* A failed trial opens the circuit again and leaves the counter alone.
OnFailure ==
    IF breaker = "half_open"
    THEN TripOpen /\ UNCHANGED failures
    ELSE /\ failures' = failures + 1
         /\ IF failures + 1 >= Threshold THEN TripOpen
                                         ELSE UNCHANGED <<breaker, elapsed>>

\* The clock passes _opened_at + recovery_timeout_seconds.
Elapse ==
    /\ breaker = "open"
    /\ ~elapsed
    /\ elapsed' = TRUE
    /\ UNCHANGED <<breaker, failures, pc, try, event, healthy, burst>>

-------------------------------------------------------------------------------
(* The command and the worker around it.                                   *)

\* An event with n attempts is fetched; its earlier attempts were calls.
Fetched(n, outcome) == [attempts |-> n, asked |-> n > 0, outcome |-> outcome]

AllowCall(n) ==
    /\ pc = "idle"
    /\ Allowed
    /\ breaker' = IF breaker = "open" THEN "half_open" ELSE breaker
    /\ burst' = IF breaker = "open" THEN 0 ELSE burst
    /\ pc' = "calling"
    /\ try' = 1
    /\ event' = Fetched(n, "open")
    /\ UNCHANGED <<failures, elapsed, healthy>>

\* allow_call raises outside the try block: no retry, no on_failure, and for the
\* worker an unexpected exception, with which the payment fails.
RefuseCall(n) ==
    /\ pc = "idle"
    /\ ~Allowed
    /\ event' = Fetched(n, "failed")
    /\ UNCHANGED <<breakerVars, pc, try, healthy, burst>>

Ends(outcome) ==
    /\ pc' = "idle"
    /\ event' = [event EXCEPT !.asked = TRUE, !.outcome = outcome]

Succeed ==
    /\ pc = "calling"
    /\ OnSuccess
    /\ Ends("answered")
    /\ burst' = 0
    /\ UNCHANGED <<try, healthy>>

\* Faulty variant: one try too many.
LastTryOffByOne == try > MaxTries

\* retry_async raises instead of trying again.
LastTry == try = MaxTries

\* Timeout or 5xx, to be tried again after a back-off ...
RetryCall ==
    /\ pc = "calling"
    /\ ~healthy
    /\ ~LastTry
    /\ pc' = "backoff"
    /\ event' = [event EXCEPT !.asked = TRUE]
    /\ burst' = burst + 1
    /\ UNCHANGED <<breakerVars, try, healthy>>

\* ... or for the last time: the worker reschedules or gives up.
GiveUpCall ==
    /\ pc = "calling"
    /\ ~healthy
    /\ LastTry
    /\ OnFailure
    /\ Ends(IF event.attempts + 1 >= MaxAttempts THEN "failed" ELSE "retried")
    /\ burst' = burst + 1
    /\ UNCHANGED <<try, healthy>>

\* Any other error (4xx, connection refused, malformed answer) is not retried.
FailCall ==
    /\ pc = "calling"
    /\ ~healthy
    /\ OnFailure
    /\ Ends("failed")
    /\ burst' = burst + 1
    /\ UNCHANGED <<try, healthy>>

Wake ==
    /\ pc = "backoff"
    /\ pc' = "calling"
    /\ try' = try + 1
    /\ UNCHANGED <<breakerVars, event, healthy, burst>>

\* The process restarts with new breakers; the event's transaction is lost.
Restart ==
    /\ breaker' = "closed"
    /\ failures' = 0
    /\ elapsed' = FALSE
    /\ pc' = "idle"
    /\ event' = IF pc = "idle" THEN event ELSE [event EXCEPT !.outcome = "dropped"]
    /\ burst' = 0
    /\ UNCHANGED <<try, healthy>>

\* The provider breaks down or recovers.
HealthChanges ==
    /\ healthy' = ~healthy
    /\ UNCHANGED <<breakerVars, pc, try, event, burst>>

Next ==
    \/ \E n \in 0 .. MaxAttempts - 1 : AllowCall(n) \/ RefuseCall(n)
    \/ Succeed \/ RetryCall \/ GiveUpCall \/ FailCall \/ Wake
    \/ Elapse \/ Restart \/ HealthChanges

Spec == Init /\ [][Next]_vars

\* Time passes, the worker keeps polling and a call that was made ends; that
\* events for the provider keep arriving is an assumption on its merchants.
FairSpec ==
    /\ Spec
    /\ WF_vars(Elapse)
    /\ WF_vars(Wake)
    /\ WF_vars(\E n \in 0 .. MaxAttempts - 1 : AllowCall(n))
    /\ WF_vars(Succeed)

-------------------------------------------------------------------------------
\* "Protects downstream provider calls from retry storms": retries and breaker
\* together let no more than MaxTries * Threshold requests in a row fail, and no
\* more than MaxTries in the trial after a recovery timeout.
StormBound ==
    burst <= IF breaker = "half_open" THEN MaxTries ELSE MaxTries * Threshold

\* The circuit closes again: a provider that stays up is not refused for ever.
Recovers ==
    breaker # "closed" ~> (breaker = "closed" \/ ~healthy)

\* An open circuit is a transient error: it does not fail a payment of which the
\* provider has never heard.
FailedOnlyAfterAsking ==
    event.outcome = "failed" => event.asked

===============================================================================
