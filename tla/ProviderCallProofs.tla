-------------------------- MODULE ProviderCallProofs --------------------------
(***************************************************************************)
(* How many requests in a row retry and circuit breaker let fail, for any  *)
(* threshold and any number of tries: burst never exceeds what the failed  *)
(* calls and the tries of the present call account for.                    *)
(***************************************************************************)
EXTENDS ProviderCall, TLAPS

\* The failed requests of the present call.
Tried == CASE pc = "calling" -> try - 1
           [] pc = "backoff" -> try
           [] OTHER          -> 0

Accounted ==
    /\ breaker = "closed" => /\ failures < Threshold
                             /\ burst <= MaxTries * failures + Tried
    /\ breaker = "half_open" => pc # "idle" /\ burst <= Tried
    /\ breaker = "open" => pc = "idle" /\ burst <= MaxTries * Threshold
    /\ pc = "backoff" => try < MaxTries

CallInv == TypeOK /\ Accounted

-------------------------------------------------------------------------------
\* The requests of n calls.
LEMMA Product ==
    ASSUME NEW n \in 0 .. Threshold
    PROVE  /\ MaxTries * n \in Nat /\ MaxTries * Threshold \in Nat
           /\ MaxTries * (n + 1) = MaxTries * n + MaxTries
           /\ n < Threshold => MaxTries * n + MaxTries <= MaxTries * Threshold
           /\ MaxTries <= MaxTries * Threshold /\ MaxTries * 0 = 0
<1> USE CallAssumption DEF CallAssumption
<1>1. \A x, y, z \in Nat : x <= y => z * x <= z * y
    OBVIOUS
<1>2. MaxTries * (n + 1) = MaxTries * n + MaxTries /\ MaxTries * 0 = 0
    OBVIOUS
<1>3. n < Threshold => MaxTries * (n + 1) <= MaxTries * Threshold
    BY <1>1
<1>4. MaxTries * 1 <= MaxTries * Threshold /\ MaxTries * 1 = MaxTries
    BY <1>1
<1> QED
    BY <1>2, <1>3, <1>4

\* A call ends with one more failed request: OnFailure, the last of its tries or an
\* error that is not retried (CircuitBreaker.on_failure).
LEMMA FailureStep ==
    ASSUME CallInv, pc = "calling", OnFailure, burst' = burst + 1, pc' = "idle",
           event' \in Event, UNCHANGED <<try, healthy>>
    PROVE  CallInv'
<1> USE CallAssumption DEF CallAssumption
<1> DEFINE spentBefore == MaxTries * failures
           spentAfter == MaxTries * (failures + 1)
           bound == MaxTries * Threshold
<1>1. /\ failures \in 0 .. Threshold /\ try \in 1 .. MaxTries /\ burst \in Nat
      /\ Tried = try - 1 /\ Tried' = 0
    BY DEF CallInv, TypeOK, Tried
<1>2. /\ spentBefore \in Nat /\ bound \in Nat /\ MaxTries <= bound
      /\ spentAfter = spentBefore + MaxTries
      /\ failures < Threshold => spentAfter <= bound
    BY <1>1, Product
<1>3. elapsed' \in BOOLEAN /\ healthy' \in BOOLEAN
    BY Zenon DEF OnFailure, TripOpen, CallInv, TypeOK
<1>4. CASE breaker = "half_open"
    <2>1. /\ breaker' = "open" /\ elapsed' = FALSE /\ failures' = failures
          /\ burst <= try - 1
        BY <1>1, <1>4 DEF OnFailure, TripOpen, CallInv, Accounted
    <2>2. burst' <= bound
        BY <1>1, <1>2, <2>1
    <2>3. TypeOK'
        BY <1>1, <1>3, <2>1 DEF TypeOK
    <2> QED
        BY <2>1, <2>2, <2>3 DEF CallInv, Accounted
<1>5. CASE breaker = "closed"
    <2>1. /\ failures < Threshold /\ failures' = failures + 1
          /\ burst <= spentBefore + (try - 1)
        BY <1>1, <1>5 DEF OnFailure, CallInv, Accounted
    <2> HIDE DEF spentBefore, spentAfter, bound
    <2>2. burst' <= spentAfter
        BY <1>1, <1>2, <2>1
    <2>3. CASE failures + 1 >= Threshold
        <3>1. breaker' = "open" /\ elapsed' = FALSE /\ failures' \in 0 .. Threshold
            BY <2>1, <2>3, <1>1, <1>5 DEF OnFailure, TripOpen
        <3>2. burst' <= bound /\ burst' \in Nat
            BY <1>1, <1>2, <2>1, <2>2
        <3>3. TypeOK'
            BY <3>1, <3>2, <1>1, <1>3 DEF TypeOK
        <3> QED
            BY <3>1, <3>2, <3>3 DEF CallInv, Accounted, bound
    <2>4. CASE ~(failures + 1 >= Threshold)
        <3>1. UNCHANGED <<breaker, elapsed>> /\ failures' \in 0 .. Threshold
              /\ failures' < Threshold
            BY <2>1, <2>4, <1>1, <1>5 DEF OnFailure
        <3>2. burst' <= MaxTries * failures' + Tried'
            BY <1>1, <1>2, <2>1, <2>2 DEF spentAfter
        <3>3. TypeOK'
            BY <3>1, <1>1, <1>5, <1>3 DEF TypeOK
        <3> QED
            BY <3>1, <3>2, <3>3, <1>5 DEF CallInv, Accounted
    <2> QED
        BY <2>3, <2>4
<1>6. breaker # "open" /\ breaker \in {"closed", "half_open", "open"}
    BY DEF CallInv, TypeOK, Accounted
<1> QED
    BY <1>4, <1>5, <1>6

\* The event a call ends with.
LEMMA EventFacts ==
    ASSUME TypeOK
    PROVE  /\ \A n \in 0 .. MaxAttempts - 1, o \in Outcome : Fetched(n, o) \in Event
           /\ \A o \in Outcome : /\ [event EXCEPT !.asked = TRUE, !.outcome = o] \in Event
                                 /\ [event EXCEPT !.outcome = o] \in Event
           /\ [event EXCEPT !.asked = TRUE] \in Event
<1>1. ASSUME NEW n \in 0 .. MaxAttempts - 1, NEW o \in Outcome
      PROVE  Fetched(n, o) \in Event
    <2>1. (n > 0) \in BOOLEAN
        OBVIOUS
    <2> QED
        BY <2>1, Zenon DEF Fetched, Event
<1>2. event \in Event
    BY DEF TypeOK
<1>3. ASSUME NEW o \in Outcome
      PROVE  [event EXCEPT !.outcome = o] \in Event
    BY <1>2 DEF Event
<1>4. [event EXCEPT !.asked = TRUE] \in Event
    BY <1>2 DEF Event
<1>5. ASSUME NEW o \in Outcome
      PROVE  [event EXCEPT !.asked = TRUE, !.outcome = o] \in Event
    BY <1>2 DEF Event
<1> QED
    BY <1>1, <1>3, <1>4, <1>5

LEMMA CallStep == CallInv /\ [Next]_vars => CallInv'
<1> SUFFICES ASSUME CallInv, [Next]_vars PROVE CallInv'
    OBVIOUS
<1> USE CallAssumption DEF CallAssumption
<1>1. /\ TypeOK /\ failures \in 0 .. Threshold /\ try \in 1 .. MaxTries /\ burst \in Nat
      /\ MaxTries * failures \in Nat /\ MaxTries * Threshold \in Nat /\ MaxTries * 0 = 0
    BY Product DEF CallInv, TypeOK
<1>2. ASSUME NEW n \in 0 .. MaxAttempts - 1, AllowCall(n) PROVE CallInv'
    <2>1. event' \in Event
        BY <1>1, <1>2, EventFacts DEF AllowCall, Outcome
    <2>2. TypeOK'
        BY <1>1, <1>2, <2>1 DEF AllowCall, TypeOK
    <2>3. Tried = 0 /\ Tried' = 0
        BY <1>2 DEF AllowCall, Tried
    <2>4. Accounted'
        BY <1>1, <1>2, <2>3 DEF AllowCall, CallInv, TypeOK, Accounted
    <2> QED
        BY <2>2, <2>4 DEF CallInv
<1>3. ASSUME NEW n \in 0 .. MaxAttempts - 1, RefuseCall(n) PROVE CallInv'
    <2>1. event' \in Event
        BY <1>1, <1>3, EventFacts DEF RefuseCall, Outcome
    <2> QED
        BY <1>1, <1>3, <2>1 DEF RefuseCall, breakerVars, CallInv, TypeOK, Accounted, Tried
<1>4. CASE Succeed
    <2>1. event' \in Event
        BY <1>1, <1>4, EventFacts DEF Succeed, Ends, Outcome
    <2>2. TypeOK'
        <3>1. elapsed' \in BOOLEAN /\ healthy' \in BOOLEAN
            BY <1>1, <1>4, Zenon DEF Succeed, OnSuccess, TypeOK
        <3> QED
            BY <1>1, <1>4, <2>1, <3>1 DEF Succeed, OnSuccess, Ends, TypeOK
    <2>3. Accounted'
        BY <1>1, <1>4 DEF Succeed, OnSuccess, Ends, Accounted, Tried
    <2> QED
        BY <2>2, <2>3 DEF CallInv
<1>5. CASE RetryCall
    <2>1. event' \in Event
        BY <1>1, <1>5, EventFacts DEF RetryCall
    <2>2. TypeOK'
        BY <1>1, <1>5, <2>1 DEF RetryCall, breakerVars, TypeOK
    <2>3. Tried = try - 1 /\ Tried' = try /\ try < MaxTries
        BY <1>1, <1>5 DEF RetryCall, LastTry, Tried
    <2>4. Accounted'
        BY <1>1, <1>5, <2>3 DEF RetryCall, breakerVars, CallInv, Accounted
    <2> QED
        BY <2>2, <2>4 DEF CallInv
<1>6. CASE GiveUpCall \/ FailCall
    <2>1. event' \in Event
        BY <1>1, <1>6, EventFacts DEF GiveUpCall, FailCall, Ends, Outcome
    <2> QED
        BY <1>6, <2>1, FailureStep DEF GiveUpCall, FailCall, Ends
<1>7. CASE Wake
    <2>1. Tried = try /\ Tried' = try /\ try < MaxTries /\ try' = try + 1
        BY <1>1, <1>7 DEF Wake, Tried, CallInv, Accounted
    <2>2. TypeOK'
        BY <1>1, <1>7, <2>1 DEF Wake, breakerVars, TypeOK
    <2>3. Accounted'
        BY <1>1, <1>7, <2>1 DEF Wake, breakerVars, CallInv, Accounted
    <2> QED
        BY <2>2, <2>3 DEF CallInv
<1>8. CASE Elapse \/ HealthChanges \/ UNCHANGED vars
    BY <1>1, <1>8
       DEF Elapse, HealthChanges, vars, breakerVars, CallInv, TypeOK, Accounted, Tried
<1>9. CASE Restart
    <2>1. event' \in Event
        BY <1>1, <1>9, EventFacts DEF Restart, Outcome, TypeOK
    <2>2. TypeOK'
        <3>1. elapsed' \in BOOLEAN /\ healthy' \in BOOLEAN
            BY <1>1, <1>9, Zenon DEF Restart, TypeOK
        <3> QED
            BY <1>1, <1>9, <2>1, <3>1 DEF Restart, TypeOK
    <2>3. Accounted'
        BY <1>1, <1>9 DEF Restart, Accounted, Tried
    <2> QED
        BY <2>2, <2>3 DEF CallInv
<1> QED
    BY <1>2, <1>3, <1>4, <1>5, <1>6, <1>7, <1>8, <1>9 DEF Next

LEMMA CallStart == Init => CallInv
<1> SUFFICES ASSUME Init PROVE CallInv
    OBVIOUS
<1> USE CallAssumption DEF CallAssumption
<1>1. TypeOK
    <2>1. elapsed \in BOOLEAN /\ healthy \in BOOLEAN
        BY Zenon DEF Init
    <2>2. event \in Event
        BY DEF Init, Event, Outcome
    <2> QED
        BY <2>1, <2>2 DEF Init, TypeOK
<1>2. Accounted
    BY Product DEF Init, Accounted, Tried
<1> QED
    BY <1>1, <1>2 DEF CallInv

\* The variables of breaker, retry and worker keep their types; in particular the
\* failure counter never passes the threshold, although a trial that fails leaves it
\* where it was (CircuitBreaker.on_failure).
THEOREM CallTypes == Spec => []TypeOK
<1>1. CallInv => TypeOK
    BY DEF CallInv
<1> QED
    BY <1>1, CallStart, CallStep, PTL DEF Spec

\* "Protects downstream provider calls from retry storms": no more than MaxTries
\* requests in a row fail for each of Threshold calls, and no more than MaxTries
\* while the circuit is half open (CallProviderCommand.execute).
THEOREM StormsAreBounded == Spec => []StormBound
<1>1. CallInv => StormBound
    <2> SUFFICES ASSUME CallInv PROVE StormBound
        OBVIOUS
    <2> USE CallAssumption DEF CallAssumption
    <2> DEFINE spent == MaxTries * failures
               bound == MaxTries * Threshold
    <2>1. /\ failures \in 0 .. Threshold /\ try \in 1 .. MaxTries /\ burst \in Nat
          /\ Tried \in Nat /\ Tried <= MaxTries
        BY DEF CallInv, TypeOK, Tried
    <2>2. /\ spent \in Nat /\ bound \in Nat
          /\ failures < Threshold => spent + MaxTries <= bound
        BY <2>1, Product
    <2>3. /\ breaker = "closed" => failures < Threshold /\ burst <= spent + Tried
          /\ breaker = "half_open" => burst <= Tried
          /\ breaker = "open" => burst <= bound
          /\ breaker \in {"closed", "open", "half_open"}
        BY DEF CallInv, TypeOK, Accounted
    <2> HIDE DEF spent, bound
    <2>4. burst <= IF breaker = "half_open" THEN MaxTries ELSE bound
        BY <2>1, <2>2, <2>3
    <2> QED
        BY <2>4 DEF StormBound, bound
<1> QED
    BY <1>1, CallStart, CallStep, PTL DEF Spec

===============================================================================
