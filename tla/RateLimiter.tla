------------------------------ MODULE RateLimiter ------------------------------
(***************************************************************************)
(* payments-api, RateLimiterService: one counter in Redis per dimension    *)
(* and bucket of time.  INCR and EXPIRE are commands of their own, and the *)
(* bucket is read once, before the first of them.  The module gives the    *)
(* counters and the steps of a request on them; the composing module says  *)
(* when a request takes them.  All requests name one merchant, customer    *)
(* and account.                                                            *)
(***************************************************************************)
EXTENDS CustomerRequests, Sequences

CONSTANTS Dimensions,   \* MERCHANT, CUSTOMER and ACCOUNT, in the order of checks
          RateLimit,    \* RateLimit[d]: merchant_, customer_ and account_rate_limit
          RateWindow    \* settings.rate_limit_window_seconds

Dimension == {Dimensions[i] : i \in DOMAIN Dimensions}

ASSUME RateAssumption ==
    /\ Dimensions \in Seq({"MERCHANT", "CUSTOMER", "ACCOUNT"})
    /\ \A i, j \in DOMAIN Dimensions : Dimensions[i] = Dimensions[j] => i = j
    /\ Dimensions # << >>
    /\ RateLimit \in [Dimension -> Nat \ {0}]
    /\ RateWindow \in Nat \ {0}

VARIABLES
    hits,       \* hits[k]: the counter of key k; 0 when it is absent
    expiry,     \* expiry[k]: when key k expires; NoTtl when it does not
    asking,     \* asking[r]: the check request r is at
    prompt      \* prompt[d]: requests let through in the bucket of the clock itself

rateVars == <<hits, expiry, asking, prompt>>

Bucket == 0 .. MaxTime \div RateWindow
Key == Dimension \X Bucket
NoTtl == -1

\* Where a request is: before enforce, at INCR or EXPIRE of a check, or through.
Idle == [at |-> "idle", check |-> 1, bucket |-> 0]
Ask == [at : {"idle", "incr", "expire", "through", "refused"},
        check : DOMAIN Dimensions, bucket : Bucket]

RateTypeOK ==
    /\ hits \in [Key -> Nat]
    /\ expiry \in [Key -> {NoTtl} \cup Nat]
    /\ asking \in [Requests -> Ask]
    /\ prompt \in [Dimension -> Nat]

RateInit ==
    /\ hits = [k \in Key |-> 0]
    /\ expiry = [k \in Key |-> NoTtl]
    /\ asking = [r \in Requests |-> Idle]
    /\ prompt = [d \in Dimension |-> 0]

-------------------------------------------------------------------------------
BucketAt(time) == time \div RateWindow

Asked(r) == Dimensions[asking[r].check]

KeyOf(r) == <<Asked(r), asking[r].bucket>>

\* The next check; after the last one enforce returns.
Advance(r) ==
    LET ask == asking[r] IN
    asking' = [asking EXCEPT ![r] =
        IF ask.check = Len(Dimensions) THEN [Idle EXCEPT !.at = "through"]
        ELSE [ask EXCEPT !.at = "incr", !.check = ask.check + 1]]

\* _allow returns: the request goes on, and is counted if its bucket is current.
Allow(r) ==
    /\ Advance(r)
    /\ prompt' = [prompt EXCEPT ![Asked(r)] =
                    IF asking[r].bucket = BucketAt(clock) THEN @ + 1 ELSE @]

\* RateLimitedError
RefuseRate(r) ==
    /\ asking' = [asking EXCEPT ![r] = [Idle EXCEPT !.at = "refused"]]
    /\ UNCHANGED prompt

StopAsking(r) == asking' = [asking EXCEPT ![r] = Idle]

\* enforce: now_bucket.
ReadBucket(r) ==
    /\ asking[r].at = "idle"
    /\ asking' = [asking EXCEPT ![r] =
                    [at |-> "incr", check |-> 1, bucket |-> BucketAt(clock)]]
    /\ UNCHANGED <<hits, expiry, prompt>>

WithinLimit(r, current) == current <= RateLimit[Asked(r)]

\* INCR; current == 1 asks for the EXPIRE, otherwise current <= limit decides.
Increment(r) ==
    LET current == hits[KeyOf(r)] + 1 IN
    /\ asking[r].at = "incr"
    /\ hits' = [hits EXCEPT ![KeyOf(r)] = current]
    /\ IF current = 1
       THEN asking' = [asking EXCEPT ![r].at = "expire"] /\ UNCHANGED prompt
       ELSE IF WithinLimit(r, current) THEN Allow(r) ELSE RefuseRate(r)
    /\ UNCHANGED expiry

\* Faulty variant: the key lives half a window.
TtlHalved == RateWindow \div 2

Ttl == RateWindow

\* EXPIRE; 1 <= limit.
Expire(r) ==
    /\ asking[r].at = "expire"
    /\ expiry' = [expiry EXCEPT ![KeyOf(r)] = clock + Ttl]
    /\ Allow(r)
    /\ UNCHANGED hits

\* RedisError at either command, which may have been executed, lets the request
\* through.
RateRedisFails(r) ==
    \/ /\ asking[r].at = "incr"
       /\ hits' \in {hits, [hits EXCEPT ![KeyOf(r)] = @ + 1]}
       /\ Advance(r)
       /\ UNCHANGED <<expiry, prompt>>
    \/ /\ asking[r].at = "expire"
       /\ expiry' \in {expiry, [expiry EXCEPT ![KeyOf(r)] = clock + Ttl]}
       /\ Allow(r)
       /\ UNCHANGED hits

\* The clock moves to time: keys expire, and a new bucket starts afresh.
RateTick(time) ==
    LET gone == {k \in Key : expiry[k] # NoTtl /\ expiry[k] <= time} IN
    /\ hits' = [k \in Key |-> IF k \in gone THEN 0 ELSE hits[k]]
    /\ expiry' = [k \in Key |-> IF k \in gone THEN NoTtl ELSE expiry[k]]
    /\ prompt' = [d \in Dimension |->
                    IF BucketAt(time) = BucketAt(clock) THEN prompt[d] ELSE 0]
    /\ UNCHANGED asking

-------------------------------------------------------------------------------
\* "Scoped rate limiting (merchant, customer, account)": in no bucket does a
\* dimension let more requests through on time than its limit, although INCR and
\* EXPIRE are separate commands and the request may die between them
\* (RateLimiterService._allow).  A request let through because INCR failed, or one
\* delayed past the end of its bucket, is not counted.
PromptWithinBudget ==
    \A d \in Dimension : prompt[d] <= RateLimit[d]

===============================================================================
