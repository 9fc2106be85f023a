--------------------------- MODULE RateLimiterProofs ---------------------------
(***************************************************************************)
(* Lemmas about RateLimiter, one per step on its counters, for any number  *)
(* of requests that are handled at the same time.  PaymentControlsProofs   *)
(* puts them together.                                                     *)
(***************************************************************************)
EXTENDS RateLimiter, TLAPS

\* The counter a dimension uses at this time.
Current(d) == <<d, BucketAt(clock)>>

\* A request that has made the first INCR of a current counter and not its EXPIRE.
Opening(r) == asking[r].at = "expire" /\ asking[r].bucket = BucketAt(clock)

\* A counter does not expire before its bucket of time is over.
OutlivesBucket == \A k \in Key : expiry[k] # NoTtl => expiry[k] >= (k[2] + 1) * RateWindow

\* No request and no counter is of a bucket to come.
NothingAhead ==
    /\ \A r \in Requests : asking[r].bucket <= BucketAt(clock)
    /\ \A k \in Key : k[2] > BucketAt(clock) => hits[k] = 0

\* A current counter has counted all that it lets through, those about to be let
\* through by the first INCR included; of these there is one at most.
CountsPrompt ==
    /\ \A d \in Dimension : prompt[d] <= hits[Current(d)] /\ prompt[d] <= RateLimit[d]
    /\ \A r \in Requests : Opening(r) =>
        /\ prompt[Asked(r)] + 1 <= hits[Current(Asked(r))]
        /\ prompt[Asked(r)] + 1 <= RateLimit[Asked(r)]
    /\ \A q, r \in Requests : Opening(q) /\ Opening(r) /\ Asked(q) = Asked(r) => q = r

RateInv ==
    /\ RateTypeOK /\ clock \in 0 .. MaxTime
    /\ OutlivesBucket /\ NothingAhead /\ CountsPrompt

-------------------------------------------------------------------------------
\* Division by the window.
LEMMA DivFacts ==
    ASSUME NEW a \in Nat, NEW w \in Nat \ {0}
    PROVE  a \div w \in Nat /\ (a \div w) * w <= a /\ a < (a \div w + 1) * w
<1>1. a = w * (a \div w) + (a % w) /\ (a % w) \in 0 .. w - 1 /\ a \div w \in Int
    OBVIOUS
<1>2. a \div w \in Nat
    OBVIOUS
<1> QED
    BY <1>1, <1>2

LEMMA MulMono ==
    ASSUME NEW x \in Nat, NEW y \in Nat, NEW w \in Nat, x <= y
    PROVE  x * w <= y * w
OBVIOUS

LEMMA DivMono ==
    ASSUME NEW a \in Nat, NEW b \in Nat, NEW w \in Nat \ {0}, a <= b
    PROVE  a \div w <= b \div w
<1> DEFINE p == a \div w
           q == b \div w
<1>1. p \in Nat /\ q \in Nat /\ p * w <= a /\ b < (q + 1) * w
    BY DivFacts
<1> HIDE DEF p, q
<1>2. SUFFICES ASSUME q + 1 <= p PROVE FALSE
    BY <1>1 DEF p, q
<1>3. (q + 1) * w <= p * w
    BY <1>1, <1>2, MulMono
<1> DEFINE pw == p * w
           qw == (q + 1) * w
<1>4. pw \in Int /\ qw \in Int
    BY <1>1
<1> QED
    BY <1>1, <1>3, <1>4

\* The bucket of a time the clock can show.
LEMMA BucketFacts ==
    ASSUME NEW t \in 0 .. MaxTime
    PROVE  /\ BucketAt(t) \in Bucket /\ BucketAt(t) \in Nat
           /\ BucketAt(t) * RateWindow <= t /\ t < (BucketAt(t) + 1) * RateWindow
<1> USE RateAssumption, RequestsAssumption DEF RateAssumption, RequestsAssumption
<1>1. MaxTime \in Nat /\ RateWindow \in Nat \ {0} /\ t \in Nat /\ t <= MaxTime
    OBVIOUS
<1>2. /\ BucketAt(t) \in Nat /\ MaxTime \div RateWindow \in Nat
      /\ BucketAt(t) * RateWindow <= t /\ t < (BucketAt(t) + 1) * RateWindow
    BY <1>1, DivFacts DEF BucketAt
<1>3. BucketAt(t) <= MaxTime \div RateWindow
    BY <1>1, DivMono DEF BucketAt
<1> QED
    BY <1>2, <1>3 DEF Bucket

-------------------------------------------------------------------------------
\* The key a request asks about, and the current one of a dimension.
LEMMA KeyFacts ==
    ASSUME RateInv, NEW r \in Requests
    PROVE  /\ asking[r] \in Ask /\ Asked(r) \in Dimension /\ KeyOf(r) \in Key
           /\ \A d \in Dimension :
                /\ Current(d) \in Key
                /\ KeyOf(r) = Current(d) <=> Asked(r) = d /\ asking[r].bucket = BucketAt(clock)
<1>1. asking[r] \in Ask /\ BucketAt(clock) \in Bucket
    BY BucketFacts DEF RateInv, RateTypeOK
<1>2. Asked(r) \in Dimension /\ asking[r].bucket \in Bucket
    BY <1>1 DEF Asked, Ask, Dimension
<1> QED
    BY <1>1, <1>2 DEF KeyOf, Current, Key

\* Where a request is after a check.
LEMMA AdvanceFacts ==
    ASSUME RateInv, NEW r \in Requests, Advance(r)
    PROVE  \E a \in Ask : /\ asking' = [asking EXCEPT ![r] = a] /\ a.at # "expire"
                          /\ a.bucket <= BucketAt(clock)
<1> USE RateAssumption, RequestsAssumption DEF RateAssumption, RequestsAssumption
<1>1. asking[r] \in Ask /\ asking[r].bucket <= BucketAt(clock) /\ BucketAt(clock) \in Nat
    BY BucketFacts DEF RateInv, RateTypeOK, NothingAhead
<1>2. 0 \in Bucket /\ 1 \in DOMAIN Dimensions
    BY DivFacts DEF Bucket
<1>3. asking \in [Requests -> Ask]
    BY DEF RateInv, RateTypeOK
<1>4. CASE asking[r].check = Len(Dimensions)
    <2> DEFINE a == [Idle EXCEPT !.at = "through"]
    <2>1. a \in Ask /\ a.at # "expire" /\ a.bucket <= BucketAt(clock)
        BY <1>1, <1>2 DEF Ask, Idle
    <2>2. asking' = [asking EXCEPT ![r] = a]
        BY <1>4, <1>3 DEF Advance
    <2> HIDE DEF a
    <2> QED
        BY <1>1, <2>1, <2>2
<1>5. CASE asking[r].check # Len(Dimensions)
    <2> DEFINE a == [asking[r] EXCEPT !.at = "incr", !.check = asking[r].check + 1]
    <2>1. asking[r].check + 1 \in DOMAIN Dimensions
        BY <1>1, <1>5 DEF Ask
    <2>2. a \in Ask /\ a.at # "expire" /\ a.bucket = asking[r].bucket
        BY <1>1, <2>1 DEF Ask
    <2>3. asking' = [asking EXCEPT ![r] = a]
        BY <1>5, <1>3 DEF Advance
    <2> HIDE DEF a
    <2> QED
        BY <1>1, <2>2, <2>3
<1> QED
    BY <1>4, <1>5

\* A request moves and nothing is counted but, at most, its own INCR: now_bucket,
\* RateLimitedError, the RedisError of an INCR, the end of the request.
LEMMA UncountedStep ==
    ASSUME RateInv, NEW r \in Requests, NEW a \in Ask, a.at # "expire",
           a.bucket <= BucketAt(clock), asking' = [asking EXCEPT ![r] = a],
           hits' \in {hits, [hits EXCEPT ![KeyOf(r)] = @ + 1]},
           UNCHANGED <<clock, expiry, prompt>>
    PROVE  RateInv'
<1> DEFINE b == BucketAt(clock)
<1>1. /\ BucketAt(clock)' = b /\ b \in Nat
    BY BucketFacts DEF BucketAt, RateInv
<1>2. /\ asking' \in [Requests -> Ask] /\ asking'[r] = a
      /\ \A q \in Requests \ {r} : asking'[q] = asking[q]
    BY DEF RateInv, RateTypeOK
<1>3. /\ hits' \in [Key -> Nat]
      /\ \A k \in Key : hits'[k] >= hits[k]
      /\ \A k \in Key : k # KeyOf(r) => hits'[k] = hits[k]
    BY KeyFacts DEF RateInv, RateTypeOK
<1>4. RateTypeOK' /\ clock' \in 0 .. MaxTime
    BY <1>2, <1>3 DEF RateInv, RateTypeOK
<1>5. OutlivesBucket'
    BY DEF RateInv, OutlivesBucket
<1>6. NothingAhead'
    <2>1. KeyOf(r)[2] <= b
        BY DEF RateInv, NothingAhead, KeyOf
    <2>2. \A k \in Key : k[2] \in Nat
        BY RateAssumption, RequestsAssumption, DivFacts
           DEF Key, Bucket, RateAssumption, RequestsAssumption
    <2>3. \A k \in Key : k[2] > b => hits'[k] = 0
        BY <1>1, <1>3, <2>1, <2>2, KeyFacts DEF RateInv, NothingAhead
    <2> HIDE DEF b
    <2> QED
        BY <1>1, <1>2, <2>3 DEF RateInv, NothingAhead, b
<1>7. CountsPrompt'
    <2>1. \A d \in Dimension : Current(d)' = Current(d) /\ Current(d) \in Key
        BY <1>1, KeyFacts DEF Current
    <2>2. \A q \in Requests : Opening(q)' => q # r /\ Opening(q) /\ Asked(q)' = Asked(q)
        BY <1>1, <1>2 DEF Opening, Asked
    <2>3. \A q \in Requests : Asked(q) \in Dimension
        BY KeyFacts
    <2>4. /\ \A d \in Dimension : prompt[d] \in Nat /\ RateLimit[d] \in Nat
          /\ \A k \in Key : hits[k] \in Nat /\ hits'[k] \in Nat
        BY <1>3, RateAssumption DEF RateInv, RateTypeOK, RateAssumption
    <2>5. \A d \in Dimension : prompt'[d] <= hits'[Current(d)'] /\ prompt'[d] <= RateLimit[d]
        BY <1>3, <2>1, <2>4 DEF RateInv, CountsPrompt
    <2>6. ASSUME NEW q \in Requests, Opening(q)'
          PROVE  (/\ prompt[Asked(q)] + 1 <= hits[Current(Asked(q))]
                  /\ prompt[Asked(q)] + 1 <= RateLimit[Asked(q)])'
        <3>1. /\ prompt[Asked(q)] + 1 <= hits[Current(Asked(q))]
              /\ prompt[Asked(q)] + 1 <= RateLimit[Asked(q)]
            BY <2>2, <2>6 DEF RateInv, CountsPrompt
        <3>2. Asked(q)' = Asked(q) /\ Current(Asked(q))' = Current(Asked(q))
            BY <1>1, <2>2, <2>6 DEF Current
        <3>3. hits'[Current(Asked(q))] >= hits[Current(Asked(q))]
            BY <1>3, <2>1, <2>3
        <3> QED
            BY <2>1, <2>3, <2>4, <3>1, <3>2, <3>3
    <2> QED
        BY <2>2, <2>5, <2>6 DEF RateInv, CountsPrompt
<1> QED
    BY <1>4, <1>5, <1>6, <1>7 DEF RateInv

\* A request is let through a check: what that takes of the counter and the limit.
LEMMA AllowedStep ==
    ASSUME RateInv, NEW r \in Requests, Allow(r), UNCHANGED clock,
           hits' \in {hits, [hits EXCEPT ![KeyOf(r)] = @ + 1]},
           expiry' \in [Key -> {NoTtl} \cup Nat], OutlivesBucket',
           asking[r].bucket = BucketAt(clock) =>
                /\ prompt[Asked(r)] + 1 <= hits'[KeyOf(r)]
                /\ prompt[Asked(r)] + 1 <= RateLimit[Asked(r)],
           \A q \in Requests \ {r} :
                Opening(q) /\ Asked(q) = Asked(r) /\ asking[r].bucket = BucketAt(clock) =>
                    /\ prompt[Asked(r)] + 2 <= hits'[KeyOf(r)]
                    /\ prompt[Asked(r)] + 2 <= RateLimit[Asked(r)]
    PROVE  RateInv'
<1> DEFINE b == BucketAt(clock)
           mine == asking[r].bucket = b
<1>0. PICK a \in Ask : /\ asking' = [asking EXCEPT ![r] = a] /\ a.at # "expire"
                       /\ a.bucket <= b
    BY AdvanceFacts DEF Allow
<1>1. /\ BucketAt(clock)' = b /\ b \in Nat
    BY BucketFacts DEF BucketAt, RateInv
<1>2. /\ asking' \in [Requests -> Ask] /\ asking'[r] = a
      /\ \A q \in Requests \ {r} : asking'[q] = asking[q]
    BY <1>0 DEF RateInv, RateTypeOK
<1>3. /\ hits' \in [Key -> Nat]
      /\ \A k \in Key : hits'[k] >= hits[k]
      /\ \A k \in Key : k # KeyOf(r) => hits'[k] = hits[k]
    BY KeyFacts DEF RateInv, RateTypeOK
<1>4. /\ prompt' \in [Dimension -> Nat]
      /\ \A d \in Dimension : prompt'[d] = IF mine /\ d = Asked(r) THEN prompt[d] + 1
                                           ELSE prompt[d]
    BY KeyFacts DEF Allow, RateInv, RateTypeOK
<1>5. RateTypeOK' /\ clock' \in 0 .. MaxTime
    BY <1>2, <1>3, <1>4 DEF RateInv, RateTypeOK
<1>6. NothingAhead'
    <2>1. KeyOf(r)[2] <= b
        BY DEF RateInv, NothingAhead, KeyOf
    <2>2. \A k \in Key : k[2] \in Nat
        BY RateAssumption, RequestsAssumption, DivFacts
           DEF Key, Bucket, RateAssumption, RequestsAssumption
    <2>3. \A k \in Key : k[2] > b => hits'[k] = 0
        BY <1>1, <1>3, <2>1, <2>2, KeyFacts DEF RateInv, NothingAhead
    <2> HIDE DEF b
    <2> QED
        BY <1>0, <1>1, <1>2, <2>3 DEF RateInv, NothingAhead, b
<1>7. CountsPrompt'
    <2>1. \A d \in Dimension : Current(d)' = Current(d) /\ Current(d) \in Key
        BY <1>1, KeyFacts DEF Current
    <2>2. \A q \in Requests : Opening(q)' => q # r /\ Opening(q) /\ Asked(q)' = Asked(q)
        BY <1>0, <1>1, <1>2 DEF Opening, Asked
    <2>3. \A q \in Requests : Asked(q) \in Dimension
        BY KeyFacts
    <2>4. /\ \A d \in Dimension : prompt[d] \in Nat /\ RateLimit[d] \in Nat
          /\ \A k \in Key : hits[k] \in Nat /\ hits'[k] \in Nat
        BY <1>3, RateAssumption DEF RateInv, RateTypeOK, RateAssumption
    <2>5. mine => KeyOf(r) = Current(Asked(r))
        BY KeyFacts
    <2>6. ASSUME NEW d \in Dimension
          PROVE  prompt'[d] <= hits'[Current(d)] /\ prompt'[d] <= RateLimit[d]
        <3>1. CASE mine /\ d = Asked(r)
            BY <3>1, <1>4, <2>4, <2>5
        <3>2. CASE ~(mine /\ d = Asked(r))
            <4>1. prompt'[d] = prompt[d] /\ hits'[Current(d)] >= hits[Current(d)]
                BY <3>2, <1>3, <1>4, <2>1
            <4>2. prompt[d] <= hits[Current(d)] /\ prompt[d] <= RateLimit[d]
                BY DEF RateInv, CountsPrompt
            <4> QED
                BY <4>1, <4>2, <2>1, <2>4
        <3> QED
            BY <3>1, <3>2
    <2>7. ASSUME NEW q \in Requests, Opening(q)'
          PROVE  (/\ prompt[Asked(q)] + 1 <= hits[Current(Asked(q))]
                  /\ prompt[Asked(q)] + 1 <= RateLimit[Asked(q)])'
        <3>1. q # r /\ Opening(q) /\ Asked(q)' = Asked(q)
            BY <2>2, <2>7
        <3>2. Current(Asked(q))' = Current(Asked(q))
            BY <1>1, <3>1 DEF Current
        <3>3. SUFFICES /\ prompt'[Asked(q)] + 1 <= hits'[Current(Asked(q))]
                       /\ prompt'[Asked(q)] + 1 <= RateLimit[Asked(q)]
            BY <3>1, <3>2
        <3>4. CASE mine /\ Asked(q) = Asked(r)
            BY <3>1, <3>4, <1>4, <2>3, <2>4, <2>5
        <3>5. CASE ~(mine /\ Asked(q) = Asked(r))
            <4>1. /\ prompt'[Asked(q)] = prompt[Asked(q)]
                  /\ hits'[Current(Asked(q))] >= hits[Current(Asked(q))]
                BY <3>5, <1>3, <1>4, <2>1, <2>3
            <4>2. /\ prompt[Asked(q)] + 1 <= hits[Current(Asked(q))]
                  /\ prompt[Asked(q)] + 1 <= RateLimit[Asked(q)]
                BY <3>1 DEF RateInv, CountsPrompt
            <4> QED
                BY <4>1, <4>2, <2>1, <2>3, <2>4
        <3> QED
            BY <3>4, <3>5
    <2>8. \A d \in Dimension : (prompt[d] <= hits[Current(d)] /\ prompt[d] <= RateLimit[d])'
        BY <2>1, <2>6
    <2>9. \A q, p \in Requests : (Opening(q) /\ Opening(p) /\ Asked(q) = Asked(p))' => q = p
        BY <2>2 DEF RateInv, CountsPrompt
    <2> QED
        BY <2>7, <2>8, <2>9 DEF CountsPrompt
<1> QED
    BY <1>5, <1>6, <1>7 DEF RateInv

-------------------------------------------------------------------------------
\* An answer that ends the checks, or begins them.
LEMMA AskFacts ==
    ASSUME RateInv
    PROVE  /\ Idle \in Ask /\ [Idle EXCEPT !.at = "refused"] \in Ask
           /\ [at |-> "incr", check |-> 1, bucket |-> BucketAt(clock)] \in Ask
           /\ Idle.bucket <= BucketAt(clock) /\ BucketAt(clock) \in Nat
<1>1. BucketAt(clock) \in Bucket /\ BucketAt(clock) \in Nat
    BY BucketFacts DEF RateInv
<1>2. 0 \in Bucket /\ 1 \in DOMAIN Dimensions
    BY RateAssumption, RequestsAssumption, DivFacts
       DEF Bucket, RateAssumption, RequestsAssumption
<1> QED
    BY <1>1, <1>2 DEF Ask, Idle

\* ReadBucket: now_bucket of enforce.
LEMMA ReadBucketStep ==
    ASSUME RateInv, NEW r \in Requests, ReadBucket(r), UNCHANGED clock
    PROVE  RateInv'
<1> DEFINE a == [at |-> "incr", check |-> 1, bucket |-> BucketAt(clock)]
<1>1. a \in Ask /\ a.at # "expire" /\ a.bucket <= BucketAt(clock)
    BY AskFacts
<1>2. asking' = [asking EXCEPT ![r] = a] /\ UNCHANGED <<hits, expiry, prompt>>
    BY DEF ReadBucket
<1> HIDE DEF a
<1> QED
    BY <1>1, <1>2, UncountedStep

\* StopAsking: the request leaves the rate limiter.
LEMMA StopAskingStep ==
    ASSUME RateInv, NEW r \in Requests, StopAsking(r), UNCHANGED <<clock, hits, expiry, prompt>>
    PROVE  RateInv'
<1>1. Idle \in Ask /\ Idle.at # "expire" /\ Idle.bucket <= BucketAt(clock)
    BY AskFacts DEF Idle
<1> QED
    BY <1>1, UncountedStep DEF StopAsking

\* Increment: the INCR of _allow.
LEMMA IncrementStep ==
    ASSUME RateInv, NEW r \in Requests, Increment(r), UNCHANGED clock
    PROVE  RateInv'
<1> DEFINE b == BucketAt(clock)
           current == hits[KeyOf(r)] + 1
<1>1. /\ asking[r].at = "incr" /\ asking[r] \in Ask /\ Asked(r) \in Dimension
      /\ KeyOf(r) \in Key /\ asking[r].bucket <= b /\ b \in Nat
      /\ asking[r].bucket = b => KeyOf(r) = Current(Asked(r))
    BY KeyFacts, AskFacts DEF Increment, RateInv, NothingAhead
<1>2. /\ hits' = [hits EXCEPT ![KeyOf(r)] = @ + 1] /\ hits'[KeyOf(r)] = current
      /\ hits[KeyOf(r)] \in Nat /\ UNCHANGED expiry
    BY <1>1 DEF Increment, RateInv, RateTypeOK
<1>3. /\ prompt[Asked(r)] \in Nat /\ RateLimit[Asked(r)] \in Nat \ {0}
      /\ expiry \in [Key -> {NoTtl} \cup Nat]
    BY <1>1, RateAssumption DEF RateInv, RateTypeOK, RateAssumption
<1>4. OutlivesBucket'
    BY <1>2 DEF RateInv, OutlivesBucket
<1>5. asking[r].bucket = b => prompt[Asked(r)] + 1 <= current
    BY <1>1, <1>2, <1>3 DEF RateInv, CountsPrompt
<1>6. \A q \in Requests \ {r} :
        Opening(q) /\ Asked(q) = Asked(r) /\ asking[r].bucket = b =>
            prompt[Asked(r)] + 2 <= current
    BY <1>1, <1>2, <1>3 DEF RateInv, CountsPrompt
<1>7. CASE current = 1
    <2> DEFINE a == [asking[r] EXCEPT !.at = "expire"]
    <2>1. /\ asking' = [asking EXCEPT ![r] = a] /\ UNCHANGED prompt
        BY <1>7 DEF Increment
    <2>2. /\ a \in Ask /\ a.at = "expire" /\ a.check = asking[r].check
          /\ a.bucket = asking[r].bucket
        BY <1>1 DEF Ask
    <2> HIDE DEF a
    <2>3. /\ asking' \in [Requests -> Ask] /\ asking'[r] = a
          /\ \A q \in Requests \ {r} : asking'[q] = asking[q]
        BY <2>1, <2>2 DEF RateInv, RateTypeOK
    <2>4. BucketAt(clock)' = b
        BY DEF BucketAt
    <2>5. /\ hits' \in [Key -> Nat]
          /\ \A k \in Key : hits'[k] >= hits[k]
          /\ \A k \in Key : k # KeyOf(r) => hits'[k] = hits[k]
        BY <1>1, <1>2 DEF RateInv, RateTypeOK
    <2>6. RateTypeOK' /\ clock' \in 0 .. MaxTime
        BY <1>2, <2>1, <2>3, <2>5 DEF RateInv, RateTypeOK
    <2>7. NothingAhead'
        <3>1. KeyOf(r)[2] <= b
            BY <1>1 DEF KeyOf
        <3>2. \A k \in Key : k[2] \in Nat
            BY RateAssumption, RequestsAssumption, DivFacts
               DEF Key, Bucket, RateAssumption, RequestsAssumption
        <3>3. \A k \in Key : k[2] > b => hits'[k] = 0
            BY <1>1, <2>5, <3>1, <3>2 DEF RateInv, NothingAhead
        <3> HIDE DEF b
        <3> QED
            BY <1>1, <2>2, <2>3, <2>4, <3>3 DEF RateInv, NothingAhead, b
    <2>8. CountsPrompt'
        <3>1. \A d \in Dimension : Current(d)' = Current(d) /\ Current(d) \in Key
            BY <2>4, KeyFacts DEF Current
        <3>2. \A q \in Requests : Asked(q) \in Dimension /\ Asked(q)' = Asked(q)
            BY <2>2, <2>3, KeyFacts DEF Asked
        <3>3. \A q \in Requests \ {r} : Opening(q)' <=> Opening(q)
            BY <2>3, <2>4 DEF Opening
        <3>4. Opening(r)' <=> asking[r].bucket = b
            BY <2>2, <2>3, <2>4 DEF Opening
        <3>5. \A q \in Requests \ {r} :
                ~(Opening(q) /\ Asked(q) = Asked(r) /\ asking[r].bucket = b)
            BY <1>3, <1>6, <1>7
        <3>6. /\ \A d \in Dimension : prompt[d] \in Nat /\ RateLimit[d] \in Nat
              /\ \A k \in Key : hits[k] \in Nat /\ hits'[k] \in Nat
            BY <2>5, RateAssumption DEF RateInv, RateTypeOK, RateAssumption
        <3>7. \A d \in Dimension : (prompt[d] <= hits[Current(d)] /\ prompt[d] <= RateLimit[d])'
            BY <2>1, <2>5, <3>1, <3>6 DEF RateInv, CountsPrompt
        <3>8. ASSUME NEW q \in Requests, Opening(q)'
              PROVE  (/\ prompt[Asked(q)] + 1 <= hits[Current(Asked(q))]
                      /\ prompt[Asked(q)] + 1 <= RateLimit[Asked(q)])'
            <4>1. SUFFICES /\ prompt[Asked(q)] + 1 <= hits'[Current(Asked(q))]
                           /\ prompt[Asked(q)] + 1 <= RateLimit[Asked(q)]
                BY <2>1, <2>4, <3>2 DEF Current
            <4>2. CASE q = r
                BY <4>2, <1>1, <1>2, <1>3, <1>5, <1>7, <3>4, <3>8
            <4>3. CASE q # r
                <5>1. /\ prompt[Asked(q)] + 1 <= hits[Current(Asked(q))]
                      /\ prompt[Asked(q)] + 1 <= RateLimit[Asked(q)]
                    BY <4>3, <3>3, <3>8 DEF RateInv, CountsPrompt
                <5>2. hits'[Current(Asked(q))] >= hits[Current(Asked(q))]
                    BY <2>5, <3>1, <3>2
                <5> QED
                    BY <5>1, <5>2, <3>1, <3>2, <3>6
            <4> QED
                BY <4>2, <4>3
        <3>9. \A q, p \in Requests : (Opening(q) /\ Opening(p) /\ Asked(q) = Asked(p))' => q = p
            BY <3>2, <3>3, <3>4, <3>5 DEF RateInv, CountsPrompt
        <3> QED
            BY <3>7, <3>8, <3>9 DEF CountsPrompt
    <2> QED
        BY <1>4, <2>6, <2>7, <2>8 DEF RateInv
<1>8. CASE current # 1 /\ WithinLimit(r, current)
    <2>1. Allow(r)
        BY <1>8 DEF Increment
    <2>2. current <= RateLimit[Asked(r)]
        BY <1>8 DEF WithinLimit
    <2> HIDE DEF current, b
    <2>3. current \in Nat
        BY <1>2 DEF current
    <2>4. /\ asking[r].bucket = b => prompt[Asked(r)] + 1 <= RateLimit[Asked(r)]
          /\ \A q \in Requests \ {r} :
                Opening(q) /\ Asked(q) = Asked(r) /\ asking[r].bucket = b =>
                    prompt[Asked(r)] + 2 <= RateLimit[Asked(r)]
        BY <1>3, <1>5, <1>6, <2>2, <2>3
    <2> QED
        BY <2>1, <1>2, <1>3, <1>4, <1>5, <1>6, <2>4, AllowedStep DEF b
<1>9. CASE current # 1 /\ ~WithinLimit(r, current)
    <2>1. RefuseRate(r)
        BY <1>9 DEF Increment
    <2> DEFINE a == [Idle EXCEPT !.at = "refused"]
    <2>2. a \in Ask /\ a.at # "expire" /\ a.bucket <= b
        BY AskFacts DEF Idle
    <2>3. asking' = [asking EXCEPT ![r] = a] /\ UNCHANGED prompt
        BY <2>1 DEF RefuseRate
    <2> HIDE DEF a
    <2> QED
        BY <1>2, <2>2, <2>3, UncountedStep
<1> QED
    BY <1>7, <1>8, <1>9

\* A request that opens its counter, the bucket of which is current or over.
LEMMA OpeningFacts ==
    ASSUME RateInv, NEW r \in Requests, asking[r].at = "expire", UNCHANGED <<clock, hits>>
    PROVE  /\ asking[r].bucket = BucketAt(clock) =>
                /\ prompt[Asked(r)] + 1 <= hits'[KeyOf(r)]
                /\ prompt[Asked(r)] + 1 <= RateLimit[Asked(r)]
           /\ \A q \in Requests \ {r} :
                ~(Opening(q) /\ Asked(q) = Asked(r) /\ asking[r].bucket = BucketAt(clock))
BY KeyFacts DEF RateInv, CountsPrompt, Opening

\* A counter that has just been given its time to live.
LEMMA TtlFacts ==
    ASSUME RateInv, NEW r \in Requests,
           expiry' \in {expiry, [expiry EXCEPT ![KeyOf(r)] = clock + Ttl]}
    PROVE  expiry' \in [Key -> {NoTtl} \cup Nat] /\ OutlivesBucket'
<1> DEFINE b == BucketAt(clock)
           w == RateWindow
<1>1. /\ asking[r].bucket \in Nat /\ asking[r].bucket <= b /\ b \in Nat
      /\ KeyOf(r)[2] = asking[r].bucket /\ KeyOf(r) \in Key
    <2>1. asking[r] \in Ask
        BY DEF RateInv, RateTypeOK
    <2>2. \A k \in Bucket : k \in Nat
        BY RateAssumption, RequestsAssumption, DivFacts
           DEF Bucket, RateAssumption, RequestsAssumption
    <2> QED
        BY <2>1, <2>2, KeyFacts, AskFacts DEF RateInv, NothingAhead, KeyOf, Ask
<1>2. w \in Nat /\ clock \in Nat /\ b * w <= clock
    BY BucketFacts, RateAssumption, RequestsAssumption
       DEF RateInv, RateAssumption, RequestsAssumption
<1> HIDE DEF b, w
<1>3. asking[r].bucket * w <= b * w /\ (asking[r].bucket + 1) * w = asking[r].bucket * w + w
    BY <1>1, <1>2, MulMono
<1>4. clock + Ttl \in Nat /\ clock + Ttl >= (KeyOf(r)[2] + 1) * w
    <2> DEFINE x == asking[r].bucket * w
               y == b * w
    <2>1. x \in Nat /\ y \in Nat
        BY <1>1, <1>2
    <2>2. x <= y /\ y <= clock /\ (KeyOf(r)[2] + 1) * w = x + w
        BY <1>1, <1>2, <1>3
    <2> HIDE DEF x, y
    <2> QED
        BY <2>1, <2>2, <1>2 DEF Ttl, w
<1>5. expiry \in [Key -> {NoTtl} \cup Nat]
    BY DEF RateInv, RateTypeOK
<1>6. \A k \in Key : expiry'[k] = expiry[k] \/ (k = KeyOf(r) /\ expiry'[k] = clock + Ttl)
    BY <1>1, <1>5
<1> QED
    BY <1>1, <1>4, <1>5, <1>6 DEF RateInv, OutlivesBucket, w

\* Expire: the EXPIRE of _allow.
LEMMA ExpireStep ==
    ASSUME RateInv, NEW r \in Requests, Expire(r), UNCHANGED clock
    PROVE  RateInv'
<1>1. /\ asking[r].at = "expire" /\ Allow(r) /\ UNCHANGED hits
      /\ expiry' = [expiry EXCEPT ![KeyOf(r)] = clock + Ttl]
    BY DEF Expire
<1> QED
    BY <1>1, OpeningFacts, TtlFacts, AllowedStep

\* RateRedisFails: a RedisError lets the request through.
LEMMA RateRedisFailsStep ==
    ASSUME RateInv, NEW r \in Requests, RateRedisFails(r), UNCHANGED clock
    PROVE  RateInv'
<1>1. CASE /\ asking[r].at = "incr"
           /\ hits' \in {hits, [hits EXCEPT ![KeyOf(r)] = @ + 1]}
           /\ Advance(r)
           /\ UNCHANGED <<expiry, prompt>>
    <2>1. PICK a \in Ask : /\ asking' = [asking EXCEPT ![r] = a] /\ a.at # "expire"
                           /\ a.bucket <= BucketAt(clock)
        BY <1>1, AdvanceFacts
    <2> QED
        BY <1>1, <2>1, UncountedStep
<1>2. CASE /\ asking[r].at = "expire"
           /\ expiry' \in {expiry, [expiry EXCEPT ![KeyOf(r)] = clock + Ttl]}
           /\ Allow(r)
           /\ UNCHANGED hits
    BY <1>2, OpeningFacts, TtlFacts, AllowedStep
<1> QED
    BY <1>1, <1>2 DEF RateRedisFails

\* RateTick: a counter that goes is of a bucket that is over.
LEMMA RateTickStep ==
    ASSUME RateInv, RateTick(clock + 1), clock < MaxTime, clock' = clock + 1
    PROVE  RateInv'
<1> DEFINE b == BucketAt(clock)
           c == BucketAt(clock + 1)
           gone == {k \in Key : expiry[k] # NoTtl /\ expiry[k] <= clock + 1}
<1>1. /\ clock \in 0 .. MaxTime /\ clock + 1 \in 0 .. MaxTime /\ BucketAt(clock)' = c
      /\ clock \in Nat /\ RateWindow \in Nat \ {0}
    BY RequestsAssumption, RateAssumption
       DEF RateInv, RequestsAssumption, RateAssumption, BucketAt
<1>2. /\ b \in Nat /\ c \in Nat /\ b \in Bucket /\ c \in Bucket
      /\ clock + 1 < (c + 1) * RateWindow
    BY <1>1, BucketFacts
<1>3. b <= c
    BY <1>1, DivMono DEF BucketAt
<1>4. /\ hits' = [k \in Key |-> IF k \in gone THEN 0 ELSE hits[k]]
      /\ expiry' = [k \in Key |-> IF k \in gone THEN NoTtl ELSE expiry[k]]
      /\ prompt' = [d \in Dimension |-> IF c = b THEN prompt[d] ELSE 0]
      /\ UNCHANGED asking
    BY DEF RateTick
<1>5. \A d \in Dimension : <<d, c>> \in Key /\ <<d, c>> \notin gone
    <2>1. SUFFICES ASSUME NEW d \in Dimension, <<d, c>> \in gone PROVE FALSE
        BY <1>2 DEF Key
    <2>2. expiry[<<d, c>>] \in Nat /\ expiry[<<d, c>>] <= clock + 1
          /\ expiry[<<d, c>>] >= (c + 1) * RateWindow
        BY <2>1, <1>2 DEF RateInv, RateTypeOK, OutlivesBucket, Key
    <2> DEFINE x == (c + 1) * RateWindow
    <2>3. x \in Nat
        BY <1>1, <1>2
    <2> HIDE DEF x, c
    <2> QED
        BY <1>1, <1>2, <2>2, <2>3 DEF x
<1> HIDE DEF gone, b, c
<1>6. RateTypeOK' /\ clock' \in 0 .. MaxTime
    BY <1>1, <1>4 DEF RateInv, RateTypeOK
<1>7. OutlivesBucket'
    BY <1>4 DEF RateInv, OutlivesBucket
<1>8. NothingAhead'
    <2>1. \A k \in Key : k[2] \in Nat
        BY RateAssumption, RequestsAssumption, DivFacts
           DEF Key, Bucket, RateAssumption, RequestsAssumption
    <2>2. \A k \in Key : k[2] > c => hits'[k] = 0
        BY <1>2, <1>3, <1>4, <2>1 DEF RateInv, NothingAhead, b
    <2>3. \A r \in Requests : asking[r].bucket \in Nat /\ asking[r].bucket <= b
        <3>1. \A k \in Bucket : k \in Nat
            BY RateAssumption, RequestsAssumption, DivFacts
               DEF Bucket, RateAssumption, RequestsAssumption
        <3> QED
            BY <3>1 DEF RateInv, NothingAhead, RateTypeOK, Ask, b
    <2>4. \A r \in Requests : asking'[r].bucket <= c
        BY <2>3, <1>2, <1>3, <1>4
    <2> QED
        BY <1>1, <2>2, <2>4 DEF NothingAhead
<1>9. CountsPrompt'
    <2>1. \A d \in Dimension : Current(d)' = <<d, c>> /\ hits'[<<d, c>>] = hits[<<d, c>>]
        BY <1>1, <1>4, <1>5 DEF Current
    <2>2. /\ \A d \in Dimension : prompt[d] \in Nat /\ RateLimit[d] \in Nat
                                  /\ hits[<<d, c>>] \in Nat
        BY <1>5, RateAssumption DEF RateInv, RateTypeOK, RateAssumption
    <2>3. CASE c = b
        <3>1. \A d \in Dimension : Current(d)' = Current(d) /\ prompt'[d] = prompt[d]
                                   /\ hits'[Current(d)] = hits[Current(d)]
            BY <2>1, <2>3, <1>4 DEF Current, b
        <3>2. \A r \in Requests : Opening(r)' <=> Opening(r)
            BY <2>3, <1>1, <1>4 DEF Opening, b
        <3>3. \A r \in Requests : Asked(r)' = Asked(r) /\ Asked(r) \in Dimension
            BY <1>4, KeyFacts DEF Asked
        <3>4. \A d \in Dimension : (prompt[d] <= hits[Current(d)] /\ prompt[d] <= RateLimit[d])'
            BY <3>1 DEF RateInv, CountsPrompt
        <3>5. ASSUME NEW r \in Requests, Opening(r)'
              PROVE  (/\ prompt[Asked(r)] + 1 <= hits[Current(Asked(r))]
                      /\ prompt[Asked(r)] + 1 <= RateLimit[Asked(r)])'
            <4>1. Current(Asked(r))' = Current(Asked(r))
                BY <2>3, <3>3, <1>1 DEF Current, b
            <4> QED
                BY <4>1, <3>1, <3>2, <3>3, <3>5 DEF RateInv, CountsPrompt
        <3>6. \A q, p \in Requests : (Opening(q) /\ Opening(p) /\ Asked(q) = Asked(p))' => q = p
            BY <3>2, <3>3 DEF RateInv, CountsPrompt
        <3> QED
            BY <3>4, <3>5, <3>6 DEF CountsPrompt
    <2>4. CASE c # b
        <3>1. \A r \in Requests : ~Opening(r)'
            <4>1. \A r \in Requests : asking[r].bucket \in Nat /\ asking[r].bucket <= b
                <5>1. \A k \in Bucket : k \in Nat
                    BY RateAssumption, RequestsAssumption, DivFacts
                       DEF Bucket, RateAssumption, RequestsAssumption
                <5> QED
                    BY <5>1 DEF RateInv, NothingAhead, RateTypeOK, Ask, b
            <4> QED
                BY <4>1, <2>4, <1>1, <1>2, <1>3, <1>4 DEF Opening
        <3>2. \A d \in Dimension : (prompt[d] <= hits[Current(d)] /\ prompt[d] <= RateLimit[d])'
            <4>1. SUFFICES ASSUME NEW d \in Dimension
                           PROVE  (prompt[d] <= hits[Current(d)] /\ prompt[d] <= RateLimit[d])'
                OBVIOUS
            <4>2. prompt'[d] = 0
                BY <2>4, <1>4
            <4>3. hits'[Current(d)'] \in Nat /\ RateLimit[d] \in Nat
                BY <2>1, <2>2
            <4> QED
                BY <4>2, <4>3
        <3> QED
            BY <3>1, <3>2 DEF CountsPrompt
    <2> QED
        BY <2>3, <2>4
<1> QED
    BY <1>6, <1>7, <1>8, <1>9 DEF RateInv

-------------------------------------------------------------------------------
\* A step that does not touch the rate limiter.
LEMMA RateOtherStep ==
    ASSUME RateInv, UNCHANGED <<clock, rateVars>>
    PROVE  RateInv'
<1>1. \A d \in Dimension : Current(d)' = Current(d)
    BY DEF Current, BucketAt
<1>2. \A r \in Requests : Opening(r)' = Opening(r) /\ Asked(r)' = Asked(r)
    BY DEF Opening, Asked, BucketAt, rateVars
<1>3. CountsPrompt'
    <2>1. ASSUME NEW r \in Requests, Opening(r)'
          PROVE  (/\ prompt[Asked(r)] + 1 <= hits[Current(Asked(r))]
                  /\ prompt[Asked(r)] + 1 <= RateLimit[Asked(r)])'
        <3>1. Current(Asked(r))' = Current(Asked(r))
            BY <1>2 DEF Current, BucketAt
        <3> QED
            BY <3>1, <1>2, <2>1 DEF RateInv, CountsPrompt, rateVars
    <2>2. \A d \in Dimension : (prompt[d] <= hits[Current(d)] /\ prompt[d] <= RateLimit[d])'
        BY <1>1 DEF RateInv, CountsPrompt, rateVars
    <2>3. \A q, p \in Requests : (Opening(q) /\ Opening(p) /\ Asked(q) = Asked(p))' => q = p
        BY <1>2 DEF RateInv, CountsPrompt
    <2> QED
        BY <2>1, <2>2, <2>3 DEF CountsPrompt
<1> QED
    BY <1>3 DEF RateInv, RateTypeOK, OutlivesBucket, NothingAhead, BucketAt, rateVars

\* The clock starts at 0, with no counter and no request.
LEMMA RateInitInv ==
    ASSUME RateInit, clock = 0
    PROVE  RateInv
<1>0. MaxTime \in Nat /\ 1 \in DOMAIN Dimensions
    BY RateAssumption, RequestsAssumption DEF RateAssumption, RequestsAssumption
<1>1. BucketAt(0) \in Bucket /\ BucketAt(0) \in Nat
    BY <1>0, BucketFacts
<1>2. Idle \in Ask
    <2>1. MaxTime \div RateWindow \in Nat
        BY <1>0, RateAssumption, DivFacts DEF RateAssumption
    <2>2. 0 \in Bucket
        BY <2>1 DEF Bucket
    <2> QED
        BY <1>0, <2>2 DEF Idle, Ask
<1>3. RateTypeOK /\ clock \in 0 .. MaxTime
    BY <1>0, <1>2 DEF RateInit, RateTypeOK, NoTtl
<1>4. OutlivesBucket
    BY DEF RateInit, OutlivesBucket
<1>5. NothingAhead
    BY <1>1 DEF RateInit, NothingAhead, Idle
<1>6. CountsPrompt
    <2>1. \A d \in Dimension : Current(d) \in Key
        BY <1>1 DEF Current, Key
    <2> QED
        BY <2>1, RateAssumption
           DEF RateInit, CountsPrompt, Opening, Idle, RateAssumption
<1> QED
    BY <1>3, <1>4, <1>5, <1>6 DEF RateInv

LEMMA RateInvFacts == RateInv => PromptWithinBudget
BY DEF RateInv, CountsPrompt, PromptWithinBudget

===============================================================================
