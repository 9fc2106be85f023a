------------------------- MODULE PaymentControlsProofs -------------------------
(***************************************************************************)
(* What a payment request meets on its way through the controls, for any   *)
(* requests, amounts and limits: the invariants of the limits and of the   *)
(* rate limiter hold of the composed use case, the risk score blocks on    *)
(* the signals it is meant to, and the AML rules let no more through       *)
(* unreviewed than was lost or handled together.                           *)
(***************************************************************************)
EXTENDS PaymentControls, SpendingLimitsProofs, RateLimiterProofs, AmlRuleEngineProofs

(***************************************************************************)
(* The limits.                                                             *)
(***************************************************************************)

\* A step of the use case is a step of the limits, or leaves them alone.
LEMMA ControlsLimitsStep ==
    ASSUME LimitsInv, [ControlsNext]_allVars
    PROVE  LimitsInv'
<1>0. clock \in 0 .. MaxTime /\ now \in [Requests -> Nat] /\ clock \in Nat
    BY RequestsAssumption DEF LimitsInv, TypeOK, RequestsAssumption
<1>1. CASE UNCHANGED allVars
    BY <1>0, <1>1, OtherStep DEF allVars, vars, velocity
<1>2. CASE PassTime
    BY <1>2, TickStep DEF PassTime
<1>3. ASSUME NEW r \in Requests
      PROVE  /\ Begin(r) => LimitsInv'
             /\ DenyKyc(r) => LimitsInv'
             /\ EnforceLimits(r) => LimitsInv'
    <2>1. CASE Begin(r)
        BY <2>1, ArriveStep DEF Begin, Busy
    <2>2. CASE DenyKyc(r)
        BY <1>0, <2>2, OtherStep DEF DenyKyc, velocity
    <2>3. CASE EnforceLimits(r)
        BY <2>3, EnforceStep DEF EnforceLimits
    <2> QED
        BY <2>1, <2>2, <2>3
<1>4. ASSUME NEW r \in Requests, EnforceRateLimit(r)
      PROVE  LimitsInv'
    <2>1. /\ UNCHANGED <<read, daily, velocity, arrivals>> /\ UNCHANGED pc
          /\ UNCHANGED outages \/ RedisFails("later")
        BY <1>4 DEF EnforceRateLimit
    <2> QED
        BY <1>0, <2>1, OtherStep DEF velocity
<1>5. ASSUME NEW r \in Requests, EvaluateRisk(r)
      PROVE  LimitsInv'
    BY <1>0, <1>5, OtherStep DEF EvaluateRisk, vars, velocity
<1>6. ASSUME NEW r \in Requests, EvaluateTotal(r) \/ EvaluateNear(r)
      PROVE  LimitsInv'
    <2>1. /\ UNCHANGED <<read, daily, velocity, arrivals>> /\ UNCHANGED pc
          /\ UNCHANGED outages \/ RedisFails("later")
        BY <1>6 DEF EvaluateTotal, EvaluateNear, ReviewOr, FindOutgoing
    <2> QED
        BY <1>0, <2>1, OtherStep DEF velocity
<1>7. ASSUME NEW r \in Requests, Commit(r)
      PROVE  LimitsInv'
    BY <1>7, PayStep, EndUnpaidStep DEF Commit
<1>8. ASSUME NEW r \in Requests, Stamp(r) \/ Record(r) \/ LoseRecord(r)
      PROVE  LimitsInv'
    <2>1. /\ UNCHANGED <<outages, pc, read, daily, clock, members, admitted, arrivals>>
          /\ At(r, clock) \/ At(r, 0)
        BY <1>8 DEF Stamp, Record, LoseRecord, EndRecord
    <2>2. now' \in [Requests -> Nat]
        BY <1>0, <2>1 DEF At
    <2> QED
        BY <1>0, <2>1, <2>2, OtherStep
<1>9. ASSUME NEW r \in Requests, Abort(r)
      PROVE  LimitsInv'
    BY <1>9, EndUnpaidStep DEF Abort
<1> QED
    BY <1>1, <1>2, <1>3, <1>4, <1>5, <1>6, <1>7, <1>8, <1>9 DEF ControlsNext

\* The invariant of the limits holds of the use case (_create_payment_with_controls).
THEOREM ControlsKeepLimits == ControlsSpec => []LimitsInv
<1>1. ControlsInit => LimitsInv
    BY LimitsInit DEF ControlsInit
<1>2. LimitsInv /\ [ControlsNext]_allVars => LimitsInv'
    BY ControlsLimitsStep
<1> QED
    BY <1>1, <1>2, PTL DEF ControlsSpec

\* Requests coming in turn, whatever the later controls reject, block or lose, the
\* payments of a day stay within the limit while Redis answers, but for the cents that
\* payments of half a cent cost more than they count (_enforce_daily_limit).
THEOREM DailyLimitHolds == ControlsSpec => []WithinDailyLimit
BY ControlsKeepLimits, LimitsFacts, PTL

\* The counter covers all that was paid and all that may still be, to the half cents:
\* what a rejected, blocked or lost request took makes it too high, never too low
\* (_enforce_daily_limit).
THEOREM CounterIsEnough == ControlsSpec => []CounterCovers
BY ControlsKeepLimits, LimitsFacts, PTL

\* Failing commands cost at most a second limit, whichever of them fail and however
\* often, as long as Redis keeps the key (_enforce_daily_limit: except RedisError).
THEOREM OutagesAreBounded == ControlsSpec => []OutageBound
BY ControlsKeepLimits, LimitsFacts, PTL

(***************************************************************************)
(* The rate limiter.                                                       *)
(***************************************************************************)

\* The clock changes in PassTime only.
LEMMA ClockStands ==
    ASSUME NEW r \in Requests,
           \/ Begin(r) \/ DenyKyc(r) \/ EnforceLimits(r) \/ EnforceRateLimit(r)
           \/ EvaluateRisk(r) \/ EvaluateTotal(r) \/ EvaluateNear(r)
           \/ Commit(r) \/ Stamp(r) \/ Record(r) \/ LoseRecord(r) \/ Abort(r)
    PROVE  UNCHANGED clock
<1>1. CASE Begin(r) \/ DenyKyc(r)
    BY <1>1 DEF Begin, Arrive, DenyKyc, velocity
<1>2. CASE EnforceLimits(r)
    BY <1>2 DEF EnforceLimits, Enforce, ReadCounter, WriteCounter, DailyRedisFails,
                CheckTable, Prune, CountWindow, AddMember, VelocityRedisFails,
                RecountTable, velocity
<1>3. CASE EnforceRateLimit(r) \/ EvaluateRisk(r)
    BY <1>3 DEF EnforceRateLimit, EvaluateRisk, vars, velocity
<1>4. CASE EvaluateTotal(r) \/ EvaluateNear(r)
    BY <1>4 DEF EvaluateTotal, EvaluateNear, ReviewOr, velocity
<1>5. CASE Commit(r) \/ Abort(r)
    BY <1>5 DEF Commit, Pay, EndUnpaid, Abort, velocity
<1>6. CASE Stamp(r) \/ Record(r) \/ LoseRecord(r)
    BY <1>6 DEF Stamp, Record, LoseRecord, EndRecord
<1> QED
    BY <1>1, <1>2, <1>3, <1>4, <1>5, <1>6

\* A step of the use case is a step of the rate limiter, or leaves it alone.
LEMMA ControlsRateStep ==
    ASSUME RateInv, [ControlsNext]_allVars
    PROVE  RateInv'
<1>1. CASE UNCHANGED allVars
    BY <1>1, RateOtherStep DEF allVars, vars, velocity, controlVars
<1>2. CASE PassTime
    BY <1>2, RateTickStep DEF PassTime, Tick
<1>3. ASSUME NEW r \in Requests,
             \/ Begin(r) \/ DenyKyc(r) \/ EnforceLimits(r)
             \/ EvaluateTotal(r) \/ EvaluateNear(r)
             \/ Commit(r) \/ Stamp(r) \/ Record(r) \/ LoseRecord(r)
      PROVE  RateInv'
    <2>1. UNCHANGED clock
        BY <1>3, ClockStands
    <2>2. UNCHANGED rateVars
        BY <1>3 DEF Begin, DenyKyc, EnforceLimits, EvaluateTotal, EvaluateNear, ReviewOr,
                    Commit, Stamp, Record, LoseRecord, EndRecord, controlVars
    <2> QED
        BY <2>1, <2>2, RateOtherStep
<1>4. ASSUME NEW r \in Requests, EnforceRateLimit(r)
      PROVE  RateInv'
    <2>1. UNCHANGED clock
        BY <1>4, ClockStands
    <2>2. ReadBucket(r) \/ Increment(r) \/ Expire(r) \/ RateRedisFails(r)
        BY <1>4 DEF EnforceRateLimit
    <2> QED
        BY <2>1, <2>2, ReadBucketStep, IncrementStep, ExpireStep, RateRedisFailsStep
<1>5. ASSUME NEW r \in Requests, EvaluateRisk(r) \/ Abort(r)
      PROVE  RateInv'
    <2>1. UNCHANGED clock
        BY <1>5, ClockStands
    <2>2. StopAsking(r) /\ UNCHANGED <<hits, expiry, prompt>>
        BY <1>5 DEF EvaluateRisk, Abort
    <2> QED
        BY <2>1, <2>2, StopAskingStep
<1> QED
    BY <1>1, <1>2, <1>3, <1>4, <1>5 DEF ControlsNext

\* However many requests are handled at the same time, and wherever they die, no
\* dimension lets more requests through on time than its limit in a bucket
\* (RateLimiterService.enforce as CreatePaymentUseCase calls it).
THEOREM ControlsKeepRates == ControlsSpec => []PromptWithinBudget
<1>1. ControlsInit => RateInv
    BY RateInitInv DEF ControlsInit, Init
<1>2. RateInv /\ [ControlsNext]_allVars => RateInv'
    BY ControlsRateStep
<1>3. RateInv => PromptWithinBudget
    BY RateInvFacts
<1> QED
    BY <1>1, <1>2, <1>3, PTL DEF ControlsSpec

(***************************************************************************)
(* The risk score.                                                         *)
(***************************************************************************)

\* The defaults of core/config.py.
DefaultThresholds == ReviewThreshold = 50 /\ BlockThreshold = 80

\* The sum of the rules, and the signals it stands for.
LEMMA ScoreOfSignals ==
    ASSUME NEW c \in RiskContext
    PROVE  /\ RiskScore(c) \in Nat
           /\ RiskScore(c) >= 80 <=> HalfSignals(c) >= 8
           /\ RiskScore(c) >= 50 => HalfSignals(c) >= 4
<1> USE RulesAssumption DEF RulesAssumption
<1>1. c.failures \in Nat
    BY DEF RiskContext
<1>2. CASE c.failures >= 3
    BY <1>2, <1>1 DEF RiskScore, HalfSignals, RepeatedFailures, Points
<1>3. CASE c.failures >= 1 /\ ~(c.failures >= 3)
    BY <1>3, <1>1 DEF RiskScore, HalfSignals, RepeatedFailures, Points
<1>4. CASE ~(c.failures >= 1)
    BY <1>4, <1>1 DEF RiskScore, HalfSignals, RepeatedFailures, Points
<1> QED
    BY <1>2, <1>3, <1>4

\* With the default thresholds a payment is blocked for four signals of the five and
\* for no fewer, and never held for one (RiskScoreService.evaluate).
THEOREM SignalsFollowed ==
    ASSUME DefaultThresholds, NEW c \in RiskContext
    PROVE  FollowsSignals(c)
<1>1. /\ RiskDecision(c) = "BLOCK" <=> RiskScore(c) >= 80
      /\ RiskDecision(c) # "ALLOW" => RiskScore(c) >= 50
    BY ScoreOfSignals DEF RiskDecision, DecisionFromScore, DefaultThresholds
<1> QED
    BY <1>1, ScoreOfSignals DEF FollowsSignals

\* On the rail that asks for the level FULL a block takes every other signal at full
\* strength (RiskScoreService.evaluate behind KycService.enforce_customer).
THEOREM BlockNeedsAllSignals ==
    ASSUME DefaultThresholds, NEW c \in RiskContext
    PROVE  BlockedOnAllSignals(c)
<1> SUFFICES ASSUME KycAllows("ACTIVE", c.kyc, "TED"), RiskDecision(c) = "BLOCK"
             PROVE  c.nearMax /\ c.spike /\ c.failures >= 3 /\ ~c.seen
    BY DEF BlockedOnAllSignals
<1>1. HalfSignals(c) >= 8
    BY SignalsFollowed DEF FollowsSignals
<1>2. c.kyc \in KycLevel /\ c.failures \in Nat
    BY RulesAssumption DEF RiskContext, RulesAssumption
<1>3. ~LowKyc(c.kyc)
    BY <1>2 DEF KycAllows, Rank, MinimumKyc, KycLevel, LowKyc
<1> QED
    BY <1>1, <1>2, <1>3 DEF HalfSignals, Points

\* What is found of a request is a context of the rules.
LEMMA ContextType ==
    ASSUME NEW r \in Requests, NEW c \in ContextOf(r)
    PROVE  c \in RiskContext
<1>1. PICK near \in BOOLEAN, spike \in BOOLEAN :
            near = NearMax(Amount[r], MaxAmount * Cent) /\ spike = Spike(read[r], VelocityLimit)
    <2>1. NearMax(Amount[r], MaxAmount * Cent) \in BOOLEAN
        <3>1. Amount[r] \in Nat /\ MaxAmount * Cent \in Nat
            BY RequestsAssumption, LimitsAssumption DEF RequestsAssumption, LimitsAssumption
        <3> QED
            BY <3>1 DEF NearMax
    <2>2. Spike(read[r], VelocityLimit) \in BOOLEAN
        BY DEF Spike
    <2> QED
        BY <2>1, <2>2
<1>2. AllowedKyc \subseteq KycLevel
    BY DEF AllowedKyc
<1> QED
    BY <1>1, <1>2 DEF ContextOf, RiskContext

\* The same of every request the use case assesses.
THEOREM ControlsBlockOnSignals ==
    ASSUME DefaultThresholds
    PROVE  ControlsSpec => []BlockedForFourSignals
<1>1. BlockedForFourSignals
    BY SignalsFollowed, ContextType DEF BlockedForFourSignals
<1> QED
    BY <1>1, PTL

(***************************************************************************)
(* The payments in the table, and where each request is.                   *)
(***************************************************************************)

\* The control flow of _create_payment_with_controls: a request is assessed once it
\* is past the limits, and recorded once its payment is committed.
FlowInv ==
    \A r \in Requests :
        /\ stage[r] \in {"total", "near", "commit"} => pc[r] = "passed"
        /\ stage[r] \in {"record", "push"} => r \in paid /\ r \notin unrecorded
        /\ stage[r] = "push" => created[r] <= now[r]
        /\ asking[r].at # "idle" => pc[r] = "passed" /\ stage[r] = "before"
        /\ r \in paid => pc[r] = "done"
        /\ created[r] <= clock

FlowOK == ControlsTypeOK /\ IsFiniteSet(members) /\ FlowInv

\* The steps before the commit and those that end a request without a payment.
Unpaid(r) ==
    \/ Begin(r) \/ DenyKyc(r) \/ EnforceLimits(r) \/ EnforceRateLimit(r)
    \/ EvaluateRisk(r) \/ EvaluateTotal(r) \/ EvaluateNear(r) \/ Abort(r)

\* What such a step of r does to the rest.
Apart(r) ==
    /\ r \notin paid
    /\ UNCHANGED <<paid, spent, clock, history, historyExpiry, held, unrecorded>>
    /\ inTurn' => inTurn
    /\ \A q \in Requests : q # r =>
        /\ pc'[q] = pc[q] /\ created'[q] = created[q] /\ now'[q] = now[q]
        /\ stage'[q] = stage[q] /\ asking'[q] = asking[q] /\ aml'[q] = aml[q]

\* Where such a step leaves r.
Placed(r) ==
    /\ stage'[r] \in {"before", "total", "near", "commit"}
    /\ stage'[r] # "before" => pc'[r] = "passed" /\ created'[r] = created[r]
    /\ created'[r] \in {created[r], 0, clock}
    /\ asking'[r].at # "idle" => pc'[r] = "passed" /\ stage'[r] = "before"

DecisionTypes ==
    /\ stage \in [Requests -> {"before", "total", "near", "commit", "record", "push"}]
    /\ risk \in [Requests -> Decision]
    /\ aml \in [Requests -> Decision]

\* Enforce works for a request that is between its arrival and its admission.
LimitsOK == TypeOK /\ IsFiniteSet(members)

LEMMA EnforceEffect ==
    ASSUME LimitsOK, NEW r \in Requests, Enforce(r)
    PROVE  /\ LimitsOK'
           /\ pc[r] \notin {"new", "passed", "done"}
           /\ \A q \in Requests : q # r =>
                pc'[q] = pc[q] /\ created'[q] = created[q] /\ now'[q] = now[q]
           /\ created'[r] \in {created[r], 0}
           /\ UNCHANGED <<paid, spent, clock, inTurn>>
<1> USE LimitsAssumption, RequestsAssumption DEF LimitsAssumption, RequestsAssumption
<1> USE DEF LimitsOK, TypeOK, Goto, Read, At, Step, DailyStep, VelocityStep
<1>1. CASE ReadCounter(r) \/ CheckTable(r)
    <2>1. /\ created' \in {created, [created EXCEPT ![r] = 0]}
          /\ \E step \in {"set", "window", "done"} : Goto(r, step)
          /\ pc[r] \in {"start", "fallback"}
          /\ UNCHANGED <<counter, paid, spent, clock, members, now, admitted, outages, inTurn>>
        BY <1>1 DEF ReadCounter, CheckTable, Rollback, daily, velocity, arrivals
    <2>2. read' \in [Requests -> Nat]
        BY <1>1 DEF ReadCounter, CheckTable
    <2>3. /\ created' \in [Requests -> Nat] /\ created'[r] \in {created[r], 0}
          /\ \A q \in Requests : q # r => created'[q] = created[q]
        BY <2>1
    <2>4. /\ pc' \in [Requests -> Step]
          /\ \A q \in Requests : q # r => pc'[q] = pc[q]
        BY <2>1
    <2> QED
        BY <2>1, <2>2, <2>3, <2>4
<1>2. CASE WriteCounter(r)
    <2>1. counter' \in Nat /\ UNCHANGED <<paid, spent, created, inTurn, clock, members, now, admitted, outages>>
        BY <1>2, CountedCloseToStored DEF WriteCounter, velocity, arrivals
    <2> QED
        BY <1>2, <2>1 DEF WriteCounter
<1>3. CASE DailyRedisFails(r)
    <2>1. outages' \in [Control -> Nat] /\ counter' \in Nat
        BY <1>3, CountedCloseToStored DEF DailyRedisFails, RedisFails, Control
    <2>2. UNCHANGED <<paid, spent, created, inTurn, clock, members, now, admitted>>
        BY <1>3 DEF DailyRedisFails, velocity, arrivals
    <2> QED
        BY <1>3, <2>1, <2>2 DEF DailyRedisFails
<1>5. CASE Prune(r)
    <2>1. members' \subseteq Member /\ IsFiniteSet(members')
        BY <1>5, FS_Subset DEF Prune, InWindow
    <2>2. UNCHANGED <<counter, paid, spent, created, inTurn, clock, read, outages, admitted>>
        BY <1>5 DEF Prune, daily, arrivals
    <2> QED
        BY <1>5, <2>1, <2>2 DEF Prune
<1>6. CASE CountWindow(r)
    <2> DEFINE used == Cardinality(members)
    <2>1. used \in Nat
        BY FS_CardinalityType
    <2>2. /\ pc[r] = "count" /\ UNCHANGED <<outages, counter, paid, spent, clock, members, admitted, inTurn>>
          /\ \E step \in {"done", "add"} : Goto(r, step)
          /\ \E value \in {0, used} : Read(r, value)
          /\ now' = now \/ At(r, 0)
          /\ created' \in {created, [created EXCEPT ![r] = 0]}
        BY <1>6 DEF CountWindow, Refuse, Rollback, daily, arrivals
    <2> HIDE DEF used
    <2> QED
        BY <2>1, <2>2
<1>7. CASE AddMember(r)
    <2>1. MemberOf(r) \in Member
        BY DEF MemberOf, Member
    <2>2. members' \subseteq Member /\ IsFiniteSet(members')
        BY <1>7, <2>1, FS_AddElement DEF AddMember
    <2>3. /\ UNCHANGED <<outages, counter, paid, spent, created, inTurn, clock>>
          /\ admitted' = admitted \cup {[request |-> r, time |-> now[r]]}
          /\ pc[r] = "add" /\ Goto(r, "passed") /\ At(r, 0) /\ Read(r, read[r] + 1)
        BY <1>7 DEF AddMember, Admit, daily, arrivals
    <2> QED
        BY <2>2, <2>3
<1>8. CASE VelocityRedisFails(r)
    <2>1. MemberOf(r) \in Member
        BY DEF MemberOf, Member
    <2>2. /\ members' \in {members, InWindow, members \cup {MemberOf(r)}}
          /\ pc[r] \in {"window", "count", "add"}
          /\ now' = now \/ At(r, clock)
          /\ outages' \in [Control -> Nat]
        BY <1>8 DEF VelocityRedisFails, RedisFails, Control
    <2>3. members' \subseteq Member /\ IsFiniteSet(members')
        BY <2>1, <2>2, FS_Subset, FS_AddElement DEF InWindow
    <2>4. UNCHANGED <<counter, paid, spent, created, inTurn, clock, admitted>>
        BY <1>8 DEF VelocityRedisFails, daily, arrivals
    <2> QED
        BY <1>8, <2>2, <2>3, <2>4 DEF VelocityRedisFails
<1>9. CASE RecountTable(r)
    <2> DEFINE used == Cardinality({q \in paid : created[q] >= now[r] - Window})
    <2>1. used \in Nat
        BY FS_Subset, FS_CardinalityType
    <2>2. /\ pc[r] = "recount" /\ At(r, 0)
          /\ UNCHANGED <<outages, counter, paid, spent, clock, members, inTurn>>
          /\ created' \in {created, [created EXCEPT ![r] = 0]}
          /\ \E step \in {"done", "passed"} : Goto(r, step)
          /\ \E value \in {0, used + 1} : Read(r, value)
          /\ admitted' \in {admitted, admitted \cup {[request |-> r, time |-> now[r]]}}
        BY <1>9 DEF RecountTable, Refuse, Admit, Rollback, daily, arrivals
    <2> HIDE DEF used
    <2> QED
        BY <2>1, <2>2
<1> QED
    BY <1>1, <1>2, <1>3, <1>5, <1>6, <1>7, <1>8, <1>9 DEF Enforce

\* The rate limiter moves the request it is called for.
LEMMA RateEffect ==
    ASSUME RateTypeOK, NEW r \in Requests,
           ReadBucket(r) \/ Increment(r) \/ Expire(r) \/ RateRedisFails(r) \/ StopAsking(r)
    PROVE  \A q \in Requests : q # r => asking'[q] = asking[q]
<1>1. \E ask : asking' = [asking EXCEPT ![r] = ask]
    <2>1. CASE ReadBucket(r)
        BY <2>1 DEF ReadBucket
    <2>2. CASE Increment(r)
        BY <2>2 DEF Increment, Allow, Advance, RefuseRate
    <2>3. CASE Expire(r)
        BY <2>3 DEF Expire, Allow, Advance
    <2>4. CASE RateRedisFails(r)
        BY <2>4 DEF RateRedisFails, Allow, Advance
    <2>5. CASE StopAsking(r)
        BY <2>5 DEF StopAsking
    <2> QED
        BY <2>1, <2>2, <2>3, <2>4, <2>5
<1> QED
    BY <1>1 DEF RateTypeOK

LEMMA UnpaidEffect ==
    ASSUME FlowOK, RateTypeOK', NEW r \in Requests, Unpaid(r)
    PROVE  LimitsOK' /\ DecisionTypes' /\ Apart(r) /\ Placed(r)
<1> USE DEF FlowOK, ControlsTypeOK, FlowInv, LimitsOK, DecisionTypes
<1> USE RulesAssumption DEF RulesAssumption
<1>0. clock \in Nat
    BY RequestsAssumption DEF TypeOK, RequestsAssumption
<1>1. TypeOK /\ LimitsOK /\ RateTypeOK /\ DecisionTypes
    OBVIOUS
<1>2. CASE Begin(r)
    <2>1. /\ pc[r] = "new" /\ r \notin paid /\ stage[r] = "before" /\ asking[r].at = "idle"
        BY <1>2 DEF Begin, Arrive
    <2>2. UNCHANGED <<outages, read, daily, velocity>> /\ UNCHANGED controlVars
        BY <1>2 DEF Begin, Arrive
    <2>3. /\ \E step \in {"start", "done"} : Goto(r, step)
          /\ created' \in {created, [created EXCEPT ![r] = clock]}
          /\ inTurn' = (inTurn /\ Busy = {})
        BY <1>2 DEF Begin, Arrive
    <2>6. pc' \in [Requests -> Step] /\ \A q \in Requests : q # r => pc'[q] = pc[q]
        BY <2>3 DEF TypeOK, Goto, Step, DailyStep
    <2>7. /\ created' \in [Requests -> Nat] /\ created'[r] \in {created[r], clock}
          /\ \A q \in Requests : q # r => created'[q] = created[q]
        BY <1>0, <2>3 DEF TypeOK
    <2>8. inTurn' \in BOOLEAN /\ (inTurn' => inTurn)
        BY <2>3 DEF TypeOK
    <2>4. LimitsOK'
        BY <2>2, <2>6, <2>7, <2>8 DEF TypeOK, daily, velocity
    <2>5. Apart(r) /\ Placed(r) /\ DecisionTypes'
        BY <2>1, <2>2, <2>6, <2>7, <2>8 DEF Apart, Placed, TypeOK, Goto, daily, velocity, controlVars,
                                rateVars, amlVars, decisionVars
    <2> QED
        BY <2>4, <2>5
<1>3. CASE DenyKyc(r)
    <2>1. /\ pc[r] = "new" /\ r \notin paid /\ stage[r] = "before" /\ asking[r].at = "idle"
        BY <1>3 DEF DenyKyc
    <2>2. /\ UNCHANGED <<outages, read, daily, velocity, arrivals>> /\ UNCHANGED controlVars
          /\ Goto(r, "done")
        BY <1>3 DEF DenyKyc
    <2>4. LimitsOK'
        BY <2>2 DEF TypeOK, Goto, Step, DailyStep, daily, velocity, arrivals
    <2>5. Apart(r) /\ Placed(r) /\ DecisionTypes'
        BY <2>1, <2>2 DEF Apart, Placed, TypeOK, Goto, daily, velocity, arrivals, controlVars,
                          rateVars, amlVars, decisionVars
    <2> QED
        BY <2>4, <2>5
<1>4. CASE EnforceLimits(r)
    <2>1. /\ LimitsOK' /\ pc[r] \notin {"new", "passed", "done"}
          /\ \A q \in Requests : q # r =>
                pc'[q] = pc[q] /\ created'[q] = created[q] /\ now'[q] = now[q]
          /\ created'[r] \in {created[r], 0}
          /\ UNCHANGED <<paid, spent, clock, inTurn>>
        BY <1>1, <1>4, EnforceEffect DEF EnforceLimits
    <2>2. UNCHANGED <<asking, history, historyExpiry, stage, risk, aml, held, unrecorded>>
        BY <1>4 DEF EnforceLimits, controlVars, rateVars, amlVars, decisionVars
    <2>3. r \notin paid /\ stage[r] = "before" /\ asking[r].at = "idle"
        BY <2>1
    <2> QED
        BY <2>1, <2>2, <2>3 DEF Apart, Placed
<1>5. CASE EnforceRateLimit(r)
    <2>1. /\ pc[r] = "passed" /\ stage[r] = "before" /\ r \notin paid
          /\ UNCHANGED <<pc, read, daily, velocity, arrivals, amlVars, decisionVars>>
          /\ UNCHANGED outages \/ RedisFails("later")
        BY <1>5 DEF EnforceRateLimit
    <2>2. \A q \in Requests : q # r => asking'[q] = asking[q]
        BY <1>1, <1>5, RateEffect DEF EnforceRateLimit
    <2>3. outages' \in [Control -> Nat]
        BY <1>1, <2>1 DEF RedisFails, Control, TypeOK
    <2>4. LimitsOK'
        BY <2>1, <2>3 DEF TypeOK, daily, velocity, arrivals
    <2>5. Apart(r) /\ Placed(r) /\ DecisionTypes'
        BY <2>1, <2>2 DEF Apart, Placed, daily, velocity, arrivals, amlVars, decisionVars
    <2> QED
        BY <2>4, <2>5
<1>6. CASE EvaluateRisk(r)
    <2>1. /\ pc[r] = "passed" /\ stage[r] = "before" /\ r \notin paid
          /\ UNCHANGED <<vars, amlVars, held, unrecorded>>
        BY <1>6 DEF EvaluateRisk
    <2>2. \A q \in Requests : q # r => asking'[q] = asking[q]
        BY <1>1, <1>6, RateEffect DEF EvaluateRisk
    <2>3. asking'[r].at = "idle"
        BY <1>6 DEF EvaluateRisk, StopAsking, RateTypeOK, Idle
    <2>4. LimitsOK'
        BY <2>1 DEF TypeOK, vars, daily, velocity, arrivals
    <2>5. /\ stage' \in [Requests -> {"before", "total", "near", "commit", "record", "push"}]
          /\ stage'[r] \in {"total", "commit"}
          /\ aml' \in [Requests -> Decision]
          /\ \A q \in Requests : q # r => stage'[q] = stage[q] /\ aml'[q] = aml[q]
        BY <1>6 DEF EvaluateRisk, ToStage, Decision
    <2>6. risk' \in [Requests -> Decision]
        <3>1. \A c \in RiskContext : RiskDecision(c) \in Decision
            BY DEF RiskDecision, DecisionFromScore, Decision
        <3> QED
            BY <1>6, <3>1, ContextType DEF EvaluateRisk
    <2>7. Apart(r) /\ Placed(r) /\ DecisionTypes'
        BY <2>1, <2>2, <2>3, <2>5, <2>6 DEF Apart, Placed, vars, daily, velocity, arrivals, amlVars
    <2> QED
        BY <2>4, <2>7
<1>7. CASE EvaluateTotal(r) \/ EvaluateNear(r)
    <2>1. /\ stage[r] \in {"total", "near"} /\ pc[r] = "passed" /\ r \notin paid
          /\ asking[r].at = "idle"
          /\ UNCHANGED <<pc, read, daily, velocity, arrivals, rateVars, amlVars, risk, held,
                         unrecorded>>
          /\ UNCHANGED outages \/ RedisFails("later")
        BY <1>7 DEF EvaluateTotal, EvaluateNear, ReviewOr, FindOutgoing
    <2>3. outages' \in [Control -> Nat]
        BY <1>1, <2>1 DEF RedisFails, Control, TypeOK
    <2>4. LimitsOK'
        BY <2>1, <2>3 DEF TypeOK, daily, velocity, arrivals
    <2>5. /\ stage' \in [Requests -> {"before", "total", "near", "commit", "record", "push"}]
          /\ stage'[r] \in {"near", "commit"}
          /\ aml' \in [Requests -> Decision]
          /\ \A q \in Requests : q # r => stage'[q] = stage[q] /\ aml'[q] = aml[q]
        BY <1>7 DEF EvaluateTotal, EvaluateNear, ReviewOr, ToStage, Decision
    <2>7. Apart(r) /\ Placed(r) /\ DecisionTypes'
        BY <2>1, <2>5 DEF Apart, Placed, daily, velocity, arrivals, amlVars, rateVars
    <2> QED
        BY <2>4, <2>7
<1>8. CASE Abort(r)
    <2>1. /\ pc[r] # "done" /\ r \notin paid
          /\ UNCHANGED <<outages, daily, clock, members, admitted, inTurn, amlVars, held, unrecorded>>
        BY <1>8 DEF Abort, EndUnpaid, Rollback, InFlight
    <2>2. /\ \A q \in Requests : q # r => asking'[q] = asking[q]
          /\ asking'[r].at = "idle"
        BY <1>1, <1>8, RateEffect DEF Abort, StopAsking, RateTypeOK, Idle
    <2>3. /\ pc' \in [Requests -> Step] /\ read' \in [Requests -> Nat] /\ now' \in [Requests -> Nat]
          /\ created' \in [Requests -> Nat] /\ created'[r] = 0
          /\ \A q \in Requests : q # r =>
                pc'[q] = pc[q] /\ created'[q] = created[q] /\ now'[q] = now[q]
        BY <1>8 DEF Abort, EndUnpaid, Rollback, Goto, Read, At, TypeOK, Step
    <2>4. LimitsOK'
        BY <2>1, <2>3 DEF TypeOK, daily
    <2>5. /\ DecisionTypes' /\ stage'[r] = "before"
          /\ \A q \in Requests : q # r => stage'[q] = stage[q] /\ aml'[q] = aml[q]
        BY <1>8 DEF Abort, Leave, ToStage, Decision
    <2>7. Apart(r) /\ Placed(r)
        BY <2>1, <2>2, <2>3, <2>5 DEF Apart, Placed, daily, amlVars
    <2> QED
        BY <2>4, <2>5, <2>7
<1> QED
    BY <1>2, <1>3, <1>4, <1>5, <1>6, <1>7, <1>8 DEF Unpaid

\* Commit stores the payment BLOCKED, or adds it to the table.
LEMMA CommitEffect ==
    ASSUME FlowOK, NEW r \in Requests, Commit(r)
    PROVE  /\ pc[r] = "passed" /\ pc'[r] = "done" /\ r \notin paid
           /\ \A q \in Requests : q # r =>
                /\ pc'[q] = pc[q] /\ created'[q] = created[q] /\ now'[q] = now[q]
                /\ stage'[q] = stage[q] /\ aml'[q] = aml[q]
           /\ UNCHANGED <<clock, inTurn, rateVars, amlVars, unrecorded>>
           /\ LimitsOK' /\ DecisionTypes'
           /\ \/ /\ stage'[r] = "before"
                 /\ UNCHANGED <<paid, spent, held>> /\ created'[r] = 0
              \/ /\ stage'[r] = "record" /\ aml'[r] = aml[r]
                 /\ paid' = paid \cup {r} /\ spent' = spent + Stored[r]
                 /\ created'[r] = created[r]
                 /\ \/ held' = held \cup {r}
                    \/ held' = held /\ aml[r] = "ALLOW"
<1> USE RequestsAssumption DEF FlowOK, ControlsTypeOK, FlowInv, LimitsOK, DecisionTypes,
        RequestsAssumption
<1> DEFINE status == ResolveStatus(risk[r], aml[r])
<1>1. /\ pc[r] = "passed" /\ r \notin paid /\ stage[r] = "commit"
      /\ UNCHANGED <<rateVars, amlVars, unrecorded>>
    BY DEF Commit
<1>2. ASSUME EndUnpaid(r), Leave(r), UNCHANGED held
      PROVE  /\ pc'[r] = "done"
             /\ \A q \in Requests : q # r =>
                    /\ pc'[q] = pc[q] /\ created'[q] = created[q] /\ now'[q] = now[q]
                    /\ stage'[q] = stage[q] /\ aml'[q] = aml[q]
             /\ UNCHANGED <<clock, inTurn>> /\ LimitsOK' /\ DecisionTypes'
             /\ stage'[r] = "before" /\ UNCHANGED <<paid, spent, held>> /\ created'[r] = 0
    <2>1. /\ pc' \in [Requests -> Step] /\ read' \in [Requests -> Nat] /\ now' \in [Requests -> Nat]
          /\ pc'[r] = "done"
          /\ created' \in [Requests -> Nat] /\ created'[r] = 0
          /\ \A q \in Requests : q # r =>
                pc'[q] = pc[q] /\ created'[q] = created[q] /\ now'[q] = now[q]
          /\ UNCHANGED <<outages, counter, paid, spent, clock, members, admitted, inTurn>>
        BY <1>2 DEF EndUnpaid, Rollback, Goto, Read, At, TypeOK, Step, daily
    <2>2. LimitsOK'
        BY <2>1 DEF TypeOK
    <2>3. /\ DecisionTypes' /\ stage'[r] = "before"
          /\ \A q \in Requests : q # r => stage'[q] = stage[q] /\ aml'[q] = aml[q]
        BY <1>2 DEF Leave, ToStage, Decision
    <2> QED
        BY <1>2, <2>1, <2>2, <2>3
<1>3. ASSUME Pay(r), ToStage(r, "record"), UNCHANGED <<risk, aml>>
      PROVE  /\ pc'[r] = "done"
             /\ \A q \in Requests : q # r =>
                    /\ pc'[q] = pc[q] /\ created'[q] = created[q] /\ now'[q] = now[q]
                    /\ stage'[q] = stage[q] /\ aml'[q] = aml[q]
             /\ UNCHANGED <<clock, inTurn>> /\ LimitsOK' /\ DecisionTypes'
             /\ stage'[r] = "record" /\ aml'[r] = aml[r]
             /\ paid' = paid \cup {r} /\ spent' = spent + Stored[r]
             /\ created'[r] = created[r]
    <2>1. /\ pc' \in [Requests -> Step] /\ read' \in [Requests -> Nat]
          /\ pc'[r] = "done"
          /\ \A q \in Requests : q # r => pc'[q] = pc[q]
          /\ UNCHANGED <<outages, counter, clock, members, now, admitted, created, inTurn>>
          /\ paid' = paid \cup {r} /\ spent' = spent + Stored[r]
        BY <1>3 DEF Pay, Goto, Read, TypeOK, Step, velocity, arrivals
    <2>3. spent' \in Nat
        BY <2>1, CountedCloseToStored DEF TypeOK
    <2>2. LimitsOK'
        BY <2>1, <2>3 DEF TypeOK
    <2> QED
        BY <1>3, <2>1, <2>2 DEF ToStage
<1>4. CASE status = "BLOCKED"
    BY <1>1, <1>2, <1>4 DEF Commit
<1>5. CASE status # "BLOCKED"
    <2>1. \/ held' = held \cup {r}
          \/ held' = held /\ aml[r] = "ALLOW"
        <3>1. aml[r] \in Decision
            OBVIOUS
        <3> QED
            BY <1>5, <3>1 DEF Commit, ResolveStatus, Decision
    <2>2. Pay(r) /\ ToStage(r, "record") /\ UNCHANGED <<risk, aml>>
        BY <1>5 DEF Commit
    <2> QED
        BY <1>1, <1>3, <2>1, <2>2
<1> QED
    BY <1>4, <1>5

\* Stamp gives r the time, Record and LoseRecord touch the list.
LEMMA StampEffect ==
    ASSUME FlowOK, NEW r \in Requests, Stamp(r)
    PROVE  /\ r \in paid /\ stage[r] = "record" /\ stage'[r] = "push" /\ now'[r] = clock
           /\ \A q \in Requests : q # r =>
                stage'[q] = stage[q] /\ now'[q] = now[q] /\ aml'[q] = aml[q]
           /\ UNCHANGED <<outages, pc, read, daily, clock, members, admitted, arrivals, rateVars,
                          amlVars, held, unrecorded>>
           /\ now' \in [Requests -> Nat] /\ DecisionTypes'
<1>1. clock \in Nat
    BY RequestsAssumption DEF FlowOK, ControlsTypeOK, TypeOK, RequestsAssumption
<1>2. now \in [Requests -> Nat] /\ DecisionTypes /\ stage[r] = "record" /\ r \in paid
    BY DEF FlowOK, ControlsTypeOK, TypeOK, FlowInv, DecisionTypes, Stamp
<1> QED
    BY <1>1, <1>2 DEF DecisionTypes, Stamp, ToStage, At

LEMMA RecordEffect ==
    ASSUME FlowOK, NEW r \in Requests, Record(r) \/ LoseRecord(r)
    PROVE  /\ r \in paid /\ stage[r] = "push" /\ stage'[r] = "before"
           /\ created[r] <= now[r] /\ now[r] \in Nat
           /\ \A q \in Requests : q # r =>
                stage'[q] = stage[q] /\ now'[q] = now[q] /\ aml'[q] = aml[q]
           /\ UNCHANGED <<outages, pc, read, daily, clock, members, admitted, arrivals, rateVars,
                          held>>
           /\ now' \in [Requests -> Nat] /\ DecisionTypes'
           /\ history' \in Written(r, now[r])
           /\ \/ /\ history' = Trimmed(Pushed(r, now[r])) /\ historyExpiry' = clock + HistoryTtl
                 /\ UNCHANGED unrecorded
              \/ /\ UNCHANGED historyExpiry
                 /\ unrecorded' = unrecorded \cup {r}
<1>1. /\ now \in [Requests -> Nat] /\ DecisionTypes /\ stage[r] = "push" /\ r \in paid
      /\ created[r] <= now[r]
    BY DEF FlowOK, ControlsTypeOK, TypeOK, FlowInv, DecisionTypes, Record, LoseRecord, EndRecord
<1>2. /\ EndRecord(r)
      /\ history' \in Written(r, now[r])
      /\ \/ /\ history' = Trimmed(Pushed(r, now[r])) /\ historyExpiry' = clock + HistoryTtl
            /\ UNCHANGED unrecorded
         \/ /\ UNCHANGED historyExpiry
            /\ unrecorded' = unrecorded \cup {r}
    BY DEF Record, LoseRecord, RecordOutgoing, RecordPart, Written
<1>3. /\ UNCHANGED <<outages, pc, read, daily, clock, members, admitted, arrivals, rateVars, held>>
      /\ now' = [now EXCEPT ![r] = 0]
      /\ Leave(r)
    BY <1>2 DEF EndRecord, At
<1>4. /\ DecisionTypes' /\ stage'[r] = "before"
      /\ \A q \in Requests : q # r => stage'[q] = stage[q] /\ aml'[q] = aml[q]
    BY <1>1, <1>3 DEF DecisionTypes, Leave, ToStage, Decision
<1> QED
    BY <1>1, <1>2, <1>3, <1>4

LEMMA TtlFact == /\ HistoryTtl \in Nat \ {0}
                 /\ \A window \in {TotalWindow, StructuringWindow} : window <= HistoryTtl
BY AmlAssumption DEF AmlAssumption, HistoryTtl

LEMMA StoredType == Stored \in [Requests -> Nat]
BY CountedCloseToStored DEF Stored

\* The types and the control flow.
LEMMA ControlsFlowStep ==
    ASSUME FlowOK, RateTypeOK', [ControlsNext]_allVars
    PROVE  FlowOK'
<1> USE RequestsAssumption DEF RequestsAssumption
<1>1. CASE UNCHANGED allVars
    <2>1. UNCHANGED <<vars, rateVars, amlVars, decisionVars>>
        BY <1>1 DEF allVars, controlVars
    <2>2. UNCHANGED <<outages, pc, read, counter, paid, spent, created, inTurn, clock, members, now,
                      admitted, history, historyExpiry, asking, stage, risk, aml, held, unrecorded>>
        BY <2>1 DEF vars, daily, velocity, arrivals, rateVars, amlVars, decisionVars
    <2> QED
        BY <2>2 DEF FlowOK, ControlsTypeOK, TypeOK, AmlTypeOK, FlowInv
<1>2. CASE PassTime
    <2>1. /\ clock < MaxTime /\ clock' = clock + 1
          /\ UNCHANGED <<outages, pc, read, counter, paid, spent, created, inTurn, members, now,
                         admitted, asking, stage, risk, aml, held, unrecorded>>
        BY <1>2 DEF PassTime, Tick, RateTick, daily, arrivals, decisionVars
    <2>2. clock \in 0 .. MaxTime /\ clock' \in 0 .. MaxTime /\ clock <= clock'
        BY <2>1 DEF FlowOK, ControlsTypeOK, TypeOK
    <2>3. TypeOK' /\ IsFiniteSet(members)'
        BY <2>1, <2>2 DEF FlowOK, ControlsTypeOK, TypeOK
    <2>4. AmlTypeOK'
        <3>1. history' \in {history, << >>} /\ historyExpiry' \in {historyExpiry, 0}
            BY <1>2 DEF PassTime, AmlTick, amlVars
        <3>2. history \in Seq(Entry) /\ historyExpiry \in Nat
            BY DEF FlowOK, ControlsTypeOK, AmlTypeOK
        <3>3. << >> \in Seq(Entry)
            OBVIOUS
        <3>4. history' \in Seq(Entry)
            BY <3>1, <3>2, <3>3, Zenon
        <3>5. historyExpiry' \in Nat
            BY <3>1, <3>2
        <3> QED
            BY <3>4, <3>5 DEF AmlTypeOK
    <2>5. FlowInv'
        <3>1. ASSUME NEW r \in Requests
              PROVE  created[r] <= clock'
            <4>1. created[r] <= clock /\ created[r] \in Nat
                BY DEF FlowOK, FlowInv, ControlsTypeOK, TypeOK
            <4> QED
                BY <2>2, <4>1
        <3> QED
            BY <2>1, <3>1 DEF FlowOK, FlowInv
    <2> QED
        BY <2>1, <2>3, <2>4, <2>5 DEF FlowOK, ControlsTypeOK
<1>3. ASSUME NEW r \in Requests, Unpaid(r)
      PROVE  FlowOK'
    <2>1. LimitsOK' /\ DecisionTypes' /\ Apart(r) /\ Placed(r)
        BY <1>3, UnpaidEffect
    <2>2. ControlsTypeOK' /\ IsFiniteSet(members)'
        BY <2>1 DEF FlowOK, ControlsTypeOK, LimitsOK, DecisionTypes, Apart, AmlTypeOK
    <2>3. FlowInv'
        <3>1. ASSUME NEW q \in Requests, q # r
              PROVE  /\ stage'[q] \in {"total", "near", "commit"} => pc'[q] = "passed"
                     /\ stage'[q] \in {"record", "push"} => q \in paid' /\ q \notin unrecorded'
                     /\ stage'[q] = "push" => created'[q] <= now'[q]
                     /\ asking'[q].at # "idle" => pc'[q] = "passed" /\ stage'[q] = "before"
                     /\ q \in paid' => pc'[q] = "done"
                     /\ created'[q] <= clock'
            BY <2>1, <3>1 DEF FlowOK, FlowInv, Apart
        <3>2. /\ stage'[r] \in {"total", "near", "commit"} => pc'[r] = "passed"
              /\ stage'[r] \notin {"record", "push"}
              /\ asking'[r].at # "idle" => pc'[r] = "passed" /\ stage'[r] = "before"
              /\ r \notin paid'
            BY <2>1 DEF Apart, Placed
        <3>3. created'[r] <= clock'
            <4>1. clock \in Nat /\ clock' = clock /\ created[r] <= clock
                BY <2>1 DEF Apart, FlowOK, FlowInv, ControlsTypeOK, TypeOK
            <4> QED
                BY <2>1, <4>1 DEF Placed
        <3> QED
            BY <3>1, <3>2, <3>3 DEF FlowInv
    <2> QED
        BY <2>2, <2>3 DEF FlowOK
<1>4. ASSUME NEW r \in Requests, Commit(r)
      PROVE  FlowOK'
    <2>1. /\ pc[r] = "passed" /\ pc'[r] = "done" /\ r \notin paid
          /\ \A q \in Requests : q # r =>
                pc'[q] = pc[q] /\ stage'[q] = stage[q] /\ created'[q] = created[q] /\ now'[q] = now[q]
          /\ UNCHANGED <<clock, rateVars, amlVars, unrecorded>>
          /\ LimitsOK' /\ DecisionTypes' /\ created'[r] \in {0, created[r]}
          /\ \/ /\ stage'[r] = "before"
                /\ UNCHANGED <<paid, spent, held>>
             \/ /\ stage'[r] = "record"
                /\ paid' = paid \cup {r} /\ spent' = spent + Stored[r]
                /\ held' \in {held, held \cup {r}}
        BY <1>4, CommitEffect
    <2>2. AmlTypeOK' /\ held' \subseteq paid' /\ unrecorded' \subseteq paid'
        BY <2>1 DEF FlowOK, ControlsTypeOK, AmlTypeOK, amlVars
    <2>3. (spent = Total(Stored, paid))'
        <3>1. paid \in SUBSET Requests /\ spent = Total(Stored, paid)
            BY DEF FlowOK, ControlsTypeOK, TypeOK
        <3>2. CASE UNCHANGED <<paid, spent>>
            BY <3>1, <3>2
        <3>3. CASE paid' = paid \cup {r} /\ spent' = spent + Stored[r]
            <4>1. Stored \in [Requests -> Nat]
                BY StoredType
            <4>2. PICK stored \in [Requests -> Nat] : stored = Stored
                BY <4>1
            <4>3. Total(stored, paid \cup {r}) = Total(stored, paid) + stored[r]
                BY <2>1, <3>1, TotalAdd
            <4> QED
                BY <3>1, <3>3, <4>2, <4>3
        <3> QED
            BY <2>1, <3>2, <3>3
    <2>4. ControlsTypeOK' /\ IsFiniteSet(members)'
        BY <2>1, <2>2, <2>3 DEF ControlsTypeOK, LimitsOK, DecisionTypes
    <2>5. FlowInv'
        <3>1. asking[r].at = "idle" \/ stage[r] = "before"
            BY DEF FlowOK, FlowInv
        <3>2. asking'[r].at = "idle" /\ UNCHANGED asking
            BY <1>4, <2>1, <3>1 DEF Commit, rateVars
        <3>3. ASSUME NEW q \in Requests, q # r
              PROVE  q \in paid' <=> q \in paid
            BY <2>1, <3>3 DEF FlowOK, ControlsTypeOK, TypeOK
        <3>4. ASSUME NEW q \in Requests, q # r
              PROVE  /\ stage'[q] \in {"total", "near", "commit"} => pc'[q] = "passed"
                     /\ stage'[q] \in {"record", "push"} => q \in paid' /\ q \notin unrecorded'
                     /\ stage'[q] = "push" => created'[q] <= now'[q]
                     /\ asking'[q].at # "idle" => pc'[q] = "passed" /\ stage'[q] = "before"
                     /\ q \in paid' => pc'[q] = "done"
                     /\ created'[q] <= clock'
            BY <2>1, <3>2, <3>3, <3>4 DEF FlowOK, FlowInv
        <3>5. r \notin unrecorded /\ clock \in Nat
            BY <2>1 DEF FlowOK, ControlsTypeOK, TypeOK
        <3>6. created'[r] <= clock'
            BY <2>1, <3>5 DEF FlowOK, FlowInv, ControlsTypeOK, TypeOK
        <3> QED
            BY <2>1, <3>2, <3>4, <3>5, <3>6 DEF FlowInv
    <2> QED
        BY <2>4, <2>5 DEF FlowOK
<1>5. ASSUME NEW r \in Requests, Stamp(r)
      PROVE  FlowOK'
    <2>1. /\ r \in paid /\ stage[r] = "record" /\ stage'[r] = "push" /\ now'[r] = clock
          /\ \A q \in Requests : q # r => stage'[q] = stage[q] /\ now'[q] = now[q]
          /\ now' \in [Requests -> Nat] /\ DecisionTypes'
        BY <1>5, StampEffect
    <2>2. UNCHANGED <<outages, pc, read, counter, paid, spent, created, inTurn, clock, members,
                      admitted, history, historyExpiry, asking, held, unrecorded>>
        BY <1>5, StampEffect DEF daily, arrivals, rateVars, amlVars
    <2>3. TypeOK' /\ AmlTypeOK' /\ IsFiniteSet(members)'
        BY <2>1, <2>2 DEF FlowOK, ControlsTypeOK, TypeOK, AmlTypeOK
    <2>4. ControlsTypeOK'
        BY <2>1, <2>2, <2>3 DEF FlowOK, ControlsTypeOK, DecisionTypes
    <2>5. FlowInv'
        BY <2>1, <2>2 DEF FlowOK, FlowInv
    <2> QED
        BY <2>3, <2>4, <2>5 DEF FlowOK
<1>6. ASSUME NEW r \in Requests, Record(r) \/ LoseRecord(r)
      PROVE  FlowOK'
    <2>1. /\ r \in paid /\ stage[r] = "push" /\ stage'[r] = "before" /\ now[r] \in Nat
          /\ \A q \in Requests : q # r => stage'[q] = stage[q] /\ now'[q] = now[q]
          /\ now' \in [Requests -> Nat] /\ DecisionTypes'
          /\ history' \in Written(r, now[r])
          /\ historyExpiry' \in {historyExpiry, clock + HistoryTtl}
          /\ unrecorded' \in {unrecorded, unrecorded \cup {r}}
        BY <1>6, RecordEffect
    <2>2. UNCHANGED <<outages, pc, read, counter, paid, spent, created, inTurn, clock, members,
                      admitted, asking, held>>
        BY <1>6, RecordEffect DEF daily, arrivals, rateVars
    <2>3. AmlTypeOK'
        <3>1. AmlTypeOK /\ clock \in Nat
            BY DEF FlowOK, ControlsTypeOK, TypeOK
        <3>2. historyExpiry' \in Nat
            <4>1. clock + HistoryTtl \in Nat /\ historyExpiry \in Nat
                BY <3>1, TtlFact DEF AmlTypeOK
            <4> QED
                BY <2>1, <4>1
        <3>3. PICK list \in Written(r, now[r]) : list = history'
            BY <2>1
        <3>4. list \in Seq(Entry)
            BY <2>1, <3>1, WriteType
        <3> QED
            BY <3>2, <3>3, <3>4 DEF AmlTypeOK
    <2>4. TypeOK' /\ IsFiniteSet(members)'
        BY <2>1, <2>2 DEF FlowOK, ControlsTypeOK, TypeOK
    <2>5. ControlsTypeOK'
        BY <2>1, <2>2, <2>3, <2>4 DEF FlowOK, ControlsTypeOK, DecisionTypes
    <2>6. FlowInv'
        BY <2>1, <2>2 DEF FlowOK, FlowInv
    <2> QED
        BY <2>4, <2>5, <2>6 DEF FlowOK
<1> QED
    BY <1>1, <1>2, <1>3, <1>4, <1>5, <1>6 DEF ControlsNext, Unpaid

LEMMA ControlsFlow == ControlsSpec => [](RateInv /\ FlowOK)
<1>1. ControlsInit => RateInv /\ FlowOK
    <2> SUFFICES ASSUME ControlsInit PROVE RateInv /\ FlowOK
        OBVIOUS
    <2>1. RateInv
        BY RateInitInv DEF ControlsInit, Init
    <2>2. TypeOK /\ IsFiniteSet(members)
        BY LimitsInit DEF ControlsInit, LimitsInv
    <2>3. spent = Total(Stored, paid)
        BY TotalByChoice DEF ControlsInit, Init
    <2>4. ControlsTypeOK
        BY <2>1, <2>2, <2>3 DEF ControlsInit, AmlInit, AmlTypeOK, RateInv, ControlsTypeOK, Decision
    <2>5. FlowInv
        BY DEF ControlsInit, Init, RateInit, Idle, FlowInv
    <2> QED
        BY <2>1, <2>2, <2>4, <2>5 DEF FlowOK
<1>2. RateInv /\ FlowOK /\ [ControlsNext]_allVars => RateInv' /\ FlowOK'
    BY ControlsRateStep, ControlsFlowStep DEF RateInv
<1> QED
    BY <1>1, <1>2, PTL DEF ControlsSpec

\* However many requests are handled at the same time, the states the steps of
\* create_payment leave behind are well-formed, and the sum that is taken from the
\* table is that of the payments in it (_create_payment_with_controls).
THEOREM ControlsTyped == ControlsSpec => []ControlsTypeOK
<1>1. FlowOK => ControlsTypeOK
    BY DEF FlowOK
<1> QED
    BY <1>1, ControlsFlow, PTL

(***************************************************************************)
(* The window of the velocity limit.                                       *)
(***************************************************************************)

\* record_outgoing reads the time of a request that is past the limits.
LEMMA ControlsVelocityStep ==
    ASSUME LimitsInv, VelocityInv, FlowOK, [ControlsNext]_allVars
    PROVE  VelocityInv'
<1>1. CASE UNCHANGED allVars
    BY <1>1, OtherVelocity DEF allVars, vars, velocity
<1>2. CASE PassTime
    BY <1>2, TickVelocity DEF PassTime
<1>3. ASSUME NEW r \in Requests
      PROVE  /\ Begin(r) => VelocityInv'
             /\ DenyKyc(r) => VelocityInv'
             /\ EnforceLimits(r) => VelocityInv'
    <2>1. CASE Begin(r)
        BY <2>1, RestVelocity DEF Begin
    <2>2. CASE DenyKyc(r)
        BY <2>2, OtherVelocity DEF DenyKyc, velocity
    <2>3. CASE EnforceLimits(r)
        BY <2>3, EnforceVelocity DEF EnforceLimits
    <2> QED
        BY <2>1, <2>2, <2>3
<1>4. ASSUME NEW r \in Requests, EnforceRateLimit(r)
      PROVE  VelocityInv'
    <2>1. /\ UNCHANGED <<read, daily, velocity, arrivals>> /\ UNCHANGED pc
          /\ UNCHANGED outages \/ RedisFails("later")
        BY <1>4 DEF EnforceRateLimit
    <2> QED
        BY <2>1, OtherVelocity DEF velocity
<1>5. ASSUME NEW r \in Requests, EvaluateRisk(r)
      PROVE  VelocityInv'
    BY <1>5, OtherVelocity DEF EvaluateRisk, vars, velocity
<1>6. ASSUME NEW r \in Requests, EvaluateTotal(r) \/ EvaluateNear(r)
      PROVE  VelocityInv'
    <2>1. /\ UNCHANGED <<read, daily, velocity, arrivals>> /\ UNCHANGED pc
          /\ UNCHANGED outages \/ RedisFails("later")
        BY <1>6 DEF EvaluateTotal, EvaluateNear, ReviewOr, FindOutgoing
    <2> QED
        BY <2>1, OtherVelocity DEF velocity
<1>7. ASSUME NEW r \in Requests, Commit(r) \/ Abort(r)
      PROVE  VelocityInv'
    BY <1>7, RestVelocity DEF Commit, Abort
<1>8. ASSUME NEW r \in Requests, Stamp(r) \/ Record(r) \/ LoseRecord(r)
      PROVE  VelocityInv'
    <2>1. /\ UNCHANGED <<outages, pc, read, daily, clock, members, admitted, arrivals>>
          /\ At(r, clock) \/ At(r, 0)
          /\ stage[r] \in {"record", "push"}
        BY <1>8 DEF Stamp, Record, LoseRecord, EndRecord
    <2>2. pc[r] = "done" /\ now \in [Requests -> Nat]
        BY <2>1 DEF FlowOK, FlowInv, ControlsTypeOK, TypeOK
    <2>3. \A q \in Requests : now'[q] = now[q] \/ pc[q] = "done"
        BY <2>1, <2>2 DEF At
    <2> QED
        BY <2>1, <2>3, OtherVelocity
<1> QED
    BY <1>1, <1>2, <1>3, <1>4, <1>5, <1>6, <1>7, <1>8 DEF ControlsNext

\* Requests coming in turn, no window that ends with an admitted request holds more of
\* them than the policy allows while Redis answers, although requests that are rejected
\* or lost later keep their members, and a request may wait between its commands for as
\* long as it likes (_enforce_velocity_limit).
THEOREM VelocityLimitHolds == ControlsSpec => []VelocityLimitInTurn
<1>1. ControlsInit => VelocityInv
    BY VelocityInit DEF ControlsInit
<1>2. LimitsInv /\ VelocityInv /\ FlowOK /\ [ControlsNext]_allVars => VelocityInv'
    BY ControlsVelocityStep
<1>3. VelocityInv => VelocityLimitInTurn
    BY DEF VelocityInv, VelocityLimitInTurn, WithinVelocityLimit
<1> QED
    BY <1>1, <1>2, <1>3, ControlsKeepLimits, ControlsFlow, PTL DEF ControlsSpec

(***************************************************************************)
(* The list of payments and the table.                                     *)
(***************************************************************************)

\* The payments that were stamped before time t and are still to be pushed.
Pending(t) == {p \in Requests : stage[p] = "push" /\ now[p] < t}

\* They were being handled when a request that began at t did.
PendingInv == \A q \in Requests : Cardinality(Pending(created[q])) <= Beside

\* A payment whose record was written is too old for both windows, or the list lives
\* for as long as it counts and has it, or entries of its time in its place.
Kept(q) ==
    \/ created[q] + HistoryTtl <= clock
    \/ /\ created[q] + HistoryTtl <= historyExpiry
       /\ \E k \in Nat : /\ k + Cardinality(Pending(created[q])) <= Beside
                         /\ Listed(history, q, created[q], k)

Recorded == {q \in paid \ unrecorded : stage[q] \notin {"record", "push"}}

HistoryInv == PendingInv /\ \A q \in Recorded : Kept(q)

LEMMA PendingFinite ==
    ASSUME NEW t
    PROVE  IsFiniteSet(Pending(t)) /\ Cardinality(Pending(t)) \in Nat
<1>1. Pending(t) \in SUBSET Requests /\ IsFiniteSet(Requests)
    BY RequestsAssumption DEF RequestsAssumption, Pending
<1> QED
    BY <1>1, FS_Subset, FS_CardinalityType

LEMMA FewerPending ==
    ASSUME NEW t, Pending(t)' \subseteq Pending(t)
    PROVE  Cardinality(Pending(t)') <= Cardinality(Pending(t)) /\ Cardinality(Pending(t)') \in Nat
<1>1. PICK next \in SUBSET Pending(t) : next = Pending(t)'
    OBVIOUS
<1>2. Cardinality(next) <= Cardinality(Pending(t)) /\ Cardinality(next) \in Nat
    BY PendingFinite, FS_Subset, FS_CardinalityType
<1> QED
    BY <1>1, <1>2

LEMMA BesideFacts ==
    ASSUME inTurn' => inTurn
    PROVE  Beside \in Nat /\ Beside' \in Nat /\ Beside <= Beside'
BY LimitsAssumption DEF LimitsAssumption, Beside

\* A step that pushes nothing leaves the payments where they are.
LEMMA KeptStands ==
    ASSUME FlowOK, FlowOK', HistoryInv, UNCHANGED <<history, historyExpiry, clock>>,
           inTurn' => inTurn, NEW r \in Requests, created'[r] \in {created[r], 0},
           \A q \in Requests : q # r => created'[q] = created[q],
           \A q \in Requests :
                stage'[q] = "push" => (stage[q] = "push" /\ now'[q] = now[q]) \/ now'[q] = clock,
           Recorded' \subseteq Recorded, r \in Recorded' => created'[r] = created[r]
    PROVE  HistoryInv'
<1>1. Beside \in Nat /\ Beside' \in Nat /\ Beside <= Beside'
    BY BesideFacts
<1>2. ASSUME NEW t \in Nat, t <= clock
      PROVE  Cardinality(Pending(t)') <= Cardinality(Pending(t)) /\ Cardinality(Pending(t)') \in Nat
    <2>1. clock \in Nat
        BY RequestsAssumption DEF FlowOK, ControlsTypeOK, TypeOK, RequestsAssumption
    <2>2. Pending(t)' \subseteq Pending(t)
        BY <1>2, <2>1 DEF Pending
    <2> QED
        BY <2>2, FewerPending
<1>3. /\ created \in [Requests -> Nat] /\ created' \in [Requests -> Nat] /\ paid \subseteq Requests
      /\ \A q \in Requests : created[q] <= clock
      /\ \A t \in Nat : Cardinality(Pending(t)) \in Nat
    BY PendingFinite DEF FlowOK, FlowInv, ControlsTypeOK, TypeOK
<1>4. ASSUME NEW q \in Requests
      PROVE  Cardinality(Pending(created[q])') <= Beside'
    <2>1. PICK t \in Nat : t = created'[q]
        BY <1>3
    <2>2. CASE t = created[q]
        <3>1. Cardinality(Pending(t)) <= Beside
            BY <2>2 DEF HistoryInv, PendingInv
        <3>2. t <= clock
            BY <1>3, <2>2
        <3>3. Cardinality(Pending(t)') <= Beside'
            BY <1>1, <1>2, <1>3, <3>1, <3>2
        <3> QED
            BY <2>1, <3>3 DEF Pending
    <2>3. CASE t = 0
        <3>1. now' \in [Requests -> Nat]
            BY DEF FlowOK, ControlsTypeOK, TypeOK
        <3>2. Pending(t)' = {}
            BY <2>3, <3>1 DEF Pending
        <3>3. Cardinality(Pending(t)') <= Beside'
            BY <1>1, <3>2, FS_EmptySet
        <3> QED
            BY <2>1, <3>3 DEF Pending
    <2> QED
        BY <2>1, <2>2, <2>3
<1>5. ASSUME NEW q \in Recorded'
      PROVE  Kept(q)'
    <2>1. q \in Recorded /\ created'[q] = created[q] /\ q \in Requests
        BY <1>3, <1>5 DEF Recorded
    <2>2. PICK t \in Nat : t = created[q] /\ t = created'[q] /\ t <= clock
        BY <1>3, <2>1
    <2>3. Kept(q)
        BY <2>1 DEF HistoryInv
    <2>4. CASE t + HistoryTtl <= clock
        BY <2>2, <2>4 DEF Kept
    <2>5. ASSUME t + HistoryTtl <= historyExpiry, NEW k \in Nat,
                 k + Cardinality(Pending(t)) <= Beside, Listed(history, q, t, k)
          PROVE  Kept(q)'
        <3>1. k + Cardinality(Pending(t)') <= Beside'
            BY <1>1, <1>2, <1>3, <2>2, <2>5
        <3>2. Listed(history', q, t, k) /\ t + HistoryTtl <= historyExpiry'
            BY <2>5
        <3> QED
            BY <2>2, <3>1, <3>2 DEF Kept, Pending, Listed, Older
    <2> QED
        BY <2>2, <2>3, <2>4, <2>5 DEF Kept
<1>6. PendingInv'
    BY <1>4 DEF PendingInv, Pending
<1> QED
    BY <1>5, <1>6 DEF HistoryInv

\* A request that begins finds as many payments pending as are being handled.
LEMMA BeginHistory ==
    ASSUME FlowOK, FlowOK', HistoryInv, NEW r \in Requests, Begin(r)
    PROVE  HistoryInv'
<1>1. /\ UNCHANGED <<history, historyExpiry, clock, now, paid, stage, unrecorded>>
      /\ Cardinality(Busy) < MaxInFlight
      /\ inTurn' = (inTurn /\ Busy = {})
      /\ created' \in {created, [created EXCEPT ![r] = clock]}
      /\ pc[r] = "new"
    BY DEF Begin, Arrive, controlVars, amlVars, decisionVars, daily, velocity
<1>2. /\ created \in [Requests -> Nat] /\ clock \in Nat /\ r \notin paid /\ inTurn \in BOOLEAN
    BY <1>1 DEF FlowOK, FlowInv, ControlsTypeOK, TypeOK
<1>3. \A t : Pending(t)' = Pending(t)
    BY <1>1 DEF Pending
<1>4. CASE created' = created
    BY <1>1, <1>2, <1>4, KeptStands DEF Recorded
<1>5. CASE created' = [created EXCEPT ![r] = clock]
    <2>1. Beside \in Nat /\ Beside' \in Nat /\ Beside <= Beside'
        BY <1>1, BesideFacts
    <2>2. Cardinality(Pending(clock)) <= Beside'
        <3>1. Pending(clock) \in SUBSET Busy /\ IsFiniteSet(Busy)
            BY RequestsAssumption, FS_Subset DEF RequestsAssumption, Pending, Busy, InFlight
        <3>2. /\ Cardinality(Pending(clock)) <= Cardinality(Busy)
              /\ Cardinality(Busy) \in Nat /\ Cardinality(Pending(clock)) \in Nat
            BY <3>1, FS_Subset, FS_CardinalityType
        <3>3. inTurn' => Cardinality(Busy) = 0
            BY <1>1, FS_EmptySet
        <3>4. MaxInFlight \in Nat
            BY LimitsAssumption DEF LimitsAssumption
        <3> QED
            BY <1>1, <3>2, <3>3, <3>4 DEF Beside
    <2>3. ASSUME NEW q \in Requests, q # r
          PROVE  Cardinality(Pending(created[q])') <= Beside'
        <3>1. PICK t \in Nat : t = created[q] /\ t = created'[q]
            BY <1>2, <1>5, <2>3
        <3>2. Cardinality(Pending(t)) <= Beside /\ Cardinality(Pending(t)) \in Nat
            BY <3>1, PendingFinite DEF HistoryInv, PendingInv
        <3>3. Cardinality(Pending(t)') <= Beside'
            BY <1>3, <2>1, <3>2
        <3> QED
            BY <3>1, <3>3 DEF Pending
    <2>4. Cardinality(Pending(created[r])') <= Beside'
        <3>1. created'[r] = clock /\ clock' = clock
            BY <1>1, <1>2, <1>5
        <3>2. Pending(created[r])' = Pending(clock)
            BY <1>1, <3>1 DEF Pending
        <3> QED
            BY <2>2, <3>2
    <2>5. ASSUME NEW q \in Recorded'
          PROVE  Kept(q)'
        <3>1. q \in Recorded /\ created'[q] = created[q] /\ q \in Requests
            BY <1>1, <1>2, <1>5, <2>5 DEF Recorded, FlowOK, ControlsTypeOK, TypeOK
        <3>2. PICK t \in Nat : t = created[q] /\ t = created'[q]
            BY <1>2, <3>1
        <3>3. Kept(q)
            BY <3>1 DEF HistoryInv
        <3>4. CASE t + HistoryTtl <= clock
            BY <1>1, <3>2, <3>4 DEF Kept
        <3>5. ASSUME t + HistoryTtl <= historyExpiry, NEW k \in Nat,
                     k + Cardinality(Pending(t)) <= Beside, Listed(history, q, t, k)
              PROVE  Kept(q)'
            <4>1. Cardinality(Pending(t)) \in Nat
                BY PendingFinite
            <4>2. k + Cardinality(Pending(t)') <= Beside'
                BY <1>3, <2>1, <3>5, <4>1
            <4>3. Listed(history', q, t, k) /\ t + HistoryTtl <= historyExpiry'
                BY <1>1, <3>5
            <4> QED
                BY <3>2, <4>2, <4>3 DEF Kept, Pending, Listed, Older
        <3> QED
            BY <3>2, <3>3, <3>4, <3>5 DEF Kept
    <2>6. PendingInv'
        BY <2>3, <2>4 DEF PendingInv, Pending
    <2> QED
        BY <2>5, <2>6 DEF HistoryInv
<1> QED
    BY <1>1, <1>4, <1>5

\* Expired keys take nothing with them that still counts.
LEMMA TickHistory ==
    ASSUME FlowOK, HistoryInv, PassTime
    PROVE  HistoryInv'
<1>1. /\ clock \in Nat /\ clock' = clock + 1 /\ historyExpiry \in Nat
      /\ UNCHANGED <<paid, created, unrecorded, stage, now, inTurn>>
      /\ created \in [Requests -> Nat] /\ paid \subseteq Requests
    BY RequestsAssumption DEF PassTime, Tick, daily, arrivals, decisionVars, FlowOK,
       ControlsTypeOK, TypeOK, AmlTypeOK, RequestsAssumption
<1>2. Beside' = Beside /\ \A t : Pending(t)' = Pending(t)
    BY <1>1 DEF Beside, Pending
<1>3. ASSUME NEW q \in Recorded'
      PROVE  Kept(q)'
    <2>1. q \in Recorded /\ created'[q] = created[q]
        BY <1>1, <1>3 DEF Recorded
    <2>2. PICK t \in Nat : t = created[q] /\ t = created'[q]
        BY <1>1, <2>1 DEF Recorded
    <2>3. Kept(q)
        BY <2>1 DEF HistoryInv
    <2>4. CASE t + HistoryTtl <= clock'
        BY <2>2, <2>4 DEF Kept
    <2>5. CASE ~(t + HistoryTtl <= clock')
        <3>1. ~(t + HistoryTtl <= clock)
            BY <1>1, <2>5, TtlFact
        <3>2. PICK k \in Nat : /\ t + HistoryTtl <= historyExpiry
                               /\ k + Cardinality(Pending(t)) <= Beside
                               /\ Listed(history, q, t, k)
            BY <2>2, <2>3, <3>1 DEF Kept
        <3>3. ~(historyExpiry \in 1 .. clock + 1)
            BY <1>1, <2>5, <3>2, TtlFact
        <3>4. UNCHANGED <<history, historyExpiry>>
            BY <3>3 DEF PassTime, AmlTick, amlVars
        <3>5. Listed(history', q, t, k) /\ t + HistoryTtl <= historyExpiry'
            BY <3>2, <3>4
        <3>6. k + Cardinality(Pending(t)') <= Beside'
            BY <1>2, <3>2
        <3> QED
            BY <2>2, <3>5, <3>6 DEF Kept, Pending, Listed, Older
    <2> QED
        BY <2>4, <2>5
<1>4. PendingInv'
    <2>1. \A q \in Requests : Cardinality(Pending(created[q])) <= Beside
        BY DEF HistoryInv, PendingInv
    <2> QED
        BY <1>1, <1>2, <2>1 DEF PendingInv, Pending
<1> QED
    BY <1>3, <1>4 DEF HistoryInv

\* Whatever part of its record a payment writes, the others keep their place, though
\* one that was stamped before some other began counts against it; the whole record
\* gives the payment a place.
LEMMA RecordHistory ==
    ASSUME FlowOK, HistoryInv, NEW r \in Requests, Record(r) \/ LoseRecord(r)
    PROVE  HistoryInv'
<1>1. /\ AmlTypeOK /\ clock \in Nat /\ created \in [Requests -> Nat] /\ paid \subseteq Requests
      /\ historyExpiry \in Nat /\ HistoryTtl \in Nat /\ HistoryTtl > 0
      /\ \A q \in Requests : created[q] <= clock
    BY TtlFact, RequestsAssumption
       DEF FlowOK, ControlsTypeOK, TypeOK, AmlTypeOK, FlowInv, RequestsAssumption
<1>2. /\ r \in paid /\ stage[r] = "push" /\ stage'[r] = "before"
      /\ created[r] <= now[r] /\ now[r] \in Nat
      /\ \A q \in Requests : q # r => stage'[q] = stage[q] /\ now'[q] = now[q]
      /\ history' \in Written(r, now[r])
      /\ \/ /\ history' = Trimmed(Pushed(r, now[r])) /\ historyExpiry' = clock + HistoryTtl
            /\ UNCHANGED unrecorded
         \/ /\ UNCHANGED historyExpiry
            /\ unrecorded' = unrecorded \cup {r}
    BY RecordEffect
<1>3. UNCHANGED <<clock, paid, created, inTurn>>
    BY RecordEffect DEF daily, arrivals
<1>4. PICK list \in Written(r, now[r]) : list = history'
    BY <1>2
<1>5. Beside \in Nat /\ Beside' = Beside
    BY <1>3, BesideFacts DEF Beside
<1>6. ASSUME NEW t \in Nat
      PROVE  /\ Cardinality(Pending(t)) \in Nat /\ Cardinality(Pending(t)') \in Nat
             /\ Cardinality(Pending(t)') = IF now[r] < t THEN Cardinality(Pending(t)) - 1
                                           ELSE Cardinality(Pending(t))
    <2>1. Pending(t)' = Pending(t) \ {r}
        BY <1>2 DEF Pending
    <2>2. r \in Pending(t) <=> now[r] < t
        BY <1>2 DEF Pending
    <2>3. PICK pending : pending = Pending(t)
        OBVIOUS
    <2>4. IsFiniteSet(pending) /\ Cardinality(pending) \in Nat
        BY <2>3, PendingFinite
    <2>5. Cardinality(pending \ {r}) =
                IF r \in pending THEN Cardinality(pending) - 1 ELSE Cardinality(pending)
        BY <2>4, FS_RemoveElement
    <2>6. IsFiniteSet(pending \ {r}) /\ Cardinality(pending \ {r}) \in Nat
        BY <2>4, FS_RemoveElement, FS_CardinalityType
    <2> QED
        BY <2>1, <2>2, <2>3, <2>4, <2>5, <2>6
<1>7. PendingInv'
    <2>1. ASSUME NEW q \in Requests
          PROVE  Cardinality(Pending(created[q])') <= Beside'
        <3>1. PICK t \in Nat : t = created[q] /\ t = created'[q]
            BY <1>1, <1>3
        <3>2. Cardinality(Pending(t)) <= Beside
            BY <3>1 DEF HistoryInv, PendingInv
        <3>3. Cardinality(Pending(t)') <= Beside'
            BY <1>5, <1>6, <3>2
        <3> QED
            BY <3>1, <3>3 DEF Pending
    <2> QED
        BY <2>1 DEF PendingInv, Pending
<1>8. ASSUME NEW q \in Recorded', q # r
      PROVE  Kept(q)'
    <2>1. q \in Recorded /\ q \in Requests
        BY <1>1, <1>2, <1>3, <1>8 DEF Recorded
    <2>2. PICK t \in Nat : t = created[q] /\ t = created'[q] /\ t <= clock
        BY <1>1, <1>3, <2>1
    <2>3. Kept(q)
        BY <2>1 DEF HistoryInv
    <2>4. CASE t + HistoryTtl <= clock
        BY <1>3, <2>2, <2>4 DEF Kept
    <2>5. ASSUME t + HistoryTtl <= historyExpiry, NEW k \in Nat,
                 k + Cardinality(Pending(t)) <= Beside, Listed(history, q, t, k)
          PROVE  Kept(q)'
        <3>1. PICK l \in Nat : l = IF now[r] < t THEN k + 1 ELSE k
            OBVIOUS
        <3>2. Listed(list, q, t, l)
            BY <1>1, <1>2, <2>1, <2>5, <3>1, WriteKeeps
        <3>3. l + Cardinality(Pending(t)') <= Beside'
            BY <1>2, <1>5, <1>6, <2>5, <3>1
        <3>4. t + HistoryTtl <= historyExpiry'
            BY <1>1, <1>2, <2>2, <2>5
        <3>5. Listed(history', q, t, l)
            BY <1>4, <3>2
        <3> QED
            BY <2>2, <3>3, <3>4, <3>5 DEF Kept, Pending, Listed, Older
    <2> QED
        BY <2>2, <2>3, <2>4, <2>5 DEF Kept
<1>9. ASSUME r \in Recorded'
      PROVE  Kept(r)'
    <2>1. history' = Trimmed(Pushed(r, now[r])) /\ historyExpiry' = clock + HistoryTtl
        BY <1>2, <1>9 DEF Recorded
    <2>2. PICK t \in Nat : t = created[r] /\ t = created'[r] /\ t <= clock /\ t \in 0 .. now[r]
        BY <1>1, <1>2, <1>3
    <2>3. Listed(history', r, t, 0)
        <3>1. PICK time \in Nat : time = now[r]
            BY <1>2
        <3>2. Listed(Trimmed(Pushed(r, time)), r, t, 0)
            BY <1>1, <2>2, <3>1, WriteLists
        <3> QED
            BY <2>1, <3>1, <3>2
    <2>4. t + HistoryTtl <= historyExpiry'
        BY <1>1, <2>1, <2>2
    <2>5. 0 + Cardinality(Pending(t)') <= Beside'
        <3>1. Cardinality(Pending(t)) <= Beside
            BY <2>2 DEF HistoryInv, PendingInv
        <3> QED
            BY <1>5, <1>6, <3>1
    <2> QED
        BY <2>2, <2>3, <2>4, <2>5 DEF Kept, Pending, Listed, Older
<1> QED
    BY <1>7, <1>8, <1>9 DEF HistoryInv

LEMMA ControlsHistoryStep ==
    ASSUME FlowOK, FlowOK', RateTypeOK', HistoryInv, [ControlsNext]_allVars
    PROVE  HistoryInv'
<1>0. paid \subseteq Requests
    BY DEF FlowOK, ControlsTypeOK, TypeOK
<1>1. CASE UNCHANGED allVars
    <2>1. UNCHANGED <<history, historyExpiry, clock, paid, unrecorded, stage, created, now, inTurn>>
        BY <1>1 DEF allVars, controlVars, vars, daily, velocity, arrivals, amlVars, decisionVars
    <2>2. /\ \A t : Pending(t)' = Pending(t)
          /\ Beside' = Beside /\ Recorded' = Recorded
        BY <2>1 DEF Pending, Beside, Recorded
    <2>3. PendingInv'
        BY <2>1, <2>2 DEF HistoryInv, PendingInv, Pending
    <2>4. ASSUME NEW q \in Recorded
          PROVE  Kept(q)'
        <3>1. PICK t : t = created[q] /\ t = created'[q]
            BY <2>1
        <3>2. Kept(q)
            BY DEF HistoryInv
        <3>3. CASE t + HistoryTtl <= clock
            BY <2>1, <3>1, <3>3 DEF Kept
        <3>4. ASSUME t + HistoryTtl <= historyExpiry, NEW k \in Nat,
                     k + Cardinality(Pending(t)) <= Beside, Listed(history, q, t, k)
              PROVE  Kept(q)'
            <4>1. /\ t + HistoryTtl <= historyExpiry' /\ Listed(history', q, t, k)
                  /\ k + Cardinality(Pending(t)') <= Beside'
                BY <2>1, <2>2, <3>4
            <4> QED
                BY <3>1, <4>1 DEF Kept, Pending, Listed, Older
        <3> QED
            BY <3>1, <3>2, <3>3, <3>4 DEF Kept
    <2> QED
        BY <2>2, <2>3, <2>4 DEF HistoryInv
<1>2. CASE PassTime
    BY <1>2, TickHistory
<1>3. ASSUME NEW r \in Requests, Unpaid(r), ~Begin(r)
      PROVE  HistoryInv'
    <2>1. Apart(r) /\ Placed(r) /\ r \notin paid
        BY <1>3, UnpaidEffect DEF Apart
    <2>2. created'[r] \in {created[r], 0}
        <3>1. CASE EnforceLimits(r)
            <4>1. LimitsOK
                BY DEF FlowOK, ControlsTypeOK, LimitsOK
            <4> QED
                BY <3>1, <4>1, EnforceEffect DEF EnforceLimits
        <3>2. CASE DenyKyc(r) \/ EnforceRateLimit(r) \/ EvaluateTotal(r) \/ EvaluateNear(r)
                   \/ EvaluateRisk(r)
            BY <3>2 DEF DenyKyc, EnforceRateLimit, EvaluateTotal, EvaluateNear, EvaluateRisk,
                        ReviewOr, vars, arrivals
        <3>3. CASE Abort(r)
            BY <3>3 DEF Abort, EndUnpaid, Rollback, FlowOK, ControlsTypeOK, TypeOK
        <3> QED
            BY <1>3, <3>1, <3>2, <3>3 DEF Unpaid
    <2> QED
        BY <1>0, <2>1, <2>2, KeptStands DEF Apart, Placed, Recorded
<1>4. ASSUME NEW r \in Requests, Begin(r)
      PROVE  HistoryInv'
    BY <1>4, BeginHistory
<1>5. ASSUME NEW r \in Requests, Commit(r)
      PROVE  HistoryInv'
    <2>1. /\ r \notin paid
          /\ \A q \in Requests : q # r =>
                stage'[q] = stage[q] /\ created'[q] = created[q] /\ now'[q] = now[q]
          /\ UNCHANGED <<clock, inTurn, history, historyExpiry, unrecorded>>
          /\ created'[r] \in {created[r], 0}
          /\ \/ stage'[r] = "before" /\ UNCHANGED paid
             \/ stage'[r] = "record" /\ paid' = paid \cup {r}
        BY <1>5, CommitEffect DEF amlVars
    <2>2. Recorded' \subseteq Recorded /\ r \notin Recorded'
        BY <1>0, <2>1 DEF Recorded
    <2> QED
        BY <2>1, <2>2, KeptStands
<1>6. ASSUME NEW r \in Requests, Stamp(r)
      PROVE  HistoryInv'
    <2>1. /\ stage[r] = "record" /\ stage'[r] = "push" /\ now'[r] = clock
          /\ \A q \in Requests : q # r => stage'[q] = stage[q] /\ now'[q] = now[q]
          /\ UNCHANGED <<clock, inTurn, history, historyExpiry, unrecorded, paid, created>>
        BY <1>6, StampEffect DEF amlVars, daily, arrivals
    <2>2. Recorded' \subseteq Recorded /\ r \notin Recorded'
        BY <1>0, <2>1 DEF Recorded
    <2> QED
        BY <2>1, <2>2, KeptStands
<1>7. ASSUME NEW r \in Requests, Record(r) \/ LoseRecord(r)
      PROVE  HistoryInv'
    BY <1>7, RecordHistory
<1> QED
    BY <1>1, <1>2, <1>3, <1>4, <1>5, <1>6, <1>7 DEF ControlsNext, Unpaid

\* What is read of the list, and what the table has in the same window.
LEMMA ListCoversTable ==
    ASSUME FlowOK, HistoryInv, NEW window \in {TotalWindow, StructuringWindow},
           NEW q \in CreatedIn(window) \cap Recorded
    PROVE  \/ q \in Recent(window)
           \/ /\ Len(history) > MaxHistory
              /\ Cardinality(Older(history, MaxHistory + 1, created[q])) <= Beside
<1>1. /\ clock \in Nat /\ AmlTypeOK /\ q \in Requests /\ q \in paid
      /\ window \in Nat /\ window <= HistoryTtl /\ HistoryTtl \in Nat
    BY TtlFact, AmlAssumption, RequestsAssumption
       DEF FlowOK, ControlsTypeOK, TypeOK, CreatedIn, AmlAssumption, RequestsAssumption
<1>2. PICK t \in Nat : t = created[q]
    BY <1>1 DEF FlowOK, ControlsTypeOK, TypeOK
<1>3. ~(t + HistoryTtl <= clock) /\ t >= clock - window
    <2>1. t > clock - window
        BY <1>2 DEF CreatedIn
    <2> QED
        BY <1>1, <2>1
<1>4. PICK k \in Nat : k + Cardinality(Pending(t)) <= Beside /\ Listed(history, q, t, k)
    BY <1>2, <1>3 DEF HistoryInv, Kept
<1>5. \/ q \in Recent(window)
      \/ /\ Len(history) > MaxHistory
         /\ Cardinality(Older(history, MaxHistory + 1, t)) <= k
    BY <1>1, <1>3, <1>4, ListedIsRead
<1>6. /\ Cardinality(Older(history, MaxHistory + 1, t)) \in Nat
      /\ Cardinality(Pending(t)) \in Nat /\ Beside \in Nat
    <2>1. MaxHistory + 1 \in Nat
        BY AmlAssumption DEF AmlAssumption
    <2> QED
        BY <2>1, PendingFinite, OlderFinite, LimitsAssumption DEF LimitsAssumption, Beside
<1> QED
    BY <1>2, <1>4, <1>5, <1>6

LEMMA ControlsHistory == ControlsSpec => [](RateInv /\ FlowOK /\ HistoryInv)
<1>1. ControlsInit => HistoryInv
    <2> SUFFICES ASSUME ControlsInit PROVE HistoryInv
        OBVIOUS
    <2>1. Recorded = {} /\ \A t : Pending(t) = {}
        BY DEF ControlsInit, Init, Recorded, Pending
    <2>2. Cardinality({}) <= Beside
        BY FS_EmptySet, LimitsAssumption DEF LimitsAssumption, Beside
    <2> QED
        BY <2>1, <2>2 DEF HistoryInv, PendingInv
<1>2. FlowOK /\ FlowOK' /\ RateTypeOK' /\ HistoryInv /\ [ControlsNext]_allVars => HistoryInv'
    BY ControlsHistoryStep
<1>3. RateInv => RateTypeOK
    BY DEF RateInv
<1> QED
    BY <1>1, <1>2, <1>3, ControlsFlow, PTL DEF ControlsSpec

\* However many requests are handled at the same time, and whatever part of a record
\* Redis or a crash takes away: a payment whose record was written is found in the
\* list for as long as it is in a window, unless the list is full of payments that were
\* recorded since, but for as many as were handled beside it
\* (AmlRuleEngine.record_outgoing).
THEOREM HistoryHolds == ControlsSpec => []HistoryCoversTable
<1>1. FlowOK /\ HistoryInv => HistoryCoversTable
    <2> SUFFICES ASSUME FlowOK, HistoryInv, NEW window \in {TotalWindow, StructuringWindow},
                        NEW q \in CreatedIn(window), q \notin Recent(window),
                        q \notin unrecorded, stage[q] \notin {"record", "push"}
                 PROVE  /\ Len(history) > MaxHistory
                        /\ Cardinality({i \in 1 .. MaxHistory + 1 : history[i].time < created[q]})
                             <= Beside
        BY DEF HistoryCoversTable
    <2>1. q \in Recorded
        BY DEF Recorded, CreatedIn
    <2> QED
        BY <2>1, ListCoversTable DEF Older
<1> QED
    BY <1>1, ControlsHistory, PTL

(***************************************************************************)
(* What passes unreviewed, however many requests are handled together.     *)
(***************************************************************************)

BusyInv == Cardinality(Busy) <= Beside + 1

LEMMA BusyFinite == IsFiniteSet(Busy) /\ Busy \in SUBSET Requests
BY RequestsAssumption, FS_Subset DEF RequestsAssumption, Busy, InFlight

\* A request becomes busy in Begin only.
LEMMA BusyStep ==
    ASSUME FlowOK, RateTypeOK', BusyInv, [ControlsNext]_allVars
    PROVE  BusyInv'
<1>0. Cardinality(Busy) \in Nat /\ MaxInFlight \in Nat
    BY BusyFinite, FS_CardinalityType, LimitsAssumption DEF LimitsAssumption
<1>1. ASSUME Busy' \subseteq Busy, inTurn' => inTurn
      PROVE  BusyInv'
    <2>1. PICK next \in SUBSET Busy : next = Busy'
        BY <1>1
    <2>2. Cardinality(next) <= Cardinality(Busy) /\ Cardinality(next) \in Nat
        BY BusyFinite, FS_Subset, FS_CardinalityType
    <2>3. Beside \in Nat /\ Beside' \in Nat /\ Beside <= Beside'
        BY <1>1, BesideFacts
    <2>4. Cardinality(next) <= Beside' + 1
        BY <1>0, <2>2, <2>3 DEF BusyInv
    <2> QED
        BY <2>1, <2>4 DEF BusyInv
<1>2. CASE UNCHANGED allVars \/ PassTime
    <2>1. UNCHANGED <<pc, stage, inTurn>>
        BY <1>2 DEF allVars, controlVars, vars, decisionVars, PassTime, Tick, arrivals
    <2> QED
        BY <1>1, <2>1 DEF Busy, InFlight
<1>3. ASSUME NEW r \in Requests, Unpaid(r)
      PROVE  BusyInv'
    <2>1. Apart(r) /\ Placed(r)
        BY <1>3, UnpaidEffect
    <2>2. Busy' \subseteq Busy \cup {r} /\ (inTurn' => inTurn)
        BY <2>1 DEF Apart, Busy, InFlight
    <2>3. CASE Begin(r)
        <3>1. Cardinality(Busy) < MaxInFlight /\ (inTurn' => Busy = {})
            BY <2>3 DEF Begin, Arrive
        <3>2. PICK next \in SUBSET (Busy \cup {r}) : next = Busy'
            BY <2>2
        <3>3. /\ Cardinality(next) <= Cardinality(Busy \cup {r}) /\ Cardinality(next) \in Nat
              /\ Cardinality(Busy \cup {r}) \in Nat
              /\ Cardinality(Busy \cup {r}) <= Cardinality(Busy) + 1
            <4>1. IsFiniteSet(Busy \cup {r})
                BY BusyFinite, FS_AddElement
            <4>2. Cardinality(Busy \cup {r}) =
                        IF r \in Busy THEN Cardinality(Busy) ELSE Cardinality(Busy) + 1
                BY BusyFinite, FS_AddElement
            <4> QED
                BY <1>0, <4>1, <4>2, FS_Subset, FS_CardinalityType
        <3>4. Busy = {} => Cardinality(Busy) = 0
            BY FS_EmptySet
        <3>5. Cardinality(next) <= Beside' + 1
            BY <1>0, <3>1, <3>3, <3>4 DEF Beside
        <3> QED
            BY <3>2, <3>5 DEF BusyInv
    <2>4. CASE DenyKyc(r)
        <3>1. pc'[r] = "done" /\ stage'[r] \notin {"record", "push"}
            BY <2>1, <2>4 DEF DenyKyc, Goto, Placed, FlowOK, ControlsTypeOK, TypeOK
        <3>2. r \notin Busy'
            BY <3>1 DEF Busy, InFlight
        <3> QED
            BY <1>1, <2>2, <3>2
    <2>5. CASE EnforceLimits(r)
        <3>1. LimitsOK
            BY DEF FlowOK, ControlsTypeOK, LimitsOK
        <3>2. r \in Busy
            BY <2>5, <3>1, EnforceEffect DEF EnforceLimits, Busy, InFlight
        <3> QED
            BY <1>1, <2>2, <3>2
    <2>6. CASE EnforceRateLimit(r) \/ Abort(r)
        <3>1. r \in Busy
            BY <2>6 DEF EnforceRateLimit, Abort, EndUnpaid, Busy, InFlight
        <3> QED
            BY <1>1, <2>2, <3>1
    <2>7. CASE EvaluateRisk(r) \/ EvaluateTotal(r) \/ EvaluateNear(r)
        <3>1. r \in Busy
            BY <2>7 DEF EvaluateRisk, EvaluateTotal, EvaluateNear, FlowOK, FlowInv, Busy, InFlight
        <3> QED
            BY <1>1, <2>2, <3>1
    <2> QED
        BY <1>3, <2>3, <2>4, <2>5, <2>6, <2>7 DEF Unpaid
<1>4. ASSUME NEW r \in Requests, Commit(r)
      PROVE  BusyInv'
    <2>1. /\ pc[r] = "passed" /\ UNCHANGED inTurn
          /\ \A q \in Requests : q # r => pc'[q] = pc[q] /\ stage'[q] = stage[q]
        BY <1>4, CommitEffect
    <2>2. Busy' \subseteq Busy
        BY <2>1 DEF Busy, InFlight
    <2> QED
        BY <1>1, <2>1, <2>2
<1>5. ASSUME NEW r \in Requests, Stamp(r) \/ Record(r) \/ LoseRecord(r)
      PROVE  BusyInv'
    <2>1. /\ stage[r] \in {"record", "push"} /\ UNCHANGED <<pc, inTurn>>
          /\ \A q \in Requests : q # r => stage'[q] = stage[q]
        BY <1>5, StampEffect, RecordEffect DEF arrivals
    <2>2. Busy' \subseteq Busy
        BY <2>1 DEF Busy, InFlight
    <2> QED
        BY <1>1, <2>1, <2>2
<1> QED
    BY <1>2, <1>3, <1>4, <1>5 DEF ControlsNext, Unpaid

\* The requests that have passed the threshold, or both rules, and may still be paid.
PassedTotal ==
    {r \in Requests : stage[r] = "near" \/ (stage[r] = "commit" /\ aml[r] = "ALLOW")}
PassedSeries == {r \in Requests : stage[r] = "commit" /\ aml[r] = "ALLOW"}

LEMMA PassedTypes ==
    ASSUME FlowOK
    PROVE  /\ PassedSeries \subseteq PassedTotal /\ PassedTotal \subseteq Busy
           /\ PassedTotal \subseteq Requests
BY DEF PassedTotal, PassedSeries, Busy, InFlight, FlowOK, FlowInv

\* A request joins them when a rule lets it through.
LEMMA PassedStep ==
    ASSUME FlowOK, RateTypeOK', [ControlsNext]_allVars
    PROVE  /\ \/ PassedTotal' \subseteq PassedTotal
              \/ \E r \in Requests : /\ EvaluateTotal(r) /\ stage'[r] = "near"
                                     /\ PassedTotal' \subseteq PassedTotal \cup {r}
           /\ \/ PassedSeries' \subseteq PassedSeries
              \/ \E r \in Requests : /\ EvaluateNear(r) /\ aml'[r] = "ALLOW"
                                     /\ PassedSeries' \subseteq PassedSeries \cup {r}
<1>1. CASE UNCHANGED allVars \/ PassTime
    <2>1. UNCHANGED <<stage, aml>>
        BY <1>1 DEF allVars, controlVars, decisionVars, PassTime
    <2> QED
        BY <2>1 DEF PassedTotal, PassedSeries
<1>2. ASSUME NEW r \in Requests,
             \A q \in Requests : q # r => stage'[q] = stage[q] /\ aml'[q] = aml[q]
      PROVE  /\ PassedTotal' \subseteq PassedTotal \cup {r}
             /\ PassedSeries' \subseteq PassedSeries \cup {r}
    BY <1>2 DEF PassedTotal, PassedSeries
<1>3. ASSUME NEW r \in Requests, stage'[r] \notin {"near", "commit"}
      PROVE  r \notin PassedTotal' /\ r \notin PassedSeries'
    BY <1>3 DEF PassedTotal, PassedSeries
<1>4. ASSUME NEW r \in Requests, Unpaid(r)
      PROVE  /\ \/ PassedTotal' \subseteq PassedTotal
                \/ /\ EvaluateTotal(r) /\ stage'[r] = "near"
                   /\ PassedTotal' \subseteq PassedTotal \cup {r}
             /\ \/ PassedSeries' \subseteq PassedSeries
                \/ /\ EvaluateNear(r) /\ aml'[r] = "ALLOW"
                   /\ PassedSeries' \subseteq PassedSeries \cup {r}
    <2>1. Apart(r)
        BY <1>4, UnpaidEffect
    <2>2. /\ PassedTotal' \subseteq PassedTotal \cup {r}
          /\ PassedSeries' \subseteq PassedSeries \cup {r}
        BY <1>2, <2>1 DEF Apart
    <2>3. CASE Begin(r) \/ DenyKyc(r) \/ EnforceLimits(r) \/ EnforceRateLimit(r) \/ Abort(r)
        <3>1. (stage'[r] = stage[r] /\ aml'[r] = aml[r]) \/ stage'[r] = "before"
            BY <2>3 DEF Begin, DenyKyc, EnforceLimits, EnforceRateLimit, Abort, Leave, ToStage,
                        controlVars, decisionVars, FlowOK, ControlsTypeOK
        <3> QED
            BY <1>3, <2>2, <3>1 DEF PassedTotal, PassedSeries
    <2>4. CASE EvaluateRisk(r)
        <3>1. stage'[r] = "total" \/ (stage'[r] = "commit" /\ aml'[r] = "BLOCK")
            BY <2>4 DEF EvaluateRisk, ToStage, FlowOK, ControlsTypeOK
        <3>2. r \notin PassedTotal' /\ r \notin PassedSeries'
            BY <3>1 DEF PassedTotal, PassedSeries
        <3> QED
            BY <2>2, <3>2
    <2>5. CASE EvaluateTotal(r)
        <3>1. stage'[r] = "near" \/ (stage'[r] = "commit" /\ aml'[r] = "REVIEW")
            BY <2>5 DEF EvaluateTotal, ReviewOr, ToStage, FlowOK, ControlsTypeOK
        <3>2. r \notin PassedSeries' /\ (stage'[r] = "near" \/ r \notin PassedTotal')
            BY <3>1 DEF PassedTotal, PassedSeries
        <3> QED
            BY <2>2, <2>5, <3>2
    <2>6. CASE EvaluateNear(r)
        <3>1. r \in PassedTotal
            BY <2>6 DEF EvaluateNear, PassedTotal
        <3>2. aml'[r] = "ALLOW" \/ r \notin PassedSeries'
            BY DEF PassedSeries
        <3> QED
            BY <2>2, <2>6, <3>1, <3>2
    <2> QED
        BY <1>4, <2>3, <2>4, <2>5, <2>6 DEF Unpaid
<1>5. ASSUME NEW r \in Requests, Commit(r) \/ Stamp(r) \/ Record(r) \/ LoseRecord(r)
      PROVE  PassedTotal' \subseteq PassedTotal /\ PassedSeries' \subseteq PassedSeries
    <2>1. /\ stage'[r] \in {"before", "record", "push"}
          /\ \A q \in Requests : q # r => stage'[q] = stage[q] /\ aml'[q] = aml[q]
        BY <1>5, CommitEffect, StampEffect, RecordEffect
    <2> QED
        BY <1>2, <1>3, <2>1
<1> QED
    BY <1>1, <1>4, <1>5 DEF ControlsNext, Unpaid

\* What a window holds unreviewed, with the requests that have passed: its payments
\* that were not held, and what may still become one.
Room(window, passed) == {q \in (paid \ held) \cup passed : created[q] > clock - window}

FittingTotal == {S \in SUBSET Requests : Total(LesserAmount, S) <= TotalThreshold}
FittingSeries ==
    {S \in SUBSET Requests : Cardinality(Near(LesserAmount, S)) < StructuringCount}

\* All of that was counted together for one request, and fits, but for what was being
\* handled beside that request and for what was lost.
AllCovered(room, fitting) ==
    \E late \in SUBSET Requests, counted \in fitting :
        Cardinality(late) <= Beside /\ room \subseteq late \cup counted \cup unrecorded

Explained(window, passed, fitting) == AllCovered(Room(window, passed), fitting)

ExplainedInv ==
    /\ Explained(TotalWindow, PassedTotal, FittingTotal)
    /\ Explained(StructuringWindow, PassedSeries, FittingSeries)

\* The list is not full of payments that still count: the customer has recorded at
\* most MaxHistory of them within the longer window, to those handled beside them.
NotCrowded ==
    Len(history) > MaxHistory =>
        Cardinality({i \in 1 .. MaxHistory + 1 : history[i].time <= clock - HistoryTtl}) > Beside

\* Then the list, or the table in its place, has all that was recorded.
LEMMA SentCovers ==
    ASSUME NotCrowded, FlowOK, HistoryInv,
           NEW window \in {TotalWindow, StructuringWindow},
           NEW sent \in {Recent(window), InTable(window)}
    PROVE  sent \in SUBSET Requests /\ CreatedIn(window) \cap Recorded \in SUBSET sent
<1>1. /\ paid \subseteq Requests /\ AmlTypeOK /\ clock \in Nat /\ window \in Nat
      /\ created \in [Requests -> Nat]
    BY AmlAssumption, RequestsAssumption
       DEF FlowOK, ControlsTypeOK, TypeOK, AmlAssumption, RequestsAssumption
<1>2. CASE sent = InTable(window)
    BY <1>1, <1>2 DEF InTable, CreatedIn
<1>3. CASE sent = Recent(window)
    <2>1. sent \in SUBSET Requests
        <3>1. PICK seen : seen = First(history, MaxHistory + 1)
            OBVIOUS
        <3>2. seen \in Seq(Entry)
            BY <1>1, <3>1, TrimmedFacts DEF Trimmed, AmlTypeOK
        <3> QED
            BY <1>3, <3>1, <3>2, EntryFacts DEF Recent
    <2>2. ASSUME NEW q \in CreatedIn(window) \cap Recorded, q \notin Recent(window)
          PROVE  FALSE
        <3> DEFINE old == {i \in 1 .. MaxHistory + 1 : history[i].time <= clock - HistoryTtl}
        <3>1. /\ Len(history) > MaxHistory
              /\ Cardinality(Older(history, MaxHistory + 1, created[q])) <= Beside
            BY <2>2, ListCoversTable
        <3>2. /\ created[q] \in Nat /\ created[q] > clock - window
              /\ window <= HistoryTtl /\ HistoryTtl \in Nat
            BY <1>1, <2>2, TtlFact DEF CreatedIn
        <3>3. MaxHistory \in Nat /\ Len(history) \in Nat /\ Beside \in Nat
            BY <1>1, EntryFacts, AmlAssumption, LimitsAssumption
               DEF AmlTypeOK, AmlAssumption, LimitsAssumption, Beside
        <3>4. ASSUME NEW i \in 1 .. MaxHistory + 1
              PROVE  history[i].time \in Nat
            <4>1. i \in DOMAIN history
                BY <1>1, <3>1, <3>3, <3>4, EntryFacts DEF AmlTypeOK
            <4> QED
                BY <1>1, <4>1, EntryFacts DEF AmlTypeOK
        <3>5. old \subseteq Older(history, MaxHistory + 1, created[q])
            BY <1>1, <3>2, <3>4 DEF Older
        <3>6. /\ IsFiniteSet(Older(history, MaxHistory + 1, created[q]))
              /\ Cardinality(Older(history, MaxHistory + 1, created[q])) \in Nat
            BY <3>3, OlderFinite
        <3>7. Cardinality(old) <= Cardinality(Older(history, MaxHistory + 1, created[q]))
              /\ Cardinality(old) \in Nat
            BY <3>5, <3>6, FS_Subset, FS_CardinalityType
        <3> QED
            BY <3>1, <3>3, <3>6, <3>7 DEF NotCrowded
    <2> QED
        BY <1>3, <2>1, <2>2
<1> QED
    BY <1>2, <1>3

\* A step never adds to what a window may come to hold, but by letting a request pass.
LEMMA RoomStep ==
    ASSUME FlowOK, FlowOK', RateTypeOK', [ControlsNext]_allVars,
           NEW window \in {TotalWindow, StructuringWindow}, NEW next, next \subseteq PassedTotal'
    PROVE  /\ unrecorded \subseteq unrecorded' /\ (inTurn' => inTurn)
           /\ Room(window, next)' \subseteq Room(window, PassedSeries \cup next)
<1>0. /\ paid \subseteq Requests /\ clock \in Nat /\ clock' \in Nat /\ window \in Nat
      /\ created \in [Requests -> Nat] /\ created' \in [Requests -> Nat] /\ next \subseteq Requests
    BY AmlAssumption, RequestsAssumption
       DEF FlowOK, ControlsTypeOK, TypeOK, AmlAssumption, RequestsAssumption, PassedTotal
<1> DEFINE Fewer == /\ unrecorded \subseteq unrecorded' /\ (inTurn' => inTurn)
                    /\ Room(window, next)' \subseteq Room(window, PassedSeries \cup next)
<1>1. ASSUME UNCHANGED <<paid, held>>, clock <= clock',
             \A q \in paid \cup next : created'[q] = created[q]
      PROVE  Room(window, next)' \subseteq Room(window, PassedSeries \cup next)
    BY <1>0, <1>1 DEF Room
<1>2. CASE UNCHANGED allVars \/ PassTime
    <2>1. UNCHANGED <<paid, created, held, unrecorded, inTurn>>
        BY <1>2 DEF allVars, controlVars, vars, daily, arrivals, decisionVars, PassTime, Tick
    <2>2. clock' \in {clock, clock + 1}
        BY <1>2 DEF allVars, vars, velocity, PassTime, Tick
    <2>3. clock <= clock' /\ (\A q \in paid \cup next : created'[q] = created[q])
        BY <1>0, <2>1, <2>2
    <2>4. Room(window, next)' \subseteq Room(window, PassedSeries \cup next)
        BY <1>1, <2>1, <2>3
    <2> QED
        BY <2>1, <2>4
<1>3. ASSUME NEW r \in Requests, Unpaid(r)
      PROVE  Fewer
    <2>1. Apart(r) /\ Placed(r)
        BY <1>3, UnpaidEffect
    <2>2. r \in next => created'[r] = created[r]
        BY <2>1 DEF Placed, PassedTotal
    <2>3. \A q \in paid \cup next : created'[q] = created[q]
        BY <1>0, <2>1, <2>2 DEF Apart
    <2>4. UNCHANGED <<paid, held, unrecorded, clock>> /\ (inTurn' => inTurn)
        BY <2>1 DEF Apart
    <2>5. Room(window, next)' \subseteq Room(window, PassedSeries \cup next)
        BY <1>0, <1>1, <2>3, <2>4
    <2> QED
        BY <2>4, <2>5
<1>4. ASSUME NEW r \in Requests, Stamp(r) \/ Record(r) \/ LoseRecord(r)
      PROVE  Fewer
    <2>1. UNCHANGED <<paid, created, held, inTurn, clock>> /\ unrecorded \subseteq unrecorded'
        BY <1>4, StampEffect, RecordEffect DEF daily, arrivals
    <2> QED
        BY <1>0, <1>1, <2>1
<1>5. ASSUME NEW r \in Requests, Commit(r)
      PROVE  Fewer
    <2>1. /\ r \notin paid /\ UNCHANGED <<unrecorded, clock, inTurn>>
          /\ \A q \in Requests : q # r => created'[q] = created[q]
          /\ \/ stage'[r] = "before" /\ UNCHANGED <<paid, held>>
             \/ /\ stage'[r] = "record" /\ paid' = paid \cup {r}
                /\ created'[r] = created[r]
                /\ held' = held \cup {r} \/ (held' = held /\ aml[r] = "ALLOW")
        BY <1>5, CommitEffect
    <2>2. r \notin next
        BY <2>1 DEF PassedTotal
    <2>3. CASE UNCHANGED <<paid, held>>
        BY <1>0, <1>1, <2>1, <2>2, <2>3
    <2>4. CASE /\ paid' = paid \cup {r} /\ created'[r] = created[r]
               /\ held' = held \cup {r} \/ (held' = held /\ aml[r] = "ALLOW")
        <3>1. r \in PassedSeries \/ r \in held'
            BY <1>5, <2>4 DEF Commit, PassedSeries
        <3>2. Room(window, next)' \subseteq Room(window, PassedSeries \cup next)
            BY <1>0, <2>1, <2>4, <3>1 DEF Room
        <3> QED
            BY <2>1, <3>2
    <2> QED
        BY <2>1, <2>3, <2>4
<1> QED
    BY <1>2, <1>3, <1>4, <1>5, <1>0 DEF ControlsNext, Unpaid

\* So what explains a window goes on explaining it.
LEMMA StaysExplained ==
    ASSUME FlowOK, FlowOK', RateTypeOK', [ControlsNext]_allVars,
           NEW window \in {TotalWindow, StructuringWindow}, NEW fitting,
           NEW passed, PassedSeries \subseteq passed, Explained(window, passed, fitting),
           NEW next, next \subseteq PassedTotal', next \subseteq passed
    PROVE  Explained(window, next, fitting)'
<1>1. PICK late \in SUBSET Requests, counted \in fitting :
            /\ Cardinality(late) <= Beside
            /\ Room(window, passed) \subseteq late \cup counted \cup unrecorded
    BY DEF Explained, AllCovered
<1>2. /\ unrecorded \subseteq unrecorded' /\ (inTurn' => inTurn)
      /\ Room(window, next)' \subseteq Room(window, PassedSeries \cup next)
    BY RoomStep
<1>3. Room(window, PassedSeries \cup next) \subseteq Room(window, passed)
    BY DEF Room
<1>4. Cardinality(late) \in Nat
    BY RequestsAssumption, FS_Subset, FS_CardinalityType DEF RequestsAssumption
<1>5. Cardinality(late) <= Beside'
    BY <1>1, <1>2, <1>4, BesideFacts
<1>6. Room(window, next)' \subseteq late \cup counted \cup unrecorded'
    BY <1>1, <1>2, <1>3
<1> QED
    BY <1>5, <1>6 DEF Explained, AllCovered

\* A rule that lets r through has counted all that the window may come to hold, but
\* for the requests that are being handled beside it and for what was lost.
LEMMA RuleCounts ==
    ASSUME NotCrowded, FlowOK, HistoryInv, BusyInv,
           NEW window \in {TotalWindow, StructuringWindow},
           NEW sent \in {Recent(window), InTable(window)},
           NEW r \in Busy, NEW next, next \subseteq Busy
    PROVE  /\ Cardinality(Busy \ {r}) <= Beside
           /\ Room(window, next) \subseteq (Busy \ {r}) \cup (sent \cup {r}) \cup unrecorded
<1>1. Cardinality(Busy \ {r}) <= Beside
    <2>1. Cardinality(Busy \ {r}) = Cardinality(Busy) - 1
        BY BusyFinite, FS_RemoveElement
    <2>2. Cardinality(Busy) \in Nat /\ Beside \in Nat
        BY BusyFinite, FS_CardinalityType, LimitsAssumption DEF LimitsAssumption, Beside
    <2> QED
        BY <2>1, <2>2 DEF BusyInv
<1>2. CreatedIn(window) \cap Recorded \subseteq sent
    BY SentCovers
<1>3. ASSUME NEW q \in Room(window, next), q \in paid, q \notin unrecorded, q \notin Busy
      PROVE  q \in sent
    <2>1. q \in CreatedIn(window) /\ q \in Requests
        BY <1>3 DEF Room, CreatedIn, FlowOK, ControlsTypeOK, TypeOK
    <2>2. q \in Recorded
        BY <1>3, <2>1 DEF Busy, Recorded
    <2> QED
        BY <1>2, <2>1, <2>2
<1>4. ASSUME NEW q \in Room(window, next)
      PROVE  q \in paid \/ q \in Busy
    BY <1>4 DEF Room
<1> QED
    BY <1>1, <1>3, <1>4

\* A request that a rule lets through brings its own explanation.
LEMMA JoinsExplained ==
    ASSUME NotCrowded, FlowOK, FlowOK', RateTypeOK', HistoryInv, BusyInv,
           [ControlsNext]_allVars, NEW window \in {TotalWindow, StructuringWindow},
           NEW sent \in {Recent(window), InTable(window)}, NEW r \in Busy,
           NEW fitting, sent \cup {r} \in fitting,
           NEW next, next \subseteq PassedTotal', next \subseteq Busy
    PROVE  Explained(window, next, fitting)'
<1>1. /\ unrecorded \subseteq unrecorded' /\ (inTurn' => inTurn)
      /\ Room(window, next)' \subseteq Room(window, PassedSeries \cup next)
    BY RoomStep
<1>2. PICK joint : joint = PassedSeries \cup next
    OBVIOUS
<1>3. joint \subseteq Busy
    BY <1>2, PassedTypes
<1>4. /\ Cardinality(Busy \ {r}) <= Beside
      /\ Room(window, joint) \subseteq (Busy \ {r}) \cup (sent \cup {r}) \cup unrecorded
    BY <1>3, RuleCounts
<1>5. PICK late \in SUBSET Requests, counted \in fitting :
            late = Busy \ {r} /\ counted = sent \cup {r}
    BY BusyFinite
<1>6. Cardinality(late) \in Nat
    BY RequestsAssumption, FS_Subset, FS_CardinalityType DEF RequestsAssumption
<1>7. Cardinality(late) <= Beside'
    BY <1>1, <1>4, <1>5, <1>6, BesideFacts
<1>8. Room(window, next)' \subseteq late \cup counted \cup unrecorded'
    BY <1>1, <1>2, <1>4, <1>5
<1> QED
    BY <1>7, <1>8 DEF Explained, AllCovered

\* The amounts that the sources hold are natural numbers, and LesserAmount is less.
LEMMA LesserFacts ==
    ASSUME NEW amount \in {Amount, TableAmount}
    PROVE  /\ amount \in [Requests -> Nat] /\ LesserAmount \in [Requests -> Nat]
           /\ \A q \in Requests : LesserAmount[q] <= amount[q]
<1>1. Amount \in [Requests -> Nat] /\ Cent \in Nat
    BY RequestsAssumption DEF RequestsAssumption
<1>2. ASSUME NEW q \in Requests
      PROVE  Stored[q] * Cent \in Nat
    BY <1>1, StoredType
<1>3. TableAmount \in [Requests -> Nat]
    BY <1>2 DEF TableAmount
<1>4. PICK table \in [Requests -> Nat] : table = TableAmount
    BY <1>3
<1>5. LesserAmount = [q \in Requests |-> IF Amount[q] < table[q] THEN Amount[q] ELSE table[q]]
    BY <1>4 DEF LesserAmount
<1> QED
    BY <1>1, <1>3, <1>4, <1>5

LEMMA NearFacts ==
    ASSUME NEW amount, NEW S \in SUBSET Requests, NEW T \in SUBSET S
    PROVE  /\ IsFiniteSet(Near(amount, S)) /\ Cardinality(Near(amount, S)) \in Nat
           /\ Cardinality(Near(amount, T)) <= Cardinality(Near(amount, S))
<1>1. Near(amount, S) \in SUBSET Requests /\ Near(amount, T) \in SUBSET Near(amount, S)
    BY DEF Near
<1>2. IsFiniteSet(Near(amount, S))
    BY <1>1, RequestsAssumption, FS_Subset DEF RequestsAssumption
<1> QED
    BY <1>1, <1>2, FS_Subset, FS_CardinalityType

LEMMA NearOfParts ==
    ASSUME NEW amount, NEW S \in SUBSET Requests, NEW T \in SUBSET Requests
    PROVE  /\ Cardinality(Near(amount, S \cup T))
                <= Cardinality(Near(amount, S)) + Cardinality(Near(amount, T))
           /\ Cardinality(Near(amount, S \cup T)) \in Nat
<1>1. PICK N, M : N = Near(amount, S) /\ M = Near(amount, T)
    OBVIOUS
<1>2. Near(amount, S \cup T) = N \cup M
    BY <1>1 DEF Near
<1>3. IsFiniteSet(N) /\ IsFiniteSet(M) /\ Cardinality(N) \in Nat /\ Cardinality(M) \in Nat
    BY <1>1, NearFacts
<1>4. IsFiniteSet(N \cap M) /\ Cardinality(N \cap M) \in Nat
    BY <1>3, FS_Intersection, FS_CardinalityType
<1>5. Cardinality(N \cup M) = Cardinality(N) + Cardinality(M) - Cardinality(N \cap M)
    BY <1>3, FS_Union
<1>6. Cardinality(N \cup M) \in Nat
    BY <1>3, FS_Union, FS_CardinalityType
<1>7. Cardinality(N \cup M) <= Cardinality(N) + Cardinality(M)
    BY <1>3, <1>4, <1>5
<1> QED
    BY <1>1, <1>2, <1>6, <1>7

\* A smaller amount is near the maximum less often.
LEMMA NearOfLess ==
    ASSUME NEW amount \in {Amount, TableAmount}, NEW S \in SUBSET Requests
    PROVE  Cardinality(Near(LesserAmount, S)) <= Cardinality(Near(amount, S))
<1>1. /\ amount \in [Requests -> Nat] /\ LesserAmount \in [Requests -> Nat]
      /\ \A q \in Requests : LesserAmount[q] <= amount[q]
    BY LesserFacts
<1>2. PICK max \in Nat : max = MaxAmount * Cent
    BY RequestsAssumption, LimitsAssumption DEF RequestsAssumption, LimitsAssumption
<1>3. ASSUME NEW q \in S, NearThreshold(LesserAmount[q], max)
      PROVE  NearThreshold(amount[q], max)
    BY <1>1, <1>2, <1>3 DEF NearThreshold
<1>4. Near(LesserAmount, S) \subseteq Near(amount, S)
    BY <1>2, <1>3 DEF Near
<1> QED
    BY <1>4, NearFacts, FS_Subset

\* What is counted with r itself fits, when the rule lets r through.
LEMMA TotalFits ==
    ASSUME NEW sent \in SUBSET Requests, NEW r \in Requests,
           NEW amount \in {Amount, TableAmount},
           ~(Total(amount, sent) + Amount[r] > TotalThreshold)
    PROVE  sent \cup {r} \in FittingTotal
<1>1. /\ amount \in [Requests -> Nat] /\ LesserAmount \in [Requests -> Nat]
      /\ Amount \in [Requests -> Nat] /\ \A q \in Requests : LesserAmount[q] <= amount[q]
      /\ LesserAmount[r] <= Amount[r]
    BY LesserFacts, RequestsAssumption DEF RequestsAssumption
<1>2. /\ Total(amount, sent) \in Nat /\ Total(LesserAmount, sent) \in Nat
      /\ Total(LesserAmount, sent \cup {r}) \in Nat /\ TotalThreshold \in Nat
    BY <1>1, TotalType, AmlAssumption DEF AmlAssumption
<1>3. Total(LesserAmount, sent) <= Total(amount, sent)
    BY <1>1, TotalOfLess
<1>4. Total(LesserAmount, sent \cup {r}) <= Total(LesserAmount, sent) + LesserAmount[r]
    <2>1. CASE r \in sent
        <3>1. sent \cup {r} = sent
            BY <2>1
        <3> QED
            BY <1>1, <1>2, <3>1
    <2>2. CASE r \notin sent
        <3>1. Total(LesserAmount, sent \cup {r}) = Total(LesserAmount, sent) + LesserAmount[r]
            BY <1>1, <2>2, TotalAdd
        <3> QED
            BY <1>1, <1>2, <3>1
    <2> QED
        BY <2>1, <2>2
<1>5. Total(LesserAmount, sent \cup {r}) <= TotalThreshold
    BY <1>1, <1>2, <1>3, <1>4
<1> QED
    BY <1>5 DEF FittingTotal

LEMMA SeriesFits ==
    ASSUME NEW sent \in SUBSET Requests, NEW r \in Requests,
           NEW amount \in {Amount, TableAmount},
           ~(Cardinality(Near(amount, sent)) + Cardinality(Near(Amount, {r})) >= StructuringCount)
    PROVE  sent \cup {r} \in FittingSeries
<1>1. {r} \in SUBSET Requests /\ sent \cup {r} \in SUBSET Requests
    OBVIOUS
<1>2. /\ Cardinality(Near(LesserAmount, sent \cup {r}))
            <= Cardinality(Near(LesserAmount, sent)) + Cardinality(Near(LesserAmount, {r}))
      /\ Cardinality(Near(LesserAmount, sent \cup {r})) \in Nat
    BY <1>1, NearOfParts
<1>3. /\ Cardinality(Near(LesserAmount, sent)) <= Cardinality(Near(amount, sent))
      /\ Cardinality(Near(LesserAmount, {r})) <= Cardinality(Near(Amount, {r}))
    BY <1>1, NearOfLess
<1>4. /\ Cardinality(Near(LesserAmount, sent)) \in Nat /\ Cardinality(Near(amount, sent)) \in Nat
      /\ Cardinality(Near(LesserAmount, {r})) \in Nat /\ Cardinality(Near(Amount, {r})) \in Nat
      /\ StructuringCount \in Nat
    BY <1>1, NearFacts, AmlAssumption DEF AmlAssumption
<1>5. Cardinality(Near(LesserAmount, sent \cup {r})) < StructuringCount
    BY <1>2, <1>3, <1>4
<1> QED
    BY <1>1, <1>5 DEF FittingSeries

LEMMA ExplainedStep ==
    ASSUME NotCrowded, FlowOK, FlowOK', RateTypeOK', HistoryInv, BusyInv, ExplainedInv,
           [ControlsNext]_allVars
    PROVE  ExplainedInv'
<1>0. /\ PassedSeries \subseteq PassedTotal /\ PassedTotal \subseteq Busy
      /\ PassedSeries' \subseteq PassedTotal'
    BY PassedTypes DEF PassedTotal, PassedSeries
<1>1. Explained(TotalWindow, PassedTotal, FittingTotal)'
    <2>1. PICK past, next : past = PassedTotal /\ next = PassedTotal'
        OBVIOUS
    <2>2. SUFFICES Explained(TotalWindow, next, FittingTotal)'
        BY <2>1 DEF Explained, Room, AllCovered
    <2>3. PICK fitting : fitting = FittingTotal
        OBVIOUS
    <2>4. CASE PassedTotal' \subseteq PassedTotal
        <3>1. /\ PassedSeries \subseteq past /\ next \subseteq PassedTotal' /\ next \subseteq past
              /\ Explained(TotalWindow, past, fitting)
            BY <1>0, <2>1, <2>3, <2>4 DEF ExplainedInv
        <3>2. Explained(TotalWindow, next, fitting)'
            BY <3>1, StaysExplained
        <3> QED
            BY <2>3, <3>2 DEF Explained, AllCovered
    <2>5. ASSUME NEW r \in Requests, EvaluateTotal(r), stage'[r] = "near",
                 PassedTotal' \subseteq PassedTotal \cup {r}
          PROVE  Explained(TotalWindow, next, FittingTotal)'
        <3>1. PICK sent \in {Recent(TotalWindow), InTable(TotalWindow)},
                   amount \in {Amount, TableAmount} :
                    ReviewOr(r, Total(amount, sent) + Amount[r] > TotalThreshold, "near")
            BY <2>5 DEF EvaluateTotal
        <3>2. ~(Total(amount, sent) + Amount[r] > TotalThreshold)
            BY <2>5, <3>1 DEF ReviewOr, ToStage, FlowOK, ControlsTypeOK
        <3>3. sent \cup {r} \in fitting
            BY <2>3, <3>2, SentCovers, TotalFits
        <3>4. r \in Busy
            BY <2>5 DEF EvaluateTotal, FlowOK, FlowInv, Busy, InFlight
        <3>5. next \subseteq PassedTotal' /\ next \subseteq Busy
            BY <1>0, <2>1, <2>5, <3>4
        <3>6. Explained(TotalWindow, next, fitting)'
            BY <3>3, <3>4, <3>5, JoinsExplained
        <3> QED
            BY <2>3, <3>6 DEF Explained, AllCovered
    <2> QED
        BY <2>4, <2>5, PassedStep
<1>2. Explained(StructuringWindow, PassedSeries, FittingSeries)'
    <2>1. PICK past, next : past = PassedSeries /\ next = PassedSeries'
        OBVIOUS
    <2>2. SUFFICES Explained(StructuringWindow, next, FittingSeries)'
        BY <2>1 DEF Explained, Room, AllCovered
    <2>3. PICK fitting : fitting = FittingSeries
        OBVIOUS
    <2>4. CASE PassedSeries' \subseteq PassedSeries
        <3>1. /\ PassedSeries \subseteq past /\ next \subseteq PassedTotal' /\ next \subseteq past
              /\ Explained(StructuringWindow, past, fitting)
            BY <1>0, <2>1, <2>3, <2>4 DEF ExplainedInv
        <3>2. Explained(StructuringWindow, next, fitting)'
            BY <3>1, StaysExplained
        <3> QED
            BY <2>3, <3>2 DEF Explained, AllCovered
    <2>5. ASSUME NEW r \in Requests, EvaluateNear(r), aml'[r] = "ALLOW",
                 PassedSeries' \subseteq PassedSeries \cup {r}
          PROVE  Explained(StructuringWindow, next, FittingSeries)'
        <3> DEFINE series(amount, S) ==
                    Cardinality(Near(amount, S)) + Cardinality(Near(Amount, {r}))
        <3>1. PICK sent \in {Recent(StructuringWindow), InTable(StructuringWindow)},
                   amount \in {Amount, TableAmount} :
                    ReviewOr(r, series(amount, sent) >= StructuringCount, "commit")
            BY <2>5 DEF EvaluateNear
        <3>2. ~(series(amount, sent) >= StructuringCount)
            BY <2>5, <3>1 DEF ReviewOr, FlowOK, ControlsTypeOK
        <3>3. sent \cup {r} \in fitting
            BY <2>3, <3>2, SentCovers, SeriesFits
        <3>4. r \in Busy
            BY <2>5 DEF EvaluateNear, FlowOK, FlowInv, Busy, InFlight
        <3>5. next \subseteq PassedTotal' /\ next \subseteq Busy
            BY <1>0, <2>1, <2>5, <3>4
        <3>6. Explained(StructuringWindow, next, fitting)'
            BY <3>3, <3>4, <3>5, JoinsExplained
        <3> QED
            BY <2>3, <3>6 DEF Explained, AllCovered
    <2> QED
        BY <2>4, <2>5, PassedStep
<1> QED
    BY <1>1, <1>2 DEF ExplainedInv

\* What is late of a window is no more than what is late.
LEMMA LateOnes ==
    ASSUME NEW late \in SUBSET Requests, Cardinality(late) <= Beside, NEW S
    PROVE  /\ IsFiniteSet(late \cap S) /\ Cardinality(late \cap S) \in Nat
           /\ Cardinality(late \cap S) <= Beside
<1>1. IsFiniteSet(late)
    BY RequestsAssumption, FS_Subset DEF RequestsAssumption
<1>2. /\ IsFiniteSet(late \cap S) /\ Cardinality(late \cap S) <= Cardinality(late)
      /\ Cardinality(late \cap S) \in Nat /\ Cardinality(late) \in Nat
    BY <1>1, FS_Subset, FS_CardinalityType
<1> QED
    BY <1>2, LimitsAssumption DEF LimitsAssumption, Beside

\* What a window holds, and what of it was lost.
LEMMA WindowTypes ==
    ASSUME FlowOK, NEW window
    PROVE  /\ CreatedIn(window) \in SUBSET Requests
           /\ \A passed : CreatedIn(window) \ held \subseteq Room(window, passed)
BY DEF FlowOK, ControlsTypeOK, TypeOK, CreatedIn, Room

LEMMA ExplainedThreshold ==
    ASSUME FlowOK, ExplainedInv
    PROVE  UnreviewedWithinThreshold
<1> DEFINE sum(S) == Total(LesserAmount, S)
<1> SUFFICES ASSUME NEW free, free = CreatedIn(TotalWindow) \ held,
                    NEW lost, lost = CreatedIn(TotalWindow) \cap unrecorded
             PROVE  \E late \in SUBSET free :
                        /\ Cardinality(late) <= Beside
                        /\ sum(free \ late) <= TotalThreshold + sum(lost)
    BY DEF UnreviewedWithinThreshold
<1>1. PICK late \in SUBSET Requests, counted \in FittingTotal :
            /\ Cardinality(late) <= Beside
            /\ Room(TotalWindow, PassedTotal) \subseteq late \cup counted \cup unrecorded
    BY DEF ExplainedInv, Explained, AllCovered
<1>2. /\ free \in SUBSET Requests /\ lost \in SUBSET Requests
      /\ counted \in SUBSET Requests /\ sum(counted) <= TotalThreshold
    BY WindowTypes DEF FittingTotal
<1>3. free \ (late \cap free) \in SUBSET (counted \cup lost)
    BY <1>1, WindowTypes
<1>4. LesserAmount \in [Requests -> Nat]
    BY LesserFacts
<1>5. /\ sum(free \ (late \cap free)) <= sum(counted \cup lost)
      /\ sum(counted \cup lost) <= sum(counted) + sum(lost)
    <2>1. counted \cup lost \in SUBSET Requests
        BY <1>2
    <2> QED
        BY <1>2, <1>3, <1>4, <2>1, TotalMonotone, TotalOfParts
<1>6. /\ sum(free \ (late \cap free)) \in Nat /\ sum(counted \cup lost) \in Nat
      /\ sum(counted) \in Nat /\ sum(lost) \in Nat /\ TotalThreshold \in Nat
    <2>1. counted \cup lost \in SUBSET Requests /\ free \ (late \cap free) \in SUBSET Requests
        BY <1>2
    <2> QED
        BY <1>2, <1>4, <2>1, TotalType, AmlAssumption DEF AmlAssumption
<1>7. sum(free \ (late \cap free)) <= TotalThreshold + sum(lost)
    <2> HIDE DEF sum
    <2> QED
        BY <1>2, <1>5, <1>6
<1>8. Cardinality(late \cap free) <= Beside
    BY <1>1, LateOnes
<1> QED
    BY <1>7, <1>8

LEMMA ExplainedSeries ==
    ASSUME FlowOK, ExplainedInv
    PROVE  SeriesIsReviewed
<1> DEFINE count(S) == Cardinality(Near(LesserAmount, S))
<1> SUFFICES ASSUME NEW free, free = CreatedIn(StructuringWindow) \ held,
                    NEW lost, lost = CreatedIn(StructuringWindow) \cap unrecorded
             PROVE  count(free) < StructuringCount + count(lost) + Beside
    <2>1. /\ Near(LesserAmount, CreatedIn(StructuringWindow)) \ held
                = Near(LesserAmount, CreatedIn(StructuringWindow) \ held)
          /\ Near(LesserAmount, CreatedIn(StructuringWindow)) \cap unrecorded
                = Near(LesserAmount, CreatedIn(StructuringWindow) \cap unrecorded)
        BY DEF Near
    <2> QED
        BY <2>1 DEF SeriesIsReviewed
<1>1. PICK late \in SUBSET Requests, counted \in FittingSeries :
            /\ Cardinality(late) <= Beside
            /\ Room(StructuringWindow, PassedSeries) \subseteq late \cup counted \cup unrecorded
    BY DEF ExplainedInv, Explained, AllCovered
<1>2. /\ free \in SUBSET Requests /\ lost \in SUBSET Requests
      /\ counted \in SUBSET Requests /\ count(counted) < StructuringCount
      /\ counted \cup lost \in SUBSET Requests /\ late \cup (counted \cup lost) \in SUBSET Requests
    BY WindowTypes DEF FittingSeries
<1>3. /\ count(counted \cup lost) <= count(counted) + count(lost)
      /\ count(late \cup (counted \cup lost)) <= count(late) + count(counted \cup lost)
      /\ count(late \cup (counted \cup lost)) \in Nat /\ count(counted \cup lost) \in Nat
    BY <1>2, NearOfParts
<1>4. count(free) <= count(late \cup (counted \cup lost)) /\ count(free) \in Nat
    <2>1. free \in SUBSET (late \cup (counted \cup lost))
        BY <1>1, WindowTypes
    <2> QED
        BY <1>2, <2>1, NearFacts
<1>5. count(late) <= Beside
    <2>1. Near(LesserAmount, late) = late \cap Near(LesserAmount, late)
        BY DEF Near
    <2> QED
        BY <1>1, <2>1, LateOnes
<1>6. /\ count(late) \in Nat /\ count(counted) \in Nat /\ count(lost) \in Nat
      /\ StructuringCount \in Nat /\ Beside \in Nat
    BY <1>2, NearFacts, AmlAssumption, LimitsAssumption
       DEF AmlAssumption, LimitsAssumption, Beside
<1> HIDE DEF count
<1> QED
    BY <1>2, <1>3, <1>4, <1>5, <1>6

LEMMA ExplainedInit == ControlsInit => BusyInv /\ ExplainedInv
<1> SUFFICES ASSUME ControlsInit PROVE BusyInv /\ ExplainedInv
    OBVIOUS
<1>1. Cardinality({}) = 0 /\ Beside \in Nat
    BY FS_EmptySet, LimitsAssumption DEF LimitsAssumption, Beside
<1>2. Busy = {} /\ PassedTotal = {} /\ PassedSeries = {}
    BY DEF ControlsInit, Init, Busy, InFlight, PassedTotal, PassedSeries
<1>3. BusyInv
    BY <1>1, <1>2 DEF BusyInv
<1>4. ASSUME NEW window
      PROVE  Room(window, {}) = {}
    BY DEF Room, ControlsInit, Init
<1>5. {} \in FittingTotal
    <2>1. Total(LesserAmount, {}) = 0
        BY TotalByChoice
    <2> QED
        BY <2>1, AmlAssumption DEF FittingTotal, AmlAssumption
<1>6. {} \in FittingSeries
    <2>1. Near(LesserAmount, {}) = {}
        BY DEF Near
    <2> QED
        BY <1>1, <2>1, AmlAssumption DEF FittingSeries, AmlAssumption
<1>7. ASSUME NEW window, NEW fitting, {} \in fitting
      PROVE  Explained(window, {}, fitting)
    BY <1>1, <1>4, <1>7 DEF Explained, AllCovered
<1> QED
    BY <1>2, <1>3, <1>5, <1>6, <1>7 DEF ExplainedInv

LEMMA ControlsExplained ==
    ControlsSpec /\ []NotCrowded => [](FlowOK /\ ExplainedInv)
<1>1. FlowOK /\ RateTypeOK' /\ BusyInv /\ [ControlsNext]_allVars => BusyInv'
    BY BusyStep
<1>2. /\ NotCrowded /\ FlowOK /\ FlowOK' /\ RateTypeOK' /\ HistoryInv /\ BusyInv /\ ExplainedInv
      /\ [ControlsNext]_allVars
      => ExplainedInv'
    BY ExplainedStep
<1>3. RateInv => RateTypeOK
    BY DEF RateInv
<1> QED
    BY <1>1, <1>2, <1>3, ControlsHistory, ExplainedInit, PTL DEF ControlsSpec

\* However requests of a customer overlap, whatever Redis refuses and whichever source
\* the total is read from: the payments created in the window that ends now and not
\* held stay within the threshold, but for what was lost between a commit and its
\* record and for those handled together with the last one - none if requests come in
\* turn (AmlRuleEngine.evaluate).  The customer does not crowd the list.
THEOREM ThresholdHolds == ControlsSpec /\ []NotCrowded => []UnreviewedWithinThreshold
<1>1. FlowOK /\ ExplainedInv => UnreviewedWithinThreshold
    BY ExplainedThreshold
<1> QED
    BY <1>1, ControlsExplained, PTL

\* The same of a series of payments just below the maximum: fewer than the rule's
\* count go through, but for those whose record was lost and those that were handled
\* together (AmlRuleEngine.evaluate).
THEOREM SeriesHolds == ControlsSpec /\ []NotCrowded => []SeriesIsReviewed
<1>1. FlowOK /\ ExplainedInv => SeriesIsReviewed
    BY ExplainedSeries
<1> QED
    BY <1>1, ControlsExplained, PTL

===============================================================================
