---------------------------- MODULE PaymentControls ----------------------------
(***************************************************************************)
(* payments-api, CreatePaymentUseCase._create_payment_with_controls: the   *)
(* order in which one request goes through KYC, the limits, the rate       *)
(* limiter, the risk score and the AML rules, to the commit of its payment *)
(* and the AML record that follows the commit.  The module composes        *)
(* SpendingLimits, RateLimiter, AmlRuleEngine and ControlRules.            *)
(***************************************************************************)
EXTENDS SpendingLimits, RateLimiter, AmlRuleEngine, ControlRules

CONSTANT Rail       \* request.method, the same for all requests

ASSUME RailAssumption == Rail \in PaymentMethod

VARIABLES
    stage,      \* stage[r]: where request r is after the limits
    risk,       \* risk[r]: control_decision.risk_decision
    aml,        \* aml[r]: control_decision.aml_decision
    held,       \* payments that were committed IN_REVIEW
    unrecorded  \* committed payments whose AML record was not written to the end

decisionVars == <<stage, risk, aml, held, unrecorded>>
controlVars == <<rateVars, amlVars, decisionVars>>
allVars == <<vars, controlVars>>

ControlsTypeOK ==
    /\ TypeOK /\ RateTypeOK /\ AmlTypeOK
    /\ spent = Total(Stored, paid)
    /\ stage \in [Requests -> {"before", "total", "near", "commit", "record", "push"}]
    /\ risk \in [Requests -> Decision]
    /\ aml \in [Requests -> Decision]
    /\ held \subseteq paid
    /\ unrecorded \subseteq paid

ControlsInit ==
    /\ Init /\ RateInit /\ AmlInit
    /\ stage = [r \in Requests |-> "before"]
    /\ risk = [r \in Requests |-> "ALLOW"]
    /\ aml = [r \in Requests |-> "ALLOW"]
    /\ held = {}
    /\ unrecorded = {}

ToStage(r, next) == stage' = [stage EXCEPT ![r] = next]

\* The request is over: nothing of it is read again.
Leave(r) ==
    /\ ToStage(r, "before")
    /\ risk' = [risk EXCEPT ![r] = "ALLOW"]
    /\ aml' = [aml EXCEPT ![r] = "ALLOW"]

-------------------------------------------------------------------------------
PassTime ==
    /\ Tick
    /\ RateTick(clock + 1)
    /\ AmlTick(clock + 1)
    /\ UNCHANGED decisionVars

\* The customers that KycService lets through.
AllowedKyc == {level \in KycLevel : KycAllows("ACTIVE", level, Rail)}

\* A request that still records its payment is being handled.
Busy == InFlight \cup {r \in Requests : stage[r] \in {"record", "push"}}

Begin(r) ==
    /\ AllowedKyc # {}
    /\ Arrive(r, Busy)
    /\ UNCHANGED controlVars

\* KycDeniedError
DenyKyc(r) ==
    /\ pc[r] = "new"
    /\ \E status \in CustomerStatus, level \in KycLevel : ~KycAllows(status, level, Rail)
    /\ Goto(r, "done")
    /\ UNCHANGED <<outages, read, daily, velocity, arrivals, controlVars>>

EnforceLimits(r) == Enforce(r) /\ UNCHANGED controlVars

\* _enforce_rate_limit, after the limits.
EnforceRateLimit(r) ==
    /\ pc[r] = "passed"
    /\ stage[r] = "before"
    /\ \/ (ReadBucket(r) \/ Increment(r) \/ Expire(r)) /\ UNCHANGED outages
       \/ RateRedisFails(r) /\ RedisFails("later")
    /\ UNCHANGED <<pc, read, daily, velocity, arrivals, amlVars, decisionVars>>

-------------------------------------------------------------------------------
(* _evaluate_controls.                                                     *)

\* What RiskScoreService finds; the failures, the age and level of the customer
\* and the destination are those of the tables.
ContextOf(r) ==
    [nearMax : {NearMax(Amount[r], MaxAmount * Cent)}, spike : {Spike(read[r], VelocityLimit)},
     failures : FailureCounts, isNew : BOOLEAN, kyc : AllowedKyc, seen : BOOLEAN]

\* _evaluate_risk, and the blocklist of AmlRuleEngine.evaluate.
EvaluateRisk(r) ==
    /\ asking[r].at = "through"
    /\ \E decision \in {RiskDecision(c) : c \in ContextOf(r)} :
        risk' = [risk EXCEPT ![r] = decision]
    /\ \/ ToStage(r, "total") /\ UNCHANGED aml
       \/ ToStage(r, "commit") /\ aml' = [aml EXCEPT ![r] = "BLOCK"]
    /\ StopAsking(r)
    /\ UNCHANGED <<vars, hits, expiry, prompt, amlVars, held, unrecorded>>

\* sum_outgoing_since, count_near_threshold_since: payments not BLOCKED.
InTable(window) == {q \in paid : created[q] >= clock - window}

\* The amounts of the table; those of the list are as requested.
TableAmount == [r \in Requests |-> Stored[r] * Cent]

\* The list, or after a RedisError the table.
FindOutgoing(window, sent, amount) ==
    \/ sent = Recent(window) /\ amount = Amount /\ UNCHANGED outages
    \/ sent = InTable(window) /\ amount = TableAmount /\ RedisFails("later")

Near(amount, requests) == {q \in requests : NearThreshold(amount[q], MaxAmount * Cent)}

ReviewOr(r, review, next) ==
    /\ ToStage(r, IF review THEN "commit" ELSE next)
    /\ aml' = [aml EXCEPT ![r] = IF review THEN "REVIEW" ELSE @]
    /\ UNCHANGED <<pc, read, daily, velocity, arrivals, rateVars, amlVars,
                   risk, held, unrecorded>>

\* Faulty variant: the amount of the payment itself is left out.
EvaluateOthersTotal(r) ==
    /\ stage[r] = "total"
    /\ \E sent \in {Recent(TotalWindow), InTable(TotalWindow)},
          amount \in {Amount, TableAmount} :
        /\ FindOutgoing(TotalWindow, sent, amount)
        /\ ReviewOr(r, Total(amount, sent) > TotalThreshold, "near")

\* total_outgoing + amount > threshold
EvaluateTotal(r) ==
    /\ stage[r] = "total"
    /\ \E sent \in {Recent(TotalWindow), InTable(TotalWindow)},
          amount \in {Amount, TableAmount} :
        /\ FindOutgoing(TotalWindow, sent, amount)
        /\ ReviewOr(r, Total(amount, sent) + Amount[r] > TotalThreshold, "near")

\* Faulty variant: the payment itself is not counted.
EvaluateOthersNear(r) ==
    /\ stage[r] = "near"
    /\ \E sent \in {Recent(StructuringWindow), InTable(StructuringWindow)},
          amount \in {Amount, TableAmount} :
        /\ FindOutgoing(StructuringWindow, sent, amount)
        /\ ReviewOr(r, Cardinality(Near(amount, sent)) >= StructuringCount, "commit")

\* near_count, with the payment itself, >= structuring_count_threshold
EvaluateNear(r) ==
    /\ stage[r] = "near"
    /\ \E sent \in {Recent(StructuringWindow), InTable(StructuringWindow)},
          amount \in {Amount, TableAmount} :
        /\ FindOutgoing(StructuringWindow, sent, amount)
        /\ ReviewOr(r, Cardinality(Near(amount, sent)) + Cardinality(Near(Amount, {r}))
                          >= StructuringCount, "commit")

-------------------------------------------------------------------------------
\* _persist_payment_transaction: stored BLOCKED, or paid.
Commit(r) ==
    LET status == ResolveStatus(risk[r], aml[r]) IN
    /\ stage[r] = "commit"
    /\ \/ /\ status = "BLOCKED"
          /\ EndUnpaid(r) /\ Leave(r)
          /\ UNCHANGED held
       \/ /\ status # "BLOCKED"
          /\ Pay(r) /\ ToStage(r, "record")
          /\ held' = IF status = "IN_REVIEW" THEN held \cup {r} ELSE held
          /\ UNCHANGED <<risk, aml>>
    /\ UNCHANGED <<rateVars, amlVars, unrecorded>>

\* _after_commit_observability, record_outgoing: time.time().
Stamp(r) ==
    /\ stage[r] = "record"
    /\ At(r, clock)
    /\ ToStage(r, "push")
    /\ UNCHANGED <<outages, pc, read, daily, clock, members, admitted, arrivals,
                   rateVars, amlVars, risk, aml, held, unrecorded>>

\* The record has been written or given up.
EndRecord(r) ==
    /\ stage[r] = "push"
    /\ At(r, 0)
    /\ Leave(r)
    /\ UNCHANGED <<outages, pc, read, daily, clock, members, admitted, arrivals, rateVars, held>>

Record(r) ==
    /\ EndRecord(r)
    /\ RecordOutgoing(r, now[r])
    /\ UNCHANGED unrecorded

\* RedisError in record_outgoing, which is swallowed, or the request dies.
LoseRecord(r) ==
    /\ EndRecord(r)
    /\ RecordPart(r, now[r])
    /\ unrecorded' = unrecorded \cup {r}

\* RateLimitedError, any other exception before the commit, or the request dies.
Abort(r) ==
    /\ EndUnpaid(r)
    /\ StopAsking(r)
    /\ Leave(r)
    /\ UNCHANGED <<hits, expiry, prompt, amlVars, held, unrecorded>>

ControlsNext ==
    \/ PassTime
    \/ \E r \in Requests :
        \/ Begin(r) \/ DenyKyc(r)
        \/ EnforceLimits(r) \/ EnforceRateLimit(r)
        \/ EvaluateRisk(r) \/ EvaluateTotal(r) \/ EvaluateNear(r)
        \/ Commit(r) \/ Stamp(r) \/ Record(r) \/ LoseRecord(r)
        \/ Abort(r)

ControlsSpec == ControlsInit /\ [][ControlsNext]_allVars

-------------------------------------------------------------------------------
\* The weights and thresholds taken together (RiskScoreService, with the default
\* thresholds): whatever is found of a request that is assessed, it is blocked for
\* four signals of the five and for no fewer, and is never held for one.
BlockedForFourSignals ==
    \A r \in Requests :
        asking[r].at = "through" => \A c \in ContextOf(r) : FollowsSignals(c)

\* The payments created in the window of the given length that ends now.
CreatedIn(window) == {q \in paid : created[q] > clock - window}

\* The requests that may have been handled beside another one.
Beside == IF inTurn THEN 0 ELSE MaxInFlight - 1

\* The list and the table agree (AmlRuleEngine.record_outgoing): a payment whose
\* record was written is found in the list for as long as it is in a window, however
\* often the key expires or a write fails beside it, unless the list is full of
\* payments that were recorded since; only requests that were handled beside it may
\* have pushed an older entry after it.
HistoryCoversTable ==
    \A window \in {TotalWindow, StructuringWindow} :
        \A q \in CreatedIn(window) \ Recent(window) :
            \/ q \in unrecorded
            \/ stage[q] \in {"record", "push"}
            \/ /\ Len(history) > MaxHistory
               /\ Cardinality({i \in 1 .. MaxHistory + 1 : history[i].time < created[q]})
                    <= Beside

\* The lesser of what was requested, which the list holds, and what the table holds.
LesserAmount ==
    [r \in Requests |-> IF Amount[r] < TableAmount[r] THEN Amount[r] ELSE TableAmount[r]]

\* What goes through unreviewed (AmlRuleEngine.evaluate): of the payments created in
\* the last TotalWindow those that were not held stay within the threshold, but for
\* those whose record was lost after their commit and for those that were being
\* handled together with the last one: none if requests come in turn, and never more
\* than MaxInFlight - 1, however they overlap.
UnreviewedWithinThreshold ==
    LET free == CreatedIn(TotalWindow) \ held
        lost == CreatedIn(TotalWindow) \cap unrecorded
    IN  \E late \in SUBSET free :
          /\ Cardinality(late) <= Beside
          /\ Total(LesserAmount, free \ late) <= TotalThreshold + Total(LesserAmount, lost)

\* The same for a series of payments just below the maximum.
SeriesIsReviewed ==
    LET near == Near(LesserAmount, CreatedIn(StructuringWindow)) IN
    Cardinality(near \ held)
        < StructuringCount + Cardinality(near \cap unrecorded) + Beside

===============================================================================
