----------------------------- MODULE ControlRules -----------------------------
(***************************************************************************)
(* payments-api: what a control decides from what it has read.  KycService *)
(* refuses a customer, the rules of RiskScoreService add up to a score,    *)
(* the AML thresholds are compared with what AmlRuleEngine has found, and  *)
(* the two decisions give the status of the new payment.                   *)
(***************************************************************************)
EXTENDS Integers

CONSTANTS ReviewThreshold,  \* settings.risk_review_threshold
          BlockThreshold,   \* settings.risk_block_threshold
          FailureCounts     \* the numbers of failed payments of one day

ASSUME RulesAssumption ==
    /\ ReviewThreshold \in Nat /\ BlockThreshold \in Nat
    /\ FailureCounts \subseteq Nat

PaymentMethod == {"PIX", "BOLETO", "TED", "CARD"}
KycLevel == {"NONE", "BASIC", "FULL"}
CustomerStatus == {"ACTIVE", "SUSPENDED"}
Decision == {"ALLOW", "REVIEW", "BLOCK"}

-------------------------------------------------------------------------------
(* KycService.                                                             *)

Rank == [NONE |-> 0, BASIC |-> 1, FULL |-> 2]

MinimumKyc(rail) == IF rail = "TED" THEN "FULL" ELSE "BASIC"

KycAllows(status, level, rail) ==
    /\ status = "ACTIVE"
    /\ Rank[level] >= Rank[MinimumKyc(rail)]

-------------------------------------------------------------------------------
(* RiskScoreService.  A context holds what the rules tell apart.           *)

RiskContext == [nearMax : BOOLEAN, spike : BOOLEAN, failures : FailureCounts,
                isNew : BOOLEAN, kyc : KycLevel, seen : BOOLEAN]

\* amount >= 0.9 * policy_max
NearMax(amount, max) == 10 * amount >= 9 * max

\* velocity_count / velocity_limit >= 0.8
Spike(count, limit) == limit > 0 /\ 10 * count >= 8 * limit

Points(signal, points) == IF signal THEN points ELSE 0

LowKyc(level) == level \in {"NONE", "BASIC"}

RepeatedFailures(failures) ==
    IF failures >= 3 THEN 25 ELSE Points(failures >= 1, 10)

\* min(100, sum of the rules' scores)
RiskScore(c) ==
    LET sum == Points(c.nearMax, 25) + Points(c.spike, 20)
               + RepeatedFailures(c.failures)
               + Points(c.isNew /\ LowKyc(c.kyc), 20) + Points(~c.seen, 15)
    IN  IF sum > 100 THEN 100 ELSE sum

\* Faulty variant: a score at the threshold is let through.
DecisionAbove(score) ==
    CASE score > BlockThreshold -> "BLOCK"
      [] score > ReviewThreshold /\ score <= BlockThreshold -> "REVIEW"
      [] OTHER -> "ALLOW"

DecisionFromScore(score) ==
    CASE score >= BlockThreshold -> "BLOCK"
      [] score >= ReviewThreshold /\ score < BlockThreshold -> "REVIEW"
      [] OTHER -> "ALLOW"

RiskDecision(c) == DecisionFromScore(RiskScore(c))

-------------------------------------------------------------------------------
(* AmlRuleEngine.evaluate and _resolve_status_from_decisions.              *)

\* amount >= policy.max_amount * 0.95; both windows of near-threshold payments
\* end at max_amount, which no amount exceeds.
NearThreshold(amount, max) == 100 * amount >= 95 * max

ResolveStatus(risk, aml) ==
    CASE "BLOCK" \in {risk, aml} -> "BLOCKED"
      [] "REVIEW" \in {risk, aml} /\ "BLOCK" \notin {risk, aml} -> "IN_REVIEW"
      [] OTHER -> "RECEIVED"

-------------------------------------------------------------------------------
\* The signals of a context; a failure or two count half.
HalfSignals(c) ==
    LET half(signal) == Points(signal, 2) IN
    half(c.nearMax) + half(c.spike) + half(c.isNew /\ LowKyc(c.kyc)) + half(~c.seen)
    + (IF c.failures >= 3 THEN 2 ELSE Points(c.failures >= 1, 1))

\* What the weights and the default thresholds come to: a payment is blocked for
\* four signals of the five and for no fewer, and is never held for one.
FollowsSignals(c) ==
    /\ RiskDecision(c) = "BLOCK" <=> HalfSignals(c) >= 8
    /\ RiskDecision(c) # "ALLOW" => HalfSignals(c) >= 4

\* The same on the rail that asks for FULL, where the rule on new customers of a low
\* level is out of play: a block takes every other signal at full strength.
BlockedOnAllSignals(c) ==
    KycAllows("ACTIVE", c.kyc, "TED") /\ RiskDecision(c) = "BLOCK" =>
        c.nearMax /\ c.spike /\ c.failures >= 3 /\ ~c.seen

===============================================================================
