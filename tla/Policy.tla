------------------------------- MODULE Policy -------------------------------
(***************************************************************************)
(* How measurements become a score and a verdict (policy.py).  There are   *)
(* no variables here: Verdict and AgentEffects apply these operators to    *)
(* what their probes measured.                                             *)
(*                                                                         *)
(* A scan's result is a record                                             *)
(*   probes    the results in the order they came back, each               *)
(*             [probe, applicable, metrics]                                *)
(*   selected, expected   what --probes and --phases asked for             *)
(*   rule      "service", or "agent_behavior" as an agent target declares  *)
(*   asked     whether --verify-tool or --verify-command was given         *)
(*   evidence  what the behaviour probe says about its effect oracle       *)
(* A metric is a natural number, and Missing when the probe withheld it.   *)
(* Scores are percentages; thresholds divide 100, so they are exact.       *)
(***************************************************************************)
EXTENDS Integers, Sequences, FiniteSets, FiniteSetsExt

Missing == -1

Reads(probe, metric, direction) ==
    [probe |-> probe, metric |-> metric, direction |-> direction]

ThresholdSpecs ==
    [p95_latency_ms                |-> Reads("latency", "p95_s", "max"),
     p99_latency_ms                |-> Reads("latency", "p99_s", "max"),
     error_rate_max                |-> Reads("latency", "error_rate", "max"),
     recovery_rate_min             |-> Reads("behavior", "recovery_rate", "min"),
     retry_amplification_max       |-> Reads("behavior", "retry_amplification", "max"),
     duplicate_mutation_max        |-> Reads("behavior", "duplicate_mutations", "max"),
     cost_per_request_max          |-> Reads("cost", "cost_per_request", "max"),
     concurrency_min               |-> Reads("concurrency", "max_sustained_concurrency", "min"),
     contract_crash_rate_max       |-> Reads("contract", "crash_rate", "max"),
     contract_invalid_accepted_max |-> Reads("contract", "accepted_invalid", "max")]

(* The one threshold the scan's own flags decide, and what supplies it.    *)
DerivedFrom == [recovery_rate_min |-> "recovery_floor"]

DeprecatedThresholds == {"concurrency_min"}

AbsoluteChecks == {"duplicate_mutation_max", "contract_crash_rate_max"}

(* A policy file that loads; the retired thresholds are dropped from it.   *)
PolicyLoads(policy) ==
    /\ policy.pass_score \in 0..100
    /\ policy.fail_cap \in 0..100
    /\ policy.absolute_fail_cap \in 0..policy.fail_cap
    /\ DOMAIN policy.thresholds # {}
    /\ DOMAIN policy.thresholds \subseteq DOMAIN ThresholdSpecs
    /\ \A t \in DOMAIN policy.thresholds : policy.thresholds[t] \in Nat
    /\ IsFiniteSet(DOMAIN policy.weights)
    /\ \A d \in DOMAIN policy.weights : policy.weights[d] \in Nat
    /\ \E d \in DOMAIN policy.weights : policy.weights[d] > 0

Specs(policy) == DOMAIN policy.thresholds \ DeprecatedThresholds

-----------------------------------------------------------------------------
(* The results a name finds: the scoring loop keeps the last, the          *)
(* breakdown and everything after it read the first; 0 is none.            *)

Places(result, name) == {i \in DOMAIN result.probes : result.probes[i].probe = name}

LastOf(result, name) ==
    IF Places(result, name) = {} THEN 0 ELSE Max(Places(result, name))

FirstOf(result, name) ==
    IF Places(result, name) = {} THEN 0 ELSE Min(Places(result, name))

Metric(probe, metric) ==
    IF metric \in DOMAIN probe.metrics THEN probe.metrics[metric] ELSE Missing

Observed(result, at, spec) ==
    IF at = 0 \/ ~result.probes[at].applicable THEN Missing
    ELSE Metric(result.probes[at], spec.metric)

ThresholdFor(result, policy, name, at) ==
    IF name \in DOMAIN DerivedFrom /\ at # 0
         /\ Metric(result.probes[at], DerivedFrom[name]) # Missing
    THEN Metric(result.probes[at], DerivedFrom[name])
    ELSE policy.thresholds[name]

AtLeastZero(n) == IF n < 0 THEN 0 ELSE n

(* Meeting a limit is worth 100, missing it decays to 0 at twice a maximum *)
(* or at zero for a minimum, and a maximum of 0 has no partial credit.     *)
ScoreValue(direction, threshold, observed) ==
    IF direction = "max"
    THEN IF observed <= threshold THEN 100
         ELSE IF threshold = 0 THEN 0
         ELSE AtLeastZero((100 * (2 * threshold - observed)) \div threshold)
    ELSE IF observed >= threshold \/ threshold = 0 THEN 100
         ELSE (100 * observed) \div threshold

Meets(direction, threshold, observed) ==
    IF direction = "max" THEN observed <= threshold
                         ELSE observed >= threshold \/ threshold = 0

(* One check: at is the result it is attached to, 0 for a probe that never *)
(* ran.  A metric the scan did not produce is skipped, never failed.       *)
ScoreCheck(result, policy, name) ==
    LET spec == ThresholdSpecs[name]
        at   == LastOf(result, spec.probe)
        seen == Observed(result, at, spec)
        t    == ThresholdFor(result, policy, name, at)
    IN  [name |-> name, probe |-> spec.probe, at |-> at, skipped |-> seen = Missing,
         score  |-> IF seen = Missing THEN 0 ELSE ScoreValue(spec.direction, t, seen),
         passed |-> seen = Missing \/ Meets(spec.direction, t, seen)]

Checks(result, policy) == {ScoreCheck(result, policy, n) : n \in Specs(policy)}

Failed(checks) == {c \in checks : ~c.passed /\ ~c.skipped}

-----------------------------------------------------------------------------
(* Scores of results and dimensions are in sixths of a percent, so that    *)
(* the mean of up to three checks is exact.                                *)

SumOfScores(checks) == MapThenSumSet(LAMBDA c : c.score, checks)

ProbeScore(checks, at) ==
    LET mine == {c \in checks : c.at = at /\ ~c.skipped}
    IN  IF at = 0 \/ mine = {} THEN Missing
        ELSE (6 * SumOfScores(mine)) \div Cardinality(mine)

(* Why a dimension carries no score; the command's three reasons are told  *)
(* apart by what the scan recorded that it was asked for.                  *)
NotScored(result, checks, name) ==
    LET at == FirstOf(result, name)
    IN  IF at # 0
        THEN IF ~result.probes[at].applicable THEN "not_applicable"
             ELSE IF ProbeScore(checks, at) = Missing THEN "no_threshold" ELSE "scored"
        ELSE IF name \notin result.selected THEN "not_selected"
        ELSE IF name \notin result.expected THEN "phase_excluded" ELSE "did_not_run"

Breakdown(result, policy, checks) ==
    [d \in {d \in DOMAIN policy.weights : policy.weights[d] > 0} |->
        [score    |-> ProbeScore(checks, FirstOf(result, d)),
         weight   |-> policy.weights[d],
         category |-> NotScored(result, checks, d)]]

Measured(breakdown) == {d \in DOMAIN breakdown : breakdown[d].score # Missing}

WeightOf(breakdown, dims) == MapThenSumSet(LAMBDA d : breakdown[d].weight, dims)

(* The weighted mean over what was measured, in whole percent.             *)
WeightedScore(breakdown) ==
    LET dims == Measured(breakdown)
    IN  IF dims = {} THEN Missing
        ELSE MapThenSumSet(LAMBDA d : breakdown[d].score * breakdown[d].weight, dims)
                \div (6 * WeightOf(breakdown, dims))

ApplyCaps_AllAbsolute(score, checks, policy) ==                  \* mutant
    LET failed == Failed(checks)
        cap == IF \A c \in failed : c.name \in AbsoluteChecks
               THEN policy.absolute_fail_cap ELSE policy.fail_cap
    IN  IF score = Missing \/ failed = {} \/ score <= cap THEN score ELSE cap

(* The ceiling a failure puts on the composite.                            *)
ApplyCaps(score, checks, policy) ==
    LET failed == Failed(checks)
        cap == IF \E c \in failed : c.name \in AbsoluteChecks
               THEN policy.absolute_fail_cap ELSE policy.fail_cap
    IN  IF score = Missing \/ failed = {} \/ score <= cap THEN score ELSE cap

(* The weight of the dimensions the policy asks about, whatever ran.       *)
GradedWeight(policy) ==
    LET graded == {ThresholdSpecs[n].probe : n \in Specs(policy)}
    IN  MapThenSumSet(LAMBDA d : policy.weights[d], graded \cap DOMAIN policy.weights)

(* More than half of that weight has to have been measured.                *)
CoverageIsEnough(breakdown, policy) ==
    /\ GradedWeight(policy) > 0
    /\ 2 * WeightOf(breakdown, Measured(breakdown)) > GradedWeight(policy)

-----------------------------------------------------------------------------
VerifyNotMeasured_StaleOnly(result) ==                           \* mutant
    /\ result.asked
    /\ Places(result, "behavior") # {}
    /\ result.evidence.oracle = "stale"

(* An oracle was asked for and did not measure: the behaviour result says  *)
(* so, and a scan with no behaviour result says nothing.                   *)
VerifyNotMeasured(result) ==
    /\ result.asked
    /\ Places(result, "behavior") # {}
    /\ result.evidence.oracle \in {"stale", "failed"}

(* Why an agent scan gets no verdict, in the order the reasons are looked  *)
(* for; "none" when it may have one.                                       *)
AgentVerdictBlocker(result, breakdown) ==
    LET e == result.evidence
        at == FirstOf(result, "behavior")
    IN  IF result.rule # "agent_behavior" THEN "none"
        ELSE IF ~result.asked THEN "no_oracle"
        ELSE IF at = 0 \/ ~result.probes[at].applicable THEN "no_behavior"
        ELSE IF e.taskStatus = {} THEN "no_task"
        ELSE IF e.taskStatus # {"ok"} THEN "unread"
        ELSE IF e.uncertain = 0 THEN "no_uncertain_task"
        ELSE IF e.appliedNothing > 0 THEN "applied_nothing"
        ELSE IF e.undeclared # {} THEN "undeclared_multi_write"
        ELSE IF e.unreadable # {} THEN "entries_unreadable"
        ELSE IF "behavior" \notin Measured(breakdown) THEN "unscored"
        ELSE "none"

(* evaluate: passed is "yes", "no", or "none" for a score that is not a    *)
(* verdict.                                                                *)
Evaluate(result, policy) ==
    LET checks    == Checks(result, policy)
        breakdown == Breakdown(result, policy, checks)
        score     == ApplyCaps(WeightedScore(breakdown), checks, policy)
        declined  ==
            \/ score = Missing
            \/ IF result.rule = "agent_behavior"
               THEN AgentVerdictBlocker(result, breakdown) # "none"
               ELSE ~CoverageIsEnough(breakdown, policy) \/ VerifyNotMeasured(result)
    IN  [checks |-> checks, breakdown |-> breakdown, score |-> score,
         passed |-> IF declined THEN "none"
                    ELSE IF score >= policy.pass_score /\ Failed(checks) = {}
                    THEN "yes" ELSE "no"]

(* The claims of a passing agent scan that its upstream's state denies.    *)
UnreconciledReadings(result, report) ==
    /\ report.passed = "yes"
    /\ result.rule = "agent_behavior"
    /\ result.evidence.unreconciled > 0
=============================================================================
