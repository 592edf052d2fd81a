---------------------------- MODULE AgentsGuide ----------------------------
(***************************************************************************)
(* The guide a scan writes for a coding agent (outputs/agents_md.py): one  *)
(* section for each thing to fix, each resting on metrics, and above the   *)
(* fix every caveat that names one of those.  Its reader acts on it.       *)
(***************************************************************************)
EXTENDS Caveats

(* What a probe published; nothing when it did not apply.                  *)
Published(result, probe) ==
    LET at == FirstOf(result, probe)
    IN  IF at = 0 \/ ~result.probes[at].applicable THEN [none |-> Missing]
        ELSE result.probes[at].metrics

(* A withheld number is absent, and what stands for it does not fire.      *)
Number(result, probe, metric, default) ==
    LET published == Published(result, probe)
    IN  IF metric \in DOMAIN published /\ published[metric] # Missing
        THEN published[metric] ELSE default

Flag(result, probe, name) ==
    name \in DOMAIN Published(result, probe) /\ Published(result, probe)[name]

FailedCheck(checks, name) == \E c \in Failed(checks) : c.name = name

Offer(applies, section, probe, metric) ==
    IF applies THEN {[section |-> section, probe |-> probe, metric |-> metric]} ELSE {}

(* The sections this scan produces, and what each of them rests on.  Rates *)
(* and ratios are in percent.                                              *)
ApplicableAdvice(result, checks) ==
    LET above(probe, metric, limit) == Number(result, probe, metric, 0) > limit
    IN  Offer(above("behavior", "duplicate_mutations", 0),
              "duplicate_mutations", "behavior", "duplicate_mutations")
        \cup Offer(above("contract", "crashes", 0), "contract_crashes", "contract", "crash_rate")
        \cup Offer(above("contract", "accepted_invalid", 0),
                   "accepts_invalid", "contract", "accepted_invalid")
        \cup Offer(Number(result, "behavior", "recovery_rate", 100) < 90,
                   "poor_recovery", "behavior", "recovery_rate")
        \cup Offer(/\ Flag(result, "behavior", "caller_strategy_applicable")
                   /\ above("behavior", "retry_amplification", 200),
                   "retry_amplification", "behavior", "retry_amplification")
        \cup Offer(above("behavior", "loops_detected", 0),
                   "stuck_loops", "behavior", "loops_detected")
        \cup Offer(above("concurrency", "saturation_point", 0),
                   "saturates", "concurrency", "max_sustained_concurrency")
        \cup Offer(FailedCheck(checks, "p95_latency_ms"), "slow_p95", "latency", "p95_s")
        \cup Offer(Number(result, "latency", "tail_ratio", 0) >= 300,
                   "heavy_tail", "latency", "p99_s")
        \cup Offer(Flag(result, "cost", "bloat_detected"),
                   "prompt_bloat", "cost", "cost_per_request")
        \cup Offer(FailedCheck(checks, "cost_per_request_max"),
                   "expensive", "cost", "cost_per_request")

(* Printed in the section, before the fix.                                 *)
SectionCaveats(result, checks, advice) ==
    {c \in ResultCaveats(result, checks) : advice.metric \in SpokenFor({c})}
=============================================================================
