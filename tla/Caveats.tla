------------------------------ MODULE Caveats ------------------------------
(***************************************************************************)
(* What every probe says of its own evidence (the _caveats of each probe), *)
(* computed apart from the numbers it speaks of, and how a report collects *)
(* them (models.py ScanResult.caveats).                                    *)
(*                                                                         *)
(* A caveat is [metrics, effect]: the names it speaks of, none for the     *)
(* whole probe, and whether the number is withheld (suppress), stands but  *)
(* means less (annotate), or there is none (inapplicable, withhold).  Two  *)
(* sentences of one probe on the same metrics are one caveat here.         *)
(***************************************************************************)
EXTENDS BaselineProbes

Caveat(effect, metrics) == [metrics |-> metrics, effect |-> effect]
OfTheProbe == <<>>

When(condition, effect, metrics) ==
    IF condition THEN {Caveat(effect, metrics)} ELSE {}

(* mutant: a tail of too small a sample is withheld and not spoken of      *)
LatencyCaveats_NoTail(replies, preflight, banner) ==
    When(ErrorRate(replies) = 100, "suppress", <<"p95_s", "p99_s">>)
        \cup When(ErrorRate(replies) = 0, "annotate", <<"error_rate">>)

(* The payload was refused when it was asked directly, so a refusal was    *)
(* timed: nothing of the probe stands.                                     *)
UnusableBaselineCaveats == {Caveat("withhold", OfTheProbe)}

(* A banner on the way up is worth a look when the calls were answered.    *)
LatencyCaveats(replies, preflight, banner) ==
    IF BaselineUnusable(replies, preflight) THEN UnusableBaselineCaveats
    ELSE IF ErrorRate(replies) = 100 THEN {Caveat("suppress", <<"p95_s", "p99_s">>)}
    ELSE When(Cardinality(Successes(replies)) < P99MinSample, "suppress", <<"p99_s">>)
            \cup When(Cardinality(Successes(replies)) = Len(replies), "annotate", <<"error_rate">>)
            \cup When(banner, "annotate", OfTheProbe)

(* The ceiling is the flag's and not the server's, or the ramp was cut.    *)
ConcurrencyCaveats(ceiling, errors, preflight) ==
    LET ladder == Ladder(ceiling)
    IN  IF RampUnusable(ladder, errors, preflight) THEN UnusableBaselineCaveats
        ELSE When(\/ Saturation(ladder, errors) = Missing
                  \/ Cardinality(LevelsTested(errors)) < Len(ladder),
                  "annotate", <<"max_sustained_concurrency">>)

CostCaveats(reports, replies, pricing) ==
    IF ~reports \/ ~TokensSeen(replies) THEN {Caveat("inapplicable", OfTheProbe)}
    ELSE When(pricing = {}, "suppress", <<"cost_per_request">>)

(* How many of the listed tools were asked, and whose arguments were real. *)
CoverageCaveats(listed, covered, real) ==
    When(Len(covered) < Len(listed), "annotate", OfTheProbe)
        \cup When(real # <<>> /\ {covered[i].name : i \in DOMAIN covered} # DOMAIN real,
                  "annotate", OfTheProbe)

(* What the control calls and the refused ordinary calls take away.  How   *)
(* many errors had no known wording and how little the schemas declare     *)
(* only qualify accepted_invalid further.                                  *)
ContractCaveats(listed, covered, real, record) ==
    LET refusing == {i \in DOMAIN record : RejectsBaseline(record, record[i].tool)}
    IN  IF listed = <<>> THEN {}
        ELSE CoverageCaveats(listed, covered, real)
            \cup When(EvidenceThin(record), "suppress", <<"accepted_invalid">>)
            \cup When(record = <<>>, "suppress", <<"crash_rate", "accepted_invalid">>)
            \cup When(record # <<>> /\ ~ControlClean(record), "suppress", <<"crash_rate">>)
            \cup When(\/ refusing # {} /\ Unattributable(record) # {}
                      \/ \E i \in refusing :
                            record[i].case.kind = "extra_param" /\ record[i].case.should_reject,
                      "annotate", <<"accepted_invalid">>)

MinDisruptedToReport == 10

DisruptedOps(ops) == {i \in DOMAIN ops : Disrupted(ops[i])}

InjectedAny(ops) ==
    \E i \in DOMAIN ops : \E k \in DOMAIN ops[i].attempts : ops[i].attempts[k].injected

FaultCaveats(ops) ==
    IF ~InjectedAny(ops) THEN {Caveat("suppress", OfTheProbe)}
    ELSE IF DisruptedOps(ops) = {} THEN {Caveat("suppress", <<"recovery_rate">>)}
    ELSE When(Cardinality(DisruptedOps(ops)) < MinDisruptedToReport,
              "annotate", <<"recovery_rate">>)

-----------------------------------------------------------------------------
(* The behaviour probe.  A recovery rate from few operations stands and is *)
(* qualified; that one from many may be too, when its interval spans the   *)
(* floor, is left out.                                                     *)

Effects == <<"duplicate_mutations", "lost_effects">>

(* Five states of the oracle, each licensing a different claim.            *)
OracleCaveats(oracle) ==
    CASE oracle = "absent" -> {Caveat("suppress", <<"duplicate_mutations">>)}
      [] oracle \in {"unattributed", "stale", "failed"} -> {Caveat("suppress", Effects)}
      [] oracle = "ok" -> {Caveat("annotate", Effects)}

RecoveryCaveats(ops, baselineErrors) ==
    When(DisruptedOps(ops) = {}, "suppress", <<"recovery_rate">>)
        \cup When(/\ DisruptedOps(ops) # {} /\ baselineErrors # 100
                  /\ Cardinality(DisruptedOps(ops)) < MinDisruptedToReport,
                  "annotate", <<"recovery_rate">>)

ServiceCaveats(oracle, ops, baselineErrors, ownLoop) ==
    IF ops = <<>> THEN {}
    ELSE OracleCaveats(oracle)
        \cup RecoveryCaveats(ops, baselineErrors)
        \cup When(NothingCompleted(ops) \/ ~ownLoop, "suppress", <<"retry_amplification">>)
        \cup When(baselineErrors = 100, "suppress", <<"recovery_rate">>)

AgentEffectNames == <<"duplicate_mutations", "lost_effects", "lost_acknowledgements">>

(* An agent's effects: only from windows that were all read, and qualified *)
(* where a count is net, a run was empty, the store was not fresh, or no   *)
(* call left the agent in doubt.                                           *)
AgentEffectCaveats(e) ==
    IF e.taskStatus # {"ok"} THEN {Caveat("suppress", AgentEffectNames)}
    ELSE {Caveat("annotate", AgentEffectNames)}
            \cup When(e.undeclared \cup e.unreadable # {} \/ e.uncertain = 0,
                      "annotate", <<"duplicate_mutations">>)

(* What the agent's clock and its number of calls cannot show.  A model's  *)
(* pauses are inference and its ratio has no fixed denominator.            *)
AgentRetryCaveats(metrics, kind) ==
    LET backoff == <<"backoff_shape", "backoff_growth">>
        hinted  == <<"retry_after_honored">>
    IN  When(metrics.retry_amplification = Missing \/ kind = "llm",
             "suppress", <<"retry_amplification">>)
        \cup When(metrics.retry_after_retries > 0, "annotate", hinted)
        \cup (IF kind = "llm"
              THEN {Caveat("suppress", backoff \o hinted),
                    Caveat("suppress", <<"mean_recovery_latency", "max_recovery_latency">>)}
              ELSE When(metrics.retry_after_honored = Missing, "suppress", hinted)
                   \cup When(metrics.backoff_growth = Missing, "suppress", backoff))

(* Its recovery rate is never scored: the retry budget is its own.         *)
AgentCaveats(reading, kind) ==
    {Caveat("suppress", <<"recovery_rate">>)}
        \cup AgentEffectCaveats(reading.evidence)
        \cup AgentRetryCaveats(reading.metrics, kind)

-----------------------------------------------------------------------------
(* The whole scan's.  Two probes that say the same of the same metrics say *)
(* it once, in the words of the one the policy reads the metric from; a    *)
(* check that was skipped in silence speaks for itself.                    *)

Owner(checks, metrics) ==
    IF metrics = OfTheProbe THEN {}
    ELSE {c.probe : c \in {c \in checks : ThresholdSpecs[c.name].metric = metrics[1]}}

Speaker(result, checks, caveat) ==
    LET places == {i \in DOMAIN result.probes : caveat \in result.probes[i].caveats}
        owning == {i \in places : result.probes[i].probe \in Owner(checks, caveat.metrics)}
    IN  Min(IF owning # {} THEN owning ELSE places)

ProbeCaveats(result) == UNION {result.probes[i].caveats : i \in DOMAIN result.probes}

SpokenFor(caveats) == UNION {{c.metrics[i] : i \in DOMAIN c.metrics} : c \in caveats}

ResultCaveats(result, checks) ==
    LET said == ProbeCaveats(result)
    IN  {Joined(c, [probe |-> result.probes[Speaker(result, checks, c)].probe]) : c \in said}
        \cup {Joined(Caveat("suppress", <<ThresholdSpecs[c.name].metric>>), [probe |-> c.probe]) :
                c \in {c \in checks : c.skipped
                          /\ ThresholdSpecs[c.name].metric \notin SpokenFor(said)}}
=============================================================================
