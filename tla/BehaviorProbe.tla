--------------------------- MODULE BehaviorProbe ---------------------------
(***************************************************************************)
(* The behaviour probe (probes/behavior.py, probes/repeats.py): many runs  *)
(* of an agent's task set, or one chaos pass against a service, become the *)
(* metrics a policy scores and the evidence a verdict needs.               *)
(*                                                                         *)
(* A run of an agent is [tasks, placement]: its tasks as AgentEffects      *)
(* describes them and which of its calls were faulted.                     *)
(***************************************************************************)
EXTENDS AgentEffects

RowsOf(run) == [t \in DOMAIN run.tasks |-> run.tasks[t].rows]

(* Two sets of metrics read as one.                                        *)
Joined(r, s) == [k \in DOMAIN r \cup DOMAIN s |-> IF k \in DOMAIN r THEN r[k] ELSE s[k]]

(* _agent_run_metrics, with where the run's faults landed beside it.       *)
RunMetrics(run, clean) ==
    Joined(Joined(EffectMetrics(run.tasks), Amplification(run.tasks, clean)),
           Joined(TimingMetrics(RowsOf(run)),
           [uncertain_tasks |-> Cardinality(UncertainTasks(run.tasks)),
            retry_keys |-> RetryKeyCounts(RowsOf(run)), keyed |-> CarriesKey(RowsOf(run)),
            max_recovery_latency |-> MaxRecoveryLatency(RowsOf(run)),
            opened_on_state |-> {t \in DOMAIN run.tasks : run.tasks[t].before > 0},
            nothing_completed |->
                \A s \in TrajectoriesOf(RowsOf(run)) : ~s[2][Len(s[2])].ok,
            placement |-> run.placement]))

RepeatedMetrics ==
    {"duplicate_mutations", "lost_effects", "unsupported_claims", "lost_acknowledgements",
     "uncertain_tasks", "retry_amplification", "calls_under_fault", "missing_writes",
     "partially_applied_tasks"}

(* Which way is worse, from the thresholds the policy scores.              *)
Directions ==
    [metric \in {ThresholdSpecs[t].metric : t \in DOMAIN ThresholdSpecs} |->
        ThresholdSpecs[CHOOSE t \in DOMAIN ThresholdSpecs :
                          ThresholdSpecs[t].metric = metric].direction]

MeasuredRuns(runs, metric) == {i \in DOMAIN runs : runs[i][metric] # Missing}

(* The worst observed run: only where a direction says what worse is.      *)
Worst(runs, metric) ==
    LET seen == {runs[i][metric] : i \in MeasuredRuns(runs, metric)}
    IN  IF seen = {} \/ metric \notin DOMAIN Directions THEN Missing
        ELSE IF Directions[metric] = "max" THEN Max(seen) ELSE Min(seen)

(* Runs that faulted the same calls share a range; others are told apart.  *)
Groups(runs) ==
    {{i \in DOMAIN runs : runs[i].placement = p} : p \in {runs[i].placement : i \in DOMAIN runs}}

(* The run the trajectory metrics describe: the one with most duplicates,  *)
(* the earliest of those.  A run that withheld its count never wins.       *)
WorstRun(runs) ==
    LET seen == MeasuredRuns(runs, "duplicate_mutations")
        top  == {i \in seen : \A j \in seen :
                    runs[j].duplicate_mutations <= runs[i].duplicate_mutations}
    IN  IF seen = {} THEN 1 ELSE Min(top)

(* A metric withheld for the chosen run stays withheld.                    *)
Rescored(runs, chosen, metric) ==
    IF Len(runs) = 1 \/ chosen[metric] = Missing THEN chosen[metric]
    ELSE IF Worst(runs, metric) # Missing THEN Worst(runs, metric) ELSE chosen[metric]

(* Against a model the ratio's denominator is a random variable, and the   *)
(* time between two calls is thinking.                                     *)
LlmWithheld == {"retry_amplification", "backoff_growth", "retry_after_honored",
                "retry_after_honored_count", "max_recovery_latency"}

Withholds(kind, metric) == kind = "llm" /\ metric \in LlmWithheld

(* The runs in which any reading of what was claimed disagrees with what   *)
(* was applied, whichever run is described.                                *)
Unreconciled(runs) ==
    {i \in UNION Groups(runs) :
        runs[i].lost_acknowledgements > 0 \/ runs[i].unsupported_claims > 0}

(* retry_keys: summed, never averaged; not read only when no call of the   *)
(* whole scan, its clean pass included, carried a key.                     *)
RetryKeys_RunsOnly(runs, cleanKeyed) ==                          \* mutant
    IF \A i \in DOMAIN runs : ~runs[i].keyed THEN {}
    ELSE {[b \in {"kept", "changed", "no_key"} |->
              SumFunction([i \in DOMAIN runs |-> runs[i].retry_keys[b]])]}

RetryKeys(runs, cleanKeyed) ==
    IF ~cleanKeyed /\ \A i \in DOMAIN runs : ~runs[i].keyed THEN {}
    ELSE {[b \in {"kept", "changed", "no_key"} |->
              SumFunction([i \in DOMAIN runs |-> runs[i].retry_keys[b]])]}

(* The tasks whose window, in some run, opened on a store that already     *)
(* held something, when the clean pass had applied something to it: an     *)
(* upstream that absorbs a repeated key absorbs it across runs.            *)
CarriedOver_Repeats(runs, applied) ==                            \* mutant
    IF applied <= 0 \/ Len(runs) = 1 THEN {}
    ELSE UNION {runs[i].opened_on_state : i \in DOMAIN runs}

CarriedOver(runs, applied) ==
    IF applied <= 0 THEN {} ELSE UNION {runs[i].opened_on_state : i \in DOMAIN runs}

(* BehaviorAnalyzer.run for an agent target.  No recovery rate is scored:  *)
(* the retry budget it would be compared with is the agent's own.          *)
AgentReading(runs, kind, applied) ==
    LET chosen == runs[WorstRun(runs)]
        shown(metric) ==
            IF Withholds(kind, metric)
               \/ (metric = "retry_amplification" /\ chosen.nothing_completed)
            THEN Missing ELSE Rescored(runs, chosen, metric)
    IN  [applicable |-> TRUE,
         metrics |-> [duplicate_mutations |-> shown("duplicate_mutations"),
                      retry_amplification |-> shown("retry_amplification"),
                      lost_effects |-> shown("lost_effects"),
                      lost_acknowledgements |-> shown("lost_acknowledgements"),
                      recovery_rate |-> Missing, recovery_floor |-> Missing,
                      backoff_growth |-> shown("backoff_growth"),
                      retry_after_retries |-> shown("retry_after_retries"),
                      retry_after_honored |-> shown("retry_after_honored"),
                      max_recovery_latency |-> shown("max_recovery_latency"),
                      caller_strategy_applicable |-> TRUE],
         evidence |->
            [oracle |-> "none",
             taskStatus |-> chosen.task_oracle_status,
             uncertain |-> chosen.uncertain_tasks,
             appliedNothing |-> Cardinality({i \in DOMAIN runs : runs[i].nothing_applied}),
             undeclared |-> chosen.undeclared,
             unreadable |-> UNION {runs[i].unreadable : i \in DOMAIN runs},
             unreconciled |-> Cardinality(Unreconciled(runs)),
             carried |-> CarriedOver(runs, applied)]]

-----------------------------------------------------------------------------
(* The service path.  An operation of the chaos pass is                    *)
(* [attempts, effects]: how each of its attempts ended, for the caller and *)
(* for the target, and what the oracle counted for its id.                 *)

Disrupted(op) == ~op.attempts[1].ok
RecoveredOp(op) == Disrupted(op) /\ \E i \in DOMAIN op.attempts : op.attempts[i].ok
FailedOp(op) == ~op.attempts[Len(op.attempts)].ok

(* _analyze; rates are in percent.                                         *)
RecoveryRate(ops) ==
    LET disrupted == {i \in DOMAIN ops : Disrupted(ops[i])}
    IN  IF disrupted = {} THEN Missing
        ELSE (100 * Cardinality({i \in disrupted : RecoveredOp(ops[i])}))
                 \div Cardinality(disrupted)

NothingCompleted(ops) == \A i \in DOMAIN ops : FailedOp(ops[i])

(* Three attempts or more, and it never came back.                         *)
LoopsDetected(ops) ==
    Cardinality({i \in DOMAIN ops : Len(ops[i].attempts) >= 3 /\ ~RecoveredOp(ops[i])})

OpAmplification(ops) ==
    (100 * SumFunction([i \in DOMAIN ops |-> Len(ops[i].attempts)])) \div Len(ops)

(* _effect_metrics: every registered operation's excess counts, whatever   *)
(* the proxy could confirm of it.                                          *)
ServiceDuplicates(oracle, ops) ==
    IF oracle # "ok" THEN Missing
    ELSE SumFunction([i \in DOMAIN ops |-> AtLeastZero(ops[i].effects - 1)])

ServiceLost(oracle, ops) ==
    IF oracle # "ok" THEN Missing
    ELSE Cardinality({i \in DOMAIN ops :
            ops[i].effects = 0 /\ \E k \in DOMAIN ops[i].attempts : ops[i].attempts[k].ok})

(* What the injector alone would do to a target that never fails, in       *)
(* percent, for a fault rate in percent.                                   *)
RecoveryFloor(rate, retries) ==
    IF retries = 0 THEN 0 ELSE 100 - (rate ^ retries) \div (100 ^ (retries - 1))

Inapplicable(evidence) == [applicable |-> FALSE, metrics |-> <<>>, evidence |-> evidence]

NoEvidence ==
    [oracle |-> "none", taskStatus |-> {}, uncertain |-> 0, appliedNothing |-> 0,
     undeclared |-> {}, unreadable |-> {}, unreconciled |-> 0,
     carried |-> {}]

(* BehaviorAnalyzer.run for a service.  Recovery means nothing when every  *)
(* clean request failed, and the retry loop is the scan's own, so its      *)
(* shape is never scored.                                                  *)
ServiceReading(oracle, ops, baselineErrors, faultRate, retries, ownLoop) ==
    IF ops = <<>> THEN Inapplicable(NoEvidence)
    ELSE
    [applicable |-> TRUE,
     metrics |->
        [recovery_rate |-> IF baselineErrors = 100 THEN Missing ELSE RecoveryRate(ops),
         recovery_floor |-> RecoveryFloor(faultRate, retries),
         retry_amplification |->
            IF ~ownLoop \/ NothingCompleted(ops) THEN Missing ELSE OpAmplification(ops),
         duplicate_mutations |-> ServiceDuplicates(oracle, ops),
         lost_effects |-> ServiceLost(oracle, ops),
         loops_detected |-> LoopsDetected(ops),
         caller_strategy_applicable |-> ownLoop],
     evidence |-> [NoEvidence EXCEPT !.oracle = oracle]]
=============================================================================
