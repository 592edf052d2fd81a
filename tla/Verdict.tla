------------------------------ MODULE Verdict ------------------------------
(***************************************************************************)
(* From the command line to an exit code (cli.py scan and ci, models.py    *)
(* ScanResult, outputs/common.py verdict_lines).  A command is refused as  *)
(* usage, or its target refuses, or its probes report one after another,   *)
(* the policy scores what came back, and three places then say what the    *)
(* scan means: passed, the two lines a reader sees, and the exit code.     *)
(*                                                                         *)
(* The probes of a service scan measure a server that has properties of    *)
(* its own, which the scan can only infer: whether it takes the payload at *)
(* all, which malformed calls it lets through or dies of, when its session *)
(* ends, what its state oracle is worth.  BaselineProbes and BehaviorProbe *)
(* turn what it did into readings, Caveats into what is said of them, and  *)
(* AgentsGuide into sections.  An agent's readings are given: AgentRun is  *)
(* where they come from.                                                   *)
(***************************************************************************)
EXTENDS AgentsGuide

CONSTANTS
    Options,            \* command lines, see UsageError for the fields
    Servers(_),         \* the servers a command line may meet, see ServerOK
    AgentReadings,      \* what the behaviour probe may say of an agent, and
                        \* of which kind of agent: [reading, kind]
    Policies            \* policy files that load

MetricValue == Nat \cup {Missing}

ReplyOK == [ok : BOOLEAN, ms : Nat, tokens_in : MetricValue, tokens_out : MetricValue]

(* An operation is tried until it succeeds once.                           *)
OperationOK ==
    {op \in [attempts : Seq([ok : BOOLEAN, injected : BOOLEAN]), effects : Nat] :
        /\ op.attempts # <<>>
        /\ \A k \in 1..(Len(op.attempts) - 1) : ~op.attempts[k].ok}

(* A server that refuses every call was seen to refuse, or did not answer. *)
ServerOK(s) ==
    /\ s.tools \in Seq(Range(s.tools))
    /\ \A i \in DOMAIN s.tools :
          IsFiniteSet(s.tools[i].required) /\ IsFiniteSet(DOMAIN s.tools[i].fields)
    /\ s.replies \subseteq Seq(ReplyOK)
    /\ \A e \in s.ramps : e \in Seq(0..100) /\ Len(e) <= Len(Ladder(4))
    /\ s.chaos \subseteq Seq(OperationOK)
    /\ s.pricing \subseteq Nat \X Nat /\ s.dies \in Nat
    /\ s.oracle \in {"absent", "unattributed", "stale", "failed", "ok"}
    /\ s.preflight \in {"ok", "refused", "none"}
    /\ s.rejects => s.preflight # "ok"
    /\ s.lax \cup s.fragile \subseteq
          {"null_required", "wrong_type", "empty_string", "very_long_string",
           "out_of_range", "missing_required", "missing_all_required", "extra_param"}

(* What a caveat says is withheld is.                                      *)
Honest(metrics, caveats) ==
    \A c \in caveats :
        c.effect = "suppress" =>
            \A k \in DOMAIN c.metrics : Metric([metrics |-> metrics], c.metrics[k]) = Missing

(* A reading of an agent as AgentReading makes them.                       *)
AgentReadingOK(r) ==
    /\ {"oracle", "taskStatus"} \subseteq DOMAIN r.reading.evidence
    /\ \A name \in {ThresholdSpecs[t].metric : t \in DOMAIN ThresholdSpecs} \cup {"recovery_floor"} :
          Metric(r.reading, name) \in MetricValue
    /\ Honest(r.reading.metrics, AgentCaveats(r.reading, r.kind))

ASSUME VerdictAssumption ==
    /\ \A p \in Policies : PolicyLoads(p)
    /\ \A o \in Options : o.probes \in Seq(STRING)
    /\ \A o \in Options : \A s \in Servers(o) : ServerOK(s)
    /\ \A r \in AgentReadings : AgentReadingOK(r)

VARIABLES
    opts,     \* the command line
    policy,
    server,   \* what is scanned
    stage,    \* parse, running, scoring, reporting, done
    todo,     \* the probes still to run, in order
    result,   \* what came back so far
    report,   \* what evaluate made of it
    exit,     \* the process's exit code, NoExit while it runs
    wrote,    \* what --json-out holds: nothing, scan, refusal
    accepted  \* ghost: some call of the scan was accepted

vars == <<opts, policy, server, stage, todo, result, report, exit, wrote, accepted>>

NoExit == 9

Phases == <<"baseline", "chaos", "behavior">>

DefaultProbes == <<"latency", "cost", "concurrency", "contract", "fault", "behavior">>
AgentProbes == <<"agent_baseline", "fault", "behavior">>
ServiceOnlyProbes == {"latency", "cost", "concurrency", "contract"}
Registered == ServiceOnlyProbes \cup {"agent_baseline", "fault", "behavior"}

PhaseOf(probe) ==
    CASE probe = "fault" -> "chaos" [] probe = "behavior" -> "behavior" [] OTHER -> "baseline"

NoReport == [checks |-> {}, breakdown |-> <<>>, score |-> Missing, passed |-> "none"]

RuleOf(o) == IF o.target = "agent" THEN "agent_behavior" ELSE "service"

(* --repeats has to fit the deadline when one was set: one clean pass and  *)
(* one per repeat, each task at its own timeout.                           *)
RepeatsFit(o) ==
    o.repeats > 1 /\ o.scan_timeout > 0
        => o.timeout * o.tasks * (o.repeats + 1) <= o.scan_timeout

(* Flags that do not go together, a probe nobody registered.  Refused,     *)
(* never ignored.                                                          *)
UsageError(o) ==
    \/ ~o.wellformed
    \/ \E i \in DOMAIN o.probes : o.probes[i] \notin Registered
    \/ o.target # "agent" /\ (o.agent_only \/ o.verify_command)
    \/ /\ o.target = "agent"
       /\ \/ o.verify_command /\ (o.verify_tool \/ o.verify_args)
          \/ ~RepeatsFit(o)
          \/ \E i \in DOMAIN o.probes : o.probes[i] \in ServiceOnlyProbes

(* The probe set: named, or the default of the kind of target.             *)
ResolveProbes(o) ==
    IF o.probes # <<>> THEN o.probes
    ELSE IF o.target = "agent" THEN AgentProbes ELSE DefaultProbes

InPhase(probes, phase) ==
    FlattenSeq([i \in DOMAIN probes |->
        IF PhaseOf(probes[i]) = phase THEN <<probes[i]>> ELSE <<>>])

(* Phases run in pipeline order, and inside one the probes as they were    *)
(* named.                                                                  *)
RunOrder(o) ==
    LET chosen(phase) ==
            IF phase \in o.phases THEN InPhase(ResolveProbes(o), phase) ELSE <<>>
    IN  chosen(Phases[1]) \o chosen(Phases[2]) \o chosen(Phases[3])

Init ==
    /\ opts \in Options
    /\ policy \in Policies
    /\ server \in Servers(opts)
    /\ stage = "parse" /\ todo = <<>>
    /\ result = [probes |-> <<>>, selected |-> {}, expected |-> {}, rule |-> RuleOf(opts), ops |-> <<>>,
                 asked |-> opts.verify_tool \/ opts.verify_command, evidence |-> NoEvidence]
    /\ report = NoReport /\ exit = NoExit /\ wrote = "nothing"
    /\ accepted = (server.preflight = "ok")

Exit(code) == stage' = "done" /\ exit' = code

RefuseUsage ==
    /\ stage = "parse" /\ UsageError(opts)
    /\ Exit(2)
    /\ UNCHANGED <<opts, policy, server, accepted, todo, result, report, wrote>>

Start ==
    /\ stage = "parse" /\ ~UsageError(opts)
    /\ stage' = "setup"
    /\ todo' = RunOrder(opts)
    /\ LET names(s) == {s[i] : i \in DOMAIN s}
       IN  result' = [result EXCEPT !.selected = names(ResolveProbes(opts)),
                                    !.expected = names(RunOrder(opts))]
    /\ UNCHANGED <<opts, policy, server, accepted, report, exit, wrote>>

(* A TargetError: a setup that refuses, a ProbeRefusal, the scan's own     *)
(* deadline.  The scan never completed, and the record says only that.     *)
Refuse == Exit(2) /\ wrote' = IF opts.json THEN "refusal" ELSE wrote

TargetRefuses ==
    /\ stage \in {"setup", "running"}
    /\ Refuse
    /\ UNCHANGED <<opts, policy, server, accepted, todo, result, report>>

BaselineDependent == {"latency", "concurrency", "fault", "behavior"}

UnusableBaseline_NoAnswer ==                                     \* mutant
    result.rule = "service" /\ server.preflight = "none" /\ ~opts.tool_args

(* Refused, with arguments nobody vouched for: every probe that depends on *)
(* them would measure the refusal.                                         *)
UnusableBaseline ==
    /\ result.rule = "service"
    /\ server.preflight = "refused" /\ ~opts.tool_args
    /\ result.selected \cap BaselineDependent # {}

RefuseUnusableBaseline ==
    /\ stage = "setup" /\ UnusableBaseline
    /\ Refuse
    /\ UNCHANGED <<opts, policy, server, accepted, todo, result, report>>

SetUp ==
    /\ stage = "setup" /\ ~UnusableBaseline
    /\ stage' = "running"
    /\ UNCHANGED <<opts, policy, server, accepted, todo, result, report, exit, wrote>>

(* Anything else that escapes: main turns it into exit 2, and no record.   *)
Escapes ==
    /\ stage = "running"
    /\ Exit(2)
    /\ UNCHANGED <<opts, policy, server, accepted, todo, result, report, wrote>>

-----------------------------------------------------------------------------
(* The server's answers.                                                   *)

(* A malformed call, or the ordinary one before it: calls alternate, and   *)
(* from call number dies on nothing comes back.                            *)
Dead(call) == server.dies # 0 /\ call >= server.dies

Outcome(question, call) ==
    IF Dead(call) \/ question.case.kind \in server.fragile THEN "crashed"
    ELSE IF \/ question.case.should_reject /\ question.case.kind \notin server.lax
            \/ server.rejects /\ question.carries
    THEN "rejected" ELSE "accepted"

ContractRecord ==
    LET covered == Covered(server.tools, 3, opts.allow_mutating)
        asked   == Questions(covered, server.real)
    IN  [i \in DOMAIN asked |->
            [tool |-> asked[i].tool, required |-> asked[i].required,
             case |-> asked[i].case, carries |-> asked[i].carries,
             control |-> IF Dead(2 * i - 1) THEN "crashed"
                         ELSE IF server.rejects THEN "rejected" ELSE "accepted",
             outcome |-> Outcome(asked[i], 2 * i)]]

AnyAccepted(record) ==
    \E i \in DOMAIN record : "accepted" \in {record[i].control, record[i].outcome}

(* The error rate the latency probe left for the behaviour probe.          *)
BaselineErrors ==
    LET at == FirstOf(result, "latency")
    IN  IF at = 0 THEN Missing ELSE Metric(result.probes[at], "error_rate")

(* What one probe brings back: its reading, its caveats, whether one of    *)
(* its calls was accepted, and the operations it leaves for a later probe. *)
Sample(reading, caveats, ok) ==
    [reading |-> reading, caveats |-> caveats, ok |-> ok, ops |-> <<>>]

(* The oracle says nothing when it was not asked for.                      *)
OracleSaid == IF result.asked THEN server.oracle ELSE "absent"

(* What each probe may find.  A server that refuses the payload refuses it *)
(* for every probe that sends it.                                          *)
LatencySamples ==
    {Sample(LatencyReading(r, server.preflight),
            LatencyCaveats(r, server.preflight, server.banner), Successes(r) # {}) :
        r \in {r \in server.replies : server.rejects => Successes(r) = {}}}

ConcurrencySamples ==
    {Sample(ConcurrencyReading(4, e, server.preflight),
            ConcurrencyCaveats(4, e, server.preflight), \E i \in DOMAIN e : e[i] < 100) :
        e \in {e \in server.ramps : server.rejects => \A i \in DOMAIN e : e[i] = 100}}

CostSamples ==
    {Sample(CostReading(server.tokens, r, server.pricing),
            CostCaveats(server.tokens, r, server.pricing), FALSE) : r \in server.replies}

ContractSamples ==
    {Sample(ContractReading(server.tools, ContractRecord),
            ContractCaveats(server.tools, Covered(server.tools, 3, opts.allow_mutating),
                            server.real, ContractRecord),
            AnyAccepted(ContractRecord))}

(* The chaos pass: the operations it retried are left for the next phase.  *)
FaultSamples ==
    {[Sample(FaultReading(ops), FaultCaveats(ops), ~NothingCompleted(ops)) EXCEPT !.ops = ops] :
        ops \in {ops \in server.chaos : server.rejects => NothingCompleted(ops)}}

BehaviorSamples ==
    {Sample(ServiceReading(OracleSaid, result.ops, BaselineErrors, 20, 2, FALSE),
            ServiceCaveats(OracleSaid, result.ops, BaselineErrors, FALSE), FALSE)}

(* Probe.execute: a probe that raises becomes an inapplicable result that  *)
(* carries no metric, so the scan keeps its other numbers.                 *)
Contained == Sample(Inapplicable(NoEvidence), {}, FALSE)

(* The agent's own baseline has nothing to do against a service.           *)
ServiceSamples(probe) ==
    CASE probe = "latency"     -> LatencySamples
      [] probe = "concurrency" -> ConcurrencySamples
      [] probe = "cost"        -> CostSamples
      [] probe = "contract"    -> ContractSamples
      [] probe = "fault"       -> FaultSamples
      [] probe = "behavior"    -> BehaviorSamples
      [] probe = "agent_baseline" -> {Contained}

(* The behaviour probe reads what the fault probe left, if it left it.     *)
NothingToAnalyse ==
    LET at == FirstOf(result, "fault")
    IN  at = 0 \/ ~result.probes[at].applicable

Samples(probe) ==
    IF probe = "behavior" /\ NothingToAnalyse THEN {Contained}
    ELSE IF result.rule = "service" THEN ServiceSamples(probe)
    ELSE IF probe = "behavior"
         THEN {Sample(r.reading, AgentCaveats(r.reading, r.kind), TRUE) : r \in AgentReadings}
    ELSE {Sample(Reading(TRUE, <<>>), {}, FALSE)}

ProbeReports ==
    /\ stage = "running" /\ todo # <<>>
    /\ \E s \in Samples(Head(todo)) \cup {Contained} :
          /\ result' = [result EXCEPT
                !.probes = Append(@, [probe |-> Head(todo), applicable |-> s.reading.applicable,
                                      metrics |-> s.reading.metrics, caveats |-> s.caveats]),
                !.ops = IF Head(todo) = "fault" THEN s.ops ELSE @,
                !.evidence = IF Head(todo) = "behavior" THEN s.reading.evidence ELSE @]
          /\ accepted' = (accepted \/ s.ok)
    /\ todo' = Tail(todo)
    /\ stage' = IF Len(todo) = 1 THEN "scoring" ELSE stage
    /\ UNCHANGED <<opts, policy, server, report, exit, wrote>>

(* No active phase runs any selected probe.                                *)
NothingToRun ==
    /\ stage = "running" /\ todo = <<>>
    /\ stage' = "scoring"
    /\ UNCHANGED <<opts, policy, server, accepted, todo, result, report, exit, wrote>>

Score ==
    /\ stage = "scoring"
    /\ stage' = "reporting"
    /\ report' = Evaluate(result, policy)
    /\ UNCHANGED <<opts, policy, server, accepted, todo, result, exit, wrote>>

(* The first of the verdict lines of the scorecard and of the reports.     *)
Headline ==
    IF report.score = Missing THEN "NO SCORE"
    ELSE IF AgentVerdictBlocker(result, report.breakdown) # "none" THEN "NO VERDICT"
    ELSE IF VerifyNotMeasured(result) THEN "NOT MEASURED"
    ELSE IF report.passed = "none" THEN "NO VERDICT"
    ELSE IF UnreconciledReadings(result, report) THEN "PASS, UNRECONCILED"
    ELSE IF report.passed = "yes" THEN "PASS" ELSE "FAIL"

CiCode_ScoreOnly ==                                              \* mutant
    IF report.score = Missing THEN 1
    ELSE IF VerifyNotMeasured(result) THEN 2
    ELSE IF report.score >= policy.pass_score THEN 0 ELSE 1

(* The code ci ends with.                                                  *)
CiCode ==
    IF report.score = Missing THEN 1
    ELSE IF AgentVerdictBlocker(result, report.breakdown) # "none"
              \/ VerifyNotMeasured(result) THEN 2
    ELSE IF report.passed = "yes" THEN 0 ELSE 1

(* The record is written on the way to a verdict, and for an agent scan    *)
(* without one; not for a missing score or an unmeasured oracle.           *)
CiWrites ==
    /\ opts.json
    /\ report.score # Missing
    /\ AgentVerdictBlocker(result, report.breakdown) # "none" \/ ~VerifyNotMeasured(result)

CiExits ==
    /\ stage = "reporting" /\ opts.command = "ci"
    /\ Exit(CiCode)
    /\ wrote' = IF CiWrites THEN "scan" ELSE wrote
    /\ UNCHANGED <<opts, policy, server, accepted, todo, result, report>>

(* Only ci turns a verdict into an exit code.                              *)
ScanExits ==
    /\ stage = "reporting" /\ opts.command = "scan"
    /\ Exit(0)
    /\ wrote' = IF opts.json THEN "scan" ELSE wrote
    /\ UNCHANGED <<opts, policy, server, accepted, todo, result, report>>

Next ==
    \/ RefuseUsage \/ Start
    \/ TargetRefuses \/ RefuseUnusableBaseline \/ SetUp \/ Escapes
    \/ ProbeReports \/ NothingToRun
    \/ Score \/ CiExits \/ ScanExits

Spec == Init /\ [][Next]_vars

-----------------------------------------------------------------------------
(* The same scan with one metric of one result measured one worse.         *)
Worse(r, at, name) ==
    LET spec == ThresholdSpecs[name]
        seen == Metric(r.probes[at], spec.metric)
    IN  [r EXCEPT !.probes[at].metrics[spec.metric] =
            IF spec.direction = "min" THEN seen - 1 ELSE seen + 1]

(* A measured metric has a worse value, unless more is better and it is    *)
(* already zero.                                                           *)
CanWorsen(r, at, spec) ==
    LET seen == Observed(r, at, spec)
    IN  seen # Missing /\ (spec.direction = "min" => seen > 0)

Rank(passed) == [no |-> 0, none |-> 1, yes |-> 2][passed]

(* A worse measurement never helps: whatever else the scan measured, no    *)
(* score rises and no verdict improves when one metric gets worse, its     *)
(* first failure included, through the curve, the mean, the weights and    *)
(* the two caps (policy.py _score_value, _weighted_score, _apply_caps).    *)
WorseNeverHelps ==
    stage = "reporting" =>
        \A name \in Specs(policy) :
            LET spec == ThresholdSpecs[name]
                at   == LastOf(result, spec.probe)
            IN  CanWorsen(result, at, spec) =>
                    LET worse == Evaluate(Worse(result, at, name), policy)
                    IN  /\ worse.score <= report.score
                        /\ Rank(worse.passed) <= Rank(report.passed)

(* The three places agree: ci is green exactly when the verdict line says  *)
(* PASS, exit 2 is never said of a scan whose line says PASS or FAIL, and  *)
(* a green scan has its record when one was asked for                      *)
(* (cli.py ci, outputs/common.py verdict_lines).                           *)
ExitAgreesWithHeadline ==
    stage = "done" /\ report # NoReport /\ opts.command = "ci" =>
        /\ (exit = 0) <=> (Headline \in {"PASS", "PASS, UNRECONCILED"})
        /\ exit = 2 => Headline \in {"NO VERDICT", "NOT MEASURED"}
        /\ exit = 0 /\ opts.json => wrote = "scan"

(* The same scan, had its oracle not read what it read.                    *)
Unread(r, at, status) ==
    LET e == r.evidence
    IN  [r EXCEPT !.probes[at].metrics["duplicate_mutations"] = Missing,
                  !.evidence = IF r.rule = "service" THEN [e EXCEPT !.oracle = status]
                               ELSE [e EXCEPT !.taskStatus = e.taskStatus \cup {status}]]

(* A duplicate is not got rid of by not reading it: a scan that was asked  *)
(* to look and counted duplicates would not have passed with its oracle    *)
(* stale or failed, though the withheld metric takes its check, its share  *)
(* of the score and its cap with it (policy.py evaluate,                   *)
(* verify_not_measured, _coverage_is_enough, agent_verdict_blocker).       *)
UnreadDuplicatesNeverPass ==
    stage = "reporting" /\ result.asked =>
        LET at == FirstOf(result, "behavior")
        IN  at # 0 =>
            (Metric(result.probes[at], "duplicate_mutations") > 0 =>
                \A status \in {"stale", "failed"} :
                    Evaluate(Unread(result, at, status), policy).passed # "yes")

(* A tool that validates what its schema declares and survives what it is  *)
(* sent fails no contract check, whether or not it takes the arguments the *)
(* scan made up for it, and wherever its session ends -- but for a session *)
(* that ends in the last malformed call of all, after which no ordinary    *)
(* call is sent (contract.py _compute_metrics, Control.clean).             *)
HonestToolNotBlamed ==
    /\ result.rule = "service" /\ server.lax = {} /\ server.fragile = {}
    /\ server.dies # 2 * Len(ContractRecord)
    => \A c \in Failed(report.checks) : c.probe # "contract"

(* A scan of a server that took none of its calls does not pass on what    *)
(* the scan made up for it (scanner.py _refuse_unusable_baseline): the     *)
(* probes that measured the refusal withhold, and what is left, cases that *)
(* replace the refused argument and a duplicate count over nothing, would  *)
(* be a perfect score.  With --tool-args the scan goes on.                 *)
NothingAcceptedNeverPasses ==
    report.passed = "yes" /\ ~opts.tool_args => accepted

(* A caveat that says its metric is withheld and the number it speaks of   *)
(* are computed apart; the number is withheld (probes/*.py _caveats;       *)
(* docs/API-STABILITY.md:86-88, "a suppressed metric is `None`").          *)
SuppressedIsNone ==
    \A i \in DOMAIN result.probes :
        Honest(result.probes[i].metrics, result.probes[i].caveats)

(* A section of the guide that rests on a metric its scan withheld says so *)
(* before the fix (agents_md.py _section_caveats): the counts that open a  *)
(* section are not always the ones that are scored.                        *)
GuideNeverBare ==
    stage = "reporting" =>
        \A advice \in ApplicableAdvice(result, report.checks) :
            Number(result, advice.probe, advice.metric, Missing) = Missing =>
                \E c \in SectionCaveats(result, report.checks, advice) : c.effect = "suppress"
=============================================================================
