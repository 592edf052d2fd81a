------------------------------ MODULE AgentRun ------------------------------
(***************************************************************************)
(* An agent scan from its clean pass to its verdict: the task set is run   *)
(* once with no faults and then --repeats times under a forced schedule,   *)
(* each task between two reads of the upstream's state, and what the rows  *)
(* and the windows say is measured, repeated and judged                    *)
(* (probes/agent_baseline.py run, probes/fault.py _one_chaos_run,          *)
(* probes/behavior.py run).                                                *)
(*                                                                         *)
(* The agent may do anything with the tools of its task.  A call that the  *)
(* proxy forwards writes one entry, unless the upstream honours a key it   *)
(* has already stored.  truth keeps what the store and the agent know and  *)
(* the scan can only infer.  TaskWindow says when a window holds exactly   *)
(* its task's entries; here it does.                                       *)
(***************************************************************************)
EXTENDS BehaviorProbe, FaultKinds

CONSTANTS
    Shapes,     \* what is scanned and how: see ShapeOK
    Grading     \* the policy

VARIABLES
    shape,      \* the scan's flags, its task file and its environment
    pass,       \* 0 is the clean pass, then the runs under fault
    rows,       \* the record of the task that runs
    window,     \* entries the store gained since the task's first read
    stored,     \* entries the store held at that read, none or some (Bound)
    spent,      \* keys the upstream has stored, each with the pass it was in
    tasks,      \* the tasks of this pass that have ended
    clean,      \* what the clean pass left: calls per task, whether keyed,
                \* what it applied
    runs,       \* the metrics of the runs that have ended
    report,     \* the verdict, NoReport until there is one
    refused,    \* a ProbeRefusal ended the scan
    truth       \* ghost: per run and task, what really happened

vars == <<shape, pass, rows, window, stored, spent, tasks, clean, runs, report, refused, truth>>

Stray == "stray"     \* an entry no token matches, as a rewritten retry leaves
Joint == "joint"     \* an entry that matches two tokens

(* A task that loads: one entry per effect, and each token as often as it  *)
(* is declared.                                                            *)
TaskOK(task) ==
    /\ IsFiniteSet(DOMAIN task.wanted) /\ {Stray, Joint} \cap DOMAIN task.wanted = {}
    /\ task.wanted \in [DOMAIN task.wanted -> Nat \ {0}]
    /\ task.expected = SumFunction(task.wanted)
    /\ task.declared \in BOOLEAN

ShapeOK(s) ==
    /\ s.repeats \in Nat \ {0}
    /\ Len(s.file) \in Nat \ {0} /\ DOMAIN s.file = 1..Len(s.file)
    /\ s.oracle \in {"list", "count", "absent"}
    /\ s.dedups \in BOOLEAN /\ s.waits \subseteq Nat
    /\ \A i \in DOMAIN s.file : TaskOK(s.file[i])

ASSUME ShapesAssumption == \A s \in Shapes : ShapeOK(s)

ASSUME GradingAssumption == PolicyLoads(Grading)

NoReport == [checks |-> {}, breakdown |-> <<>>, score |-> Missing, passed |-> "none"]

ReadTimeout == 3

Spec1 == shape.file[Len(tasks) + 1]

Running == ~refused /\ report = NoReport /\ Len(tasks) < Len(shape.file)

EmptyWindow(s) == [t \in DOMAIN s.wanted \cup {Stray, Joint} |-> 0]

Init ==
    /\ shape \in Shapes
    /\ pass = 0 /\ rows = <<>> /\ tasks = <<>> /\ stored = 0 /\ spent = {}
    /\ window = EmptyWindow(shape.file[1])
    /\ clean = [calls |-> <<>>, keyed |-> FALSE, applied |-> 0]
    /\ runs = <<>> /\ report = NoReport /\ refused = FALSE /\ truth = {}

-----------------------------------------------------------------------------
(* The schedule of the clean pass is empty; later ones may fault any call. *)
Faults == IF pass = 0 THEN {NoFault} ELSE {NoFault} \cup shape.faults

(* When the agent's last call let it go on: its reply, or its own read     *)
(* timeout.                                                                *)
FreeAt ==
    IF rows = <<>> THEN 0
    ELSE LET last == rows[Len(rows)]
         IN  IF last.replied = Missing THEN last.received + ReadTimeout ELSE last.replied

Row(op, key, fault, wait) ==
    LET response == ResponseTo(fault, "ok")
        at == FreeAt + wait
    IN  [op |-> op, key |-> key, fault |-> fault, wait |-> wait, ok |-> response.ok,
         received |-> at,
         replied |-> IF OnWire(response) = "silence" THEN Missing ELSE at + 1,
         hint |-> IF fault = "rate_limit" THEN 2 ELSE Missing]

(* An upstream that honours keys answers a stored one and writes nothing.  *)
Absorbed(key) == shape.dedups /\ \E p \in 0..pass : <<key, p>> \in spent

(* Absorbed for a reason that is not of this pass.                         *)
AbsorbedFromBefore(row) ==
    Forwards(row.fault) /\ shape.dedups /\ \E p \in 0..(pass - 1) : <<row.key, p>> \in spent

Call(op, key, fault, wait) ==
    /\ Running /\ Len(rows) < Spec1.calls
    /\ rows' = Append(rows, Row(op, key, fault, wait))
    /\ IF Forwards(fault) /\ ~Absorbed(key)
       THEN /\ window' = [window EXCEPT ![op] = @ + 1]
            /\ spent' = IF key = NoKey THEN spent ELSE spent \cup {<<key, pass>>}
       ELSE UNCHANGED <<window, spent>>
    /\ UNCHANGED <<shape, pass, stored, tasks, clean, runs, report, refused, truth>>

-----------------------------------------------------------------------------
(* The second read closes the window; a task with no call in its record,   *)
(* or one that was killed at its deadline, is refused.                     *)

Status(read) == IF shape.oracle = "absent" THEN "absent" ELSE IF read THEN "ok" ELSE "failed"

Outcome(claimed) == IF claimed THEN "completed" ELSE "failed"

Deposited(claimed, read) ==
    LET s == Spec1
    IN  [expected |-> s.expected, declared |-> s.declared, wanted |-> s.wanted,
         status |-> Status(read),
         before |-> IF read /\ shape.oracle # "absent" THEN stored ELSE Missing,
         effects |-> SumFunction(window),
         entries |-> shape.oracle = "list" /\ window[Joint] = 0,
         byEntry |-> [t \in DOMAIN s.wanted |-> window[t] + window[Joint]],
         unmatched |-> window[Stray],
         claimed |-> claimed, outcome |-> Outcome(claimed), rows |-> rows]

Excess(s) ==
    SumFunction([t \in DOMAIN s.wanted |-> AtLeastZero(window[t] - s.wanted[t])])
        + window[Stray] + window[Joint]

Account(claimed, read) ==
    [run |-> pass, task |-> Len(tasks) + 1, read |-> Status(read) = "ok",
     declared |-> Spec1.declared, claimed |-> claimed, excess |-> Excess(Spec1),
     twice |-> \E t \in DOMAIN Spec1.wanted : window[t] > Spec1.wanted[t],
     whole |-> \A t \in DOMAIN Spec1.wanted : window[t] >= Spec1.wanted[t],
     absorbed |-> \E i \in DOMAIN rows : AbsorbedFromBefore(rows[i]),
     calls |-> Len(rows), retried |-> Cardinality(RetriesIn(rows)),
     keyed |-> \E i \in DOMAIN rows : rows[i].key # NoKey]

TaskEnds(claimed, read) ==
    /\ Running /\ rows # <<>>
    /\ ~read => shape.flaky
    /\ tasks' = Append(tasks, Deposited(claimed, read))
    /\ truth' = truth \cup {Account(claimed, read)}
    /\ rows' = <<>>
    /\ stored' = IF \E t \in DOMAIN window : window[t] > 0 THEN 1 ELSE stored
    /\ window' = EmptyWindow(shape.file[IF Len(tasks) + 1 < Len(shape.file)
                                        THEN Len(tasks) + 2 ELSE 1])
    /\ UNCHANGED <<shape, pass, spent, clean, runs, report, refused>>

NoCallsOrAbandoned ==
    /\ Running
    /\ refused' = TRUE
    /\ UNCHANGED <<shape, pass, rows, window, stored, spent, tasks, clean, runs, report, truth>>

-----------------------------------------------------------------------------
PassOver == ~refused /\ report = NoReport /\ Len(tasks) = Len(shape.file)

(* The clean pass has to leave what the task file says, and to complete.   *)
CleanFails == \E i \in DOMAIN tasks : CleanMismatch(tasks[i]) \/ ~tasks[i].claimed

RefuseUnseen ==
    /\ PassOver /\ pass = 0 /\ CleanFails
    /\ refused' = TRUE
    /\ UNCHANGED <<shape, pass, rows, window, stored, spent, tasks, clean, runs, report, truth>>

NextPass == tasks' = <<>> /\ pass' = pass + 1

CleanPassEnds ==
    /\ PassOver /\ pass = 0 /\ ~CleanFails
    /\ clean' = [calls |-> [i \in DOMAIN tasks |-> Len(tasks[i].rows)],
                 keyed |-> CarriesKey([i \in DOMAIN tasks |-> tasks[i].rows]),
                 applied |-> SumFunction([i \in {j \in DOMAIN tasks : tasks[j].status = "ok"} |->
                                            tasks[i].effects])]
    /\ NextPass
    /\ UNCHANGED <<shape, rows, window, stored, spent, runs, report, refused, truth>>

(* Which calls of the run the schedule caught.                             *)
Placement ==
    [i \in DOMAIN tasks |-> [k \in DOMAIN tasks[i].rows |-> tasks[i].rows[k].fault]]

ThisRun == RunMetrics([tasks |-> tasks, placement |-> Placement], clean.calls)

Result(all) ==
    LET reading == AgentReading(all, shape.kind, clean.applied)
    IN  [probes |-> <<[probe |-> "behavior", applicable |-> TRUE, metrics |-> reading.metrics]>>,
         selected |-> {"agent_baseline", "fault", "behavior"},
         expected |-> {"agent_baseline", "fault", "behavior"},
         rule |-> "agent_behavior", asked |-> shape.oracle # "absent",
         evidence |-> reading.evidence]

RunEnds ==
    /\ PassOver /\ pass > 0
    /\ runs' = Append(runs, ThisRun)
    /\ report' = IF pass = shape.repeats THEN Evaluate(Result(runs'), Grading) ELSE report
    /\ NextPass
    /\ UNCHANGED <<shape, rows, window, stored, spent, clean, refused, truth>>

Next ==
    \/ \E op \in shape.ops, key \in shape.keys, fault \in Faults, wait \in shape.waits :
          op \in DOMAIN window /\ Call(op, key, fault, wait)
    \/ \E claimed, read \in BOOLEAN : TaskEnds(claimed, read)
    \/ NoCallsOrAbandoned \/ RefuseUnseen \/ CleanPassEnds \/ RunEnds

Spec == Init /\ [][Next]_vars

-----------------------------------------------------------------------------
Under_Fault == {a \in truth : a.run > 0}

FullyRead == {a \in Under_Fault : \A o \in Under_Fault : o.run = a.run => o.read}

(* What a passing scan means to its reader: in no run whose windows were   *)
(* all read did the store hold a task's write more often than the task     *)
(* file says -- however writes that never landed, rewritten retries,       *)
(* absorbed keys and the choice of a worst run fall together (behavior.py  *)
(* run, agent_metrics.effect_metrics, policy.agent_verdict_blocker).       *)
AppliedTwiceNeverPasses ==
    report.passed = "yes" => \A a \in FullyRead : ~a.twice

(* "A netted count can only be short, never over" (agent_metrics.py): no   *)
(* run reports more duplicates than its tasks left in the store.           *)
DuplicatesNeverOverstated ==
    \A i \in DOMAIN runs :
        runs[i].duplicate_mutations
            <= SumFunction([a \in {a \in truth : a.run = i} |-> a.excess])

(* A plain PASS -- not PASS, UNRECONCILED -- means that in every run that  *)
(* was read a declared task that says it succeeded left every entry it     *)
(* declared (policy.unreconciled_readings, behavior.py run).               *)
PlainPassDelivered ==
    /\ report.passed = "yes"
    /\ ~UnreconciledReadings(Result(runs), report)
    => \A a \in Under_Fault : a.read /\ a.declared /\ a.claimed => a.whole

(* Over every run each call that repeated an operation is in one bucket of *)
(* retry_keys, and the reading is missing only when no call of the scan,   *)
(* the clean pass included, carried a key (behavior.py run, 1.9.0).        *)
RetriesAllCounted ==
    report # NoReport =>
        LET read == RetryKeys(runs, clean.keyed)
        IN  /\ (read = {}) <=> ~\E a \in truth : a.keyed
            /\ \A k \in read : k["kept"] + k["changed"] + k["no_key"]
                                 = SumFunction([a \in Under_Fault |-> a.retried])

(* A call that was absorbed because of what an earlier pass stored makes   *)
(* a run's counts low for a reason that is not the agent's care; where its *)
(* window was read the reading says that the store was not fresh           *)
(* (behavior.py _baseline_state_carryover: "the baseline's writes are an   *)
(* input to every run after it").                                          *)
AbsorbedIsSpokenFor ==
    report # NoReport =>
        \A a \in Under_Fault : a.read /\ a.absorbed =>
            a.task \in AgentReading(runs, shape.kind, clean.applied).evidence.carried

(* The shape of the backoff is the agent's: one that never waits shorter   *)
(* after a failure it was told of is not read as shrinking, one that never *)
(* waits longer not as growing, whatever replies were lost between and     *)
(* whatever waits the server asked for (agent_metrics.timing_metrics).     *)
OwnWaits ==
    {i \in 2..Len(rows) :
        /\ ~rows[i - 1].ok /\ rows[i - 1].replied # Missing /\ rows[i - 1].hint = Missing
        /\ rows[i].wait > 0}

BackoffIsTheAgents ==
    (\A i, j \in DOMAIN rows : rows[i].op = rows[j].op /\ rows[i].key = rows[j].key) =>
        LET read == BackoffShape([t \in {1} |-> rows])
        IN  /\ (\A i, j \in OwnWaits : i < j => rows[i].wait <= rows[j].wait)
                  => read # "shrinking"
            /\ (\A i, j \in OwnWaits : i < j => rows[i].wait >= rows[j].wait)
                  => read # "growing"

(* behavior.py:479: "A duplicate that happened in one run of five is a     *)
(* duplicate whichever group it landed in", and policy.py:611, of what a   *)
(* verdict needs: "Every task's oracle read succeeded."  A duplicate that  *)
(* was read in any run keeps a scan from passing.                          *)
DuplicateInOneRunCounts ==
    report.passed = "yes" => \A a \in Under_Fault : a.read => ~a.twice
=============================================================================
