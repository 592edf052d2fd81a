---------------------------- MODULE AgentEffects ----------------------------
(***************************************************************************)
(* What a scan concludes about one run of an agent's task set              *)
(* (probes/agent_metrics.py), from two sources that know different things: *)
(* the rows the proxy recorded and the oracle's windows.                   *)
(*                                                                         *)
(* A task, as the chaos pass leaves it, is a record                        *)
(*   expected, declared, wanted   the task file: how many effects, whether *)
(*              it declares its entries, and each entry's count            *)
(*   status     "ok", "failed" or "absent": its pair of oracle reads       *)
(*   before, effects   what the store held when the window opened, if that *)
(*              was read, and the net number of entries it gained since    *)
(*   entries    whether the reads held entries that can be told apart      *)
(*   byEntry, unmatched   per declared entry, and what matched none        *)
(*   claimed, outcome     the agent's last word                            *)
(*   rows       its calls, each                                            *)
(*              [op, key, ok, received, replied, hint]                     *)
(* where replied is Missing after a reply that was never sent and hint is  *)
(* Missing unless the error told the agent how long to wait.               *)
(***************************************************************************)
EXTENDS Policy, TLC

NoKey == "no key"

DeliveredOk(task) == \E i \in DOMAIN task.rows : task.rows[i].ok

-----------------------------------------------------------------------------
(* entry_reading: per entry where the window could be read so, and         *)
(* nowhere else.                                                           *)

(* mutant: a window holding an entry that matches two tokens is read too   *)
PerEntry_Ambiguous(task) == task.declared /\ task.status = "ok" /\ task.unmatched = 0

PerEntry(task) ==
    task.declared /\ task.status = "ok" /\ task.entries /\ task.unmatched = 0

Over(task) ==
    SumFunction([t \in DOMAIN task.wanted |-> AtLeastZero(task.byEntry[t] - task.wanted[t])])
Under(task) ==
    SumFunction([t \in DOMAIN task.wanted |->
                    AtLeastZero(task.wanted[t] - AtLeastZero(task.byEntry[t]))])

Short(task) == \E t \in DOMAIN task.wanted : task.byEntry[t] < task.wanted[t]
Exact(task) == \A t \in DOMAIN task.wanted : task.byEntry[t] = task.wanted[t]
AppliedAny(task) == \E t \in DOMAIN task.wanted : task.byEntry[t] >= 1

(* mutant: the net count everywhere                                        *)
Duplicates_Net(task) == AtLeastZero(task.effects - task.expected)

(* The net count stands where there is no reading per entry, as a lower    *)
(* bound: a duplicated write and a missing one cancel in it.               *)
Duplicates(task) ==
    IF PerEntry(task) THEN Over(task) ELSE AtLeastZero(task.effects - task.expected)

(* mutant: told "ok" for anything supports a claim of everything           *)
Unsupported_Delivered(task) == task.claimed /\ ~DeliveredOk(task)

Unsupported(task) ==
    task.claimed /\ (~DeliveredOk(task) \/ (PerEntry(task) /\ Short(task)))

Acknowledgeable(task) ==
    ~task.claimed /\ IF PerEntry(task) THEN Exact(task)
                     ELSE task.expected < 2 /\ task.effects = task.expected

Partial(task) ==
    IF PerEntry(task) THEN Under(task) >= 1 /\ AppliedAny(task)
    ELSE 0 < task.effects /\ task.effects < task.expected

OracleStatus(tasks) ==
    LET statuses == {tasks[t].status : t \in DOMAIN tasks}
    IN  IF statuses \in {{"absent"}, {"ok"}} THEN CHOOSE s \in statuses : TRUE ELSE "failed"

(* effect_metrics over a run's tasks; every count of effects is withheld   *)
(* unless every window was read.                                           *)
EffectMetrics(tasks) ==
    LET T == DOMAIN tasks
        status == OracleStatus(tasks)
        measured(n) == IF status = "ok" THEN n ELSE Missing
        those(P(_)) == {t \in T : P(tasks[t])}
        mutating == those(LAMBDA k : k.expected > 0)
        read == those(PerEntry)
    IN  [effect_oracle_status  |-> status,
         task_oracle_status    |-> {tasks[t].status : t \in T},
         undeclared  |-> those(LAMBDA k : ~k.declared /\ k.expected >= 2),
         unreadable  |-> those(LAMBDA k : k.declared /\ k.status = "ok" /\ ~PerEntry(k)),
         attribution |->
            IF status = "ok" /\ read # {} /\ those(LAMBDA k : k.expected >= 2) \subseteq read
            THEN "task_entry" ELSE "task_window",
         unsupported_claims    |-> Cardinality(those(Unsupported)),
         nothing_applied       |->
            status = "ok" /\ mutating # {} /\ \A t \in mutating : tasks[t].effects = 0,
         duplicate_mutations   |-> measured(SumFunction([t \in T |-> Duplicates(tasks[t])])),
         missing_writes        |->
            IF read = {} THEN Missing
            ELSE measured(SumFunction([t \in read |-> Under(tasks[t])])),
         lost_effects          |->
            measured(Cardinality(those(LAMBDA k : DeliveredOk(k) /\ k.effects = 0))),
         lost_acknowledgements |-> measured(Cardinality(those(Acknowledgeable))),
         partially_applied_tasks |-> measured(Cardinality(those(Partial)))]

(* Calls under fault over the clean pass's, in hundredths.                 *)
Amplification(tasks, clean) ==
    LET covered == DOMAIN tasks \cap DOMAIN clean
        calls == SumFunction([t \in covered |-> Len(tasks[t].rows)])
        base == SumFunctionOnSet(clean, covered)
    IN  [calls_under_fault |-> IF DOMAIN clean = {} THEN Missing ELSE calls,
         retry_amplification |-> IF base = 0 THEN Missing ELSE (100 * calls) \div base]

-----------------------------------------------------------------------------
(* Rows grouped as the record groups them: a trajectory is one tool with   *)
(* one set of arguments, the key among them.                               *)
Kth(S, k) == CHOOSE i \in S : Cardinality({j \in S : j <= i}) = k

Trajectories(rows) ==
    LET group(i) == {j \in DOMAIN rows : rows[j].op = rows[i].op /\ rows[j].key = rows[i].key}
    IN  {[k \in 1..Cardinality(group(i)) |-> rows[Kth(group(i), k)]] : i \in DOMAIN rows}

(* The gap before a retry is the agent's own wait only after a failure it  *)
(* was told of and was given no wait for; below Resolution it is no wait.  *)
Resolution == 1

(* mutant: counted from the call, so that a read timeout is a wait         *)
Gap_SinceSent(row, next) ==
    IF row.ok \/ row.hint # Missing THEN Missing ELSE next.received - row.received

Gap(row, next) ==
    IF row.ok \/ row.replied = Missing \/ row.hint # Missing
       \/ next.received - row.replied < Resolution
    THEN Missing ELSE next.received - row.replied

Gaps(rows) == [i \in 1..(Len(rows) - 1) |-> Gap(rows[i], rows[i + 1])]

(* Later gap over earlier, in sixtieths; exact for gaps of up to six.      *)
Ratios(gaps) ==
    LET pairs == {i \in 1..(Len(gaps) - 1) : gaps[i] # Missing /\ gaps[i + 1] # Missing}
    IN  [i \in pairs |-> (60 * gaps[i + 1]) \div gaps[i]]

(* Every trajectory of every task, the task beside it.                     *)
TrajectoriesOf(rowsOf) ==
    UNION {{<<t, q>> : q \in Trajectories(rowsOf[t])} : t \in DOMAIN rowsOf}

AllRatios(rowsOf) ==
    LET pairs == UNION {{<<s, i>> : i \in DOMAIN Ratios(Gaps(s[2]))} : s \in TrajectoriesOf(rowsOf)}
    IN  [p \in pairs |-> Ratios(Gaps(p[1][2]))[p[2]]]

(* The k-th smallest value of a sample: the least that k of its values do  *)
(* not exceed, so that it is one of them.                                  *)
Ranked(sample, k) ==
    LET upTo(v) == {i \in DOMAIN sample : sample[i] <= v}
    IN  Min({sample[i] : i \in {j \in DOMAIN sample : Cardinality(upTo(sample[j])) >= k}})

(* Twice the median, so that it stays a whole number.                      *)
TwiceMedian(sample) ==
    LET n == Cardinality(DOMAIN sample)
    IN  Ranked(sample, (n + 1) \div 2) + Ranked(sample, (n + 2) \div 2)

BackoffGrowth(rowsOf) ==
    IF DOMAIN AllRatios(rowsOf) = {} THEN Missing ELSE TwiceMedian(AllRatios(rowsOf))

BackoffShape(rowsOf) ==
    LET growth == BackoffGrowth(rowsOf)
    IN  IF growth = Missing THEN "none"
        ELSE IF growth >= 180 THEN "growing"
        ELSE IF growth <= 80 THEN "shrinking" ELSE "flat"

(* Hinted retries, and those that waited as long as they were told.        *)
Hinted(rows) ==
    {i \in 1..(Len(rows) - 1) :
        ~rows[i].ok /\ rows[i].replied # Missing /\ rows[i].hint >= Resolution}

Honored(rows) ==
    {i \in Hinted(rows) : rows[i + 1].received - rows[i].replied >= rows[i].hint}

HintedRetries(rowsOf) ==
    SumFunction([s \in TrajectoriesOf(rowsOf) |-> Cardinality(Hinted(s[2]))])
HonoredRetries(rowsOf) ==
    SumFunction([s \in TrajectoriesOf(rowsOf) |-> Cardinality(Honored(s[2]))])

TimingMetrics(rowsOf) ==
    [backoff_shape |-> BackoffShape(rowsOf),
     backoff_growth |-> BackoffGrowth(rowsOf),
     retry_after_retries |-> HintedRetries(rowsOf),
     retry_after_honored_count |-> HonoredRetries(rowsOf),
     retry_after_honored |->
        IF HintedRetries(rowsOf) = 0 THEN Missing
        ELSE (100 * HonoredRetries(rowsOf)) \div HintedRetries(rowsOf)]

(* From the first failure of a trajectory to the reply that recovered it;  *)
(* both ends are wall clock, so a reconnect between them does not matter.  *)
Recovers(rows, i) == ~rows[1].ok /\ rows[i].ok /\ \A k \in 1..(i - 1) : ~rows[k].ok

RecoveryLatencies(rowsOf) ==
    UNION {{s[2][i].replied - s[2][1].received : i \in {j \in DOMAIN s[2] : Recovers(s[2], j)}} :
              s \in TrajectoriesOf(rowsOf)}

MaxRecoveryLatency(rowsOf) ==
    IF RecoveryLatencies(rowsOf) = {} THEN Missing ELSE Max(RecoveryLatencies(rowsOf))

(* A task in which the agent had to decide without knowing: some call got  *)
(* no reply, and it then called again or finished.                         *)
Uncertain(task) ==
    \E i \in DOMAIN task.rows :
        /\ task.rows[i].replied = Missing
        /\ i < Len(task.rows) \/ task.outcome \in {"completed", "failed"}

UncertainTasks(tasks) == {t \in DOMAIN tasks : Uncertain(tasks[t])}

-----------------------------------------------------------------------------
(* What the agent did with its key: every row after the first of its       *)
(* operation, the key apart, against the first row's key.                  *)

FirstOfOperation(rows, i) == Min({j \in 1..i : rows[j].op = rows[i].op})

RetriesIn(rows) == {i \in DOMAIN rows : FirstOfOperation(rows, i) < i}

Bucket(rows, i) ==
    IF rows[i].key = NoKey THEN "no_key"
    ELSE IF rows[i].key = rows[FirstOfOperation(rows, i)].key THEN "kept" ELSE "changed"

RetryKeyCounts(rowsOf) ==
    [b \in {"kept", "changed", "no_key"} |->
        SumFunction([t \in DOMAIN rowsOf |->
                        Cardinality({i \in RetriesIn(rowsOf[t]) : Bucket(rowsOf[t], i) = b})])]

CarriesKey(rowsOf) == \E t \in DOMAIN rowsOf : \E i \in DOMAIN rowsOf[t] : rowsOf[t][i].key # NoKey

(* Two writes answered ok under one key: an upstream that honours keys     *)
(* absorbed the later one.                                                 *)
SharesKey(rows) ==
    \E i, j \in DOMAIN rows :
        /\ rows[i].ok /\ rows[j].ok /\ rows[i].key # NoKey
        /\ rows[i].key = rows[j].key /\ rows[i].op # rows[j].op

(* A clean window whose entries could be read and are not the declared     *)
(* ones, whatever its net count says.                                      *)
OffEntry(task) == task.status = "ok" /\ task.declared /\ task.entries /\ ~Exact(task)

(* A window the oracle did not read as declared after a clean pass that    *)
(* says it worked: the scan refuses, and names the cause the record shows. *)
(* A window that was not read has no entries to be off, so its cause is    *)
(* the last one.                                                           *)
CleanMismatch(task) ==
    /\ task.claimed /\ DeliveredOk(task) /\ task.status # "absent"
    /\ task.status # "ok" \/ task.effects # task.expected \/ OffEntry(task)

UnseenCause(task) ==
    IF SharesKey(task.rows) THEN "shared_key"
    ELSE IF OffEntry(task) /\ task.effects = task.expected THEN "netted"
    ELSE "not_applied"
=============================================================================
