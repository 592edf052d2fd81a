----------------------------- MODULE TaskWindow -----------------------------
(***************************************************************************)
(* An agent scan from the scan's side: pass after pass, task after task, an *)
(* agent process is started, watched and if need be killed, inside a window *)
(* of two reads of the upstream's state; its calls go through proxies it    *)
(* launched itself, which the scan neither starts nor stops and knows only  *)
(* by the record they write.                                               *)
(*                                                                         *)
(* (AgentBaseline.run, FaultInjector._out_of_process and _one_chaos_run,    *)
(* AgentTarget.invoke and _run_task.)  Time is left out: a deadline may     *)
(* expire at any moment.                                                   *)
(***************************************************************************)
EXTENDS FaultKinds, Integers, Sequences, FiniteSets, FiniteSetsExt

CONSTANTS
    NTasks,       \* tasks of the task file
    Repeats,      \* chaos runs (--repeats)
    HoldReply,    \* TRUE when a task is run again with its reply held
    MaxCalls,     \* bound: calls an agent makes in one task
    Kinds,        \* faults the chaos schedule holds
    Expected,     \* expected_effects of every task
    Inherits,     \* may a proxy inherit its agent's stderr: a set of BOOLEAN
    MaxLost,      \* bound: calls that proxies let go of, in a scan
    MaxLostApart  \* bound: the same, when no proxy inherits its agent's stderr

ASSUME TaskWindowAssumption ==
    /\ NTasks \in Nat \ {0} /\ Repeats \in Nat \ {0}
    /\ HoldReply \in BOOLEAN
    /\ MaxCalls \in Nat
    /\ Kinds \subseteq FaultKind
    /\ Expected \in Nat
    /\ Inherits \subseteq BOOLEAN
    /\ MaxLost \in Nat /\ MaxLostApart \in Nat

Task == 1..NTasks

(* The passes in the order they run; each chaos run is a pass of its own. *)
Passes ==
    <<"baseline">> \o (IF HoldReply THEN <<"deadline">> ELSE << >>)
                   \o [r \in 1..Repeats |-> "chaos"]

Pass == DOMAIN Passes

TasksOf(p) == IF Passes[p] = "deadline" THEN {1} ELSE Task

VARIABLES
    shares,   \* the proxies hold their agent's stderr open
    pass, task, phase,   \* where the scan is
    agent,    \* "none", "thinking", "waiting", "exited" or "killed"
    claim,    \* what the agent's result line said
    serving,  \* calls a proxy is handling
    sent,     \* calls the upstream has been sent and has not applied
    record,   \* per record file: how many rows, and whether one of them is ok
    applied,  \* effects each task run has applied: the truth
    made,     \* calls each task run has made: the truth
    reading,  \* what the scan read of each task run
    lost      \* calls let go of: by a killed proxy, by its own timeout

scan == <<pass, task, phase>>
agents == <<agent, claim, made>>
proxies == <<serving, record, lost>>
upstream == <<sent, applied>>
vars == <<shares, scan, agents, proxies, upstream, reading>>

TaskRun == Pass \X Task

(* The name a pass starts under: the first chaos run keeps the pass's own   *)
(* name, each repeat adds its number.  The mutant: every repeat keeps it.   *)
PassName_Repeated(p) == <<Passes[p], 1>>                     \* mutant
PassName(p) ==
    <<Passes[p], IF Passes[p] = "chaos" THEN p - (Len(Passes) - Repeats) ELSE 1>>

(* One record file per task per pass name (start_pass, record_path): a file *)
(* that is there is appended to.                                           *)
RecordKey(p, t) == <<PassName(p), t>>

RecordFile == {RecordKey(r[1], r[2]) : r \in TaskRun}

Store == MapThenSumSet(LAMBDA r : applied[r], TaskRun)

NotRead == [before |-> 0, after |-> 0, calls |-> 0, outcome |-> "none",
            claimed |-> FALSE, delivered |-> FALSE]

Init ==
    /\ shares \in Inherits
    /\ pass = 1 /\ task = 1 /\ phase = "next"
    /\ agent = "none" /\ claim = "none"
    /\ serving = {} /\ sent = {} /\ lost = [killed |-> 0, timeout |-> 0]
    /\ record = [f \in RecordFile |-> [rows |-> 0, ok |-> FALSE]]
    /\ applied = [r \in TaskRun |-> 0]
    /\ made = [r \in TaskRun |-> 0]
    /\ reading = [r \in TaskRun |-> NotRead]

Here == <<pass, task>>

-----------------------------------------------------------------------------
(* The agent and its proxies. *)

Drawable == IF Passes[pass] = "chaos" THEN Kinds \cup {NoFault} ELSE {NoFault}

(* RecordWriter.write, by the proxy that handled the call. *)
Write(call, inner) ==
    record' = [record EXCEPT ![RecordKey(call.run[1], call.run[2])] =
                  [rows |-> @.rows + 1,
                   ok   |-> @.ok \/ ResponseTo(call.fault, inner).ok]]

MakesCall(fault) ==
    LET call == [run |-> Here, n |-> made[Here] + 1, fault |-> fault]
    IN  /\ phase = "running"
        /\ agent = "thinking"
        /\ made[Here] < MaxCalls
        /\ fault \in Drawable
        /\ made' = [made EXCEPT ![Here] = @ + 1]
        /\ IF Forwards(fault)
           THEN /\ agent' = "waiting"
                /\ serving' = serving \cup {call}
                /\ sent' = sent \cup {call}
                /\ UNCHANGED record
           ELSE Write(call, "ok") /\ UNCHANGED <<agent, serving, sent>>
        /\ UNCHANGED <<shares, scan, claim, lost, applied, reading>>

(* The upstream applies a call, whoever is still waiting for it. *)
Land(call) ==
    /\ call \in sent
    /\ sent' = sent \ {call}
    /\ applied' = [applied EXCEPT ![call.run] = @ + 1]
    /\ UNCHANGED <<shares, scan, agents, proxies, reading>>

(* Is this the call the agent is waiting for? *)
AwaitedBy(call) == agent = "waiting" /\ call.run = Here /\ call.n = made[Here]

(* The proxy has its answer: the row, and the reply unless it is dropped. *)
Served(call) ==
    /\ call \in serving \ sent
    /\ serving' = serving \ {call}
    /\ Write(call, "ok")
    /\ agent' = IF AwaitedBy(call) /\ ResponseTo(call.fault, "ok").delivered
                THEN "thinking" ELSE agent
    /\ UNCHANGED <<shares, scan, claim, made, lost, upstream, reading>>

(* Bound: how many calls proxies let go of. *)
MayLetGo == lost.killed + lost.timeout < IF shares THEN MaxLost ELSE MaxLostApart

(* The proxy's own timeout on the upstream: a row, and no reply.            *)
TimesOut(call) ==
    /\ call \in serving \cap sent
    /\ MayLetGo
    /\ serving' = serving \ {call}
    /\ Write(call, "silent")
    /\ lost' = [lost EXCEPT !.timeout = @ + 1]
    /\ UNCHANGED <<shares, scan, agents, upstream, reading>>

(* The agent's own read timeout. *)
GivesUp ==
    /\ phase = "running"
    /\ agent = "waiting"
    /\ agent' = "thinking"
    /\ UNCHANGED <<shares, scan, claim, made, proxies, upstream, reading>>

(* A client that closes its session kills the proxy behind it. *)
ProxyKilled(call) ==
    /\ MayLetGo
    /\ call \in serving
    /\ ~AwaitedBy(call)
    /\ serving' = serving \ {call}
    /\ lost' = [lost EXCEPT !.killed = @ + 1]
    /\ UNCHANGED <<shares, scan, agents, record, upstream, reading>>

(* The agent ends; a missing result line is a failure like a reported one.  *)
Finishes(result) ==
    /\ phase = "running"
    /\ agent = "thinking"
    /\ agent' = "exited"
    /\ claim' = result
    /\ UNCHANGED <<shares, scan, made, proxies, upstream, reading>>

-----------------------------------------------------------------------------
(* The scan. *)

(* The read that opens a task's window, and the agent's start.             *)
OpenWindow ==
    /\ phase = "next"
    /\ reading' = [reading EXCEPT ![Here].before = Store]
    /\ agent' = "thinking"
    /\ phase' = "running"
    /\ UNCHANGED <<shares, pass, task, claim, made, proxies, upstream>>

(* Something still has the agent's stderr open. *)
PipeOpen_Never == FALSE                                      \* mutant
PipeOpen == shares /\ \E call \in serving : call.run = Here

Outcome == IF claim = "ok" THEN "completed" ELSE "failed"

(* _run_task: the process has ended and both pipes have been read to EOF.   *)
TaskEnds ==
    /\ phase = "running"
    /\ agent = "exited"
    /\ ~PipeOpen
    /\ reading' = [reading EXCEPT ![Here].outcome = Outcome,
                                  ![Here].claimed = (claim = "ok")]
    /\ phase' = "after"
    /\ UNCHANGED <<shares, pass, task, agents, proxies, upstream>>

(* The per-task deadline: one of the three is still pending.  The mutant:   *)
(* only the pipes are watched.                                             *)
Deadline_PipesOnly ==
    /\ phase = "running"
    /\ agent = "exited" /\ PipeOpen
    /\ reading' = [reading EXCEPT ![Here].outcome = "abandoned"]
    /\ phase' = "after"
    /\ UNCHANGED <<shares, pass, task, agents, proxies, upstream>>
Deadline ==
    /\ phase = "running"
    /\ agent # "exited" \/ PipeOpen
    /\ agent' = IF agent = "exited" THEN agent ELSE "killed"
    /\ reading' = [reading EXCEPT ![Here].outcome = "abandoned"]
    /\ phase' = "after"
    /\ UNCHANGED <<shares, pass, task, claim, made, proxies, upstream>>

(* The read that closes the window. *)
CloseWindow ==
    /\ phase = "after"
    /\ reading' = [reading EXCEPT ![Here].after = Store]
    /\ phase' = "record"
    /\ UNCHANGED <<shares, pass, task, agents, proxies, upstream>>

RecordHere == record[RecordKey(pass, task)]

EffectsIn(r) == reading[r].after - reading[r].before

(* The clean pass goes on only from tasks that worked and were seen to      *)
(* work; a chaos run is kept only if no task of it was abandoned.          *)
CleanEnough ==
    \A t \in Task :
        LET r == reading[<<pass, t>>]
        IN  r.claimed /\ (r.delivered => r.after - r.before = Expected)

Kept(p) ==
    /\ Passes[p] = "baseline" => CleanEnough
    /\ Passes[p] = "chaos" =>
          \A t \in Task : reading[<<p, t>>].outcome # "abandoned"

(* read_record, and the refusal of a task that left no rows (the held task  *)
(* is only measured).                                                      *)
ReadRecord ==
    /\ phase = "record"
    /\ reading' = [reading EXCEPT
          ![Here].calls = RecordHere.rows,
          ![Here].delivered = RecordHere.ok]
    /\ phase' = IF RecordHere.rows = 0 /\ Passes[pass] # "deadline"
                THEN "refused" ELSE "settle"
    /\ agent' = "none"
    /\ claim' = "none"
    /\ UNCHANGED <<shares, pass, task, made, proxies, upstream>>

NextTask ==
    /\ phase = "settle"
    /\ task + 1 \in TasksOf(pass)
    /\ task' = task + 1
    /\ phase' = "next"
    /\ UNCHANGED <<shares, pass, agents, proxies, upstream, reading>>

EndPass ==
    /\ phase = "settle"
    /\ task + 1 \notin TasksOf(pass)
    /\ \/ /\ ~Kept(pass)
          /\ phase' = "refused"
          /\ UNCHANGED <<pass, task>>
       \/ /\ Kept(pass) /\ pass + 1 \in Pass
          /\ phase' = "next" /\ pass' = pass + 1 /\ task' = 1
       \/ /\ Kept(pass) /\ pass + 1 \notin Pass
          /\ phase' = "done"
          /\ UNCHANGED <<pass, task>>
    /\ UNCHANGED <<shares, agents, proxies, upstream, reading>>

ScanStep ==
    \/ OpenWindow \/ TaskEnds \/ Deadline \/ CloseWindow \/ ReadRecord
    \/ NextTask \/ EndPass

(* Bound: nothing is followed once the scan is over. *)
Running == phase \notin {"done", "refused"}

Next ==
    \/ ScanStep
    \/ /\ Running
       /\ \/ \E fault \in Drawable : MakesCall(fault)
          \/ \E call \in sent : Land(call)
          \/ \E call \in serving : Served(call) \/ TimesOut(call) \/ ProxyKilled(call)
          \/ GivesUp
          \/ \E result \in {"ok", "failed"} : Finishes(result)

(* The scan's loop is never stuck and its deadline expires; nothing is      *)
(* assumed of the agent, its proxies or the upstream.                      *)
Spec == Init /\ [][Next]_vars /\ WF_vars(ScanStep)

-----------------------------------------------------------------------------
(* Types. *)

Call == [run : TaskRun, n : 1..MaxCalls, fault : Kinds \cup {NoFault}]

-----------------------------------------------------------------------------
(* What the readings mean. *)

Done == phase = "done"

Scored == {r \in TaskRun : Passes[r[1]] # "deadline"}

(***************************************************************************)
(* A window counts its own task's effects, all of them and no others, when  *)
(* the proxies share their agent's stderr: a task has not ended while one   *)
(* of its calls is being handled, and a chaos run in which one was left     *)
(* behind at the deadline is not scored.  What breaks it is excluded here:  *)
(* a proxy that let go of a call the upstream still had (killed, or by its  *)
(* own timeout), and a held task that was abandoned, which does not end the *)
(* scan.                                                                   *)
(***************************************************************************)
HeldTaskEnded ==
    \A r \in TaskRun \ Scored : reading[r].outcome # "abandoned"

WindowsExact ==
    Done /\ shares /\ lost.killed + lost.timeout = 0 /\ HeldTaskEnded =>
        \A r \in Scored : EffectsIn(r) = applied[r]

(***************************************************************************)
(* The record of a scored task is its own: it never holds a call of another *)
(* run, whichever proxies are still at work and whatever passes came before *)
(* it, and with a shared stderr it holds every call the agent made, unless  *)
(* a proxy was killed with one.                                            *)
(***************************************************************************)
RecordsExact ==
    Done =>
        \A r \in Scored :
            /\ reading[r].calls <= made[r]
            /\ shares /\ lost.killed = 0 => reading[r].calls = made[r]

(* The scan ends, whatever agents, proxies and upstream never do. *)
ScanEnds == <>(phase \in {"done", "refused"})

=============================================================================
