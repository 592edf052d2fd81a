-------------------------- MODULE TaskWindowProofs --------------------------
(***************************************************************************)
(* What a task's window counts (TaskWindow), proved for any task file, any  *)
(* number of passes and of calls, and any schedule of faults.               *)
(***************************************************************************)
EXTENDS TaskWindow, DataTheorems

Phase == {"next", "running", "after", "record", "settle", "done", "refused"}

PassKind == {"baseline", "deadline", "chaos"}

AnyCall == [run : TaskRun, n : Nat, fault : FaultKind \cup {NoFault}]

Readings ==
    [before : Int, after : Int, calls : Nat,
     outcome : {"none", "completed", "failed", "abandoned"},
     claimed : BOOLEAN, delivered : BOOLEAN]

WindowTypeOK ==
    /\ shares \in BOOLEAN
    /\ pass \in Pass /\ task \in Task /\ phase \in Phase
    /\ serving \subseteq AnyCall /\ sent \subseteq AnyCall
    /\ record \in [RecordFile -> [rows : Nat, ok : BOOLEAN]]
    /\ applied \in [TaskRun -> Nat]
    /\ made \in [TaskRun -> Nat]
    /\ reading \in [TaskRun -> Readings]
    /\ lost \in [killed : Nat, timeout : Nat]

Earlier(r, s) == r[1] < s[1] \/ (r[1] = s[1] /\ r[2] < s[2])

(* The task run's window has been closed, or the scan has gone past it.     *)
Closed(r) ==
    \/ Earlier(r, Here)
    \/ r = Here /\ phase \in {"record", "settle", "done", "refused"}

(* The scan has not come to the task run. *)
Ahead(r) == Earlier(Here, r) \/ (r = Here /\ phase = "next")

(* What is excluded: a call let go of, a task run that was abandoned.       *)
Undisturbed ==
    /\ shares
    /\ lost.killed + lost.timeout = 0
    /\ \A r \in TaskRun : reading[r].outcome # "abandoned"

(* Nothing is known of a task run the scan has not come to; while one runs, *)
(* nothing is concluded of it.                                              *)
NothingYet ==
    /\ \A r \in TaskRun : Ahead(r) => reading[r] = NotRead
    /\ phase = "running" =>
          reading[Here].outcome = "none" /\ reading[Here].claimed = FALSE

(* Only a task that ended by itself is read as having claimed anything.     *)
ClaimedEnded ==
    \A r \in TaskRun : reading[r].claimed => reading[r].outcome # "abandoned"

(* A pass the scan has gone on from had none of its tasks abandoned.        *)
KeptEnded ==
    \A r \in Scored : r[1] < pass \/ phase = "done" =>
        reading[r].outcome # "abandoned"

(* No call is with the upstream that a proxy does not handle, and none is   *)
(* handled but for the task that runs.                                      *)
OnlyThisTask ==
    /\ sent \subseteq serving
    /\ \A call \in serving : phase = "running" /\ call.run = Here

(* What the upstream's state adds up to at the reads.                       *)
WindowsAddUp ==
    /\ \A r \in TaskRun : Ahead(r) => applied[r] = 0
    /\ phase \in {"running", "after"} => reading[Here].before + applied[Here] = Store
    /\ \A r \in TaskRun : Closed(r) => EffectsIn(r) = applied[r]

WindowInv ==
    /\ WindowTypeOK
    /\ phase = "done" => pass + 1 \notin Pass
    /\ NothingYet
    /\ ClaimedEnded
    /\ KeptEnded
    /\ Undisturbed => OnlyThisTask /\ WindowsAddUp
-----------------------------------------------------------------------------
(* The order the scan goes in. *)

(* There is at least one pass, each of one of three kinds.                 *)
LEMMA PassesAre ==
  ASSUME TaskWindowAssumption
  PROVE  /\ Passes \in Seq(PassKind) /\ Len(Passes) \in Nat \ {0}
         /\ Pass = 1..Len(Passes)
         /\ \A p \in Pass : Passes[p] \in PassKind
  <1> DEFINE head == <<"baseline">>
             held == IF HoldReply THEN <<"deadline">> ELSE << >>
             runs == [r \in 1..Repeats |-> "chaos"]
  <1>1. head \in Seq(PassKind) /\ Len(head) = 1
    <2>1. head = Append(<< >>, "baseline") /\ "baseline" \in PassKind
      BY DEF PassKind
    <2>2. << >> \in Seq(PassKind) /\ Len(<< >>) = 0
      OBVIOUS
    <2> QED
      BY <2>1, <2>2, AppendProperties
  <1>2. held \in Seq(PassKind) /\ Len(held) \in Nat
    <2>1. "deadline" \in PassKind
      BY DEF PassKind
    <2>2. << >> \in Seq(PassKind) /\ <<"deadline">> = Append(<< >>, "deadline")
      OBVIOUS
    <2>3. <<"deadline">> \in Seq(PassKind)
      BY <2>1, <2>2, AppendProperties
    <2> QED
      BY <2>2, <2>3
  <1>3. runs \in Seq(PassKind) /\ Len(runs) \in Nat
    BY DEF PassKind, TaskWindowAssumption
  <1>4. Passes = head \o held \o runs
    BY DEF Passes
  <1> HIDE DEF head, held, runs
  <1>5. head \o held \in Seq(PassKind) /\ Len(head \o held) = 1 + Len(held)
    BY <1>1, <1>2, ConcatProperties
  <1>6. Passes \in Seq(PassKind) /\ Len(Passes) = 1 + Len(held) + Len(runs)
    BY <1>2, <1>3, <1>4, <1>5, ConcatProperties
  <1> QED
    BY <1>2, <1>3, <1>6 DEF Pass

(* A scan has finitely many task runs, each a pass and a task.             *)
LEMMA RunsAreFinite ==
  ASSUME TaskWindowAssumption
  PROVE  /\ IsFiniteSet(TaskRun)
         /\ \A p \in Pass, t \in Task : <<p, t>> \in TaskRun
         /\ \A r \in TaskRun : r[1] \in Pass /\ r[2] \in Task /\ r = <<r[1], r[2]>>
         /\ Pass \subseteq Nat /\ Task \subseteq Nat
  <1>1. IsFiniteSet(Pass) /\ Pass \subseteq Nat
    <2>1. Pass = 1..Len(Passes) /\ Len(Passes) \in Int /\ 1 \in Int
      BY PassesAre
    <2>2. IsFiniteSet(1..Len(Passes))
      BY <2>1, FS_Interval
    <2> QED
      BY <2>1, <2>2
  <1>2. IsFiniteSet(Task) /\ Task \subseteq Nat
    BY FS_Interval DEF TaskWindowAssumption, Task
  <1>3. IsFiniteSet(TaskRun)
    BY <1>1, <1>2, FS_Product DEF TaskRun
  <1> QED
    BY <1>1, <1>2, <1>3 DEF TaskRun

(* The upstream's state is the sum of what the task runs put there.         *)
LEMMA StoreIsTotal == Store = SumOf(applied, TaskRun)
  BY DEF Store, SumOf

(* It is a number.                                                          *)
LEMMA StoreIsSum ==
  ASSUME TaskWindowAssumption, WindowTypeOK
  PROVE  Store \in Int
  <1>1. \A r \in TaskRun : applied[r] \in Int
    BY DEF WindowTypeOK
  <1>2. SumOf(applied, TaskRun) \in Int
    BY <1>1, RunsAreFinite, SumIsInt
  <1> QED
    BY <1>2, StoreIsTotal

(* A call that is applied adds one to the upstream's state.                *)
LEMMA StoreGrows ==
  ASSUME TaskWindowAssumption, WindowTypeOK, NEW r \in TaskRun,
         applied' = [applied EXCEPT ![r] = @ + 1]
  PROVE  Store' = Store + 1
  <1>1. PICK now : now = [applied EXCEPT ![r] = @ + 1]
    OBVIOUS
  <1>2. /\ \A x \in TaskRun : applied[x] \in Int /\ now[x] \in Int
        /\ \A x \in TaskRun : x # r => now[x] = applied[x]
        /\ now[r] = applied[r] + 1
    BY <1>1 DEF WindowTypeOK
  <1>3. IsFiniteSet(TaskRun)
    BY RunsAreFinite
  <1>4. SumOf(now, TaskRun) - now[r] = SumOf(applied, TaskRun) - applied[r]
    BY <1>2, <1>3, SumChange
  <1>5. SumOf(now, TaskRun) \in Int /\ SumOf(applied, TaskRun) \in Int
    BY <1>2, <1>3, SumIsInt
  <1>6. SumOf(now, TaskRun) = SumOf(applied, TaskRun) + 1
    BY <1>2, <1>4, <1>5
  <1>7. Store = SumOf(applied, TaskRun)
    BY StoreIsTotal
  <1>8. Store' = SumOf(now, TaskRun)
    <2>1. applied' = now
      BY <1>1
    <2>2. (Store = SumOf(applied, TaskRun))'
      BY StoreIsTotal, PTL
    <2> QED
      BY <2>1, <2>2 DEF TaskRun, Pass, Passes, Task
  <1> QED
    BY <1>6, <1>7, <1>8

(* One run is before another or after it or the same.                       *)
LEMMA RunsInOrder ==
  ASSUME TaskWindowAssumption
  PROVE  /\ \A r, s \in TaskRun : Earlier(r, s) \/ Earlier(s, r) \/ r = s
         /\ \A r, s \in TaskRun : ~(Earlier(r, s) /\ Earlier(s, r))
         /\ \A r \in TaskRun : ~Earlier(r, r)
  BY RunsAreFinite DEF Earlier

(* The scan is at one of its task runs, which has a record.                *)
LEMMA HereIsRun ==
  ASSUME TaskWindowAssumption, WindowTypeOK
  PROVE  Here \in TaskRun /\ RecordKey(pass, task) \in RecordFile
  <1>1. Here \in TaskRun /\ Here[1] = pass /\ Here[2] = task
    BY RunsAreFinite DEF Here, WindowTypeOK
  <1> QED
    BY <1>1 DEF RecordFile

(* Nothing else changes that state.                                        *)
LEMMA StoreStays ==
  ASSUME UNCHANGED applied
  PROVE  Store' = Store
  <1>1. Store = SumOf(applied, TaskRun) /\ (Store = SumOf(applied, TaskRun))'
    BY StoreIsTotal, PTL
  <1> QED
    BY <1>1 DEF TaskRun, Pass, Passes, Task

(* A call names its task run, its number and its fault.                    *)
LEMMA CallFields ==
  ASSUME TaskWindowAssumption, NEW call \in AnyCall
  PROVE  /\ call.run \in TaskRun /\ call.n \in Nat /\ call.fault \in FaultKind \cup {NoFault}
         /\ RecordKey(call.run[1], call.run[2]) \in RecordFile
  <1>1. call.run \in TaskRun /\ call.n \in Nat /\ call.fault \in FaultKind \cup {NoFault}
    BY DEF AnyCall
  <1> QED
    BY <1>1 DEF RecordFile

(* Writing a row keeps the records' types.                                 *)
LEMMA WriteKeeps ==
  ASSUME TaskWindowAssumption, WindowTypeOK, NEW call, NEW inner,
         call.run \in TaskRun, Write(call, inner)
  PROVE  record' \in [RecordFile -> [rows : Nat, ok : BOOLEAN]]
  <1> DEFINE file == RecordKey(call.run[1], call.run[2])
             old == record[file]
             new == [rows |-> old.rows + 1,
                     ok   |-> old.ok \/ ResponseTo(call.fault, inner).ok]
  <1>1. file \in RecordFile
    BY DEF RecordFile
  <1>2. old \in [rows : Nat, ok : BOOLEAN]
    BY <1>1 DEF WindowTypeOK
  <1>3. new \in [rows : Nat, ok : BOOLEAN]
    BY <1>2
  <1>4. record' = [record EXCEPT ![file] = new]
    BY DEF Write
  <1> HIDE DEF new, file
  <1> QED
    BY <1>3, <1>4 DEF WindowTypeOK

(* A step that only disturbs the agent, its proxies and its record.         *)
LEMMA ReadingsKept ==
  ASSUME TaskWindowAssumption, WindowInv,
         UNCHANGED <<shares, pass, task, phase, applied, reading>>
  PROVE  /\ (phase = "done" => pass + 1 \notin Pass)'
         /\ NothingYet' /\ ClaimedEnded' /\ KeptEnded'
         /\ WindowsAddUp => WindowsAddUp'
  <1>1. Store' = Store
    BY StoreStays
  <1>2. (phase = "done" => pass + 1 \notin Pass)' /\ ClaimedEnded'
    BY DEF WindowInv, ClaimedEnded, TaskRun, Pass, Passes, Task
  <1>3. NothingYet'
    BY DEF WindowInv, NothingYet, Ahead, Earlier, Here, TaskRun, Pass, Passes, Task
  <1>4. KeptEnded'
    BY DEF WindowInv, KeptEnded, Scored, TaskRun, Pass, Passes, Task
  <1>5. WindowsAddUp => WindowsAddUp'
    BY <1>1
       DEF WindowsAddUp, Ahead, Closed, EffectsIn, Earlier, Here, TaskRun, Pass, Passes,
           Task
  <1> QED
    BY <1>2, <1>3, <1>4, <1>5

-----------------------------------------------------------------------------
(* The agent, its proxies and the upstream. *)

(* The agent of the task that runs makes a call: the invariant survives.   *)
LEMMA MakesCallKeeps ==
  ASSUME TaskWindowAssumption, WindowInv, NEW fault \in Drawable, MakesCall(fault)
  PROVE  WindowInv'
  <1> DEFINE call == [run |-> Here, n |-> made[Here] + 1, fault |-> fault]
  <1>1. WindowTypeOK /\ Here \in TaskRun
    BY HereIsRun DEF WindowInv
  <1>2. /\ phase = "running"
        /\ made' = [made EXCEPT ![Here] = @ + 1]
        /\ UNCHANGED <<shares, pass, task, phase, claim, lost, applied, reading>>
        /\ \/ /\ serving' = serving \cup {call} /\ sent' = sent \cup {call}
              /\ UNCHANGED record
           \/ Write(call, "ok") /\ UNCHANGED <<serving, sent>>
    BY DEF MakesCall, scan
  <1>3. call \in AnyCall /\ call.run = Here
    <2>1. fault \in FaultKind \cup {NoFault}
      BY DEF Drawable, TaskWindowAssumption
    <2>2. made[Here] \in Nat
      BY <1>1 DEF WindowTypeOK
    <2> QED
      BY <1>1, <2>1, <2>2 DEF AnyCall
  <1> HIDE DEF call
  <1>4. /\ record' \in [RecordFile -> [rows : Nat, ok : BOOLEAN]]
        /\ made' \in [TaskRun -> Nat]
        /\ serving' \subseteq AnyCall /\ sent' \subseteq AnyCall
    BY <1>1, <1>2, <1>3, WriteKeeps DEF WindowTypeOK
  <1>5. WindowTypeOK'
    BY <1>1, <1>2, <1>4
       DEF WindowTypeOK, RecordFile, RecordKey, PassName, TaskRun, Pass, Passes, Task,
           AnyCall
  <1>6. Undisturbed' => Undisturbed
    BY <1>2 DEF Undisturbed, TaskRun, Pass, Passes, Task
  <1>7. OnlyThisTask => OnlyThisTask'
    BY <1>2, <1>3 DEF OnlyThisTask, Here
  <1> QED
    BY <1>2, <1>5, <1>6, <1>7, ReadingsKept DEF WindowInv

(* A call is applied after its proxy let go of it: the invariant survives. *)
LEMMA LandKeeps ==
  ASSUME TaskWindowAssumption, WindowInv, NEW call \in sent, Land(call)
  PROVE  WindowInv'
  <1>1. WindowTypeOK /\ Here \in TaskRun /\ call.run \in TaskRun
    BY HereIsRun, CallFields DEF WindowInv, WindowTypeOK
  <1>2. /\ sent' = sent \ {call}
        /\ applied' = [applied EXCEPT ![call.run] = @ + 1]
        /\ UNCHANGED <<shares, pass, task, phase, serving, record, lost, made, reading>>
    BY DEF Land, scan, agents, proxies
  <1>3. applied' \in [TaskRun -> Nat]
    BY <1>1, <1>2 DEF WindowTypeOK
  <1>4. WindowTypeOK'
    BY <1>1, <1>2, <1>3
       DEF WindowTypeOK, RecordFile, RecordKey, PassName, TaskRun, Pass, Passes, Task,
           AnyCall
  <1>5. /\ (phase = "done" => pass + 1 \notin Pass)' /\ ClaimedEnded'
        /\ NothingYet' /\ KeptEnded'
    BY <1>2 DEF WindowInv, ClaimedEnded, NothingYet, KeptEnded, Scored, Ahead, Earlier,
       Here, TaskRun, Pass, Passes, Task
  <1>6. ASSUME Undisturbed' PROVE OnlyThisTask' /\ WindowsAddUp'
    <2>1. OnlyThisTask /\ WindowsAddUp
      BY <1>2, <1>6 DEF WindowInv, Undisturbed, TaskRun, Pass, Passes, Task
    <2>2. phase = "running" /\ call.run = Here
      BY <2>1 DEF OnlyThisTask
    <2>3. OnlyThisTask'
      BY <1>2, <2>1 DEF OnlyThisTask, Here
    <2>4. Store' = Store + 1 /\ Store \in Int
      BY <1>1, <1>2, StoreGrows, StoreIsSum
    <2>5. \A r \in TaskRun : r # Here => applied'[r] = applied[r]
      BY <1>1, <1>2, <2>2 DEF WindowTypeOK
    <2>6. \A r \in TaskRun : Ahead(r) \/ Closed(r) => r # Here
      BY <1>1, <2>2, RunsInOrder DEF Ahead, Closed
    <2>7. reading[Here].before + applied'[Here] = Store'
      <3>1. /\ reading[Here].before \in Int /\ applied[Here] \in Int
            /\ applied'[Here] = applied[Here] + 1
        BY <1>1, <1>2, <2>2 DEF WindowTypeOK, Readings
      <3>2. reading[Here].before + applied[Here] = Store
        BY <2>1, <2>2 DEF WindowsAddUp
      <3> QED
        BY <2>4, <3>1, <3>2
    <2>8. \A r \in TaskRun : (Ahead(r)' <=> Ahead(r)) /\ (Closed(r)' <=> Closed(r))
                              /\ EffectsIn(r)' = EffectsIn(r)
      BY <1>2 DEF Ahead, Closed, Earlier, Here, EffectsIn
    <2>9. Here' = Here
      BY <1>2 DEF Here
    <2>10. \A r \in TaskRun : Ahead(r) => applied'[r] = 0
      BY <2>1, <2>5, <2>6 DEF WindowsAddUp
    <2>11. \A r \in TaskRun : Closed(r) => EffectsIn(r) = applied'[r]
      BY <2>1, <2>5, <2>6 DEF WindowsAddUp
    <2>12. WindowsAddUp'
      BY <1>2, <2>7, <2>8, <2>9, <2>10, <2>11 DEF WindowsAddUp, TaskRun, Pass, Passes, Task
    <2> QED
      BY <2>3, <2>12
  <1> QED
    BY <1>4, <1>5, <1>6 DEF WindowInv

(* A proxy serves a call to the end: the invariant survives.               *)
LEMMA ServedKeeps ==
  ASSUME TaskWindowAssumption, WindowInv, NEW call \in serving, Served(call)
  PROVE  WindowInv'
  <1>1. WindowTypeOK /\ call.run \in TaskRun
    BY CallFields DEF WindowInv, WindowTypeOK
  <1>2. /\ call \notin sent /\ serving' = serving \ {call} /\ Write(call, "ok")
        /\ UNCHANGED <<shares, pass, task, phase, lost, made, sent, applied, reading>>
    BY DEF Served, scan, upstream
  <1>3. record' \in [RecordFile -> [rows : Nat, ok : BOOLEAN]]
    BY <1>1, <1>2, WriteKeeps
  <1>4. WindowTypeOK'
    BY <1>1, <1>2, <1>3
       DEF WindowTypeOK, RecordFile, RecordKey, PassName, TaskRun, Pass, Passes, Task,
           AnyCall
  <1>5. Undisturbed' => Undisturbed
    BY <1>2 DEF Undisturbed, TaskRun, Pass, Passes, Task
  <1>6. OnlyThisTask => OnlyThisTask'
    BY <1>2 DEF OnlyThisTask, Here
  <1> QED
    BY <1>2, <1>4, <1>5, <1>6, ReadingsKept DEF WindowInv

(* A call that is let go of is counted, and excuses the windows.            *)
LEMMA LostDisturbs ==
  ASSUME WindowTypeOK,
         \/ lost' = [lost EXCEPT !.timeout = @ + 1]
         \/ lost' = [lost EXCEPT !.killed = @ + 1]
  PROVE  ~Undisturbed' /\ lost' \in [killed : Nat, timeout : Nat]
  <1>1. lost.killed \in Nat /\ lost.timeout \in Nat
        /\ lost = [killed |-> lost.killed, timeout |-> lost.timeout]
    BY DEF WindowTypeOK
  <1>2. CASE lost' = [lost EXCEPT !.timeout = @ + 1]
    <2>1. lost' = [killed |-> lost.killed, timeout |-> lost.timeout + 1]
      BY <1>1, <1>2
    <2> QED
      BY <1>1, <2>1 DEF Undisturbed
  <1>3. CASE lost' = [lost EXCEPT !.killed = @ + 1]
    <2>1. lost' = [killed |-> lost.killed + 1, timeout |-> lost.timeout]
      BY <1>1, <1>3
    <2> QED
      BY <1>1, <2>1 DEF Undisturbed
  <1> QED
    BY <1>2, <1>3

(* A proxy times out on a call or is killed, which is a disturbance: the   *)
(* invariant survives.                                                     *)
LEMMA LettingGoKeeps ==
  ASSUME TaskWindowAssumption, WindowInv, NEW call \in serving,
         TimesOut(call) \/ ProxyKilled(call)
  PROVE  WindowInv'
  <1>1. WindowTypeOK /\ call.run \in TaskRun
    BY CallFields DEF WindowInv, WindowTypeOK
  <1>2. /\ serving' = serving \ {call}
        /\ Write(call, "silent") \/ UNCHANGED record
        /\ \/ lost' = [lost EXCEPT !.timeout = @ + 1]
           \/ lost' = [lost EXCEPT !.killed = @ + 1]
        /\ UNCHANGED <<shares, pass, task, phase, made, sent, applied, reading>>
    BY DEF TimesOut, ProxyKilled, scan, agents, upstream
  <1>3. record' \in [RecordFile -> [rows : Nat, ok : BOOLEAN]]
    BY <1>1, <1>2, WriteKeeps DEF WindowTypeOK
  <1>4. ~Undisturbed' /\ lost' \in [killed : Nat, timeout : Nat]
    BY <1>1, <1>2, LostDisturbs
  <1>5. WindowTypeOK'
    BY <1>1, <1>2, <1>3, <1>4
       DEF WindowTypeOK, RecordFile, RecordKey, PassName, TaskRun, Pass, Passes, Task,
           AnyCall
  <1> QED
    BY <1>2, <1>4, <1>5, ReadingsKept DEF WindowInv

(* What the agent or its pipes do alone is of no account.                  *)
LEMMA AgentAloneKeeps ==
  ASSUME TaskWindowAssumption, WindowInv,
         UNCHANGED <<shares, pass, task, phase, serving, sent, record, applied, made,
                     reading, lost>>
  PROVE  WindowInv'
  <1>1. WindowTypeOK'
    BY
       DEF WindowInv, WindowTypeOK, RecordFile, RecordKey, PassName, TaskRun, Pass, Passes,
           Task, AnyCall
  <1>2. (Undisturbed' => Undisturbed) /\ (OnlyThisTask => OnlyThisTask')
    BY DEF Undisturbed, OnlyThisTask, Here, TaskRun, Pass, Passes, Task
  <1> QED
    BY <1>1, <1>2, ReadingsKept DEF WindowInv
-----------------------------------------------------------------------------
(* The scan. *)

(* One task run is read, and the others stay as they were.                  *)
LEMMA HereIsRead ==
  ASSUME TaskWindowAssumption, WindowTypeOK, NEW new \in Readings,
         reading' = [reading EXCEPT ![Here] = new]
  PROVE  /\ reading' \in [TaskRun -> Readings] /\ reading'[Here] = new
         /\ \A r \in TaskRun : r # Here => reading'[r] = reading[r]
         /\ \A r \in TaskRun : r # Here => EffectsIn(r)' = EffectsIn(r)
  BY HereIsRun DEF WindowTypeOK, EffectsIn

(* The first read opens a window on a state nobody else is changing.       *)
LEMMA OpenWindowKeeps ==
  ASSUME TaskWindowAssumption, WindowInv, OpenWindow
  PROVE  WindowInv'
  <1>1. WindowTypeOK /\ Here \in TaskRun /\ Store \in Int
    BY HereIsRun, StoreIsSum DEF WindowInv
  <1> DEFINE new == [reading[Here] EXCEPT !.before = Store]
  <1>2. /\ phase = "next" /\ phase' = "running"
        /\ reading' = [reading EXCEPT ![Here] = new]
        /\ UNCHANGED <<shares, pass, task, made, serving, sent, record, lost, applied>>
    BY DEF OpenWindow, proxies, upstream
  <1>3. Here' = Here /\ Store' = Store
    BY <1>2, StoreStays DEF Here
  <1>4. reading[Here] \in Readings /\ reading[Here] = NotRead
    BY <1>1, <1>2 DEF WindowTypeOK, WindowInv, NothingYet, Ahead
  <1>5. /\ new \in Readings /\ new.before = Store /\ new.outcome = "none"
        /\ new.claimed = FALSE
    <2>1. reading[Here].outcome = "none" /\ reading[Here].claimed = FALSE
      BY <1>4 DEF NotRead
    <2> QED
      BY <1>1, <1>4, <2>1 DEF Readings
  <1> HIDE DEF new
  <1>6. /\ reading' \in [TaskRun -> Readings] /\ reading'[Here] = new
        /\ \A r \in TaskRun : r # Here => reading'[r] = reading[r]
        /\ \A r \in TaskRun : r # Here => EffectsIn(r)' = EffectsIn(r)
    BY <1>1, <1>2, <1>5, HereIsRead
  <1>7. WindowTypeOK'
    BY <1>1, <1>2, <1>6
       DEF WindowTypeOK, Phase, RecordFile, RecordKey, PassName, TaskRun, Pass, Passes,
           Task, AnyCall
  <1>8. /\ \A r \in TaskRun : Ahead(r)' => Ahead(r) /\ r # Here
        /\ \A r \in TaskRun : Closed(r)' => Closed(r) /\ r # Here
    BY <1>1, <1>2, <1>3, RunsInOrder DEF Ahead, Closed
  <1>9. NothingYet'
    BY <1>1, <1>2, <1>3, <1>5, <1>6, <1>8
       DEF WindowInv, NothingYet, TaskRun, Pass, Passes, Task
  <1>10. /\ ClaimedEnded' /\ KeptEnded' /\ (phase = "done" => pass + 1 \notin Pass)'
    BY <1>1, <1>2, <1>5, <1>6
       DEF WindowInv, ClaimedEnded, KeptEnded, Scored, TaskRun, Pass, Passes, Task
  <1>11. ASSUME Undisturbed' PROVE OnlyThisTask' /\ WindowsAddUp'
    <2>1. \A r \in TaskRun : reading'[r].outcome # "abandoned"
      BY <1>11 DEF Undisturbed, TaskRun, Pass, Passes, Task
    <2>2. \A r \in TaskRun : reading[r].outcome # "abandoned"
      BY <1>1, <1>4, <1>6, <2>1 DEF NotRead
    <2>3. OnlyThisTask /\ WindowsAddUp
      BY <1>2, <1>11, <2>2 DEF WindowInv, Undisturbed
    <2>4. OnlyThisTask'
      BY <1>2, <2>3 DEF OnlyThisTask
    <2>5. applied[Here] = 0
      BY <1>1, <1>2, <2>3 DEF WindowsAddUp, Ahead
    <2>6. reading'[Here].before + applied'[Here] = Store
      BY <1>1, <1>2, <1>5, <1>6, <2>5
    <2>7. WindowsAddUp'
      BY <1>2, <1>3, <1>6, <1>8, <2>3, <2>6
         DEF WindowsAddUp, TaskRun, Pass, Passes, Task
    <2> QED
      BY <2>4, <2>7
  <1> QED
    BY <1>7, <1>9, <1>10, <1>11 DEF WindowInv

(* Its process gone and its pipes at their end, the task has ended; with    *)
(* the pipes shared, none of its calls is being handled.                    *)
LEMMA TaskEndsKeeps ==
  ASSUME TaskWindowAssumption, WindowInv, TaskEnds
  PROVE  WindowInv'
  <1>1. WindowTypeOK /\ Here \in TaskRun
    BY HereIsRun DEF WindowInv
  <1> DEFINE new == [reading[Here] EXCEPT !.outcome = Outcome, !.claimed = (claim = "ok")]
  <1>2. /\ phase = "running" /\ phase' = "after" /\ ~PipeOpen
        /\ reading' = [reading EXCEPT ![Here] = new]
        /\ UNCHANGED <<shares, pass, task, made, serving, sent, record, lost, applied>>
    BY DEF TaskEnds, agents, proxies, upstream
  <1>3. Here' = Here /\ Store' = Store
    BY <1>2, StoreStays DEF Here
  <1>4. reading[Here] \in Readings /\ reading[Here].outcome = "none"
    BY <1>1, <1>2 DEF WindowTypeOK, WindowInv, NothingYet
  <1>5. /\ new \in Readings /\ new.before = reading[Here].before
        /\ new.outcome # "abandoned"
    BY <1>1, <1>4 DEF Readings, Outcome
  <1> HIDE DEF new
  <1>6. /\ reading' \in [TaskRun -> Readings] /\ reading'[Here] = new
        /\ \A r \in TaskRun : r # Here => reading'[r] = reading[r]
        /\ \A r \in TaskRun : r # Here => EffectsIn(r)' = EffectsIn(r)
    BY <1>1, <1>2, <1>5, HereIsRead
  <1>7. WindowTypeOK'
    BY <1>1, <1>2, <1>6
       DEF WindowTypeOK, Phase, RecordFile, RecordKey, PassName, TaskRun, Pass, Passes,
           Task, AnyCall
  <1>8. /\ \A r \in TaskRun : Ahead(r)' => Ahead(r) /\ r # Here
        /\ \A r \in TaskRun : Closed(r)' => Closed(r) /\ r # Here
    BY <1>1, <1>2, <1>3, RunsInOrder DEF Ahead, Closed
  <1>9. NothingYet'
    BY <1>1, <1>2, <1>3, <1>6, <1>8
       DEF WindowInv, NothingYet, TaskRun, Pass, Passes, Task
  <1>10. /\ ClaimedEnded' /\ KeptEnded' /\ (phase = "done" => pass + 1 \notin Pass)'
    BY <1>1, <1>2, <1>5, <1>6
       DEF WindowInv, ClaimedEnded, KeptEnded, Scored, TaskRun, Pass, Passes, Task
  <1>11. ASSUME Undisturbed' PROVE OnlyThisTask' /\ WindowsAddUp'
    <2>1. \A r \in TaskRun : reading'[r].outcome # "abandoned"
      BY <1>11 DEF Undisturbed, TaskRun, Pass, Passes, Task
    <2>2. \A r \in TaskRun : reading[r].outcome # "abandoned"
      BY <1>1, <1>4, <1>6, <2>1
    <2>3. OnlyThisTask /\ WindowsAddUp /\ shares
      BY <1>2, <1>11, <2>2 DEF WindowInv, Undisturbed
    <2>4. serving = {}
      BY <1>2, <2>3 DEF OnlyThisTask, PipeOpen
    <2>5. OnlyThisTask'
      BY <1>2, <2>3, <2>4 DEF OnlyThisTask
    <2>6. reading'[Here].before + applied'[Here] = Store
      BY <1>2, <1>5, <1>6, <2>3 DEF WindowsAddUp
    <2>7. WindowsAddUp'
      BY <1>2, <1>3, <1>6, <1>8, <2>3, <2>6
         DEF WindowsAddUp, TaskRun, Pass, Passes, Task
    <2> QED
      BY <2>5, <2>7
  <1> QED
    BY <1>7, <1>9, <1>10, <1>11 DEF WindowInv

(* A task killed at its deadline counts as abandoned: the invariant        *)
(* survives.                                                               *)
LEMMA DeadlineKeeps ==
  ASSUME TaskWindowAssumption, WindowInv, Deadline
  PROVE  WindowInv'
  <1>1. WindowTypeOK /\ Here \in TaskRun
    BY HereIsRun DEF WindowInv
  <1> DEFINE new == [reading[Here] EXCEPT !.outcome = "abandoned"]
  <1>2. /\ phase = "running" /\ phase' = "after"
        /\ reading' = [reading EXCEPT ![Here] = new]
        /\ UNCHANGED <<shares, pass, task, made, serving, sent, record, lost, applied>>
    BY DEF Deadline, proxies, upstream
  <1>3. Here' = Here
    BY <1>2 DEF Here
  <1>4. reading[Here] \in Readings /\ reading[Here].claimed = FALSE
    BY <1>1, <1>2 DEF WindowTypeOK, WindowInv, NothingYet
  <1>5. new \in Readings /\ new.outcome = "abandoned" /\ new.claimed = FALSE
    BY <1>1, <1>4 DEF Readings
  <1> HIDE DEF new
  <1>6. /\ reading' \in [TaskRun -> Readings] /\ reading'[Here] = new
        /\ \A r \in TaskRun : r # Here => reading'[r] = reading[r]
    BY <1>1, <1>2, <1>5, HereIsRead
  <1>7. WindowTypeOK'
    BY <1>1, <1>2, <1>6
       DEF WindowTypeOK, Phase, RecordFile, RecordKey, PassName, TaskRun, Pass, Passes,
           Task, AnyCall
  <1>8. \A r \in TaskRun : Ahead(r)' => Ahead(r) /\ r # Here
    BY <1>1, <1>2, <1>3, RunsInOrder DEF Ahead
  <1>9. NothingYet'
    BY <1>1, <1>2, <1>3, <1>6, <1>8
       DEF WindowInv, NothingYet, TaskRun, Pass, Passes, Task
  <1>10. ClaimedEnded'
    BY <1>1, <1>5, <1>6 DEF WindowInv, ClaimedEnded, TaskRun, Pass, Passes, Task
  <1>11. KeptEnded' /\ (phase = "done" => pass + 1 \notin Pass)'
    <2>1. \A r \in TaskRun : r[1] < pass => r # Here
      BY RunsAreFinite DEF Here
    <2> QED
      BY <1>2, <1>6, <2>1
         DEF WindowInv, KeptEnded, Scored, TaskRun, Pass, Passes, Task
  <1>12. ~Undisturbed'
    BY <1>1, <1>5, <1>6 DEF Undisturbed, TaskRun, Pass, Passes, Task
  <1> QED
    BY <1>7, <1>9, <1>10, <1>11, <1>12 DEF WindowInv

(* The second read: what the window holds is what its task has applied.     *)
LEMMA CloseWindowKeeps ==
  ASSUME TaskWindowAssumption, WindowInv, CloseWindow
  PROVE  WindowInv'
  <1>1. WindowTypeOK /\ Here \in TaskRun /\ Store \in Int
    BY HereIsRun, StoreIsSum DEF WindowInv
  <1> DEFINE new == [reading[Here] EXCEPT !.after = Store]
  <1>2. /\ phase = "after" /\ phase' = "record"
        /\ reading' = [reading EXCEPT ![Here] = new]
        /\ UNCHANGED <<shares, pass, task, made, serving, sent, record, lost, applied>>
    BY DEF CloseWindow, agents, proxies, upstream
  <1>3. Here' = Here /\ Store' = Store
    BY <1>2, StoreStays DEF Here
  <1>4. reading[Here] \in Readings
    BY <1>1 DEF WindowTypeOK
  <1>5. /\ new \in Readings /\ new.before = reading[Here].before /\ new.after = Store
        /\ new.outcome = reading[Here].outcome /\ new.claimed = reading[Here].claimed
    BY <1>1, <1>4 DEF Readings
  <1> HIDE DEF new
  <1>6. /\ reading' \in [TaskRun -> Readings] /\ reading'[Here] = new
        /\ \A r \in TaskRun : r # Here => reading'[r] = reading[r]
        /\ \A r \in TaskRun : r # Here => EffectsIn(r)' = EffectsIn(r)
    BY <1>1, <1>2, <1>5, HereIsRead
  <1>7. WindowTypeOK'
    BY <1>1, <1>2, <1>6
       DEF WindowTypeOK, Phase, RecordFile, RecordKey, PassName, TaskRun, Pass, Passes,
           Task, AnyCall
  <1>8. /\ \A r \in TaskRun : Ahead(r)' => Ahead(r) /\ r # Here
        /\ \A r \in TaskRun : Closed(r)' => Closed(r) \/ r = Here
    BY <1>1, <1>2, <1>3, RunsInOrder DEF Ahead, Closed
  <1>9. NothingYet'
    BY <1>1, <1>2, <1>3, <1>6, <1>8
       DEF WindowInv, NothingYet, TaskRun, Pass, Passes, Task
  <1>10. /\ ClaimedEnded' /\ KeptEnded' /\ (phase = "done" => pass + 1 \notin Pass)'
    BY <1>1, <1>2, <1>5, <1>6
       DEF WindowInv, ClaimedEnded, KeptEnded, Scored, TaskRun, Pass, Passes, Task
  <1>11. ASSUME Undisturbed' PROVE OnlyThisTask' /\ WindowsAddUp'
    <2>1. \A r \in TaskRun : reading'[r].outcome # "abandoned"
      BY <1>11 DEF Undisturbed, TaskRun, Pass, Passes, Task
    <2>2. \A r \in TaskRun : reading[r].outcome # "abandoned"
      BY <1>1, <1>5, <1>6, <2>1
    <2>3. OnlyThisTask /\ WindowsAddUp
      BY <1>2, <1>11, <2>2 DEF WindowInv, Undisturbed
    <2>4. OnlyThisTask'
      BY <1>2, <2>3 DEF OnlyThisTask
    <2>5. EffectsIn(Here)' = applied[Here]
      <3>1. reading[Here].before + applied[Here] = Store
        BY <1>2, <2>3 DEF WindowsAddUp
      <3>2. reading[Here].before \in Int /\ applied[Here] \in Int
        BY <1>1, <1>4 DEF Readings, WindowTypeOK
      <3>3. EffectsIn(Here)' = Store - reading[Here].before
        BY <1>3, <1>5, <1>6 DEF EffectsIn
      <3> QED
        BY <1>1, <3>1, <3>2, <3>3
    <2>6. \A r \in TaskRun : Closed(r)' => EffectsIn(r)' = applied'[r]
      <3> SUFFICES ASSUME NEW r \in TaskRun, Closed(r)'
                   PROVE  EffectsIn(r)' = applied[r]
        BY <1>2
      <3>1. CASE r = Here
        <4>1. EffectsIn(r)' = EffectsIn(Here)'
          BY <1>3, <3>1 DEF EffectsIn
        <4> QED
          BY <2>5, <3>1, <4>1
      <3>2. CASE r # Here
        BY <1>6, <1>8, <2>3, <3>2 DEF WindowsAddUp
      <3> QED
        BY <3>1, <3>2
    <2>7. \A r \in TaskRun : Ahead(r)' => applied'[r] = 0
      BY <1>2, <1>8, <2>3 DEF WindowsAddUp
    <2>8. WindowsAddUp'
      BY <1>2, <2>6, <2>7 DEF WindowsAddUp, TaskRun, Pass, Passes, Task
    <2> QED
      BY <2>4, <2>8
  <1> QED
    BY <1>7, <1>9, <1>10, <1>11 DEF WindowInv

(* Reading the record settles the outcome and nothing the window counts.   *)
LEMMA ReadRecordKeeps ==
  ASSUME TaskWindowAssumption, WindowInv, ReadRecord
  PROVE  WindowInv'
  <1>1. WindowTypeOK /\ Here \in TaskRun /\ RecordKey(pass, task) \in RecordFile
    BY HereIsRun DEF WindowInv
  <1> DEFINE new == [reading[Here] EXCEPT !.calls = RecordHere.rows,
                                          !.delivered = RecordHere.ok]
  <1>2. /\ phase = "record" /\ phase' \in {"refused", "settle"}
        /\ reading' = [reading EXCEPT ![Here] = new]
        /\ UNCHANGED <<shares, pass, task, made, serving, sent, record, lost, applied>>
    BY DEF ReadRecord, proxies, upstream
  <1>3. Here' = Here
    BY <1>2 DEF Here
  <1>4. reading[Here] \in Readings /\ RecordHere \in [rows : Nat, ok : BOOLEAN]
    BY <1>1 DEF WindowTypeOK, RecordHere
  <1>5. /\ new \in Readings /\ new.before = reading[Here].before
        /\ new.after = reading[Here].after
        /\ new.outcome = reading[Here].outcome /\ new.claimed = reading[Here].claimed
    BY <1>4 DEF Readings
  <1> HIDE DEF new
  <1>6. /\ reading' \in [TaskRun -> Readings] /\ reading'[Here] = new
        /\ \A r \in TaskRun : r # Here => reading'[r] = reading[r]
        /\ \A r \in TaskRun : r # Here => EffectsIn(r)' = EffectsIn(r)
    BY <1>1, <1>2, <1>5, HereIsRead
  <1>7. WindowTypeOK'
    BY <1>1, <1>2, <1>6
       DEF WindowTypeOK, Phase, RecordFile, RecordKey, PassName, TaskRun, Pass, Passes,
           Task, AnyCall
  <1>8. /\ \A r \in TaskRun : Ahead(r)' => Ahead(r) /\ r # Here
        /\ \A r \in TaskRun : Closed(r)' => Closed(r)
    BY <1>1, <1>2, <1>3, RunsInOrder DEF Ahead, Closed
  <1>9. NothingYet'
    BY <1>1, <1>2, <1>3, <1>6, <1>8
       DEF WindowInv, NothingYet, TaskRun, Pass, Passes, Task
  <1>10. /\ ClaimedEnded' /\ KeptEnded' /\ (phase = "done" => pass + 1 \notin Pass)'
    <2>1. \A r \in TaskRun : /\ reading'[r].outcome = reading[r].outcome
                             /\ reading'[r].claimed = reading[r].claimed
      BY <1>5, <1>6
    <2>2. ClaimedEnded'
      BY <2>1 DEF WindowInv, ClaimedEnded, TaskRun, Pass, Passes, Task
    <2>3. KeptEnded'
      BY <1>1, <1>2, <2>1 DEF WindowInv, KeptEnded, Scored, TaskRun, Pass, Passes, Task
    <2>4. (phase = "done" => pass + 1 \notin Pass)'
      BY <1>2
    <2> QED BY <2>2, <2>3, <2>4
  <1>11. ASSUME Undisturbed' PROVE OnlyThisTask' /\ WindowsAddUp'
    <2>1. \A r \in TaskRun : reading'[r].outcome # "abandoned"
      BY <1>11 DEF Undisturbed, TaskRun, Pass, Passes, Task
    <2>2. \A r \in TaskRun : reading[r].outcome # "abandoned"
      BY <1>1, <1>5, <1>6, <2>1
    <2>3. OnlyThisTask /\ WindowsAddUp
      BY <1>2, <1>11, <2>2 DEF WindowInv, Undisturbed
    <2>4. OnlyThisTask'
      BY <1>2, <2>3 DEF OnlyThisTask
    <2>5. \A r \in TaskRun : EffectsIn(r)' = EffectsIn(r)
      BY <1>5, <1>6 DEF EffectsIn
    <2>6. WindowsAddUp'
      BY <1>2, <1>8, <2>3, <2>5 DEF WindowsAddUp, TaskRun, Pass, Passes, Task
    <2> QED
      BY <2>4, <2>6
  <1> QED
    BY <1>7, <1>9, <1>10, <1>11 DEF WindowInv

(* The scan goes on to the next task of the pass, with the window closed   *)
(* behind it.                                                              *)
LEMMA NextTaskKeeps ==
  ASSUME TaskWindowAssumption, WindowInv, NextTask
  PROVE  WindowInv'
  <1>1. WindowTypeOK /\ Here \in TaskRun /\ task \in Nat /\ pass \in Nat
    BY HereIsRun, RunsAreFinite DEF WindowInv, WindowTypeOK
  <1>2. /\ phase = "settle" /\ phase' = "next" /\ task' = task + 1
        /\ task + 1 \in TasksOf(pass)
        /\ UNCHANGED <<shares, pass, made, serving, sent, record, lost, applied, reading>>
    BY DEF NextTask, agents, proxies, upstream
  <1>3. task' \in Task
    BY <1>2 DEF TasksOf, TaskWindowAssumption, Task
  <1>4. WindowTypeOK'
    BY <1>1, <1>2, <1>3
       DEF WindowTypeOK, Phase, RecordFile, RecordKey, PassName, TaskRun, Pass, Passes,
           Task, AnyCall
  <1>5. Here' = <<pass, task + 1>>
    BY <1>2 DEF Here
  <1>6. ASSUME NEW r \in TaskRun
        PROVE  /\ Ahead(r)' => Ahead(r)
               /\ Closed(r)' => Closed(r)
    <2>1. r[1] \in Nat /\ r[2] \in Nat /\ r = <<r[1], r[2]>>
      BY RunsAreFinite
    <2>2. Ahead(r)' => r[1] > pass \/ (r[1] = pass /\ r[2] >= task + 1)
      BY <1>1, <1>2, <1>5, <2>1 DEF Ahead, Earlier
    <2>3. Closed(r)' => r[1] < pass \/ (r[1] = pass /\ r[2] <= task)
      BY <1>1, <1>2, <1>5, <2>1 DEF Closed, Earlier
    <2> QED
      BY <1>1, <1>2, <2>1, <2>2, <2>3 DEF Ahead, Closed, Earlier, Here
  <1>7. /\ ClaimedEnded' /\ KeptEnded' /\ (phase = "done" => pass + 1 \notin Pass)'
    BY <1>2 DEF WindowInv, ClaimedEnded, KeptEnded, Scored, TaskRun, Pass, Passes, Task
  <1>8. NothingYet'
    BY <1>2, <1>6 DEF WindowInv, NothingYet, TaskRun, Pass, Passes, Task
  <1>9. ASSUME Undisturbed' PROVE OnlyThisTask' /\ WindowsAddUp'
    <2>1. OnlyThisTask /\ WindowsAddUp
      BY <1>2, <1>9 DEF WindowInv, Undisturbed, TaskRun, Pass, Passes, Task
    <2>2. OnlyThisTask'
      BY <1>2, <2>1 DEF OnlyThisTask
    <2>3. WindowsAddUp'
      BY <1>2, <1>6, <2>1 DEF WindowsAddUp, EffectsIn, TaskRun, Pass, Passes, Task
    <2> QED
      BY <2>2, <2>3
  <1> QED
    BY <1>4, <1>7, <1>8, <1>9 DEF WindowInv

(* A pass that is gone on from had none of its tasks abandoned.             *)
LEMMA KeptPassEnded ==
  ASSUME TaskWindowAssumption, ClaimedEnded, pass \in Pass, Kept(pass),
         NEW r \in Scored, r[1] = pass
  PROVE  reading[r].outcome # "abandoned"
  <1>1. r \in TaskRun /\ r[2] \in Task /\ r = <<pass, r[2]>> /\ Passes[pass] # "deadline"
    BY RunsAreFinite DEF Scored
  <1>2. Passes[pass] \in PassKind
    BY PassesAre
  <1>3. CASE Passes[pass] = "baseline"
    <2>1. CleanEnough
      BY <1>3 DEF Kept
    <2>2. reading[<<pass, r[2]>>].claimed
      BY <1>1, <2>1 DEF CleanEnough
    <2> QED
      BY <1>1, <2>2 DEF ClaimedEnded
  <1>4. CASE Passes[pass] = "chaos"
    BY <1>1, <1>4 DEF Kept
  <1> QED
    BY <1>1, <1>2, <1>3, <1>4 DEF PassKind

(* Task runs that a pass left out hold nothing, and count as closed.        *)
LEMMA EndPassKeeps ==
  ASSUME TaskWindowAssumption, WindowInv, EndPass
  PROVE  WindowInv'
  <1>1. WindowTypeOK /\ Here \in TaskRun /\ task \in Nat /\ pass \in Nat /\ pass \in Pass
    BY HereIsRun, RunsAreFinite DEF WindowInv, WindowTypeOK
  <1>2. /\ phase = "settle"
        /\ UNCHANGED <<shares, made, serving, sent, record, lost, applied, reading>>
    BY DEF EndPass, agents, proxies, upstream
  <1>3. \/ phase' = "refused" /\ UNCHANGED <<pass, task>>
        \/ /\ Kept(pass) /\ pass + 1 \in Pass
           /\ phase' = "next" /\ pass' = pass + 1 /\ task' = 1
        \/ /\ Kept(pass) /\ pass + 1 \notin Pass
           /\ phase' = "done" /\ UNCHANGED <<pass, task>>
    BY DEF EndPass
  <1>4. pass' \in Pass /\ task' \in Task /\ phase' \in Phase
    BY <1>1, <1>3 DEF WindowTypeOK, TaskWindowAssumption, Task, Phase
  <1>5. WindowTypeOK'
    BY <1>1, <1>2, <1>4
       DEF WindowTypeOK, RecordFile, RecordKey, PassName, TaskRun, Pass, Passes, Task,
           AnyCall
  <1>6. (phase = "done" => pass + 1 \notin Pass)' /\ ClaimedEnded'
    BY <1>2, <1>3 DEF WindowInv, ClaimedEnded, TaskRun, Pass, Passes, Task
  <1>7. KeptEnded'
    <2>1. \A r \in Scored : r[1] \in Nat /\ (pass + 1 \notin Pass => r[1] <= pass)
      <3>1. Pass = 1..Len(Passes) /\ Len(Passes) \in Nat
        BY PassesAre
      <3>2. pass + 1 \notin Pass => pass = Len(Passes)
        BY <1>1, <3>1
      <3>3. \A r \in Scored : r[1] \in Pass
        BY RunsAreFinite DEF Scored
      <3> QED
        BY <3>1, <3>2, <3>3
    <2>2. \A r \in Scored : r[1] < pass => reading[r].outcome # "abandoned"
      BY DEF WindowInv, KeptEnded
    <2>3. Kept(pass) => \A r \in Scored : r[1] = pass => reading[r].outcome # "abandoned"
      BY <1>1, KeptPassEnded DEF WindowInv
    <2>4. \A r \in Scored : r[1] < pass' \/ phase' = "done" =>
             r[1] < pass \/ (r[1] = pass /\ Kept(pass))
      BY <1>1, <1>3, <2>1
    <2> QED
      BY <1>2, <2>2, <2>3, <2>4 DEF KeptEnded, Scored, TaskRun, Pass, Passes, Task
  <1>8. ASSUME NEW r \in TaskRun
        PROVE  /\ Ahead(r)' => Ahead(r)
               /\ Closed(r)' => Closed(r) \/ Ahead(r)
    <2>1. /\ r[1] \in Nat /\ r[2] \in Nat /\ r[2] >= 1 /\ r = <<r[1], r[2]>>
      BY RunsAreFinite DEF Task
    <2>2. CASE pass' = pass /\ task' = task /\ phase' # "next"
      BY <1>1, <1>2, <2>1, <2>2 DEF Ahead, Closed, Earlier, Here
    <2>3. CASE pass' = pass + 1 /\ task' = 1 /\ phase' = "next"
      <3>1. Here' = <<pass + 1, 1>>
        BY <2>3 DEF Here
      <3>2. Ahead(r)' => r[1] >= pass + 1
        BY <1>1, <2>1, <2>3, <3>1 DEF Ahead, Earlier
      <3>3. Closed(r)' => r[1] <= pass
        BY <1>1, <2>1, <2>3, <3>1 DEF Closed, Earlier
      <3> QED
        BY <1>1, <1>2, <2>1, <3>2, <3>3 DEF Ahead, Closed, Earlier, Here
    <2> QED
      BY <1>3, <2>2, <2>3
  <1>9. NothingYet'
    BY <1>2, <1>3, <1>8 DEF WindowInv, NothingYet, TaskRun, Pass, Passes, Task
  <1>10. ASSUME Undisturbed' PROVE OnlyThisTask' /\ WindowsAddUp'
    <2>1. OnlyThisTask /\ WindowsAddUp
      BY <1>2, <1>10 DEF WindowInv, Undisturbed, TaskRun, Pass, Passes, Task
    <2>2. OnlyThisTask'
      BY <1>2, <2>1 DEF OnlyThisTask
    <2>3. \A r \in TaskRun : Ahead(r) => EffectsIn(r) = applied[r]
      <3>1. \A r \in TaskRun : Ahead(r) => reading[r] = NotRead /\ applied[r] = 0
        BY <2>1 DEF WindowInv, NothingYet, WindowsAddUp
      <3>2. NotRead.after - NotRead.before = 0
        BY DEF NotRead
      <3> QED
        BY <3>1, <3>2 DEF EffectsIn
    <2>4. phase' \notin {"running", "after"}
      BY <1>3
    <2>5. WindowsAddUp'
      BY <1>2, <1>8, <2>1, <2>3, <2>4
         DEF WindowsAddUp, EffectsIn, TaskRun, Pass, Passes, Task
    <2> QED
      BY <2>2, <2>5
  <1> QED
    BY <1>5, <1>6, <1>7, <1>9, <1>10 DEF WindowInv

-----------------------------------------------------------------------------
(* The invariant. *)

(* A scan that has opened no window satisfies the invariant.               *)
LEMMA WindowInit ==
  ASSUME TaskWindowAssumption, Init
  PROVE  WindowInv
  <1>1. 1 \in Pass /\ 1 \in Task
    BY PassesAre DEF TaskWindowAssumption, Task
  <1>2. NotRead \in Readings /\ NotRead.after - NotRead.before = 0
        /\ NotRead.outcome = "none" /\ NotRead.claimed = FALSE
    BY DEF NotRead, Readings
  <1>3. WindowTypeOK
    BY <1>1, <1>2 DEF Init, WindowTypeOK, TaskWindowAssumption, Phase
  <1>4. \A r \in TaskRun : reading[r] = NotRead /\ applied[r] = 0
    BY DEF Init
  <1>5. NothingYet /\ ClaimedEnded
    BY <1>2, <1>4 DEF Init, NothingYet, ClaimedEnded
  <1>6. KeptEnded
    BY <1>2, <1>4 DEF KeptEnded, Scored
  <1>7. WindowsAddUp
    BY <1>2, <1>4 DEF Init, WindowsAddUp, EffectsIn
  <1> QED
    BY <1>3, <1>5, <1>6, <1>7 DEF Init, WindowInv, OnlyThisTask

(* The invariant survives every step of the scan, agents, proxies and      *)
(* upstream.                                                               *)
LEMMA WindowStep ==
  ASSUME TaskWindowAssumption, WindowInv, [Next]_vars
  PROVE  WindowInv'
  <1>1. CASE ScanStep
    BY <1>1, OpenWindowKeeps, TaskEndsKeeps, DeadlineKeeps, CloseWindowKeeps,
       ReadRecordKeeps, NextTaskKeeps, EndPassKeeps DEF ScanStep
  <1>2. CASE \E fault \in Drawable : MakesCall(fault)
    BY <1>2, MakesCallKeeps
  <1>3. CASE \E call \in sent : Land(call)
    BY <1>3, LandKeeps
  <1>4. CASE \E call \in serving : Served(call) \/ TimesOut(call) \/ ProxyKilled(call)
    BY <1>4, ServedKeeps, LettingGoKeeps
  <1>5. CASE GivesUp
    BY <1>5, AgentAloneKeeps DEF GivesUp, scan, proxies, upstream
  <1>6. CASE \E result \in {"ok", "failed"} : Finishes(result)
    BY <1>6, AgentAloneKeeps DEF Finishes, scan, proxies, upstream
  <1>7. CASE UNCHANGED vars
    BY <1>7, AgentAloneKeeps DEF vars, scan, agents, proxies, upstream
  <1> QED
    BY <1>1, <1>2, <1>3, <1>4, <1>5, <1>6, <1>7 DEF Next

(* The invariant holds of every behaviour: what a disturbed scan may lose,  *)
(* and what the reads of an undisturbed one add up to                       *)
(* (fault.FaultInjector._one_chaos_run, AgentTarget._run_task).             *)
THEOREM WindowInvCorrect ==
  ASSUME TaskWindowAssumption
  PROVE  Spec => []WindowInv
  <1>1. Init => WindowInv
    BY WindowInit
  <1>2. WindowInv /\ [Next]_vars => WindowInv'
    BY WindowStep
  <1> QED
    BY <1>1, <1>2, PTL DEF Spec

(* A scored window counts its own task's effects, all of them and no others, *)
(* when proxies share their agent's stderr and none lets go of a call.      *)
THEOREM WindowsExactAlways ==
  ASSUME TaskWindowAssumption
  PROVE  Spec => []WindowsExact
  <1>1. ASSUME WindowInv PROVE WindowsExact
    <2> SUFFICES ASSUME Done, shares, lost.killed + lost.timeout = 0, HeldTaskEnded,
                        NEW r \in Scored
                 PROVE  EffectsIn(r) = applied[r]
      BY DEF WindowsExact
    <2>1. /\ WindowTypeOK /\ Here \in TaskRun /\ r \in TaskRun /\ phase = "done"
          /\ pass + 1 \notin Pass
      BY <1>1, HereIsRun DEF WindowInv, Done, Scored
    <2>2. Undisturbed
      BY <1>1, <2>1 DEF WindowInv, KeptEnded, HeldTaskEnded, Undisturbed
    <2>3. WindowsAddUp
      BY <1>1, <2>2 DEF WindowInv
    <2>4. Closed(r) \/ Ahead(r)
      BY <2>1, RunsInOrder DEF Closed, Ahead
    <2>5. Ahead(r) => reading[r] = NotRead /\ applied[r] = 0
      BY <1>1, <2>1, <2>3 DEF WindowInv, NothingYet, WindowsAddUp
    <2>6. NotRead.after - NotRead.before = 0
      BY DEF NotRead
    <2> QED
      BY <2>1, <2>3, <2>4, <2>5, <2>6 DEF WindowsAddUp, EffectsIn
  <1> QED
    BY <1>1, WindowInvCorrect, PTL

-----------------------------------------------------------------------------
(* What the records hold. *)

(* Of the passes only chaos runs are of one kind.                          *)
LEMMA OnePassOfAKind ==
  ASSUME TaskWindowAssumption, NEW p \in Pass, NEW q \in Pass,
         Passes[p] = Passes[q], Passes[p] # "chaos"
  PROVE  p = q
  <1> DEFINE head == <<"baseline">>
             held == IF HoldReply THEN <<"deadline">> ELSE << >>
             runs == [r \in 1..Repeats |-> "chaos"]
  <1>1. /\ head \in Seq(PassKind) /\ Len(head) = 1 /\ head[1] = "baseline"
        /\ runs \in Seq(PassKind) /\ Len(runs) = Repeats /\ Repeats \in Nat
        /\ \A r \in 1..Repeats : runs[r] = "chaos"
    BY DEF PassKind, TaskWindowAssumption
  <1>2. /\ held \in Seq(PassKind) /\ Len(held) \in {0, 1}
        /\ Len(held) = 1 => held[1] = "deadline"
    <2>1. << >> \in Seq(PassKind) /\ Len(<< >>) = 0 /\ "deadline" \in PassKind
      BY DEF PassKind
    <2>2. <<"deadline">> = Append(<< >>, "deadline") /\ <<"deadline">>[1] = "deadline"
      OBVIOUS
    <2>3. <<"deadline">> \in Seq(PassKind) /\ Len(<<"deadline">>) = 1
      BY <2>1, <2>2, AppendProperties
    <2> QED
      BY <2>1, <2>2, <2>3
  <1>3. Passes = head \o held \o runs
    BY DEF Passes
  <1> HIDE DEF head, held, runs
  <1>4. /\ head \o held \in Seq(PassKind) /\ Len(head \o held) = 1 + Len(held)
        /\ (head \o held)[1] = "baseline"
        /\ Len(held) = 1 => (head \o held)[2] = "deadline"
    <2>1. /\ head \o held \in Seq(PassKind) /\ Len(head \o held) = 1 + Len(held)
          /\ \A i \in 1..(1 + Len(held)) :
                (head \o held)[i] = IF i <= 1 THEN head[i] ELSE held[i - 1]
      <3>1. head \in Seq(PassKind) /\ held \in Seq(PassKind) /\ Len(head) = 1
        BY <1>1, <1>2
      <3>2. /\ head \o held \in Seq(PassKind) /\ Len(head \o held) = Len(head) + Len(held)
            /\ \A i \in 1..Len(head) + Len(held) :
                  (head \o held)[i] =
                     IF i <= Len(head) THEN head[i] ELSE held[i - Len(head)]
        BY <3>1, ConcatProperties
      <3> QED
        BY <3>1, <3>2
    <2>2. 1 \in 1..(1 + Len(held)) /\ (Len(held) = 1 => 2 \in 1..(1 + Len(held)))
      BY <1>2
    <2>3. (head \o held)[1] = "baseline"
      BY <1>1, <2>1, <2>2
    <2>4. Len(held) = 1 => (head \o held)[2] = "deadline"
      BY <1>2, <2>1, <2>2
    <2> QED
      BY <2>1, <2>3, <2>4
  <1>5. \A i \in 1..Len(Passes) :
           Passes[i] = IF i <= 1 + Len(held) THEN (head \o held)[i]
                       ELSE runs[i - (1 + Len(held))]
    BY <1>1, <1>3, <1>4, ConcatProperties
  <1>6. /\ Pass = 1..Len(Passes) /\ Len(Passes) = 1 + Len(held) + Repeats
    BY <1>1, <1>2, <1>3, <1>4, PassesAre, ConcatProperties
  <1>7. \A i \in Pass : Passes[i] # "chaos" =>
           \/ i = 1 /\ Passes[i] = "baseline"
           \/ i = 2 /\ Passes[i] = "deadline"
    <2> SUFFICES ASSUME NEW i \in Pass, Passes[i] # "chaos"
                 PROVE  \/ i = 1 /\ Passes[i] = "baseline"
                        \/ i = 2 /\ Passes[i] = "deadline"
      OBVIOUS
    <2>1. CASE i <= 1 + Len(held)
      BY <1>2, <1>4, <1>5, <1>6, <2>1
    <2>2. CASE i > 1 + Len(held)
      <3>1. i - (1 + Len(held)) \in 1..Repeats
        BY <1>1, <1>2, <1>6, <2>2
      <3> QED BY <1>1, <1>2, <1>5, <1>6, <2>2, <3>1
    <2> QED BY <1>2, <1>6, <2>1, <2>2
  <1> QED
    BY <1>7

(* No two task runs share a record file.                                   *)
LEMMA KeysApart ==
  ASSUME TaskWindowAssumption, NEW r \in TaskRun, NEW s \in TaskRun,
         RecordKey(r[1], r[2]) = RecordKey(s[1], s[2])
  PROVE  r = s
  <1>1. /\ r[1] \in Pass /\ s[1] \in Pass /\ r = <<r[1], r[2]>> /\ s = <<s[1], s[2]>>
        /\ r[1] \in Nat /\ s[1] \in Nat
    BY RunsAreFinite
  <1>2. PassName(r[1]) = PassName(s[1]) /\ r[2] = s[2]
    BY DEF RecordKey
  <1>3. Passes[r[1]] = Passes[s[1]]
    BY <1>2 DEF PassName
  <1>4. CASE Passes[r[1]] = "chaos"
    <2>1. r[1] - (Len(Passes) - Repeats) = s[1] - (Len(Passes) - Repeats)
      BY <1>2, <1>3, <1>4 DEF PassName
    <2>2. Len(Passes) - Repeats \in Int
      BY PassesAre DEF TaskWindowAssumption
    <2>3. r[1] = s[1]
      BY <1>1, <2>1, <2>2
    <2> QED
      BY <1>1, <1>2, <2>3
  <1>5. CASE Passes[r[1]] # "chaos"
    <2>1. r[1] = s[1]
      BY <1>1, <1>3, <1>5, OnePassOfAKind
    <2> QED
      BY <1>1, <1>2, <2>1
  <1> QED
    BY <1>4, <1>5

RowsOf(r) == record[RecordKey(r[1], r[2])].rows

HandledFor(r) == {call \in serving : call.run = r}

(* A row goes into the record of its own task run and no other.            *)
LEMMA RowWritten ==
  ASSUME TaskWindowAssumption, WindowTypeOK, NEW call, NEW inner, call.run \in TaskRun,
         Write(call, inner)
  PROVE  /\ RowsOf(call.run)' = RowsOf(call.run) + 1
         /\ \A r \in TaskRun : r # call.run => RowsOf(r)' = RowsOf(r)
  <1>1. \A r \in TaskRun : RecordKey(r[1], r[2]) \in RecordFile
    BY DEF RecordFile
  <1>2. \A r \in TaskRun : r # call.run =>
           RecordKey(r[1], r[2]) # RecordKey(call.run[1], call.run[2])
    BY KeysApart
  <1>3. \A r : RowsOf(r)' = record'[RecordKey(r[1], r[2])].rows
    BY DEF RowsOf, RecordKey, PassName, Passes
  <1> DEFINE file == RecordKey(call.run[1], call.run[2])
             old == record[file]
             new == [rows |-> old.rows + 1,
                     ok   |-> old.ok \/ ResponseTo(call.fault, inner).ok]
  <1>4. record' = [record EXCEPT ![file] = new]
    BY DEF Write
  <1>5. new.rows = old.rows + 1
    OBVIOUS
  <1> HIDE DEF new, file
  <1>6. file \in DOMAIN record /\ \A r \in TaskRun : RecordKey(r[1], r[2]) \in DOMAIN record
    BY <1>1 DEF WindowTypeOK, file
  <1>7. record'[file] = new /\ \A f \in DOMAIN record : f # file => record'[f] = record[f]
    BY <1>4, <1>6
  <1>8. RowsOf(call.run)' = RowsOf(call.run) + 1
    BY <1>3, <1>5, <1>7 DEF RowsOf, file
  <1>9. \A r \in TaskRun : r # call.run => RowsOf(r)' = RowsOf(r)
    BY <1>2, <1>3, <1>6, <1>7 DEF RowsOf, file
  <1> QED
    BY <1>8, <1>9

(* Every call made is in its run's record, or a proxy has it, or was killed *)
(* with it; calls are numbered as they are made.                           *)
CallsKept ==
    /\ IsFiniteSet(serving)
    /\ \A call \in serving : call.n <= made[call.run]
    /\ \A r \in TaskRun :
          /\ RowsOf(r) + Cardinality(HandledFor(r)) <= made[r]
          /\ lost.killed = 0 => RowsOf(r) + Cardinality(HandledFor(r)) = made[r]

(* The calls a proxy has of a run are counted by a number.                 *)
LEMMA HandledIsFinite ==
  ASSUME IsFiniteSet(serving), NEW r
  PROVE  IsFiniteSet(HandledFor(r)) /\ Cardinality(HandledFor(r)) \in Nat
  BY FS_Subset, FS_CardinalityType DEF HandledFor

(* A call taken from a proxy is one less of its run.                       *)
LEMMA HandledLess ==
  ASSUME IsFiniteSet(serving), NEW call \in serving, serving' = serving \ {call}
  PROVE  /\ Cardinality(HandledFor(call.run)') = Cardinality(HandledFor(call.run)) - 1
         /\ \A r : r # call.run => HandledFor(r)' = HandledFor(r)
  <1>1. HandledFor(call.run)' = HandledFor(call.run) \ {call} /\ call \in HandledFor(call.run)
    BY DEF HandledFor
  <1>2. \A r : r # call.run => HandledFor(r)' = HandledFor(r)
    BY DEF HandledFor
  <1>3. IsFiniteSet(HandledFor(call.run))
    BY HandledIsFinite
  <1>4. Cardinality(HandledFor(call.run) \ {call}) = Cardinality(HandledFor(call.run)) - 1
    BY <1>1, <1>3, FS_RemoveElement
  <1> QED
    BY <1>1, <1>2, <1>4

(* A step that writes no row, makes no call and takes none from a proxy.    *)
LEMMA QuietKeepsCalls ==
  ASSUME CallsKept, UNCHANGED <<serving, record, made, lost>>
  PROVE  CallsKept'
  BY DEF CallsKept, HandledFor, RowsOf, RecordKey, PassName, TaskRun, Pass, Passes, Task

(* A call that is made goes to a proxy, or leaves its row at once.          *)
LEMMA MakesCallKeepsCalls ==
  ASSUME TaskWindowAssumption, WindowTypeOK, CallsKept, NEW fault \in Drawable,
         MakesCall(fault)
  PROVE  CallsKept'
  <1>0. PICK call : call = [run |-> Here, n |-> made[Here] + 1, fault |-> fault]
    OBVIOUS
  <1>1. Here \in TaskRun /\ TaskRun' = TaskRun
    BY HereIsRun DEF TaskRun, Pass, Passes, Task
  <1>2. /\ made' = [made EXCEPT ![Here] = @ + 1]
        /\ UNCHANGED lost
        /\ \/ serving' = serving \cup {call} /\ UNCHANGED record
           \/ Write(call, "ok") /\ UNCHANGED serving
        /\ Here' = Here
    BY <1>0 DEF MakesCall, scan, Here
  <1>3. call.run = Here /\ call.n = made[Here] + 1
    BY <1>0
  <1>4. /\ made[Here] \in Nat /\ made'[Here] = made[Here] + 1
        /\ \A r \in TaskRun : r # Here => made'[r] = made[r]
        /\ \A r \in TaskRun : made[r] \in Nat
    BY <1>1, <1>2 DEF WindowTypeOK
  <1>5. /\ IsFiniteSet(serving)
        /\ \A other \in serving : other.n <= made[other.run] /\ other.run \in TaskRun
                                  /\ other.n \in Nat
        /\ \A r \in TaskRun :
              /\ RowsOf(r) \in Nat /\ Cardinality(HandledFor(r)) \in Nat
              /\ IsFiniteSet(HandledFor(r))
              /\ RowsOf(r) + Cardinality(HandledFor(r)) <= made[r]
              /\ lost.killed = 0 => RowsOf(r) + Cardinality(HandledFor(r)) = made[r]
    <2>1. IsFiniteSet(serving)
      BY DEF CallsKept
    <2>2. \A other \in serving : other.n <= made[other.run] /\ other.run \in TaskRun
                                 /\ other.n \in Nat
      BY CallFields DEF CallsKept, WindowTypeOK
    <2>3. \A r \in TaskRun : IsFiniteSet(HandledFor(r)) /\ Cardinality(HandledFor(r)) \in Nat
      BY <2>1, HandledIsFinite
    <2>4. \A r \in TaskRun : RowsOf(r) \in Nat
      BY DEF RowsOf, WindowTypeOK, RecordFile
    <2> QED
      BY <2>1, <2>2, <2>3, <2>4 DEF CallsKept
  <1>6. CASE serving' = serving \cup {call} /\ UNCHANGED record
    <2>1. call \notin serving
      BY <1>1, <1>3, <1>4, <1>5
    <2>2. HandledFor(Here)' = HandledFor(Here) \cup {call} /\ call \notin HandledFor(Here)
      <3>1. HandledFor(Here)' = {c \in serving' : c.run = Here'}
        BY DEF HandledFor
      <3> QED
        BY <1>2, <1>3, <1>6, <2>1, <3>1 DEF HandledFor
    <2>3. Cardinality(HandledFor(Here) \cup {call}) = Cardinality(HandledFor(Here)) + 1
      BY <1>1, <1>5, <2>2, FS_AddElement
    <2>5. \A r \in TaskRun : r # Here => HandledFor(r)' = HandledFor(r)
      BY <1>3, <1>6 DEF HandledFor
    <2>6. \A r \in TaskRun : RowsOf(r)' = RowsOf(r)
      BY <1>6 DEF RowsOf, RecordKey, PassName, Passes
    <2>7. IsFiniteSet(serving')
      BY <1>5, <1>6, FS_AddElement
    <2>8. \A other \in serving' : other.n <= made'[other.run]
      BY <1>1, <1>3, <1>4, <1>5, <1>6
    <2>9. ASSUME NEW r \in TaskRun
          PROVE  /\ (RowsOf(r) + Cardinality(HandledFor(r)))' <= made'[r]
                 /\ lost'.killed = 0 => (RowsOf(r) + Cardinality(HandledFor(r)))' = made'[r]
      <3>1. CASE r = Here
        <4>1. HandledFor(r)' = HandledFor(Here) \cup {call}
          BY <1>2, <2>2, <3>1 DEF HandledFor
        <4>2. Cardinality(HandledFor(r))' = Cardinality(HandledFor(r)) + 1
          BY <2>3, <3>1, <4>1
        <4> QED
          BY <1>2, <1>4, <1>5, <2>6, <3>1, <4>2
      <3>2. CASE r # Here
        <4>1. Cardinality(HandledFor(r))' = Cardinality(HandledFor(r))
          BY <2>5, <3>2
        <4> QED
          BY <1>2, <1>4, <1>5, <2>6, <3>2, <4>1
      <3> QED BY <3>1, <3>2
    <2> QED
      BY <1>1, <2>7, <2>8, <2>9 DEF CallsKept
  <1>7. CASE Write(call, "ok") /\ UNCHANGED serving
    <2>1. /\ RowsOf(call.run)' = RowsOf(call.run) + 1
          /\ \A r \in TaskRun : r # call.run => RowsOf(r)' = RowsOf(r)
      BY <1>1, <1>3, <1>7, RowWritten
    <2>2. \A r \in TaskRun : HandledFor(r)' = HandledFor(r)
      BY <1>7 DEF HandledFor
    <2>3. \A other \in serving' : other.n <= made'[other.run]
      BY <1>1, <1>4, <1>5, <1>7
    <2>4. ASSUME NEW r \in TaskRun
          PROVE  /\ (RowsOf(r) + Cardinality(HandledFor(r)))' <= made'[r]
                 /\ lost'.killed = 0 => (RowsOf(r) + Cardinality(HandledFor(r)))' = made'[r]
      <3>1. RowsOf(r)' = RowsOf(r) + (IF r = Here THEN 1 ELSE 0)
        BY <1>3, <1>5, <2>1
      <3>2. Cardinality(HandledFor(r))' = Cardinality(HandledFor(r))
        BY <2>2
      <3> QED
        BY <1>2, <1>4, <1>5, <3>1, <3>2
    <2> QED
      BY <1>1, <1>5, <1>7, <2>3, <2>4 DEF CallsKept
  <1> QED
    BY <1>2, <1>6, <1>7

(* A call a proxy is done with leaves its row as it goes.                   *)
LEMMA WrittenKeepsCalls ==
  ASSUME TaskWindowAssumption, WindowTypeOK, CallsKept, NEW call \in serving, NEW inner,
         Write(call, inner), serving' = serving \ {call}, UNCHANGED made,
         lost'.killed = lost.killed
  PROVE  CallsKept'
  <1>1. call.run \in TaskRun /\ TaskRun' = TaskRun /\ IsFiniteSet(serving)
    BY CallFields DEF WindowTypeOK, CallsKept, TaskRun, Pass, Passes, Task
  <1>2. /\ RowsOf(call.run)' = RowsOf(call.run) + 1
        /\ \A r \in TaskRun : r # call.run => RowsOf(r)' = RowsOf(r)
    BY <1>1, RowWritten
  <1>3. /\ Cardinality(HandledFor(call.run)') = Cardinality(HandledFor(call.run)) - 1
        /\ \A r : r # call.run => HandledFor(r)' = HandledFor(r)
    BY <1>1, HandledLess
  <1>4. \A r \in TaskRun : RowsOf(r) \in Nat /\ Cardinality(HandledFor(r)) \in Nat
    BY <1>1, HandledIsFinite DEF RowsOf, WindowTypeOK, RecordFile
  <1>5. \A r \in TaskRun : (RowsOf(r) + Cardinality(HandledFor(r)))'
                              = RowsOf(r) + Cardinality(HandledFor(r))
    <2> SUFFICES ASSUME NEW r \in TaskRun
                 PROVE  (RowsOf(r) + Cardinality(HandledFor(r)))'
                           = RowsOf(r) + Cardinality(HandledFor(r))
      OBVIOUS
    <2>1. CASE r = call.run
      BY <1>1, <1>2, <1>3, <1>4, <2>1
    <2>2. CASE r # call.run
      BY <1>2, <1>3, <2>2
    <2> QED BY <2>1, <2>2
  <1>6. IsFiniteSet(serving')
    BY <1>1, FS_RemoveElement
  <1> QED
    BY <1>1, <1>5, <1>6 DEF CallsKept

(* A call a proxy was killed with leaves none, which is counted.            *)
LEMMA KilledKeepsCalls ==
  ASSUME TaskWindowAssumption, WindowTypeOK, CallsKept, NEW call \in serving,
         ProxyKilled(call)
  PROVE  CallsKept'
  <1>1. call.run \in TaskRun /\ TaskRun' = TaskRun /\ IsFiniteSet(serving)
    BY CallFields DEF WindowTypeOK, CallsKept, TaskRun, Pass, Passes, Task
  <1>2. /\ serving' = serving \ {call} /\ UNCHANGED <<made, record>>
        /\ lost' = [lost EXCEPT !.killed = @ + 1]
    BY DEF ProxyKilled, agents
  <1>3. lost'.killed = lost.killed + 1 /\ lost.killed \in Nat
    BY <1>2 DEF WindowTypeOK
  <1>4. /\ Cardinality(HandledFor(call.run)') = Cardinality(HandledFor(call.run)) - 1
        /\ \A r : r # call.run => HandledFor(r)' = HandledFor(r)
    BY <1>1, <1>2, HandledLess
  <1>5. \A r \in TaskRun : RowsOf(r) \in Nat /\ Cardinality(HandledFor(r)) \in Nat
                           /\ made[r] \in Nat
    BY <1>1, HandledIsFinite DEF RowsOf, WindowTypeOK, RecordFile
  <1>6. \A r \in TaskRun : RowsOf(r)' = RowsOf(r)
    BY <1>2 DEF RowsOf, RecordKey, PassName, Passes
  <1>7. \A r \in TaskRun : (RowsOf(r) + Cardinality(HandledFor(r)))' <= made[r]
    <2> SUFFICES ASSUME NEW r \in TaskRun
                 PROVE  (RowsOf(r) + Cardinality(HandledFor(r)))' <= made[r]
      OBVIOUS
    <2>1. RowsOf(r) + Cardinality(HandledFor(r)) <= made[r]
      BY DEF CallsKept
    <2>2. CASE r = call.run
      BY <1>4, <1>5, <1>6, <2>1, <2>2
    <2>3. CASE r # call.run
      BY <1>4, <1>6, <2>1, <2>3
    <2> QED BY <2>2, <2>3
  <1>8. IsFiniteSet(serving')
    BY <1>1, <1>2, FS_RemoveElement
  <1> QED
    BY <1>1, <1>2, <1>3, <1>7, <1>8 DEF CallsKept

(* The task run's record has been read, or the scan has gone past it.       *)
Recorded(r) ==
    \/ Earlier(r, Here)
    \/ r = Here /\ phase \in {"settle", "done", "refused"}

(* What the scan read of the records: with a shared stderr, a task that     *)
(* ended by itself left no call with a proxy.                              *)
RecordsAddUp ==
    /\ \A r \in TaskRun : Ahead(r) => made[r] = 0
    /\ \A r \in TaskRun : reading[r].calls <= made[r]
    /\ shares /\ lost.killed = 0 =>
          /\ phase \in {"after", "record"} /\ reading[Here].outcome # "abandoned" =>
                HandledFor(Here) = {}
          /\ \A r \in TaskRun : Recorded(r) /\ reading[r].outcome # "abandoned" =>
                reading[r].calls = made[r]

RecordInv == WindowInv /\ CallsKept /\ RecordsAddUp

(* Proxies that take calls off their hands change none of it.               *)
LEMMA ProxiesKeepRecords ==
  ASSUME RecordsAddUp, UNCHANGED <<shares, pass, task, phase, made, reading>>,
         serving' \subseteq serving, lost'.killed = 0 => lost.killed = 0
  PROVE  RecordsAddUp'
  <1>1. Here' = Here /\ TaskRun' = TaskRun
    BY DEF Here, TaskRun, Pass, Passes, Task
  <1>2. \A r : /\ Ahead(r)' <=> Ahead(r)
               /\ Recorded(r)' <=> Recorded(r)
    BY <1>1 DEF Ahead, Recorded, Earlier
  <1>3. HandledFor(Here) = {} => HandledFor(Here)' = {}
    BY <1>1 DEF HandledFor
  <1> QED
    BY <1>1, <1>2, <1>3 DEF RecordsAddUp

(* A call is made by the task that runs, which has not been read.           *)
LEMMA MakesCallKeepsRecords ==
  ASSUME TaskWindowAssumption, WindowTypeOK, RecordsAddUp, NEW fault \in Drawable,
         MakesCall(fault)
  PROVE  RecordsAddUp'
  <1>1. /\ phase = "running" /\ made' = [made EXCEPT ![Here] = @ + 1]
        /\ UNCHANGED <<shares, pass, task, phase, lost, reading>>
    BY DEF MakesCall, scan
  <1>2. Here' = Here /\ TaskRun' = TaskRun /\ Here \in TaskRun
    BY <1>1, HereIsRun DEF Here, TaskRun, Pass, Passes, Task
  <1>3. /\ made[Here] \in Nat /\ made'[Here] = made[Here] + 1
        /\ \A r \in TaskRun : r # Here => made'[r] = made[r]
        /\ \A r \in TaskRun : reading[r].calls \in Nat
    BY <1>1, <1>2 DEF WindowTypeOK, Readings
  <1>4. \A r \in TaskRun : /\ Ahead(r)' => Ahead(r) /\ r # Here
                           /\ Recorded(r)' => Recorded(r) /\ r # Here
    BY <1>1, <1>2, RunsInOrder DEF Ahead, Recorded
  <1>5. \A r \in TaskRun : reading[r].calls <= made'[r]
    BY <1>3 DEF RecordsAddUp
  <1> QED
    BY <1>1, <1>2, <1>3, <1>4, <1>5 DEF RecordsAddUp

(* Up to the record, the scan reads no row of it; a task that ended by      *)
(* itself leaves no call behind.                                           *)
LEMMA WindowKeepsRecords ==
  ASSUME TaskWindowAssumption, WindowTypeOK, RecordsAddUp, NEW new \in Readings,
         UNCHANGED <<shares, pass, task, made, serving, lost>>,
         phase' \in {"running", "after", "record"},
         phase \notin {"settle", "done", "refused"},
         reading' = [reading EXCEPT ![Here] = new], new.calls = reading[Here].calls,
         shares /\ phase' \in {"after", "record"} /\ new.outcome # "abandoned"
            /\ lost.killed = 0 => HandledFor(Here) = {}
  PROVE  RecordsAddUp'
  <1>1. Here' = Here /\ TaskRun' = TaskRun /\ Here \in TaskRun
    BY HereIsRun DEF Here, TaskRun, Pass, Passes, Task
  <1>2. /\ reading'[Here] = new
        /\ \A r \in TaskRun : r # Here => reading'[r] = reading[r]
    BY <1>1, HereIsRead
  <1>3. \A r \in TaskRun : /\ Ahead(r)' => Ahead(r)
                           /\ Recorded(r)' => Recorded(r) /\ r # Here
    BY <1>1, RunsInOrder DEF Ahead, Recorded
  <1>4. HandledFor(Here)' = HandledFor(Here)
    BY <1>1 DEF HandledFor
  <1>5. \A r \in TaskRun : reading'[r].calls = reading[r].calls
    BY <1>2
  <1> QED
    BY <1>1, <1>2, <1>3, <1>4, <1>5 DEF RecordsAddUp

(* The record read holds every call its task made that no proxy has.        *)
LEMMA ReadRecordKeepsRecords ==
  ASSUME TaskWindowAssumption, RecordInv, ReadRecord
  PROVE  RecordsAddUp'
  <1>1. WindowTypeOK /\ Here \in TaskRun /\ Here' = Here /\ TaskRun' = TaskRun
    BY HereIsRun DEF RecordInv, WindowInv, ReadRecord, Here, TaskRun, Pass, Passes, Task
  <1> DEFINE new == [reading[Here] EXCEPT !.calls = RecordHere.rows,
                                          !.delivered = RecordHere.ok]
  <1>2. /\ phase = "record" /\ phase' \in {"refused", "settle"}
        /\ reading' = [reading EXCEPT ![Here] = new]
        /\ UNCHANGED <<shares, made, serving, lost>>
    BY DEF ReadRecord, proxies
  <1>3. /\ RecordHere = record[RecordKey(pass, task)]
        /\ RecordHere \in [rows : Nat, ok : BOOLEAN]
        /\ RowsOf(Here) = RecordHere.rows /\ reading[Here] \in Readings
    BY <1>1, HereIsRun DEF RecordHere, RowsOf, Here, WindowTypeOK
  <1>4. /\ new \in Readings /\ new.calls = RowsOf(Here)
        /\ new.outcome = reading[Here].outcome
    BY <1>3 DEF Readings
  <1> HIDE DEF new
  <1>5. /\ reading'[Here] = new
        /\ \A r \in TaskRun : r # Here => reading'[r] = reading[r]
    BY <1>1, <1>2, <1>4, HereIsRead
  <1>6. /\ RowsOf(Here) \in Nat /\ made[Here] \in Nat
        /\ Cardinality(HandledFor(Here)) \in Nat
    BY <1>1, <1>3, HandledIsFinite DEF RecordInv, CallsKept, WindowTypeOK
  <1>7. /\ RowsOf(Here) <= made[Here]
        /\ lost.killed = 0 /\ HandledFor(Here) = {} => RowsOf(Here) = made[Here]
    <2>1. HandledFor(Here) = {} => Cardinality(HandledFor(Here)) = 0
      <3>1. Cardinality({}) = 0
        BY FS_EmptySet
      <3> QED BY <3>1
    <2>2. /\ RowsOf(Here) + Cardinality(HandledFor(Here)) <= made[Here]
          /\ lost.killed = 0 => RowsOf(Here) + Cardinality(HandledFor(Here)) = made[Here]
      BY <1>1 DEF RecordInv, CallsKept
    <2> QED
      BY <1>6, <2>1, <2>2
  <1>8. \A r \in TaskRun : /\ Ahead(r)' => Ahead(r)
                           /\ Recorded(r)' => Recorded(r) \/ r = Here
    BY <1>1, <1>2 DEF Ahead, Recorded
  <1>9. \A r \in TaskRun : reading'[r].calls <= made[r]
    BY <1>4, <1>5, <1>7 DEF RecordInv, RecordsAddUp
  <1>10. ASSUME shares, lost.killed = 0, NEW r \in TaskRun, Recorded(r)',
                reading'[r].outcome # "abandoned"
         PROVE  reading'[r].calls = made[r]
    <2>1. CASE r = Here
      BY <1>2, <1>4, <1>5, <1>7, <1>10, <2>1 DEF RecordInv, RecordsAddUp
    <2>2. CASE r # Here
      BY <1>5, <1>8, <1>10, <2>2 DEF RecordInv, RecordsAddUp
    <2> QED
      BY <2>1, <2>2
  <1> QED
    BY <1>1, <1>2, <1>8, <1>9, <1>10 DEF RecordInv, RecordsAddUp

(* Task runs the scan leaves out made no call and are read as such.         *)
LEMMA GoingOnKeepsRecords ==
  ASSUME TaskWindowAssumption, RecordInv, NextTask \/ EndPass
  PROVE  RecordsAddUp'
  <1>1. WindowTypeOK /\ task \in Nat /\ pass \in Nat /\ TaskRun' = TaskRun
    BY RunsAreFinite DEF RecordInv, WindowInv, WindowTypeOK, TaskRun, Pass, Passes, Task
  <1>2. /\ phase = "settle" /\ phase' \in {"next", "refused", "done"}
        /\ UNCHANGED <<shares, made, serving, lost, reading>>
        /\ \/ phase' # "next" /\ UNCHANGED <<pass, task>>
           \/ phase' = "next" /\ pass' = pass /\ task' = task + 1
           \/ phase' = "next" /\ pass' = pass + 1 /\ task' = 1
    BY DEF NextTask, EndPass, agents, proxies, upstream
  <1>3. ASSUME NEW r \in TaskRun
        PROVE  /\ Ahead(r)' => Ahead(r)
               /\ Recorded(r)' => Recorded(r) \/ Ahead(r)
    <2>1. /\ r[1] \in Nat /\ r[2] \in Nat /\ r[2] >= 1 /\ r = <<r[1], r[2]>>
      BY RunsAreFinite DEF Task
    <2>2. CASE phase' # "next" /\ UNCHANGED <<pass, task>>
      BY <1>1, <1>2, <2>1, <2>2 DEF Ahead, Recorded, Earlier, Here
    <2>3. CASE phase' = "next" /\ pass' = pass /\ task' = task + 1
      <3>1. Here' = <<pass, task + 1>>
        BY <2>3 DEF Here
      <3>2. Ahead(r)' => r[1] > pass \/ (r[1] = pass /\ r[2] >= task + 1)
        BY <1>1, <2>1, <2>3, <3>1 DEF Ahead, Earlier
      <3>3. Recorded(r)' => r[1] < pass \/ (r[1] = pass /\ r[2] <= task)
        BY <1>1, <2>1, <2>3, <3>1 DEF Recorded, Earlier
      <3> QED
        BY <1>1, <1>2, <2>1, <3>2, <3>3 DEF Ahead, Recorded, Earlier, Here
    <2>4. CASE phase' = "next" /\ pass' = pass + 1 /\ task' = 1
      <3>1. Here' = <<pass + 1, 1>>
        BY <2>4 DEF Here
      <3>2. Ahead(r)' => r[1] >= pass + 1
        BY <1>1, <2>1, <2>4, <3>1 DEF Ahead, Earlier
      <3>3. Recorded(r)' => r[1] <= pass
        BY <1>1, <2>1, <2>4, <3>1 DEF Recorded, Earlier
      <3> QED
        BY <1>1, <1>2, <2>1, <3>2, <3>3 DEF Ahead, Recorded, Earlier, Here
    <2> QED
      BY <1>2, <2>2, <2>3, <2>4
  <1>4. \A r \in TaskRun : Ahead(r) => reading[r].calls = made[r]
    BY DEF RecordInv, RecordsAddUp, WindowInv, NothingYet, NotRead
  <1>5. phase' \notin {"after", "record"}
    BY <1>2
  <1> QED
    BY <1>1, <1>2, <1>3, <1>4, <1>5 DEF RecordInv, RecordsAddUp

(* What holds of the records at the start.                                 *)
LEMMA RecordInit ==
  ASSUME TaskWindowAssumption, Init
  PROVE  RecordInv
  <1>1. WindowInv
    BY WindowInit
  <1>2. \A r \in TaskRun : /\ RowsOf(r) = 0 /\ HandledFor(r) = {} /\ made[r] = 0
                           /\ reading[r] = NotRead /\ NotRead.calls = 0
    BY DEF Init, RowsOf, HandledFor, RecordFile, NotRead
  <1>3. CallsKept
    <2>1. IsFiniteSet({}) /\ Cardinality({}) = 0
      BY FS_EmptySet
    <2>2. \A r \in TaskRun : Cardinality(HandledFor(r)) = 0
      BY <1>2, <2>1
    <2> QED
      BY <1>2, <2>1, <2>2 DEF Init, CallsKept
  <1>4. Here \in TaskRun
    BY <1>1, HereIsRun DEF WindowInv
  <1>5. RecordsAddUp
    BY <1>2, <1>4 DEF Init, RecordsAddUp
  <1> QED
    BY <1>1, <1>3, <1>5 DEF RecordInv

(* The scan's own steps keep what the records hold.                        *)
LEMMA ScanKeepsRecords ==
  ASSUME TaskWindowAssumption, RecordInv, ScanStep
  PROVE  CallsKept' /\ RecordsAddUp'
  <1>1. /\ WindowTypeOK /\ RecordsAddUp /\ CallsKept /\ Here \in TaskRun
        /\ reading[Here] \in Readings /\ Store \in Int
    BY HereIsRun, StoreIsSum DEF RecordInv, WindowInv, WindowTypeOK
  <1>2. UNCHANGED <<shares, serving, record, made, lost>>
    BY DEF ScanStep, OpenWindow, TaskEnds, Deadline, CloseWindow, ReadRecord, NextTask,
           EndPass, agents, proxies
  <1>3. CallsKept'
    BY <1>1, <1>2, QuietKeepsCalls
  <1>4. CASE OpenWindow
    <2> DEFINE new == [reading[Here] EXCEPT !.before = Store]
    <2>1. new \in Readings /\ new.calls = reading[Here].calls
      BY <1>1 DEF Readings
    <2>2. /\ phase = "next" /\ phase' = "running" /\ UNCHANGED <<pass, task>>
          /\ reading' = [reading EXCEPT ![Here] = new]
      BY <1>4 DEF OpenWindow
    <2> HIDE DEF new
    <2> QED
      BY <1>1, <1>2, <1>3, <2>1, <2>2, WindowKeepsRecords
  <1>5. CASE TaskEnds
    <2> DEFINE new == [reading[Here] EXCEPT !.outcome = Outcome, !.claimed = (claim = "ok")]
    <2>1. new \in Readings /\ new.calls = reading[Here].calls
      BY <1>1 DEF Readings, Outcome
    <2>2. /\ phase = "running" /\ phase' = "after" /\ UNCHANGED <<pass, task>> /\ ~PipeOpen
          /\ reading' = [reading EXCEPT ![Here] = new]
      BY <1>5 DEF TaskEnds
    <2> HIDE DEF new
    <2>3. shares => HandledFor(Here) = {}
      BY <2>2 DEF PipeOpen, HandledFor
    <2> QED
      BY <1>1, <1>2, <1>3, <2>1, <2>2, <2>3, WindowKeepsRecords
  <1>6. CASE Deadline
    <2> DEFINE new == [reading[Here] EXCEPT !.outcome = "abandoned"]
    <2>1. new \in Readings /\ new.calls = reading[Here].calls /\ new.outcome = "abandoned"
      BY <1>1 DEF Readings
    <2>2. /\ phase = "running" /\ phase' = "after" /\ UNCHANGED <<pass, task>>
          /\ reading' = [reading EXCEPT ![Here] = new]
      BY <1>6 DEF Deadline
    <2> HIDE DEF new
    <2> QED
      BY <1>1, <1>2, <1>3, <2>1, <2>2, WindowKeepsRecords
  <1>7. CASE CloseWindow
    <2> DEFINE new == [reading[Here] EXCEPT !.after = Store]
    <2>1. /\ new \in Readings /\ new.calls = reading[Here].calls
          /\ new.outcome = reading[Here].outcome
      BY <1>1 DEF Readings
    <2>2. /\ phase = "after" /\ phase' = "record" /\ UNCHANGED <<pass, task>>
          /\ reading' = [reading EXCEPT ![Here] = new]
      BY <1>7 DEF CloseWindow
    <2> HIDE DEF new
    <2>3. shares /\ lost.killed = 0 /\ new.outcome # "abandoned" => HandledFor(Here) = {}
      BY <1>1, <2>1, <2>2 DEF RecordsAddUp
    <2> QED
      BY <1>1, <1>2, <1>3, <2>1, <2>2, <2>3, WindowKeepsRecords
  <1>8. CASE ReadRecord
    BY <1>3, <1>8, ReadRecordKeepsRecords
  <1>9. CASE NextTask \/ EndPass
    BY <1>3, <1>9, GoingOnKeepsRecords
  <1> QED
    BY <1>3, <1>4, <1>5, <1>6, <1>7, <1>8, <1>9 DEF ScanStep

(* Every step keeps what the records hold.                                 *)
LEMMA RecordStep ==
  ASSUME TaskWindowAssumption, RecordInv, [Next]_vars
  PROVE  RecordInv'
  <1>1. WindowInv' /\ WindowTypeOK /\ CallsKept /\ RecordsAddUp
    BY WindowStep DEF RecordInv, WindowInv
  <1>2. CASE ScanStep
    BY <1>1, <1>2, ScanKeepsRecords DEF RecordInv
  <1>3. ASSUME NEW fault \in Drawable, MakesCall(fault)
        PROVE  RecordInv'
    BY <1>1, <1>3, MakesCallKeepsCalls, MakesCallKeepsRecords DEF RecordInv
  <1>4. CASE UNCHANGED <<shares, pass, task, phase, serving, record, made, reading, lost>>
    BY <1>1, <1>4, QuietKeepsCalls, ProxiesKeepRecords DEF RecordInv
  <1>5. ASSUME NEW call \in serving, Served(call) \/ TimesOut(call) \/ ProxyKilled(call)
        PROVE  RecordInv'
    <2>1. /\ serving' = serving \ {call}
          /\ UNCHANGED <<shares, pass, task, phase, made, reading>>
      BY <1>5 DEF Served, TimesOut, ProxyKilled, scan, agents
    <2>2. lost.killed \in Nat /\ lost = [killed |-> lost.killed, timeout |-> lost.timeout]
      BY <1>1 DEF WindowTypeOK
    <2>3. CASE Served(call)
      <3>1. Write(call, "ok") /\ lost' = lost
        BY <2>3 DEF Served
      <3> QED
        BY <1>1, <2>1, <3>1, WrittenKeepsCalls, ProxiesKeepRecords DEF RecordInv
    <2>4. CASE TimesOut(call)
      <3>1. Write(call, "silent") /\ lost' = [lost EXCEPT !.timeout = @ + 1]
        BY <2>4 DEF TimesOut
      <3>2. lost'.killed = lost.killed
        BY <2>2, <3>1
      <3> QED
        BY <1>1, <2>1, <3>1, <3>2, WrittenKeepsCalls, ProxiesKeepRecords DEF RecordInv
    <2>5. CASE ProxyKilled(call)
      <3>1. lost' = [lost EXCEPT !.killed = @ + 1]
        BY <2>5 DEF ProxyKilled
      <3>2. lost'.killed # 0
        BY <2>2, <3>1
      <3> QED
        BY <1>1, <2>1, <2>5, <3>2, KilledKeepsCalls, ProxiesKeepRecords DEF RecordInv
    <2> QED
      BY <1>5, <2>3, <2>4, <2>5
  <1>6. ASSUME NEW call \in sent, Land(call) PROVE RecordInv'
    BY <1>4, <1>6 DEF Land, scan, agents, proxies
  <1>7. CASE GivesUp \/ (\E result \in {"ok", "failed"} : Finishes(result)) \/ UNCHANGED vars
    BY <1>4, <1>7 DEF GivesUp, Finishes, vars, scan, agents, proxies
  <1> QED
    BY <1>2, <1>3, <1>5, <1>6, <1>7 DEF Next

(* The record read of a scored task holds no call but its own, and with a   *)
(* shared stderr and no proxy killed, all of them: proxy.RecordWriter, under *)
(* the name the pass was started with (fault.FaultInjector._out_of_process). *)
THEOREM RecordsExactAlways ==
  ASSUME TaskWindowAssumption
  PROVE  Spec => []RecordsExact
  <1>1. ASSUME RecordInv PROVE RecordsExact
    <2> SUFFICES ASSUME Done, NEW r \in Scored
                 PROVE  /\ reading[r].calls <= made[r]
                        /\ shares /\ lost.killed = 0 => reading[r].calls = made[r]
      BY DEF RecordsExact
    <2>1. /\ WindowTypeOK /\ Here \in TaskRun /\ r \in TaskRun /\ phase = "done"
          /\ RecordsAddUp
      BY <1>1, HereIsRun DEF RecordInv, WindowInv, Done, Scored
    <2>2. reading[r].outcome # "abandoned"
      BY <1>1, <2>1 DEF RecordInv, WindowInv, KeptEnded
    <2>3. Recorded(r) \/ Ahead(r)
      BY <2>1, RunsInOrder DEF Recorded, Ahead
    <2>4. Ahead(r) => reading[r].calls = made[r]
      BY <1>1, <2>1 DEF RecordInv, RecordsAddUp, WindowInv, NothingYet, NotRead
    <2> QED
      BY <2>1, <2>2, <2>3, <2>4 DEF RecordsAddUp
  <1>2. Init => RecordInv
    BY RecordInit
  <1>3. RecordInv /\ [Next]_vars => RecordInv'
    BY RecordStep
  <1> QED
    BY <1>1, <1>2, <1>3, PTL DEF Spec

-----------------------------------------------------------------------------
(* How much the scan still has to do: five steps for each task, those of   *)
(* the later passes included.  A held-reply pass has one task and counts   *)
(* as a full one.                                                          *)
PhaseSteps ==
    [next |-> 5, running |-> 4, after |-> 3, record |-> 2, settle |-> 1, done |-> 0, refused |-> 0]

StepsOf(p, t, at) ==
    IF at \in {"done", "refused"} THEN 0
    ELSE (Len(Passes) - p) * (5 * NTasks) + 5 * (NTasks - t) + PhaseSteps[at]

StepsLeft == StepsOf(pass, task, phase)

(* One task later five steps less, one pass later as many as all its tasks *)
(* have.                                                                   *)
LEMMA StepsFall ==
  ASSUME TaskWindowAssumption, NEW p \in Pass, NEW t \in Task
  PROVE  /\ \A at \in Phase : StepsOf(p, t, at) \in Nat
         /\ StepsOf(p, t, "running") < StepsOf(p, t, "next")
         /\ StepsOf(p, t, "after") < StepsOf(p, t, "running")
         /\ StepsOf(p, t, "record") < StepsOf(p, t, "after")
         /\ StepsOf(p, t, "settle") < StepsOf(p, t, "record")
         /\ StepsOf(p, t, "refused") < StepsOf(p, t, "record")
         /\ \A at \in {"done", "refused"} : StepsOf(p, t, at) < StepsOf(p, t, "settle")
         /\ t + 1 \in Task => StepsOf(p, t + 1, "next") < StepsOf(p, t, "settle")
         /\ p + 1 \in Pass => StepsOf(p + 1, 1, "next") < StepsOf(p, t, "settle")
  <1> DEFINE c == 5 * NTasks
             m == Len(Passes) - p
             rest == m * c
  <1>1. /\ Len(Passes) \in Nat /\ Pass = 1..Len(Passes) /\ NTasks \in Nat /\ NTasks >= 1
        /\ Task = 1..NTasks
    BY PassesAre DEF TaskWindowAssumption, Task
  <1>2. c \in Nat /\ m \in Nat /\ (p + 1 \in Pass => m - 1 \in Nat)
    BY <1>1
  <1>3. \A a, b \in Nat : a * b \in Nat
    OBVIOUS
  <1>4. rest \in Nat /\ (p + 1 \in Pass => (m - 1) * c = rest - c)
    <2>1. \A a, b \in Nat : (a - 1) * b = a * b - b
      OBVIOUS
    <2> HIDE DEF m, c
    <2> QED BY <1>2, <1>3, <2>1
  <1>5. t + 1 \in Task => StepsOf(p, t + 1, "next") = rest + 5 * (NTasks - (t + 1)) + 5
    BY DEF StepsOf, PhaseSteps
  <1>6. p + 1 \in Pass => StepsOf(p + 1, 1, "next") = (rest - c) + 5 * (NTasks - 1) + 5
    <2>1. Len(Passes) - (p + 1) = m - 1
      BY <1>1
    <2>2. StepsOf(p + 1, 1, "next") = (Len(Passes) - (p + 1)) * c + 5 * (NTasks - 1) + 5
      BY DEF StepsOf, PhaseSteps
    <2> HIDE DEF m, c, rest
    <2> QED BY <1>4, <2>1, <2>2
  <1>7. /\ PhaseSteps["next"] = 5 /\ PhaseSteps["running"] = 4 /\ PhaseSteps["after"] = 3
        /\ PhaseSteps["record"] = 2 /\ PhaseSteps["settle"] = 1
    BY DEF PhaseSteps
  <1>8. 5 * (NTasks - t) \in Nat /\ c = 5 * (NTasks - 1) + 5
    BY <1>1
  <1> DEFINE left == rest + 5 * (NTasks - t)
  <1>9. left \in Nat /\ left >= rest
    <2> HIDE DEF rest, c, m
    <2> QED BY <1>4, <1>8
  <1>10. /\ StepsOf(p, t, "next") = left + 5 /\ StepsOf(p, t, "running") = left + 4
         /\ StepsOf(p, t, "after") = left + 3 /\ StepsOf(p, t, "record") = left + 2
         /\ StepsOf(p, t, "settle") = left + 1
         /\ StepsOf(p, t, "done") = 0 /\ StepsOf(p, t, "refused") = 0
    BY <1>7 DEF StepsOf
  <1>11. t + 1 \in Task => StepsOf(p, t + 1, "next") = left
    <2>1. 5 * (NTasks - (t + 1)) + 5 = 5 * (NTasks - t)
      BY <1>1
    <2> HIDE DEF rest
    <2> QED BY <1>1, <1>4, <1>5, <2>1
  <1>12. p + 1 \in Pass => StepsOf(p + 1, 1, "next") = rest
    <2> HIDE DEF rest, c, m
    <2> QED BY <1>1, <1>2, <1>4, <1>6, <1>8
  <1>13. \A at \in Phase : StepsOf(p, t, at) \in Nat
    <2> HIDE DEF left
    <2> QED BY <1>9, <1>10 DEF Phase
  <1> HIDE DEF left, rest, c, m
  <1> QED
    BY <1>4, <1>9, <1>10, <1>11, <1>12, <1>13

(* Every step of the scan uses up one of a number of steps that is fixed   *)
(* when it starts, and nothing an agent, a proxy or the upstream does gives *)
(* any back: at most five for each task of each pass, whatever hangs, dies *)
(* or answers late (AgentTarget._run_task, FaultInjector._one_chaos_run).  *)
THEOREM ScanWorkBounded ==
  ASSUME TaskWindowAssumption
  PROVE  Spec => [][/\ StepsLeft' \in Nat
                    /\ IF ScanStep THEN StepsLeft' < StepsLeft
                       ELSE StepsLeft' = StepsLeft]_vars
  <1>1. ASSUME WindowInv, WindowInv', [Next]_vars
        PROVE  [/\ StepsLeft' \in Nat
                /\ IF ScanStep THEN StepsLeft' < StepsLeft
                   ELSE StepsLeft' = StepsLeft]_vars
    <2> SUFFICES ASSUME Next
                 PROVE  /\ StepsLeft' \in Nat
                        /\ IF ScanStep THEN StepsLeft' < StepsLeft
                           ELSE StepsLeft' = StepsLeft
      BY <1>1
    <2>1. pass \in Pass /\ task \in Task /\ phase \in Phase
      BY <1>1 DEF WindowInv, WindowTypeOK
    <2>2. pass' \in Pass /\ task' \in Task /\ phase' \in Phase
      BY <1>1 DEF WindowInv, WindowTypeOK
    <2>3. StepsLeft' = StepsOf(pass', task', phase')
      BY DEF StepsLeft, StepsOf
    <2>4. StepsLeft' \in Nat
      BY <2>2, <2>3, StepsFall
    <2>5. ASSUME ScanStep PROVE StepsLeft' < StepsLeft
      <3>1. CASE OpenWindow \/ TaskEnds \/ Deadline \/ CloseWindow \/ ReadRecord
        <4>1. /\ UNCHANGED <<pass, task>>
              /\ \/ phase = "next" /\ phase' = "running"
                 \/ phase = "running" /\ phase' = "after"
                 \/ phase = "after" /\ phase' = "record"
                 \/ phase = "record" /\ phase' \in {"refused", "settle"}
          BY <3>1 DEF OpenWindow, TaskEnds, Deadline, CloseWindow, ReadRecord
        <4>2. StepsOf(pass, task, phase') < StepsOf(pass, task, phase)
          BY <2>1, <4>1, StepsFall
        <4> QED BY <2>3, <4>1, <4>2 DEF StepsLeft
      <3>2. CASE NextTask
        <4>1. phase = "settle" /\ task' = task + 1 /\ phase' = "next" /\ pass' = pass
          BY <3>2 DEF NextTask
        <4>2. StepsOf(pass, task + 1, "next") < StepsOf(pass, task, "settle")
          BY <2>1, <2>2, <4>1, StepsFall
        <4> QED BY <2>3, <4>1, <4>2 DEF StepsLeft
      <3>3. CASE EndPass
        <4>1. /\ phase = "settle"
              /\ \/ phase' \in {"refused", "done"} /\ UNCHANGED <<pass, task>>
                 \/ phase' = "next" /\ pass' = pass + 1 /\ task' = 1
          BY <3>3 DEF EndPass
        <4>2. CASE phase' \in {"refused", "done"} /\ UNCHANGED <<pass, task>>
          <5>1. StepsOf(pass, task, phase') < StepsOf(pass, task, "settle")
            BY <2>1, <4>2, StepsFall
          <5> QED BY <2>3, <4>1, <4>2, <5>1 DEF StepsLeft
        <4>3. CASE phase' = "next" /\ pass' = pass + 1 /\ task' = 1
          <5>1. StepsOf(pass + 1, 1, "next") < StepsOf(pass, task, "settle")
            BY <2>1, <2>2, <4>3, StepsFall
          <5> QED BY <2>3, <4>1, <4>3, <5>1 DEF StepsLeft
        <4> QED BY <4>1, <4>2, <4>3
      <3> QED BY <2>5, <3>1, <3>2, <3>3 DEF ScanStep
    <2>6. ASSUME ~ScanStep PROVE StepsLeft' = StepsLeft
      <3>1. UNCHANGED scan
        BY <2>6 DEF Next, MakesCall, Land, Served, TimesOut, ProxyKilled, GivesUp, Finishes
      <3> QED BY <2>3, <3>1 DEF StepsLeft, scan
    <2> QED BY <2>4, <2>5, <2>6
  <1> QED
    BY <1>1, WindowInvCorrect, PTL DEF Spec
=============================================================================
