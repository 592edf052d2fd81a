---------------------------- MODULE AgentRunProofs ----------------------------
(***************************************************************************)
(* What an agent scan says of its runs, against what its store and its     *)
(* agent know, proved of AgentRun for every task file, every number of     *)
(* repeats, every schedule and every policy that loads.                    *)
(*                                                                         *)
(* truth is read through three stages that each forget something: the      *)
(* windows of a pass, the metrics of a run, the reading of all runs.  The  *)
(* inductive invariant has a part for each: Told relates a window that was *)
(* deposited to its account, RunTold the metrics of a run to the accounts  *)
(* of its tasks, and CleanTold and Reported what the clean pass and the    *)
(* verdict are made from.                                                  *)
(***************************************************************************)
EXTENDS AgentRun, DataTheorems

Accounts(r) == {a \in truth : a.run = r}

(* The task whose window is open; after the last one, the next pass's.     *)
OpenTask == shape.file[IF Len(tasks) < Len(shape.file) THEN Len(tasks) + 1 ELSE 1]

Kept ==
    /\ shape \in Shapes /\ pass \in Nat /\ stored \in {0, 1}
    /\ IsSequence(rows) /\ IsSequence(tasks) /\ IsSequence(runs)
    /\ Len(tasks) <= Len(shape.file)
    /\ window \in [DOMAIN OpenTask.wanted \cup {Stray, Joint} -> Nat]
    /\ Len(tasks) = Len(shape.file) => \A t \in DOMAIN window : window[t] = 0
    /\ pass = 0 => \A i \in DOMAIN rows : rows[i].ok

(* A stored key of an earlier pass is in a store that holds something.     *)
SpentKept ==
    \A e \in spent :
        /\ e[2] \in 0..pass
        /\ e[2] < pass => stored = 1
        /\ stored = 1 \/ \E t \in DOMAIN window : window[t] > 0

(* One account for each of the first n tasks.                              *)
OneEach(A, n) ==
    /\ \A a \in A : a.task \in 1..n
    /\ \A a, b \in A : a.task = b.task => a = b
    /\ \A t \in 1..n : \E a \in A : a.task = t

TruthKept ==
    /\ IsFiniteSet(truth)
    /\ \A a \in truth : a.run \in 0..pass /\ a.excess \in Nat /\ a.retried \in Nat
    /\ \A a \in truth : a.read => shape.oracle # "absent"
    /\ \A r \in 0..(pass - 1) : OneEach(Accounts(r), Len(shape.file))
    /\ OneEach(Accounts(pass), Len(tasks))

(* A window as it was deposited, for the task s of the file, against what  *)
(* happened in it.                                                         *)
Told(task, s, a) ==
    /\ a.read <=> task.status = "ok"
    /\ task.declared = s.declared /\ task.expected = s.expected
    /\ a.declared = s.declared /\ a.claimed = task.claimed
    /\ Duplicates(task) \in Nat /\ Duplicates(task) <= a.excess
    /\ a.read /\ a.twice =>
          \/ Duplicates(task) >= 1
          \/ s.declared /\ ~PerEntry(task)
          \/ ~s.declared /\ s.expected >= 2
    /\ a.read /\ a.declared /\ a.claimed => a.whole \/ ~PerEntry(task) \/ Unsupported(task)
    /\ IsSequence(task.rows)
    /\ a.retried = Cardinality(RetriesIn(task.rows))
    /\ a.keyed <=> \E i \in DOMAIN task.rows : task.rows[i].key # NoKey
    /\ a.read /\ a.absorbed => task.before > 0

TasksTold ==
    \A i \in DOMAIN tasks :
        /\ \A a \in Accounts(pass) : a.task = i => Told(tasks[i], shape.file[i], a)
        /\ pass = 0 => DeliveredOk(tasks[i])
        /\ shape.oracle # "absent" => tasks[i].status # "absent"

Undeclared == {t \in DOMAIN shape.file : ~shape.file[t].declared /\ shape.file[t].expected >= 2}

(* The metrics of a run against the accounts of its tasks.                 *)
RunTold(m, A) ==
    /\ m.duplicate_mutations \in Nat \cup {Missing}
    /\ m.duplicate_mutations <= SumFunction([a \in A |-> a.excess])
    /\ m.task_oracle_status = {"ok"} => m.duplicate_mutations # Missing
    /\ (\A a \in A : a.read) /\ (\E a \in A : a.twice) =>
          m.duplicate_mutations >= 1 \/ m.unreadable # {} \/ m.undeclared # {}
    /\ \A a \in A : a.read /\ a.declared /\ a.claimed =>
          a.whole \/ m.unreadable # {} \/ m.unsupported_claims > 0
    /\ m.keyed <=> \E a \in A : a.keyed
    /\ \A b \in {"kept", "changed", "no_key"} : m.retry_keys[b] \in Nat
    /\ m.retry_keys["kept"] + m.retry_keys["changed"] + m.retry_keys["no_key"]
          = SumFunction([a \in A |-> a.retried])
    /\ \A a \in A : a.read /\ a.absorbed => a.task \in m.opened_on_state

RunsTold ==
    \A i \in DOMAIN runs : runs[i].undeclared = Undeclared /\ RunTold(runs[i], Accounts(i))

(* Some task of the file leaves an effect.                                 *)
Expects(s) == \E i \in DOMAIN s.file : DOMAIN s.file[i].wanted # {}

CleanTold ==
    pass > 0 =>
        /\ clean.keyed <=> \E a \in Accounts(0) : a.keyed
        /\ shape.oracle # "absent" /\ Expects(shape) => clean.applied \in Nat \ {0}

Reported ==
    /\ Len(runs) = IF pass = 0 THEN 0 ELSE pass - 1
    /\ report # NoReport =>
          pass > 0 /\ tasks = <<>> /\ report = Evaluate(Result(runs), Grading)

RunInv ==
    Kept /\ SpentKept /\ TruthKept /\ TasksTold /\ RunsTold /\ CleanTold /\ Reported

-----------------------------------------------------------------------------
(* What a window holds in all: each declared entry, and what matched none  *)
(* or two.                                                                 *)
LEMMA WindowSum ==
  ASSUME NEW D, IsFiniteSet(D), {Stray, Joint} \cap D = {},
         NEW w \in [D \cup {Stray, Joint} -> Nat]
  PROVE  SumFunction(w) = SumOf(w, D) + w[Stray] + w[Joint]
  <1>1. Stray # Joint
    BY DEF Stray, Joint
  <1> DEFINE U == D \cup {Stray, Joint}
  <1>2. IsFiniteSet(U)
    <2>1. U = (D \cup {Stray}) \cup {Joint}
      OBVIOUS
    <2>2. IsFiniteSet(D \cup {Stray})
      BY FS_AddElement
    <2>3. IsFiniteSet((D \cup {Stray}) \cup {Joint})
      BY <2>2, FS_AddElement
    <2> QED BY <2>1, <2>3
  <1>3. \A x \in U : w[x] \in Int
    OBVIOUS
  <1>4. SumOf(w, U) = w[Joint] + SumOf(w, U \ {Joint})
    <2> HIDE DEF U
    <2>1. Joint \in U
      BY DEF U
    <2> QED BY <1>2, <1>3, <2>1, SumRemove
  <1> DEFINE V == U \ {Joint}
  <1>5. SumOf(w, V) = w[Stray] + SumOf(w, V \ {Stray})
    <2>1. Stray \in V /\ IsFiniteSet(V) /\ \A x \in V : w[x] \in Int
      BY <1>1, <1>2, <1>3, FS_Subset
    <2> HIDE DEF V
    <2> QED BY <2>1, SumRemove
  <1>6. V \ {Stray} = D
    OBVIOUS
  <1>7. SumOf(w, D) \in Int
    BY SumIsInt
  <1>8. w[Stray] \in Int /\ w[Joint] \in Int
    BY <1>3
  <1>9. SumFunction(w) = SumOf(w, U)
    BY SumOfFunction
  <1>10. SumFunction(w) = w[Joint] + (w[Stray] + SumOf(w, D))
    BY <1>4, <1>5, <1>6, <1>9, Zenon
  <1> QED
    BY <1>7, <1>8, <1>10

(* Netted or per entry, what is counted beyond the task file is no more    *)
(* than what is there beyond it; and a write that is there twice is        *)
(* counted per entry, and netted if the task expects only one.             *)
LEMMA ExcessBounds ==
  ASSUME NEW D, IsFiniteSet(D), {Stray, Joint} \cap D = {},
         NEW w \in [D \cup {Stray, Joint} -> Nat], NEW want \in [D -> Nat \ {0}]
  PROVE  LET over == SumFunction([t \in D |-> AtLeastZero(w[t] - want[t])])
         IN  /\ over \in Nat
             /\ SumFunction(w) \in Nat /\ SumFunction(want) \in Nat
             /\ SumFunction(w) - SumFunction(want) <= over + w[Stray] + w[Joint]
             /\ \A t \in D : w[t] > want[t] =>
                   /\ over >= 1
                   /\ SumFunction(want) < 2 => SumFunction(w) > SumFunction(want)
  <1> DEFINE f == [t \in D |-> AtLeastZero(w[t] - want[t])]
             d == [t \in D |-> w[t] - want[t]]
             over == SumFunction(f)
  <1>1. /\ \A t \in D : f[t] \in Nat /\ d[t] \in Int /\ d[t] <= f[t] /\ (w[t] > want[t] => f[t] >= 1)
        /\ \A t \in D : w[t] \in Nat /\ want[t] \in Nat /\ want[t] >= 1 /\ d[t] = w[t] - want[t]
        /\ w[Stray] \in Nat /\ w[Joint] \in Nat
    BY DEF AtLeastZero
  <1>2. over = SumOf(f, D) /\ SumFunction(want) = SumOf(want, D)
    BY SumOfFunction
  <1>3. SumFunction(w) = SumOf(w, D) + w[Stray] + w[Joint]
    BY WindowSum
  <1> HIDE DEF f, d, over
  <1>4. SumOf(f, D) \in Nat /\ SumOf(w, D) \in Nat /\ SumOf(want, D) \in Nat /\ SumOf(d, D) \in Int
    BY <1>1, SumIsNat, SumIsInt
  <1>5. SumOf(d, D) = SumOf(w, D) - SumOf(want, D)
    BY <1>1, SumMinus
  <1>6. SumOf(d, D) <= SumOf(f, D)
    BY <1>1, SumMonotone
  <1>7. \A t \in D : f[t] <= SumOf(f, D) /\ w[t] <= SumOf(w, D) /\ want[t] <= SumOf(want, D)
    BY <1>1, SumAtLeast
  <1>8. ASSUME NEW t \in D, w[t] > want[t]
        PROVE  over >= 1 /\ (SumFunction(want) < 2 => SumFunction(w) > SumFunction(want))
    <2>1. f[t] >= 1 /\ f[t] \in Nat /\ w[t] \in Nat /\ want[t] \in Nat /\ want[t] >= 1
      BY <1>1, <1>8
    <2>2. f[t] <= SumOf(f, D) /\ w[t] <= SumOf(w, D) /\ want[t] <= SumOf(want, D)
      BY <1>7
    <2> QED BY <1>1, <1>2, <1>3, <1>4, <1>8, <2>1, <2>2
  <1>9. over \in Nat /\ SumFunction(w) \in Nat /\ SumFunction(want) \in Nat
    BY <1>1, <1>2, <1>3, <1>4
  <1>10. SumFunction(w) - SumFunction(want) <= over + w[Stray] + w[Joint]
    BY <1>1, <1>2, <1>3, <1>4, <1>5, <1>6
  <1> QED
    BY <1>8, <1>9, <1>10 DEF over, f

-----------------------------------------------------------------------------
(* What a shape that loads gives.                                          *)
LEMMA ShapeFacts ==
  ASSUME shape \in Shapes
  PROVE  /\ Len(shape.file) \in Nat \ {0} /\ DOMAIN shape.file = 1..Len(shape.file)
         /\ shape.repeats \in Nat \ {0}
         /\ shape.oracle \in {"list", "count", "absent"}
         /\ \A i \in 1..Len(shape.file) : TaskOK(shape.file[i])
  BY ShapesAssumption DEF ShapeOK

(* While a pass runs, the open window is one of the next task's.           *)
LEMMA OpenWindow ==
  ASSUME Kept, Running
  PROVE  /\ Len(tasks) \in Nat /\ Len(tasks) + 1 \in 1..Len(shape.file)
         /\ OpenTask = Spec1 /\ TaskOK(Spec1)
         /\ window \in [DOMAIN Spec1.wanted \cup {Stray, Joint} -> Nat]
  <1>1. Len(tasks) \in Nat
    BY SequenceLen DEF Kept
  <1>2. Len(tasks) + 1 \in 1..Len(shape.file)
    BY <1>1, ShapeFacts DEF Kept, Running
  <1>3. OpenTask = Spec1
    BY DEF OpenTask, Spec1, Running
  <1>4. TaskOK(Spec1)
    BY <1>2, ShapeFacts DEF Spec1, Kept
  <1> QED
    BY <1>1, <1>2, <1>3, <1>4 DEF Kept

(* The calls of a record that repeat an operation can be counted.          *)
LEMMA RetriesFinite ==
  ASSUME NEW q, IsSequence(q)
  PROVE  IsFiniteSet(RetriesIn(q)) /\ Cardinality(RetriesIn(q)) \in Nat
  <1>1. IsFiniteSet(DOMAIN q)
    BY SequenceLen, FS_Interval
  <1>2. RetriesIn(q) \subseteq DOMAIN q
    BY DEF RetriesIn
  <1> QED
    BY <1>1, <1>2, FS_Subset, FS_CardinalityType

(* A window says of its task what happened in it, as far as it goes.       *)
LEMMA DepositTold ==
  ASSUME Kept, SpentKept, Running, NEW claimed \in BOOLEAN, NEW read \in BOOLEAN
  PROVE  LET a == Account(claimed, read)
             task == Deposited(claimed, read)
         IN  /\ Told(task, Spec1, a)
             /\ shape.oracle # "absent" => task.status # "absent"
             /\ a.run = pass /\ a.task = Len(tasks) + 1
             /\ a.excess \in Nat /\ a.retried \in Nat
             /\ a.read => shape.oracle # "absent"
  <1> DEFINE s == Spec1
             D == DOMAIN s.wanted
             task == Deposited(claimed, read)
             a == Account(claimed, read)
             over == SumFunction([t \in D |-> AtLeastZero(window[t] - s.wanted[t])])
  <1>1. /\ IsFiniteSet(D) /\ {Stray, Joint} \cap D = {}
        /\ s.wanted \in [D -> Nat \ {0}] /\ s.expected = SumFunction(s.wanted)
        /\ s.declared \in BOOLEAN
        /\ window \in [D \cup {Stray, Joint} -> Nat]
    BY OpenWindow DEF TaskOK
  <1>2. /\ task.expected = s.expected /\ task.declared = s.declared /\ task.wanted = s.wanted
        /\ task.status = Status(read) /\ task.claimed = claimed /\ task.rows = rows
        /\ task.effects = SumFunction(window) /\ task.unmatched = window[Stray]
        /\ task.before = IF read /\ shape.oracle # "absent" THEN stored ELSE Missing
        /\ task.entries = (shape.oracle = "list" /\ window[Joint] = 0)
        /\ task.byEntry = [t \in D |-> window[t] + window[Joint]]
    BY DEF Deposited
  <1>3. /\ a.run = pass /\ a.task = Len(tasks) + 1 /\ a.read = (Status(read) = "ok")
        /\ a.declared = s.declared /\ a.claimed = claimed /\ a.excess = Excess(s)
        /\ a.twice = (\E t \in D : window[t] > s.wanted[t])
        /\ a.whole = (\A t \in D : window[t] >= s.wanted[t])
        /\ a.absorbed = (\E i \in DOMAIN rows : AbsorbedFromBefore(rows[i]))
        /\ a.retried = Cardinality(RetriesIn(rows))
        /\ a.keyed = (\E i \in DOMAIN rows : rows[i].key # NoKey)
    BY DEF Account
  <1>4. Excess(s) = over + window[Stray] + window[Joint]
    BY DEF Excess
  <1>5. IsSequence(rows) /\ stored \in {0, 1} /\ pass \in Nat
    BY DEF Kept
  <1> HIDE DEF s, task, a
  <1>6. /\ over \in Nat /\ SumFunction(window) \in Nat /\ SumFunction(s.wanted) \in Nat
        /\ SumFunction(window) - SumFunction(s.wanted) <= over + window[Stray] + window[Joint]
        /\ \A t \in D : window[t] > s.wanted[t] =>
              /\ over >= 1
              /\ SumFunction(s.wanted) < 2 => SumFunction(window) > SumFunction(s.wanted)
    <2> DEFINE want == s.wanted
               E == D
    <2>1. /\ IsFiniteSet(E) /\ {Stray, Joint} \cap E = {}
          /\ want \in [E -> Nat \ {0}] /\ window \in [E \cup {Stray, Joint} -> Nat]
      BY <1>1
    <2> HIDE DEF want, E
    <2>2. LET o == SumFunction([t \in E |-> AtLeastZero(window[t] - want[t])])
          IN  /\ o \in Nat
              /\ SumFunction(window) \in Nat /\ SumFunction(want) \in Nat
              /\ SumFunction(window) - SumFunction(want) <= o + window[Stray] + window[Joint]
              /\ \A t \in E : window[t] > want[t] =>
                    /\ o >= 1
                    /\ SumFunction(want) < 2 => SumFunction(window) > SumFunction(want)
      BY <2>1, ExcessBounds
    <2> QED BY <2>2 DEF want, E
  <1>7. window[Stray] \in Nat /\ window[Joint] \in Nat
    BY <1>1
  <1>8. a.excess \in Nat /\ over <= a.excess
    BY <1>3, <1>4, <1>6, <1>7
  <1>9. a.retried \in Nat
    BY <1>3, <1>5, RetriesFinite
  <1>10. a.read => task.status = "ok" /\ read /\ shape.oracle # "absent"
    BY <1>2, <1>3 DEF Status
  <1>11. (a.read <=> task.status = "ok") /\ (shape.oracle # "absent" => task.status # "absent")
    BY <1>2, <1>3 DEF Status
  <1>12. a.read /\ a.absorbed => task.before > 0
    <2>1. SUFFICES ASSUME a.read, a.absorbed PROVE task.before > 0
      OBVIOUS
    <2>2. PICK i \in DOMAIN rows : AbsorbedFromBefore(rows[i])
      BY <1>3, <2>1
    <2>3. PICK p \in 0..(pass - 1) : <<rows[i].key, p>> \in spent
      BY <2>2 DEF AbsorbedFromBefore
    <2>4. stored = 1
      <3>1. <<rows[i].key, p>>[2] = p /\ p < pass
        BY <1>5
      <3> QED BY <2>3, <3>1 DEF SpentKept
    <2> QED BY <1>2, <1>10, <2>1, <2>4
  <1> DEFINE Counted ==
               /\ Duplicates(task) \in Nat /\ Duplicates(task) <= a.excess
               /\ a.read /\ a.twice =>
                     \/ Duplicates(task) >= 1
                     \/ s.declared /\ ~PerEntry(task)
                     \/ ~s.declared /\ s.expected >= 2
               /\ a.read /\ a.declared /\ a.claimed =>
                     a.whole \/ ~PerEntry(task) \/ Unsupported(task)
  <1>13. ASSUME PerEntry(task) PROVE Counted
    <2>1. window[Joint] = 0
      BY <1>2, <1>13 DEF PerEntry
    <2>2. \A t \in D : task.byEntry[t] = window[t]
      BY <1>1, <1>2, <2>1
    <2>3. [t \in D |-> AtLeastZero(task.byEntry[t] - s.wanted[t])]
            = [t \in D |-> AtLeastZero(window[t] - s.wanted[t])]
      BY <2>2
    <2>4. Over(task) = over
      BY <1>2, <2>3 DEF Over
    <2>5. Duplicates(task) = over
      BY <1>13, <2>4 DEF Duplicates
    <2>6. a.twice => over >= 1
      BY <1>3, <1>6
    <2>7. claimed /\ ~a.whole => Unsupported(task)
      <3>1. SUFFICES ASSUME claimed, ~a.whole PROVE Short(task)
        BY <1>2, <1>13 DEF Unsupported
      <3>2. PICK t \in D : ~(window[t] >= s.wanted[t])
        BY <1>3, <3>1
      <3>3. task.byEntry[t] < task.wanted[t]
        BY <1>1, <1>2, <2>2, <3>2
      <3> QED BY <1>2, <3>3 DEF Short
    <2> QED
      BY <1>3, <1>6, <1>8, <2>5, <2>6, <2>7
  <1>14. ASSUME ~PerEntry(task) PROVE Counted
    <2> DEFINE net == SumFunction(window) - SumFunction(s.wanted)
    <2>1. Duplicates(task) = AtLeastZero(net)
      BY <1>1, <1>2, <1>14 DEF Duplicates
    <2>2. net \in Int /\ net <= a.excess
      BY <1>3, <1>4, <1>6, <1>7
    <2>3. a.twice /\ s.expected < 2 => net >= 1
      <3>1. SUFFICES ASSUME a.twice, s.expected < 2 PROVE net >= 1
        OBVIOUS
      <3>2. PICK t \in D : window[t] > s.wanted[t]
        BY <1>3, <3>1
      <3>3. SumFunction(s.wanted) < 2
        BY <1>1, <3>1
      <3>4. SumFunction(window) > SumFunction(s.wanted)
        BY <1>6, <3>2, <3>3
      <3> QED BY <1>6, <3>4
    <2>4. s.expected \in Nat
      BY <1>1, <1>6
    <2> HIDE DEF net
    <2>5. AtLeastZero(net) \in Nat /\ AtLeastZero(net) <= a.excess /\ (net >= 1 => AtLeastZero(net) >= 1)
      BY <1>8, <2>2 DEF AtLeastZero
    <2>6. a.twice => AtLeastZero(net) >= 1 \/ s.expected >= 2
      BY <2>3, <2>4, <2>5
    <2> QED
      BY <1>1, <1>14, <2>1, <2>5, <2>6
  <1>15. Counted
    BY <1>13, <1>14
  <1>16. Told(task, s, a)
    BY <1>2, <1>3, <1>5, <1>11, <1>12, <1>15 DEF Told
  <1> QED
    BY <1>3, <1>8, <1>9, <1>10, <1>11, <1>16 DEF s, task, a

-----------------------------------------------------------------------------
(* The metrics of a run the theorems speak of, each from its own part.     *)
LEMMA RunMetricFields ==
  ASSUME NEW run, NEW before
  PROVE  LET m == RunMetrics(run, before)
             e == EffectMetrics(run.tasks)
         IN  /\ m.duplicate_mutations = e.duplicate_mutations
             /\ m.task_oracle_status = e.task_oracle_status
             /\ m.undeclared = e.undeclared
             /\ m.unreadable = e.unreadable
             /\ m.unsupported_claims = e.unsupported_claims
             /\ m.keyed = CarriesKey(RowsOf(run))
             /\ m.retry_keys = RetryKeyCounts(RowsOf(run))
             /\ m.opened_on_state = {t \in DOMAIN run.tasks : run.tasks[t].before > 0}
  BY DEF RunMetrics, Joined, EffectMetrics, Amplification, TimingMetrics

(* What the metrics take from the windows.                                 *)
LEMMA EffectFields ==
  ASSUME NEW ts
  PROVE  LET e == EffectMetrics(ts)
         IN  /\ e.task_oracle_status = {ts[t].status : t \in DOMAIN ts}
             /\ e.undeclared = {t \in DOMAIN ts : ~ts[t].declared /\ ts[t].expected >= 2}
             /\ e.unreadable =
                   {t \in DOMAIN ts : ts[t].declared /\ ts[t].status = "ok" /\ ~PerEntry(ts[t])}
             /\ e.unsupported_claims = Cardinality({t \in DOMAIN ts : Unsupported(ts[t])})
             /\ e.duplicate_mutations =
                   IF OracleStatus(ts) = "ok"
                   THEN SumFunction([t \in DOMAIN ts |-> Duplicates(ts[t])]) ELSE Missing
  BY DEF EffectMetrics

(* The oracle speaks for a run only when every window of it was read.      *)
LEMMA StatusOk ==
  ASSUME NEW ts
  PROVE  OracleStatus(ts) = "ok" <=> {ts[t].status : t \in DOMAIN ts} = {"ok"}
  <1> DEFINE S == {ts[t].status : t \in DOMAIN ts}
  <1> SUFFICES (OracleStatus(ts) = "ok") <=> (S = {"ok"})
    OBVIOUS
  <1>1. OracleStatus(ts) = IF S \in {{"absent"}, {"ok"}} THEN CHOOSE x \in S : TRUE ELSE "failed"
    BY DEF OracleStatus
  <1> HIDE DEF S
  <1>2. S # {} => (CHOOSE x \in S : TRUE) \in S
    OBVIOUS
  <1>3. CASE S = {"ok"}
    BY <1>1, <1>2, <1>3
  <1>4. CASE S = {"absent"}
    BY <1>1, <1>2, <1>4
  <1>5. CASE S \notin {{"absent"}, {"ok"}}
    BY <1>1, <1>5
  <1> QED BY <1>3, <1>4, <1>5

(* What is summed over the tasks of a run can be summed over its accounts. *)
LEMMA PerTask ==
  ASSUME IsFiniteSet(truth), NEW r, NEW n \in Nat, OneEach(Accounts(r), n),
         NEW F, \A t \in 1..n : F[t] \in Int
  PROVE  SumOf(F, 1..n) = SumOf([a \in Accounts(r) |-> F[a.task]], Accounts(r))
  <1> DEFINE A == Accounts(r)
             h == [a \in A |-> a.task]
             f == [a \in A |-> F[a.task]]
  <1>1. IsFiniteSet(A) /\ IsFiniteSet(1..n)
    BY FS_Subset, FS_Interval DEF Accounts
  <1>2. /\ h \in [A -> 1..n]
        /\ \A x, y \in A : h[x] = h[y] => x = y
        /\ \A y \in 1..n : \E x \in A : h[x] = y
        /\ \A x \in A : f[x] = F[h[x]]
    BY DEF OneEach
  <1> DEFINE T == 1..n
  <1> HIDE DEF h, f, A, T
  <1>3. SumOf(f, A) = SumOf(F, T)
    <2>1. /\ IsFiniteSet(A) /\ IsFiniteSet(T) /\ h \in [A -> T]
          /\ \A x, y \in A : h[x] = h[y] => x = y
          /\ \A y \in T : \E x \in A : h[x] = y
          /\ \A x \in A : f[x] = F[h[x]]
          /\ \A y \in T : F[y] \in Int
      BY <1>1, <1>2 DEF T
    <2> QED BY <2>1, SumRenamed
  <1> QED BY <1>3 DEF f, A, T

(* Every call that repeats an operation is in one bucket.                  *)
LEMMA BucketsSplit ==
  ASSUME NEW q, IsSequence(q)
  PROVE  LET of(b) == Cardinality({i \in RetriesIn(q) : Bucket(q, i) = b})
         IN  /\ of("kept") \in Nat /\ of("changed") \in Nat /\ of("no_key") \in Nat
             /\ of("kept") + of("changed") + of("no_key") = Cardinality(RetriesIn(q))
  <1> DEFINE R == RetriesIn(q)
             B(b) == {i \in R : Bucket(q, i) = b}
             K == B("kept")
             C == B("changed")
             N == B("no_key")
  <1>1. IsFiniteSet(R)
    BY RetriesFinite
  <1>2. R = (K \cup C) \cup N /\ K \cap C = {} /\ (K \cup C) \cap N = {}
    BY DEF Bucket
  <1>3. K \subseteq R /\ C \subseteq R /\ N \subseteq R
    OBVIOUS
  <1> HIDE DEF R, K, C, N
  <1>4. IsFiniteSet(K) /\ IsFiniteSet(C) /\ IsFiniteSet(N) /\ IsFiniteSet(K \cup C)
    <2>1. IsFiniteSet(K) /\ IsFiniteSet(C) /\ IsFiniteSet(N)
      BY <1>1, <1>3, FS_Subset
    <2> QED BY <2>1, FS_Union
  <1>5. Cardinality({}) = 0
    BY FS_EmptySet
  <1>6. /\ Cardinality(K) \in Nat /\ Cardinality(C) \in Nat /\ Cardinality(N) \in Nat
        /\ Cardinality(K \cup C) \in Nat
    BY <1>4, FS_CardinalityType
  <1>7. Cardinality(K \cup C) = Cardinality(K) + Cardinality(C) - Cardinality(K \cap C)
    BY <1>4, FS_Union
  <1>8. Cardinality(R) = Cardinality(K \cup C) + Cardinality(N) - Cardinality((K \cup C) \cap N)
    <2>1. Cardinality((K \cup C) \cup N)
            = Cardinality(K \cup C) + Cardinality(N) - Cardinality((K \cup C) \cap N)
      BY <1>4, FS_Union
    <2> QED BY <1>2, <2>1, Zenon
  <1>9. Cardinality(K) + Cardinality(C) + Cardinality(N) = Cardinality(R)
    <2>1. Cardinality(K \cap C) = 0 /\ Cardinality((K \cup C) \cap N) = 0
      BY <1>2, <1>5, Zenon
    <2>2. Cardinality(R) = Cardinality(K \cup C) + Cardinality(N) - 0
      BY <1>8, <2>1, Zenon
    <2>3. Cardinality(K \cup C) = Cardinality(K) + Cardinality(C) - 0
      BY <1>7, <2>1, Zenon
    <2> QED BY <1>6, <2>2, <2>3
  <1> QED BY <1>6, <1>9 DEF R, K, C, N

-----------------------------------------------------------------------------
(* When a pass is over every account of it is told by the window of its    *)
(* task, and every window by its account.                                  *)
LEMMA PassTold ==
  ASSUME RunInv, PassOver
  PROVE  LET N == Len(shape.file) IN
         /\ N \in Nat \ {0} /\ Len(tasks) = N /\ DOMAIN tasks = 1..N /\ DOMAIN shape.file = 1..N
         /\ IsFiniteSet(Accounts(pass)) /\ OneEach(Accounts(pass), N)
         /\ \A a \in Accounts(pass) : a.task \in 1..N /\ Told(tasks[a.task], shape.file[a.task], a)
         /\ \A t \in 1..N : \E a \in Accounts(pass) :
               a.task = t /\ Told(tasks[t], shape.file[t], a)
  <1> DEFINE N == Len(shape.file)
  <1>1. N \in Nat \ {0} /\ DOMAIN shape.file = 1..N
    BY ShapeFacts DEF RunInv, Kept
  <1>2. Len(tasks) = N
    BY DEF PassOver
  <1>3. DOMAIN tasks = 1..N
    BY <1>2, SequenceLen DEF RunInv, Kept
  <1>4. IsFiniteSet(Accounts(pass)) /\ OneEach(Accounts(pass), N)
    BY <1>2, FS_Subset DEF RunInv, TruthKept, Accounts
  <1> HIDE DEF N
  <1>5. \A a \in Accounts(pass) : a.task \in 1..N /\ Told(tasks[a.task], shape.file[a.task], a)
    BY <1>3, <1>4 DEF RunInv, TasksTold, OneEach
  <1>6. \A t \in 1..N : \E a \in Accounts(pass) : a.task = t /\ Told(tasks[t], shape.file[t], a)
    BY <1>4, <1>5 DEF OneEach
  <1> QED
    BY <1>1, <1>2, <1>3, <1>4, <1>5, <1>6 DEF N

(* The duplicates of a run: never more than there were, and one at least   *)
(* where a write was applied twice and every window could be read.         *)
LEMMA RunDuplicates ==
  ASSUME RunInv, PassOver
  PROVE  LET A == Accounts(pass)
             dup == SumFunction([t \in DOMAIN tasks |-> Duplicates(tasks[t])])
         IN  /\ dup \in Nat /\ dup <= SumFunction([a \in A |-> a.excess])
             /\ SumFunction([a \in A |-> a.excess]) \in Nat
             /\ \A t \in DOMAIN tasks : Duplicates(tasks[t]) <= dup
  <1> DEFINE A == Accounts(pass)
             N == Len(shape.file)
             F == [t \in 1..N |-> Duplicates(tasks[t])]
             f == [a \in A |-> F[a.task]]
             e == [a \in A |-> a.excess]
  <1>1. /\ N \in Nat /\ DOMAIN tasks = 1..N /\ IsFiniteSet(A) /\ OneEach(Accounts(pass), N)
        /\ \A a \in A : a.task \in 1..N /\ Told(tasks[a.task], shape.file[a.task], a)
        /\ \A t \in 1..N : \E a \in A : a.task = t /\ Told(tasks[t], shape.file[t], a)
    BY PassTold
  <1>2. \A t \in 1..N : F[t] \in Nat
    BY <1>1 DEF Told
  <1>3. IsFiniteSet(truth) /\ \A a \in A : a.excess \in Nat
    BY DEF RunInv, TruthKept, Accounts
  <1>4. \A a \in A : f[a] \in Nat /\ e[a] \in Nat /\ f[a] <= e[a]
    BY <1>1, <1>2, <1>3 DEF Told
  <1>5. SumFunction([t \in DOMAIN tasks |-> Duplicates(tasks[t])]) = SumOf(F, 1..N)
    BY <1>1, SumOfFunction
  <1>6. SumFunction(e) = SumOf(e, A)
    BY SumOfFunction
  <1>7. SumOf(F, 1..N) = SumOf(f, A)
    <2> HIDE DEF N, F
    <2>1. \A t \in 1..N : F[t] \in Int
      BY <1>2
    <2> QED BY <1>1, <1>3, <2>1, PerTask
  <1>8. IsFiniteSet(1..N)
    BY <1>1, FS_Interval
  <1>9. \A t \in 1..N : F[t] = Duplicates(tasks[t])
    OBVIOUS
  <1> HIDE DEF N, F, f, e, A
  <1>10. SumOf(f, A) <= SumOf(e, A)
    BY <1>1, <1>4, SumMonotone
  <1>11. SumOf(F, 1..N) \in Nat /\ SumOf(e, A) \in Nat
    BY <1>1, <1>2, <1>4, <1>8, SumIsNat
  <1>12. \A t \in 1..N : F[t] <= SumOf(F, 1..N)
    <2> DEFINE T == 1..N
    <2>1. IsFiniteSet(T) /\ \A t \in T : F[t] \in Nat
      BY <1>2, <1>8
    <2> HIDE DEF T
    <2>2. \A t \in T : F[t] <= SumOf(F, T)
      BY <2>1, SumAtLeast
    <2> QED BY <2>2 DEF T
  <1>13. \A t \in DOMAIN tasks : Duplicates(tasks[t]) <= SumOf(F, 1..N)
    BY <1>1, <1>9, <1>12
  <1> QED
    BY <1>5, <1>6, <1>7, <1>10, <1>11, <1>13 DEF e, A

(* The buckets of a run hold its retries.                                  *)
LEMMA RunRetries ==
  ASSUME RunInv, PassOver
  PROVE  LET A == Accounts(pass)
             k == RetryKeyCounts([t \in DOMAIN tasks |-> tasks[t].rows])
         IN  /\ \A b \in {"kept", "changed", "no_key"} : k[b] \in Nat
             /\ k["kept"] + k["changed"] + k["no_key"] = SumFunction([a \in A |-> a.retried])
  <1> DEFINE A == Accounts(pass)
             N == Len(shape.file)
             rowsOf == [t \in DOMAIN tasks |-> tasks[t].rows]
             In(b, t) == Cardinality({i \in RetriesIn(tasks[t].rows) : Bucket(tasks[t].rows, i) = b})
             K == [t \in 1..N |-> In("kept", t)]
             C == [t \in 1..N |-> In("changed", t)]
             U == [t \in 1..N |-> In("no_key", t)]
             KC == [t \in 1..N |-> K[t] + C[t]]
             R == [t \in 1..N |-> Cardinality(RetriesIn(tasks[t].rows))]
             f == [a \in A |-> R[a.task]]
             e == [a \in A |-> a.retried]
  <1>1. /\ N \in Nat /\ DOMAIN tasks = 1..N /\ IsFiniteSet(A) /\ OneEach(Accounts(pass), N)
        /\ \A a \in A : a.task \in 1..N /\ Told(tasks[a.task], shape.file[a.task], a)
        /\ \A t \in 1..N : \E a \in A : a.task = t /\ Told(tasks[t], shape.file[t], a)
    BY PassTold
  <1>2. \A t \in 1..N : IsSequence(tasks[t].rows)
    BY <1>1 DEF Told
  <1>3. \A t \in 1..N : /\ K[t] \in Nat /\ C[t] \in Nat /\ U[t] \in Nat
                        /\ K[t] + C[t] + U[t] = R[t]
    BY <1>2, BucketsSplit
  <1>4. \A b \in {"kept", "changed", "no_key"} :
           RetryKeyCounts(rowsOf)[b] = SumFunction([t \in 1..N |-> In(b, t)])
    <2>1. DOMAIN rowsOf = 1..N /\ \A t \in 1..N : rowsOf[t] = tasks[t].rows
      BY <1>1
    <2> HIDE DEF rowsOf
    <2>2. \A b : [t \in DOMAIN rowsOf |->
                     Cardinality({i \in RetriesIn(rowsOf[t]) : Bucket(rowsOf[t], i) = b})]
                 = [t \in 1..N |-> In(b, t)]
      BY <2>1
    <2> QED BY <2>2 DEF RetryKeyCounts
  <1>5. /\ RetryKeyCounts(rowsOf)["kept"] = SumFunction(K)
        /\ RetryKeyCounts(rowsOf)["changed"] = SumFunction(C)
        /\ RetryKeyCounts(rowsOf)["no_key"] = SumFunction(U)
    <2> HIDE DEF rowsOf
    <2> QED BY <1>4
  <1>6. /\ SumFunction(K) = SumOf(K, 1..N) /\ SumFunction(C) = SumOf(C, 1..N)
        /\ SumFunction(U) = SumOf(U, 1..N) /\ SumFunction(e) = SumOf(e, A)
    <2>1. DOMAIN K = 1..N /\ DOMAIN C = 1..N /\ DOMAIN U = 1..N /\ DOMAIN e = A
      OBVIOUS
    <2> HIDE DEF K, C, U, e
    <2> QED BY <2>1, SumOfFunction
  <1>7. f = e
    BY <1>1 DEF Told
  <1>8. \A t \in 1..N : KC[t] = K[t] + C[t]
    OBVIOUS
  <1>9. IsFiniteSet(truth) /\ IsFiniteSet(1..N)
    BY <1>1, FS_Interval DEF RunInv, TruthKept
  <1>10. SumOf(R, 1..N) = SumOf(f, A)
    <2> HIDE DEF K, C, U, R, N
    <2>1. \A t \in 1..N : R[t] \in Int
      BY <1>3
    <2> QED BY <1>1, <1>9, <2>1, PerTask
  <1> DEFINE T == 1..N
  <1> HIDE DEF rowsOf, K, C, U, KC, R, T, e, f, A
  <1>11. SumOf(KC, T) = SumOf(K, T) + SumOf(C, T)
    <2>1. IsFiniteSet(T) /\ \A t \in T : K[t] \in Int /\ C[t] \in Int /\ KC[t] = K[t] + C[t]
      BY <1>3, <1>8, <1>9 DEF T
    <2> QED BY <2>1, SumPlus
  <1>12. SumOf(R, T) = SumOf(KC, T) + SumOf(U, T)
    <2>1. IsFiniteSet(T) /\ \A t \in T : KC[t] \in Int /\ U[t] \in Int /\ R[t] = KC[t] + U[t]
      BY <1>3, <1>8, <1>9 DEF T
    <2> QED BY <2>1, SumPlus
  <1>13. SumOf(K, T) \in Nat /\ SumOf(C, T) \in Nat /\ SumOf(U, T) \in Nat
    BY <1>3, <1>9, SumIsNat DEF T
  <1>14. SumOf(K, T) + SumOf(C, T) + SumOf(U, T) = SumFunction(e)
    BY <1>6, <1>7, <1>10, <1>11, <1>12, <1>13 DEF T
  <1> QED
    BY <1>5, <1>6, <1>13, <1>14 DEF T, rowsOf, e, A

(* What the metrics of a run say of its accounts.                          *)
LEMMA ThisRunTold ==
  ASSUME RunInv, PassOver
  PROVE  ThisRun.undeclared = Undeclared /\ RunTold(ThisRun, Accounts(pass))
  <1> DEFINE A == Accounts(pass)
             N == Len(shape.file)
             m == ThisRun
             run == [tasks |-> tasks, placement |-> Placement]
             dup == SumFunction([t \in DOMAIN tasks |-> Duplicates(tasks[t])])
             sum == SumFunction([a \in A |-> a.excess])
  <1>1. /\ N \in Nat \ {0} /\ DOMAIN tasks = 1..N /\ DOMAIN shape.file = 1..N
        /\ IsFiniteSet(A) /\ OneEach(Accounts(pass), N)
        /\ \A a \in A : a.task \in 1..N /\ Told(tasks[a.task], shape.file[a.task], a)
        /\ \A t \in 1..N : \E a \in A : a.task = t /\ Told(tasks[t], shape.file[t], a)
    BY PassTold
  <1>2. LET e == EffectMetrics(tasks)
        IN  /\ m.duplicate_mutations = e.duplicate_mutations
            /\ m.task_oracle_status = e.task_oracle_status
            /\ m.undeclared = e.undeclared
            /\ m.unreadable = e.unreadable
            /\ m.unsupported_claims = e.unsupported_claims
            /\ m.keyed = CarriesKey(RowsOf(run))
            /\ m.retry_keys = RetryKeyCounts(RowsOf(run))
            /\ m.opened_on_state = {t \in DOMAIN tasks : tasks[t].before > 0}
    BY RunMetricFields DEF ThisRun
  <1>3. /\ m.task_oracle_status = {tasks[t].status : t \in DOMAIN tasks}
        /\ m.undeclared = {t \in DOMAIN tasks : ~tasks[t].declared /\ tasks[t].expected >= 2}
        /\ m.unreadable =
              {t \in DOMAIN tasks : tasks[t].declared /\ tasks[t].status = "ok" /\ ~PerEntry(tasks[t])}
        /\ m.unsupported_claims = Cardinality({t \in DOMAIN tasks : Unsupported(tasks[t])})
        /\ m.duplicate_mutations = IF OracleStatus(tasks) = "ok" THEN dup ELSE Missing
    BY <1>2, EffectFields
  <1>4. RowsOf(run) = [t \in DOMAIN tasks |-> tasks[t].rows]
    BY DEF RowsOf
  <1>5. /\ dup \in Nat /\ dup <= sum /\ sum \in Nat
        /\ \A t \in DOMAIN tasks : Duplicates(tasks[t]) <= dup
    BY RunDuplicates
  <1>6. /\ \A b \in {"kept", "changed", "no_key"} : m.retry_keys[b] \in Nat
        /\ m.retry_keys["kept"] + m.retry_keys["changed"] + m.retry_keys["no_key"]
              = SumFunction([a \in A |-> a.retried])
    BY <1>2, <1>4, RunRetries
  <1>7. OracleStatus(tasks) = "ok" <=> m.task_oracle_status = {"ok"}
    <2> HIDE DEF m
    <2>1. OracleStatus(tasks) = "ok" <=> {tasks[t].status : t \in DOMAIN tasks} = {"ok"}
      BY StatusOk
    <2> QED BY <1>3, <2>1
  <1> HIDE DEF A, N, m, run, dup, sum
  <1>8. /\ m.duplicate_mutations \in Nat \cup {Missing} /\ m.duplicate_mutations <= sum
        /\ m.task_oracle_status = {"ok"} => m.duplicate_mutations # Missing
    BY <1>3, <1>5, <1>7 DEF Missing
  <1>9. m.undeclared = Undeclared
    <2>1. \A t \in 1..N : /\ tasks[t].declared = shape.file[t].declared
                          /\ tasks[t].expected = shape.file[t].expected
      BY <1>1 DEF Told
    <2> QED BY <1>1, <1>3, <2>1 DEF Undeclared
  <1>10. ASSUME \A a \in A : a.read, NEW a \in A, a.twice
         PROVE  m.duplicate_mutations >= 1 \/ m.unreadable # {} \/ m.undeclared # {}
    <2> DEFINE t == a.task
               task == tasks[t]
    <2>1. t \in 1..N /\ Told(task, shape.file[t], a)
      BY <1>1
    <2>2. \A u \in 1..N : tasks[u].status = "ok"
      BY <1>1, <1>10 DEF Told
    <2>3. {tasks[u].status : u \in DOMAIN tasks} = {"ok"}
      BY <1>1, <2>2
    <2>4. m.duplicate_mutations = dup
      BY <1>3, <1>7, <2>3
    <2> HIDE DEF t, task
    <2>5. \/ Duplicates(task) >= 1
          \/ task.declared /\ ~PerEntry(task)
          \/ ~task.declared /\ task.expected >= 2
      BY <1>10, <2>1 DEF Told
    <2>6. task.status = "ok" /\ t \in DOMAIN tasks /\ task = tasks[t]
      BY <1>1, <2>1, <2>2 DEF task
    <2>7. Duplicates(task) \in Nat /\ Duplicates(task) <= dup
      BY <1>5, <2>1, <2>6 DEF Told
    <2> QED BY <1>3, <1>5, <2>4, <2>5, <2>6, <2>7
  <1>11. ASSUME NEW a \in A, a.read, a.declared, a.claimed
         PROVE  a.whole \/ m.unreadable # {} \/ m.unsupported_claims > 0
    <2> DEFINE t == a.task
    <2>1. t \in 1..N /\ Told(tasks[t], shape.file[t], a)
      BY <1>1
    <2> HIDE DEF t
    <2>2. tasks[t].status = "ok" /\ tasks[t].declared
      BY <1>11, <2>1 DEF Told
    <2>3. a.whole \/ ~PerEntry(tasks[t]) \/ Unsupported(tasks[t])
      BY <1>11, <2>1 DEF Told
    <2>4. Unsupported(tasks[t]) => m.unsupported_claims > 0
      <3> DEFINE U == {u \in DOMAIN tasks : Unsupported(tasks[u])}
      <3>1. IsFiniteSet(U)
        <4>1. IsFiniteSet(1..N) /\ U \subseteq 1..N
          BY <1>1, FS_Interval
        <4> QED BY <4>1, FS_Subset
      <3>2. Unsupported(tasks[t]) => U # {}
        BY <1>1, <2>1
      <3> HIDE DEF U
      <3>3. U # {} => Cardinality(U) \in Nat /\ Cardinality(U) # 0
        BY <3>1, FS_CardinalityType, FS_EmptySet
      <3> QED BY <1>3, <3>2, <3>3 DEF U
    <2> QED BY <1>1, <1>3, <2>1, <2>2, <2>3, <2>4
  <1>12. m.keyed <=> \E a \in A : a.keyed
    <2> DEFINE Keyed(t) == \E i \in DOMAIN tasks[t].rows : tasks[t].rows[i].key # NoKey
    <2>1. CarriesKey(RowsOf(run)) <=> \E t \in 1..N : Keyed(t)
      BY <1>1, <1>4 DEF CarriesKey
    <2>2. \A a \in A : a.keyed <=> Keyed(a.task)
      BY <1>1 DEF Told
    <2>3. m.keyed <=> CarriesKey(RowsOf(run))
      BY <1>2
    <2> HIDE DEF Keyed
    <2> QED BY <1>1, <2>1, <2>2, <2>3
  <1>13. ASSUME NEW a \in A, a.read, a.absorbed PROVE a.task \in m.opened_on_state
    BY <1>1, <1>2, <1>13 DEF Told
  <1>14. RunTold(m, A)
    BY <1>6, <1>8, <1>9, <1>10, <1>11, <1>12, <1>13 DEF RunTold, sum
  <1> QED BY <1>9, <1>14 DEF m, A

-----------------------------------------------------------------------------
(* Nothing has happened yet.                                               *)
LEMMA RunInitially ==
  ASSUME Init PROVE RunInv
  <1>1. shape \in Shapes /\ pass = 0 /\ rows = <<>> /\ tasks = <<>> /\ stored = 0 /\ spent = {}
        /\ window = EmptyWindow(shape.file[1]) /\ runs = <<>> /\ report = NoReport /\ truth = {}
    BY DEF Init
  <1>2. Len(shape.file) \in Nat \ {0} /\ TaskOK(shape.file[1])
    BY <1>1, ShapeFacts
  <1>3. Len(tasks) = 0 /\ Len(runs) = 0 /\ DOMAIN tasks = {} /\ DOMAIN runs = {} /\ DOMAIN rows = {}
    BY <1>1
  <1>4. IsSequence(<<>>)
    BY DEF IsSequence
  <1>5. OpenTask = shape.file[1]
    BY <1>2, <1>3 DEF OpenTask
  <1>6. Kept
    BY <1>1, <1>2, <1>3, <1>4, <1>5 DEF Kept, EmptyWindow
  <1>7. TruthKept
    BY <1>1, <1>3, FS_EmptySet DEF TruthKept, OneEach, Accounts
  <1> QED
    BY <1>1, <1>3, <1>6, <1>7 DEF RunInv, SpentKept, TasksTold, RunsTold, CleanTold, Reported

(* What a step that ends no task and no pass leaves alone.                 *)
LEMMA PastKept ==
  ASSUME RunInv, UNCHANGED <<shape, pass, tasks, clean, runs, report, truth>>
  PROVE  TruthKept' /\ TasksTold' /\ RunsTold' /\ CleanTold' /\ Reported'
  <1> USE DEF RunInv
  <1>1. TruthKept'
    BY DEF TruthKept, OneEach, Accounts
  <1>2. TasksTold'
    BY DEF TasksTold, Told, Status, Accounts
  <1>3. RunsTold'
    BY DEF RunsTold, RunTold, Undeclared, Accounts
  <1>4. CleanTold'
    BY DEF CleanTold, Accounts
  <1>5. Reported'
    BY DEF Reported, Result
  <1> QED
    BY <1>1, <1>2, <1>3, <1>4, <1>5

(* A call changes its window and what the upstream has stored.             *)
LEMMA CallKeeps ==
  ASSUME RunInv, NEW op \in DOMAIN window, NEW key, NEW fault \in Faults, NEW wait,
         Call(op, key, fault, wait)
  PROVE  RunInv'
  <1>1. Running /\ Kept /\ SpentKept
    BY DEF RunInv, Call
  <1>2. rows' = Append(rows, Row(op, key, fault, wait))
        /\ UNCHANGED <<shape, pass, stored, tasks, clean, runs, report, refused, truth>>
    BY DEF Call
  <1>3. \/ /\ window' = [window EXCEPT ![op] = @ + 1]
           /\ spent' \subseteq spent \cup {<<key, pass>>}
        \/ UNCHANGED <<window, spent>>
    BY DEF Call
  <1>4. /\ Len(tasks) \in Nat /\ Len(tasks) + 1 \in 1..Len(shape.file)
        /\ Len(shape.file) \in Nat
        /\ window \in [DOMAIN OpenTask.wanted \cup {Stray, Joint} -> Nat]
    BY <1>1, OpenWindow, ShapeFacts DEF Kept
  <1>5. /\ window' \in [DOMAIN OpenTask.wanted \cup {Stray, Joint} -> Nat]
        /\ \A t \in DOMAIN window : window'[t] >= window[t]
        /\ window' # window => window'[op] > 0
    BY <1>3, <1>4
  <1>6. OpenTask' = OpenTask
    BY <1>2 DEF OpenTask
  <1>7. IsSequence(rows') /\ (pass = 0 => \A i \in DOMAIN rows' : rows'[i].ok)
    <2> DEFINE e == Row(op, key, fault, wait)
    <2>1. IsSequence(rows) /\ (pass = 0 => \A i \in DOMAIN rows : rows[i].ok)
      BY <1>1 DEF Kept
    <2>2. pass = 0 => e.ok
      <3>1. pass = 0 => fault = NoFault
        BY DEF Faults
      <3>2. ResponseTo(NoFault, "ok").ok
        BY DEF ResponseTo, InnerResponse, NoFault, LostReplyFault, RejectingFault
      <3>3. e.ok = ResponseTo(fault, "ok").ok
        BY DEF Row
      <3> QED BY <3>1, <3>2, <3>3
    <2> HIDE DEF e
    <2>3. rows' = Append(rows, e)
      BY <1>2 DEF e
    <2> QED BY <2>1, <2>2, <2>3, AppendIsSequence
  <1>8. Kept'
    BY <1>1, <1>2, <1>4, <1>5, <1>6, <1>7 DEF Kept
  <1>9. SpentKept'
    <2> SUFFICES ASSUME NEW e \in spent'
                 PROVE  /\ e[2] \in 0..pass /\ (e[2] < pass => stored = 1)
                        /\ stored = 1 \/ \E t \in DOMAIN window' : window'[t] > 0
      BY <1>2 DEF SpentKept
    <2>1. pass \in Nat /\ DOMAIN window' = DOMAIN window
      BY <1>1, <1>4, <1>5 DEF Kept
    <2>2. CASE e \in spent
      <3>1. /\ e[2] \in 0..pass /\ (e[2] < pass => stored = 1)
            /\ stored = 1 \/ \E t \in DOMAIN window : window[t] > 0
        BY <1>1, <2>2 DEF SpentKept
      <3>2. \A t \in DOMAIN window : window[t] > 0 => window'[t] > 0
        BY <1>4, <1>5
      <3> QED BY <2>1, <3>1, <3>2
    <2>3. CASE e \notin spent
      <3>1. e = <<key, pass>> /\ window' = [window EXCEPT ![op] = @ + 1]
        BY <1>3, <2>3
      <3>2. window'[op] > 0 /\ op \in DOMAIN window'
        BY <1>4, <3>1
      <3> QED BY <2>1, <3>1, <3>2
    <2> QED BY <2>2, <2>3
  <1> QED
    BY <1>2, <1>8, <1>9, PastKept DEF RunInv

(* A task ends: its account joins the others, its window is deposited, and *)
(* the next one opens.                                                     *)
LEMMA TaskEndKeeps ==
  ASSUME RunInv, NEW claimed \in BOOLEAN, NEW read \in BOOLEAN, TaskEnds(claimed, read)
  PROVE  RunInv'
  <1> DEFINE task == Deposited(claimed, read)
             acc == Account(claimed, read)
             n == Len(tasks)
             N == Len(shape.file)
  <1>1. /\ Running /\ rows # <<>> /\ Kept /\ SpentKept /\ TruthKept /\ TasksTold
        /\ RunsTold /\ CleanTold /\ Reported
    BY DEF RunInv, TaskEnds
  <1>2. /\ tasks' = Append(tasks, task) /\ truth' = truth \cup {acc} /\ rows' = <<>>
        /\ stored' = IF \E t \in DOMAIN window : window[t] > 0 THEN 1 ELSE stored
        /\ window' = EmptyWindow(shape.file[IF n + 1 < N THEN n + 2 ELSE 1])
        /\ UNCHANGED <<shape, pass, spent, clean, runs, report, refused>>
    BY DEF TaskEnds
  <1>3. /\ Told(task, Spec1, acc) /\ acc.run = pass /\ acc.task = n + 1
        /\ acc.excess \in Nat /\ acc.retried \in Nat
        /\ acc.read => shape.oracle # "absent"
        /\ shape.oracle # "absent" => task.status # "absent"
    BY <1>1, DepositTold
  <1>4. /\ n \in Nat /\ N \in Nat /\ n + 1 \in 1..N /\ pass \in Nat
        /\ \A i \in 1..N : TaskOK(shape.file[i])
        /\ Spec1 = shape.file[n + 1]
    BY <1>1, OpenWindow, ShapeFacts DEF Kept, Spec1
  <1>5. IsSequence(tasks) /\ DOMAIN tasks = 1..n
    BY <1>1, SequenceLen DEF Kept
  <1>6. pass = 0 => DeliveredOk(task)
    <2>1. task.rows = rows
      BY DEF Deposited
    <2>2. DOMAIN rows # {}
      <3>1. IsSequence(rows)
        BY <1>1 DEF Kept
      <3>2. Len(rows) \in Nat /\ DOMAIN rows = 1..Len(rows)
        BY <3>1, SequenceLen
      <3>3. Len(rows) # 0
        <4> DEFINE S == Range(rows)
        <4>1. rows \in Seq(S)
          BY <3>1 DEF IsSequence
        <4> HIDE DEF S
        <4> QED BY <1>1, <4>1, EmptySeq
      <3> QED BY <3>2, <3>3
    <2> QED BY <1>1, <2>1, <2>2 DEF DeliveredOk, Kept
  <1> HIDE DEF task, acc, n, N
  <1>7. /\ IsSequence(tasks') /\ DOMAIN tasks' = 1..(n + 1) /\ Len(tasks') = n + 1
        /\ \A i \in 1..n : tasks'[i] = tasks[i]
        /\ tasks'[n + 1] = task
    <2>1. IsSequence(Append(tasks, task)) /\ DOMAIN Append(tasks, task) = 1..(n + 1)
      BY <1>5, AppendIsSequence DEF n
    <2>2. \A i \in 1..(n + 1) :
             \/ i \in 1..n /\ tasks'[i] = tasks[i]
             \/ i = n + 1 /\ tasks'[i] = task
      BY <1>2, <1>5, <2>1, AppendIsSequence DEF n
    <2>3. Len(tasks') = n + 1
      BY <1>2, <1>4, <2>1, SequenceLen
    <2>4. n + 1 \notin 1..n /\ n + 1 \in 1..(n + 1) /\ \A i \in 1..n : i # n + 1 /\ i \in 1..(n + 1)
      BY <1>4
    <2> QED BY <1>2, <2>1, <2>2, <2>3, <2>4
  <1>8. Kept'
    <2>1. OpenTask' = shape.file[IF n + 1 < N THEN n + 2 ELSE 1]
      <3>1. OpenTask' = shape.file[IF n + 1 < N THEN (n + 1) + 1 ELSE 1]
        BY <1>2, <1>7 DEF OpenTask, N
      <3> QED BY <1>4, <3>1
    <2>2. /\ window' \in [DOMAIN OpenTask'.wanted \cup {Stray, Joint} -> Nat]
          /\ \A t \in DOMAIN window' : window'[t] = 0
      BY <1>2, <2>1 DEF EmptyWindow
    <2>3. IsSequence(<<>>) /\ DOMAIN <<>> = {}
      BY DEF IsSequence
    <2>4. stored' \in {0, 1} /\ IsSequence(runs') /\ shape' \in Shapes /\ pass' \in Nat
      BY <1>1, <1>2 DEF Kept
    <2>5. Len(tasks') <= Len(shape'.file)
      BY <1>2, <1>4, <1>7 DEF N
    <2>6. \A i \in DOMAIN rows' : rows'[i].ok
      BY <1>2, <2>3
    <2> QED BY <1>2, <1>7, <2>2, <2>3, <2>4, <2>5, <2>6 DEF Kept
  <1>9. SpentKept'
    BY <1>1, <1>2 DEF SpentKept
  <1>10. /\ \A r : r # pass => Accounts(r)' = Accounts(r)
         /\ Accounts(pass)' = Accounts(pass) \cup {acc}
    BY <1>2, <1>3 DEF Accounts
  <1>11. TruthKept'
    <2>1. IsFiniteSet(truth')
      BY <1>1, <1>2, FS_AddElement DEF TruthKept
    <2>2. /\ \A a \in truth' : a.run \in 0..pass /\ a.excess \in Nat /\ a.retried \in Nat
          /\ \A a \in truth' : a.read => shape'.oracle # "absent"
      BY <1>1, <1>2, <1>3, <1>4 DEF TruthKept
    <2>3. \A r \in 0..(pass - 1) : OneEach(Accounts(r)', N)
      BY <1>1, <1>4, <1>10 DEF TruthKept, N
    <2>4. OneEach(Accounts(pass)', n + 1)
      <3>1. OneEach(Accounts(pass), n)
        BY <1>1 DEF TruthKept, n
      <3>2. \A a \in Accounts(pass)' : (a \in Accounts(pass) /\ a.task \in 1..n) \/ a = acc
        BY <1>10, <3>1 DEF OneEach
      <3>3. \A a, b \in Accounts(pass)' : a.task = b.task => a = b
        <4>1. n + 1 \notin 1..n
          BY <1>4
        <4> QED BY <1>3, <3>1, <3>2, <4>1 DEF OneEach
      <3>4. \A t \in 1..(n + 1) : \E a \in Accounts(pass)' : a.task = t
        <4>1. \A t \in 1..(n + 1) : t \in 1..n \/ t = n + 1
          BY <1>4
        <4> QED BY <1>3, <1>10, <3>1, <4>1 DEF OneEach
      <3>5. \A a \in Accounts(pass)' : a.task \in 1..(n + 1)
        BY <1>3, <1>4, <3>2
      <3> QED BY <3>3, <3>4, <3>5 DEF OneEach
    <2>5. Accounts(pass)' = {a \in truth' : a.run = pass} /\ \A r : Accounts(r)' = {a \in truth' : a.run = r}
      BY <1>2 DEF Accounts
    <2> QED BY <1>2, <1>7, <2>1, <2>2, <2>3, <2>4, <2>5 DEF TruthKept, N, Accounts
  <1>12. TasksTold'
    <2>1. \A a \in Accounts(pass) : a.task \in 1..n
      BY <1>1 DEF TruthKept, OneEach, n
    <2>2. ASSUME NEW i \in 1..(n + 1)
          PROVE  /\ \A a \in Accounts(pass)' : a.task = i => Told(tasks'[i], shape.file[i], a)
                 /\ pass = 0 => DeliveredOk(tasks'[i])
                 /\ shape.oracle # "absent" => tasks'[i].status # "absent"
      <3>1. CASE i = n + 1
        <4>1. \A a \in Accounts(pass)' : a.task = i => a = acc
          BY <1>4, <1>10, <2>1, <3>1
        <4>2. Told(tasks'[i], shape.file[i], acc)
          BY <1>3, <1>4, <1>7, <3>1
        <4> QED BY <1>3, <1>6, <1>7, <3>1, <4>1, <4>2
      <3>2. CASE i \in 1..n
        <4>1. tasks'[i] = tasks[i] /\ i \in DOMAIN tasks
          BY <1>5, <1>7, <3>2
        <4>2. \A a \in Accounts(pass)' : a.task = i => a \in Accounts(pass)
          BY <1>3, <1>4, <1>10, <3>2
        <4> QED BY <1>1, <4>1, <4>2 DEF TasksTold
      <3> QED BY <1>4, <3>1, <3>2
    <2>3. Accounts(pass)' = {a \in truth' : a.run = pass}
      BY <1>2 DEF Accounts
    <2> QED BY <1>2, <1>7, <2>2, <2>3 DEF TasksTold, Accounts
  <1>13. RunsTold'
    <2>1. \A i \in DOMAIN runs : i # pass
      BY <1>1, <1>4, SequenceLen DEF Reported, Kept
    <2>2. \A i \in DOMAIN runs : RunTold(runs[i], Accounts(i)')
      BY <1>1, <1>10, <2>1 DEF RunsTold
    <2>3. \A i : Accounts(i)' = {a \in truth' : a.run = i}
      BY DEF Accounts
    <2> QED BY <1>1, <1>2, <2>2, <2>3 DEF RunsTold, Undeclared, Accounts
  <1>14. CleanTold'
    BY <1>1, <1>2, <1>10 DEF CleanTold
  <1>15. Reported'
    BY <1>1, <1>2 DEF Reported, Running
  <1> QED
    BY <1>8, <1>9, <1>11, <1>12, <1>13, <1>14, <1>15 DEF RunInv

(* What a task expects is a number, and one at least if it wants anything. *)
LEMMA ExpectedCounts ==
  ASSUME NEW s, TaskOK(s)
  PROVE  s.expected \in Nat /\ (DOMAIN s.wanted # {} => s.expected >= 1)
  <1> DEFINE D == DOMAIN s.wanted
             w == s.wanted
  <1>1. IsFiniteSet(D) /\ w \in [D -> Nat \ {0}] /\ s.expected = SumFunction(w)
    BY DEF TaskOK
  <1>2. s.expected = SumOf(w, D)
    BY <1>1, SumOfFunction
  <1> HIDE DEF D, w
  <1>3. \A t \in D : w[t] \in Nat /\ w[t] >= 1
    BY <1>1
  <1>4. SumOf(w, D) \in Nat /\ \A t \in D : w[t] <= SumOf(w, D)
    BY <1>1, <1>3, SumIsNat, SumAtLeast
  <1>5. D # {} => SumOf(w, D) >= 1
    BY <1>3, <1>4
  <1> QED BY <1>2, <1>4, <1>5 DEF D

(* A clean pass that did not fail left what the file expects.              *)
LEMMA CleanMade ==
  ASSUME RunInv, CleanPassEnds
  PROVE  /\ clean'.keyed <=> \E a \in Accounts(0) : a.keyed
         /\ shape.oracle # "absent" /\ Expects(shape) => clean'.applied \in Nat \ {0}
  <1> DEFINE N == Len(shape.file)
             J == {j \in DOMAIN tasks : tasks[j].status = "ok"}
             f == [i \in J |-> tasks[i].effects]
  <1>1. PassOver /\ pass = 0 /\ ~CleanFails
    BY DEF CleanPassEnds
  <1>2. /\ clean'.keyed = CarriesKey([i \in DOMAIN tasks |-> tasks[i].rows])
        /\ clean'.applied = SumFunction(f)
    BY DEF CleanPassEnds
  <1>3. /\ N \in Nat \ {0} /\ DOMAIN tasks = 1..N /\ DOMAIN shape.file = 1..N
        /\ \A a \in Accounts(0) : a.task \in 1..N /\ Told(tasks[a.task], shape.file[a.task], a)
        /\ \A t \in 1..N : \E a \in Accounts(0) :
              a.task = t /\ Told(tasks[t], shape.file[t], a)
    BY <1>1, PassTold
  <1>4. clean'.keyed <=> \E a \in Accounts(0) : a.keyed
    <2> DEFINE Keyed(t) == \E i \in DOMAIN tasks[t].rows : tasks[t].rows[i].key # NoKey
    <2>1. CarriesKey([i \in DOMAIN tasks |-> tasks[i].rows]) <=> \E t \in 1..N : Keyed(t)
      BY <1>3 DEF CarriesKey
    <2>2. \A a \in Accounts(0) : a.keyed <=> Keyed(a.task)
      BY <1>3 DEF Told
    <2>3. clean'.keyed <=> CarriesKey([i \in DOMAIN tasks |-> tasks[i].rows])
      BY <1>2
    <2> HIDE DEF Keyed
    <2> QED BY <1>3, <2>1, <2>2, <2>3
  <1>5. ASSUME shape.oracle # "absent", Expects(shape) PROVE clean'.applied \in Nat \ {0}
    <2>1. \A i \in 1..N : /\ TaskOK(shape.file[i])
                          /\ tasks[i].expected = shape.file[i].expected
      BY <1>3, ShapeFacts DEF RunInv, Kept, Told
    <2>2. \A i \in 1..N : tasks[i].status = "ok" /\ tasks[i].effects = tasks[i].expected
      <3> TAKE i \in 1..N
      <3>1. DeliveredOk(tasks[i]) /\ tasks[i].status # "absent"
        BY <1>1, <1>3, <1>5 DEF RunInv, TasksTold
      <3>2. tasks[i].claimed /\ ~CleanMismatch(tasks[i])
        BY <1>1, <1>3 DEF CleanFails
      <3> QED BY <3>1, <3>2 DEF CleanMismatch
    <2>3. J = 1..N
      BY <1>3, <2>2
    <2>4. \A i \in J : f[i] = shape.file[i].expected /\ f[i] \in Nat
      BY <2>1, <2>2, <2>3, ExpectedCounts
    <2>5. PICK i \in J : DOMAIN shape.file[i].wanted # {}
      BY <1>3, <1>5, <2>3 DEF Expects
    <2>6. f[i] >= 1
      BY <2>1, <2>3, <2>4, <2>5, ExpectedCounts
    <2>7. IsFiniteSet(J)
      <3>1. IsFiniteSet(1..N)
        BY <1>3, FS_Interval
      <3> QED BY <2>3, <3>1, Zenon
    <2>8. SumFunction(f) = SumOf(f, J)
      BY SumOfFunction
    <2> HIDE DEF f, J
    <2>9. f[i] <= SumOf(f, J) /\ SumOf(f, J) \in Nat
      BY <2>4, <2>7, SumAtLeast, SumIsNat
    <2> QED BY <1>2, <2>4, <2>6, <2>8, <2>9
  <1> QED BY <1>4, <1>5

(* The next pass opens on the store the last one left.                     *)
LEMMA NextPassKeeps ==
  ASSUME RunInv, PassOver, NextPass, UNCHANGED <<shape, rows, window, stored, spent, truth>>,
         IsSequence(runs')
  PROVE  Kept' /\ SpentKept' /\ TruthKept' /\ TasksTold'
  <1> DEFINE N == Len(shape.file)
  <1>1. Kept /\ SpentKept /\ TruthKept
    BY DEF RunInv
  <1>2. /\ tasks' = <<>> /\ pass' = pass + 1 /\ pass \in Nat
        /\ N \in Nat \ {0} /\ Len(tasks) = N
    BY <1>1, ShapeFacts DEF NextPass, Kept, PassOver
  <1>3. Len(tasks') = 0 /\ DOMAIN tasks' = {} /\ IsSequence(tasks')
    BY <1>2 DEF IsSequence
  <1>4. OpenTask' = OpenTask
    BY <1>2, <1>3 DEF OpenTask
  <1>5. Kept'
    BY <1>1, <1>2, <1>3, <1>4 DEF Kept
  <1>6. \A t \in DOMAIN window : ~(window[t] > 0)
    BY <1>1, <1>2 DEF Kept
  <1>7. SpentKept'
    BY <1>1, <1>2, <1>6 DEF SpentKept
  <1>8. TruthKept'
    <2>1. \A r \in 0..pass : OneEach(Accounts(r), N)
      <3>1. \A r \in 0..pass : r \in 0..(pass - 1) \/ r = pass
        BY <1>2
      <3> QED BY <1>1, <1>2, <3>1 DEF TruthKept
    <2>2. \A r : Accounts(r)' = Accounts(r)
      BY DEF Accounts
    <2>3. pass' - 1 = pass /\ \A k \in 0..pass : k \in 0..pass'
      BY <1>2
    <2>4. Accounts(pass + 1) = {}
      <3>1. \A a \in truth : a.run # pass + 1
        BY <1>1, <1>2 DEF TruthKept
      <3> QED BY <3>1 DEF Accounts
    <2>5. OneEach({}, 0)
      BY DEF OneEach
    <2>6. /\ \A a \in truth' : a.run \in 0..pass' /\ a.excess \in Nat /\ a.retried \in Nat
          /\ \A a \in truth' : a.read => shape'.oracle # "absent"
      BY <1>1, <2>3 DEF TruthKept
    <2>7. OneEach({a \in truth : a.run = pass + 1}, 0)
      BY <2>4, <2>5 DEF Accounts
    <2>8. \A r \in 0..pass : OneEach({a \in truth : a.run = r}, N)
      BY <2>1 DEF Accounts
    <2> HIDE DEF N
    <2>9. IsFiniteSet(truth') /\ N' = N
      BY <1>1 DEF TruthKept, N
    <2> QED BY <1>2, <1>3, <2>3, <2>6, <2>7, <2>8, <2>9 DEF TruthKept, Accounts, N
  <1>9. TasksTold'
    BY <1>3 DEF TasksTold
  <1> QED BY <1>5, <1>7, <1>8, <1>9

(* The clean pass leaves its calls and what it applied.                    *)
LEMMA CleanPassKeeps ==
  ASSUME RunInv, CleanPassEnds
  PROVE  RunInv'
  <1>1. /\ PassOver /\ pass = 0 /\ NextPass
        /\ UNCHANGED <<shape, rows, window, stored, spent, runs, report, refused, truth>>
    BY DEF CleanPassEnds
  <1>2. IsSequence(runs') /\ pass' = 1 /\ tasks' = <<>> /\ Len(runs) = 0 /\ report = NoReport
    BY <1>1 DEF RunInv, Kept, NextPass, PassOver, Reported
  <1>3. Kept' /\ SpentKept' /\ TruthKept' /\ TasksTold'
    BY <1>1, <1>2, NextPassKeeps
  <1>4. RunsTold'
    BY <1>1 DEF RunInv, RunsTold, Undeclared, Accounts
  <1>5. CleanTold'
    BY <1>1, CleanMade DEF CleanTold, Accounts
  <1>6. Reported'
    BY <1>1, <1>2 DEF Reported
  <1> QED
    BY <1>3, <1>4, <1>5, <1>6 DEF RunInv

(* A run ends: its metrics join those before, and after the last there is  *)
(* a verdict.                                                              *)
LEMMA RunEndKeeps ==
  ASSUME RunInv, RunEnds
  PROVE  RunInv'
  <1> DEFINE m == ThisRun
             n == Len(runs)
  <1>1. /\ PassOver /\ pass > 0 /\ NextPass
        /\ UNCHANGED <<shape, rows, window, stored, spent, clean, refused, truth>>
    BY DEF RunEnds
  <1>2. /\ runs' = Append(runs, m)
        /\ report' = IF pass = shape.repeats THEN Evaluate(Result(runs'), Grading) ELSE report
    BY DEF RunEnds
  <1>3. /\ pass \in Nat /\ n + 1 = pass /\ n \in Nat /\ report = NoReport
        /\ IsSequence(runs) /\ DOMAIN runs = 1..n
        /\ pass' = pass + 1 /\ tasks' = <<>>
    BY <1>1, SequenceLen DEF RunInv, Kept, Reported, NextPass, PassOver
  <1>4. m.undeclared = Undeclared /\ RunTold(m, Accounts(pass))
    BY <1>1, ThisRunTold
  <1> HIDE DEF m
  <1>5. /\ IsSequence(runs') /\ DOMAIN runs' = 1..(n + 1) /\ Len(runs') = n + 1
        /\ \A i \in DOMAIN runs' : (i \in DOMAIN runs /\ runs'[i] = runs[i])
                                  \/ (i = pass /\ runs'[i] = m)
    <2>1. IsSequence(Append(runs, m)) /\ DOMAIN Append(runs, m) = 1..(n + 1)
      BY <1>3, AppendIsSequence
    <2>2. \A i \in DOMAIN Append(runs, m) : (i \in DOMAIN runs /\ Append(runs, m)[i] = runs[i])
                                           \/ (i = n + 1 /\ Append(runs, m)[i] = m)
      BY <1>3, AppendIsSequence
    <2>3. Len(runs') = n + 1
      <3>1. Len(runs') \in Nat /\ DOMAIN runs' = 1..Len(runs')
        BY <1>2, <2>1, SequenceLen
      <3> QED BY <1>2, <1>3, <2>1, <3>1
    <2> QED BY <1>2, <1>3, <2>1, <2>2, <2>3
  <1>6. Kept' /\ SpentKept' /\ TruthKept' /\ TasksTold'
    BY <1>1, <1>5, NextPassKeeps
  <1>7. RunsTold'
    <2>1. \A i \in DOMAIN runs' : runs'[i].undeclared = Undeclared /\ RunTold(runs'[i], Accounts(i))
      BY <1>4, <1>5 DEF RunInv, RunsTold
    <2>2. Undeclared' = Undeclared
      BY <1>1 DEF Undeclared
    <2> QED BY <1>1, <2>1, <2>2 DEF RunsTold, Accounts
  <1>8. CleanTold'
    BY <1>1, <1>3 DEF RunInv, CleanTold, Accounts
  <1>9. Reported'
    <2>1. Len(runs') = IF pass' = 0 THEN 0 ELSE pass' - 1
      BY <1>3, <1>5
    <2>2. report' # NoReport => report' = Evaluate(Result(runs'), Grading)
      BY <1>2, <1>3
    <2>3. Result(runs)' = Result(runs')
      BY <1>1 DEF Result
    <2> QED BY <1>3, <2>1, <2>2, <2>3 DEF Reported
  <1> QED
    BY <1>6, <1>7, <1>8, <1>9 DEF RunInv

(* The invariant of an agent scan: windows told, runs told, the clean pass *)
(* and the verdict made from them (agent_baseline.py, fault.py             *)
(* _one_chaos_run, behavior.py run).                                       *)
THEOREM RunInvCorrect == Spec => []RunInv
  <1>1. Init => RunInv
    BY RunInitially
  <1>2. RunInv /\ [Next]_vars => RunInv'
    <2> SUFFICES ASSUME RunInv, [Next]_vars PROVE RunInv'
      OBVIOUS
    <2>1. ASSUME NEW op \in shape.ops, NEW key \in shape.keys, NEW fault \in Faults,
                 NEW wait \in shape.waits, op \in DOMAIN window, Call(op, key, fault, wait)
          PROVE  RunInv'
      BY <2>1, CallKeeps
    <2>2. ASSUME NEW claimed \in BOOLEAN, NEW read \in BOOLEAN, TaskEnds(claimed, read)
          PROVE  RunInv'
      BY <2>2, TaskEndKeeps
    <2>3. CASE NoCallsOrAbandoned \/ RefuseUnseen \/ UNCHANGED vars
      <3>1. UNCHANGED <<shape, pass, rows, window, stored, spent, tasks, clean, runs, report, truth>>
        BY <2>3 DEF NoCallsOrAbandoned, RefuseUnseen, vars
      <3>2. Kept'
        BY <3>1 DEF RunInv, Kept, OpenTask
      <3>3. SpentKept'
        BY <3>1 DEF RunInv, SpentKept
      <3> QED BY <3>1, <3>2, <3>3, PastKept DEF RunInv
    <2>4. CASE CleanPassEnds
      BY <2>4, CleanPassKeeps
    <2>5. CASE RunEnds
      BY <2>5, RunEndKeeps
    <2> QED
      BY <2>1, <2>2, <2>3, <2>4, <2>5 DEF Next
  <1> QED
    BY <1>1, <1>2, PTL DEF Spec

-----------------------------------------------------------------------------
(* With a verdict every account is one of the clean pass or of a run.      *)
LEMMA ReportedAccounts ==
  ASSUME RunInv, report # NoReport
  PROVE  /\ report = Evaluate(Result(runs), Grading) /\ pass > 0
         /\ \A a \in truth : /\ a.run = 0 \/ a.run \in DOMAIN runs
                             /\ a \in Accounts(a.run)
         /\ \A a \in Under_Fault : a.run \in DOMAIN runs
         /\ Len(runs) \in Nat /\ DOMAIN runs = 1..Len(runs)
  <1>1. /\ report = Evaluate(Result(runs), Grading) /\ pass > 0 /\ tasks = <<>>
        /\ pass \in Nat /\ Len(runs) = pass - 1 /\ Len(runs) \in Nat /\ DOMAIN runs = 1..Len(runs)
    BY SequenceLen DEF RunInv, Kept, Reported
  <1>2. Accounts(pass) = {}
    <2>1. Len(tasks) = 0
      BY <1>1
    <2>2. OneEach(Accounts(pass), 0)
      BY <2>1 DEF RunInv, TruthKept
    <2> QED BY <2>2 DEF OneEach
  <1>3. \A a \in truth : a.run \in 0..pass /\ a.run # pass
    BY <1>2 DEF RunInv, TruthKept, Accounts
  <1>4. \A a \in truth : a.run = 0 \/ a.run \in 1..Len(runs)
    BY <1>1, <1>3
  <1> QED
    BY <1>1, <1>4 DEF Accounts, Under_Fault

(* "A netted count can only be short, never over" (agent_metrics.py): no   *)
(* run reports more duplicates than its tasks left in the store.           *)
THEOREM DuplicatesNeverOverstatedAlways == Spec => []DuplicatesNeverOverstated
  <1>1. RunInv => DuplicatesNeverOverstated
    BY DEF RunInv, RunsTold, RunTold, Accounts, DuplicatesNeverOverstated
  <1> QED
    BY <1>1, RunInvCorrect, PTL

(* An absorbed call is spoken for: where a task that expects an effect is  *)
(* in the file, the reading names every task that a stored key of an       *)
(* earlier pass kept low (behavior.py _baseline_state_carryover).          *)
THEOREM AbsorbedIsSpokenForAlways ==
  ASSUME \A s \in Shapes : Expects(s)
  PROVE  Spec => []AbsorbedIsSpokenFor
  <1>1. RunInv => AbsorbedIsSpokenFor
    <2> SUFFICES ASSUME RunInv, report # NoReport, NEW a \in Under_Fault, a.read, a.absorbed
                 PROVE  a.task \in CarriedOver(runs, clean.applied)
      BY DEF AbsorbedIsSpokenFor, AgentReading
    <2>1. pass > 0 /\ a.run \in DOMAIN runs /\ a \in Accounts(a.run)
      BY ReportedAccounts DEF Under_Fault
    <2>2. a.task \in runs[a.run].opened_on_state
      BY <2>1 DEF RunInv, RunsTold, RunTold
    <2>3. clean.applied \in Nat \ {0}
      <3>1. shape.oracle # "absent"
        BY DEF RunInv, TruthKept, Under_Fault
      <3> QED BY <2>1, <3>1 DEF RunInv, CleanTold, Kept
    <2> QED BY <2>1, <2>2, <2>3 DEF CarriedOver
  <1> QED
    BY <1>1, RunInvCorrect, PTL

(* A scan that passes had no blocker, and no check that failed.            *)
LEMMA Passing ==
  ASSUME RunInv, report.passed = "yes"
  PROVE  LET e == AgentReading(runs, shape.kind, clean.applied).evidence
         IN  /\ report # NoReport
             /\ e.taskStatus = {"ok"} /\ e.undeclared = {} /\ e.unreadable = {}
             /\ Failed(Checks(Result(runs), Grading)) = {}
  <1> DEFINE r == Result(runs)
             b == Breakdown(r, Grading, Checks(r, Grading))
             e == AgentReading(runs, shape.kind, clean.applied).evidence
  <1>1. report # NoReport
    BY DEF NoReport
  <1>2. report = Evaluate(r, Grading)
    BY <1>1 DEF RunInv, Reported
  <1>3. r.rule = "agent_behavior" /\ r.evidence = e
    BY DEF Result
  <1> HIDE DEF r, e
  <1>4. AgentVerdictBlocker(r, b) = "none" /\ Failed(Checks(r, Grading)) = {}
    BY <1>2, <1>3 DEF Evaluate
  <1> HIDE DEF b
  <1>5. e.taskStatus = {"ok"} /\ e.undeclared = {} /\ e.unreadable = {}
    BY <1>3, <1>4 DEF AgentVerdictBlocker
  <1> QED
    BY <1>1, <1>4, <1>5 DEF r, e

(* A plain PASS is a delivery: in every run, a declared task that says it  *)
(* succeeded and whose window was read left every entry it declared        *)
(* (policy.unreconciled_readings, behavior.py run).                        *)
THEOREM PlainPassDeliveredAlways == Spec => []PlainPassDelivered
  <1>1. RunInv => PlainPassDelivered
    <2> SUFFICES ASSUME RunInv, report.passed = "yes", ~UnreconciledReadings(Result(runs), report),
                        NEW a \in Under_Fault, a.read, a.declared, a.claimed
                 PROVE  a.whole
      BY DEF PlainPassDelivered
    <2> DEFINE e == AgentReading(runs, shape.kind, clean.applied).evidence
    <2>1. report # NoReport /\ e.unreadable = {}
      BY Passing
    <2>2. a.run \in DOMAIN runs /\ a \in Accounts(a.run) /\ DOMAIN runs = 1..Len(runs) /\ Len(runs) \in Nat
      BY <2>1, ReportedAccounts DEF Under_Fault
    <2>3. e.unreadable = UNION {runs[i].unreadable : i \in DOMAIN runs}
          /\ e.unreconciled = Cardinality(Unreconciled(runs))
      BY DEF AgentReading
    <2>4. runs[a.run].unreadable = {}
      BY <2>1, <2>2, <2>3
    <2>5. ~(runs[a.run].unsupported_claims > 0)
      <3> DEFINE U == Unreconciled(runs)
      <3>1. ~(Cardinality(U) > 0)
        BY <2>3 DEF UnreconciledReadings, Result
      <3>2. U \subseteq DOMAIN runs /\ (runs[a.run].unsupported_claims > 0 => a.run \in U)
        BY <2>2 DEF Unreconciled, Groups
      <3>3. IsFiniteSet(U)
        <4>1. IsFiniteSet(1..Len(runs))
          BY <2>2, FS_Interval
        <4> QED BY <2>2, <3>2, <4>1, FS_Subset
      <3> HIDE DEF U
      <3>4. Cardinality(U) \in Nat /\ (Cardinality(U) = 0 => U = {})
        BY <3>3, FS_CardinalityType, FS_EmptySet
      <3> QED BY <3>1, <3>2, <3>4
    <2>6. RunTold(runs[a.run], Accounts(a.run))
      BY <2>2 DEF RunInv, RunsTold
    <2> QED BY <2>2, <2>4, <2>5, <2>6 DEF RunTold
  <1> QED
    BY <1>1, RunInvCorrect, PTL

(* The buckets of retry_keys hold every retry of every run under fault,    *)
(* and are missing only where no call of the scan carried a key            *)
(* (behavior.py run, 1.9.0).                                               *)
THEOREM RetriesAllCountedAlways == Spec => []RetriesAllCounted
  <1>1. RunInv => RetriesAllCounted
    <2> SUFFICES ASSUME RunInv, report # NoReport
                 PROVE  LET read == RetryKeys(runs, clean.keyed)
                        IN  /\ (read = {}) <=> ~\E a \in truth : a.keyed
                            /\ \A k \in read : k["kept"] + k["changed"] + k["no_key"]
                                                 = SumFunction([a \in Under_Fault |-> a.retried])
      BY DEF RetriesAllCounted
    <2> DEFINE I == DOMAIN runs
               In(b) == [i \in I |-> runs[i].retry_keys[b]]
               K == In("kept")
               C == In("changed")
               U == In("no_key")
               KC == [i \in I |-> K[i] + C[i]]
               f == [a \in Under_Fault |-> a.retried]
               run == [a \in Under_Fault |-> a.run]
               R == [i \in I |-> SumOf(f, {a \in Under_Fault : run[a] = i})]
               keys == [b \in {"kept", "changed", "no_key"} |-> SumFunction(In(b))]
    <2>1. /\ pass > 0 /\ I = 1..Len(runs) /\ Len(runs) \in Nat
          /\ \A a \in truth : (a.run = 0 \/ a.run \in I) /\ a \in Accounts(a.run)
          /\ \A a \in Under_Fault : a.run \in I
      BY ReportedAccounts
    <2>2. \A i \in I : RunTold(runs[i], Accounts(i))
      BY DEF RunInv, RunsTold
    <2>3. clean.keyed <=> \E a \in Accounts(0) : a.keyed
      BY <2>1 DEF RunInv, CleanTold
    <2>4. (~clean.keyed /\ \A i \in I : ~runs[i].keyed) <=> ~\E a \in truth : a.keyed
      <3>1. \A i \in I : runs[i].keyed <=> \E a \in Accounts(i) : a.keyed
        BY <2>2 DEF RunTold
      <3>2. \A i : Accounts(i) \subseteq truth
        BY DEF Accounts
      <3> HIDE DEF I
      <3> QED BY <2>1, <2>3, <3>1, <3>2
    <2>5. RetryKeys(runs, clean.keyed) = IF ~\E a \in truth : a.keyed THEN {} ELSE {keys}
      BY <2>4 DEF RetryKeys
    <2>6. /\ keys["kept"] = SumOf(K, I) /\ keys["changed"] = SumOf(C, I)
          /\ keys["no_key"] = SumOf(U, I) /\ SumFunction(f) = SumOf(f, Under_Fault)
      <3>1. keys["kept"] = SumFunction(K) /\ keys["changed"] = SumFunction(C)
            /\ keys["no_key"] = SumFunction(U)
        OBVIOUS
      <3>2. DOMAIN K = I /\ DOMAIN C = I /\ DOMAIN U = I /\ DOMAIN f = Under_Fault
        OBVIOUS
      <3> HIDE DEF K, C, U, f, keys
      <3> QED BY <3>1, <3>2, SumOfFunction
    <2>7. \A i \in I : /\ K[i] \in Nat /\ C[i] \in Nat /\ U[i] \in Nat
                       /\ KC[i] = K[i] + C[i] /\ K[i] + C[i] + U[i] = R[i]
      <3> TAKE i \in I
      <3>1. /\ K[i] \in Nat /\ C[i] \in Nat /\ U[i] \in Nat /\ KC[i] = K[i] + C[i]
            /\ K[i] + C[i] + U[i] = SumFunction([a \in Accounts(i) |-> a.retried])
        BY <2>2 DEF RunTold
      <3>2. {a \in Under_Fault : run[a] = i} = Accounts(i)
        <4>1. i > 0
          BY <2>1
        <4> QED BY <4>1 DEF Under_Fault, Accounts
      <3>3. IsFiniteSet(Accounts(i))
        BY FS_Subset DEF RunInv, TruthKept, Accounts
      <3>4. SumFunction([a \in Accounts(i) |-> a.retried]) = SumOf(f, Accounts(i))
        <4> DEFINE g == [a \in Accounts(i) |-> a.retried]
        <4>1. SumFunction(g) = SumOf(g, Accounts(i))
          BY SumOfFunction
        <4>2. \A a \in Accounts(i) : g[a] = f[a]
          BY <3>2
        <4> HIDE DEF g, f
        <4>3. SumOf(g, Accounts(i)) = SumOf(f, Accounts(i))
          BY <3>3, <4>2, SumEqual
        <4> QED BY <4>1, <4>3 DEF g
      <3>5. R[i] = SumOf(f, Accounts(i))
        BY <3>2
      <3> QED BY <3>1, <3>4, <3>5
    <2>8. IsFiniteSet(Under_Fault) /\ IsFiniteSet(I)
      BY <2>1, FS_Subset, FS_Interval DEF RunInv, TruthKept, Under_Fault
    <2>9. SumOf(f, Under_Fault) = SumOf(R, I)
      <3> DEFINE S == Under_Fault
      <3>1. /\ IsFiniteSet(S) /\ \A a \in S : run[a] \in I
            /\ \A a \in S : f[a] \in Int
        BY <2>1, <2>8 DEF RunInv, TruthKept, Under_Fault
      <3>2. R = [i \in I |-> SumOf(f, {a \in S : run[a] = i})]
        OBVIOUS
      <3> HIDE DEF f, run, I, S, R
      <3>3. SumOf(f, S) = SumOf([i \in I |-> SumOf(f, {a \in S : run[a] = i})], I)
        BY <2>8, <3>1, SumByGroup
      <3> QED BY <3>2, <3>3 DEF S
    <2> HIDE DEF I, K, C, U, KC, R, f
    <2>10. SumOf(KC, I) = SumOf(K, I) + SumOf(C, I)
      <3>1. \A i \in I : K[i] \in Int /\ C[i] \in Int /\ KC[i] = K[i] + C[i]
        BY <2>7
      <3> QED BY <2>8, <3>1, SumPlus
    <2>11. SumOf(R, I) = SumOf(KC, I) + SumOf(U, I)
      <3>1. \A i \in I : KC[i] \in Int /\ U[i] \in Int /\ R[i] = KC[i] + U[i]
        BY <2>7
      <3> QED BY <2>8, <3>1, SumPlus
    <2>12. keys["kept"] + keys["changed"] + keys["no_key"] = SumFunction(f)
      BY <2>6, <2>9, <2>10, <2>11
    <2> QED BY <2>5, <2>12 DEF f
  <1> QED
    BY <1>1, RunInvCorrect, PTL

(* A run that withheld its count is never the worst one; the worst has the *)
(* most duplicates of all.                                                 *)
LEMMA WorstIsWorst ==
  ASSUME RunsTold, Len(runs) \in Nat, DOMAIN runs = 1..Len(runs), NEW i \in DOMAIN runs,
         runs[i].duplicate_mutations # Missing
  PROVE  LET w == WorstRun(runs)
         IN  /\ w \in DOMAIN runs /\ runs[w].duplicate_mutations \in Nat
             /\ runs[i].duplicate_mutations <= runs[w].duplicate_mutations
  <1> DEFINE seen == MeasuredRuns(runs, "duplicate_mutations")
             f == [j \in seen |-> runs[j].duplicate_mutations]
             top == {j \in seen : \A k \in seen :
                        runs[k].duplicate_mutations <= runs[j].duplicate_mutations}
  <1>1. /\ seen \subseteq 1..Len(runs) /\ i \in seen
        /\ \A j \in seen : runs[j].duplicate_mutations # Missing
    BY DEF MeasuredRuns
  <1>2. \A j \in seen : f[j] \in Nat /\ f[j] = runs[j].duplicate_mutations
    BY <1>1 DEF RunsTold, RunTold
  <1>3. IsFiniteSet(seen)
    <2>1. IsFiniteSet(1..Len(runs))
      BY FS_Interval
    <2> QED BY <1>1, <2>1, FS_Subset
  <1>4. WorstRun(runs) = Min(top)
    BY <1>1 DEF WorstRun
  <1> HIDE DEF f, seen
  <1>5. \E j \in seen : \A k \in seen : f[k] <= f[j]
    BY <1>1, <1>2, <1>3, TopExists
  <1>6. top # {} /\ top \in SUBSET Nat
    <2>1. PICK j \in seen : \A k \in seen : f[k] <= f[j]
      BY <1>5
    <2>2. j \in top
      BY <1>2, <2>1
    <2>3. top \subseteq seen /\ seen \subseteq Nat
      BY <1>1
    <2> QED BY <2>2, <2>3
  <1> HIDE DEF top
  <1>7. Min(top) \in top
    BY <1>6, MinIsIn
  <1> QED
    BY <1>1, <1>2, <1>4, <1>7 DEF top

(* Of duplicates, more is worse.                                           *)
LEMMA DuplicatesDirection ==
  "duplicate_mutations" \in DOMAIN Directions /\ Directions["duplicate_mutations"] = "max"
  <1> DEFINE t == CHOOSE t \in DOMAIN ThresholdSpecs : ThresholdSpecs[t].metric = "duplicate_mutations"
  <1>1. /\ "duplicate_mutation_max" \in DOMAIN ThresholdSpecs
        /\ ThresholdSpecs["duplicate_mutation_max"].metric = "duplicate_mutations"
        /\ \A u \in DOMAIN ThresholdSpecs :
              ThresholdSpecs[u].metric = "duplicate_mutations" => ThresholdSpecs[u].direction = "max"
    BY DEF ThresholdSpecs, Reads
  <1>2. "duplicate_mutations" \in DOMAIN Directions
    BY <1>1 DEF Directions
  <1>3. Directions["duplicate_mutations"] = ThresholdSpecs[t].direction
    BY <1>1 DEF Directions
  <1>4. t \in DOMAIN ThresholdSpecs /\ ThresholdSpecs[t].metric = "duplicate_mutations"
    BY <1>1
  <1> HIDE DEF t
  <1> QED BY <1>1, <1>2, <1>3, <1>4

(* What is scored is no less than the duplicates of any run, once the run  *)
(* that is described was read.                                             *)
LEMMA WorstIsScored ==
  ASSUME RunsTold, Len(runs) \in Nat, DOMAIN runs = 1..Len(runs), NEW i \in DOMAIN runs,
         runs[i].duplicate_mutations \in Nat, NEW applied
  PROVE  LET dup == AgentReading(runs, shape.kind, applied).metrics.duplicate_mutations
         IN  dup \in Nat /\ runs[i].duplicate_mutations <= dup
  <1> DEFINE w == WorstRun(runs)
             seen == MeasuredRuns(runs, "duplicate_mutations")
             V == {runs[j]["duplicate_mutations"] : j \in seen}
  <1>1. runs[i].duplicate_mutations # Missing
    BY DEF Missing
  <1>2. /\ w \in DOMAIN runs /\ runs[w].duplicate_mutations \in Nat
        /\ runs[i].duplicate_mutations <= runs[w].duplicate_mutations
    BY <1>1, WorstIsWorst
  <1>3. AgentReading(runs, shape.kind, applied).metrics.duplicate_mutations
          = Rescored(runs, runs[w], "duplicate_mutations")
    BY DEF AgentReading, Withholds, LlmWithheld
  <1>4. V \subseteq Nat /\ runs[w].duplicate_mutations \in V
    <2>1. \A j \in seen : j \in DOMAIN runs /\ runs[j].duplicate_mutations # Missing
      BY DEF MeasuredRuns
    <2>2. \A j \in seen : runs[j].duplicate_mutations \in Nat
      BY <2>1 DEF RunsTold, RunTold
    <2>3. w \in seen
      BY <1>2 DEF MeasuredRuns, Missing
    <2> QED BY <2>2, <2>3
  <1>5. \A v \in V : v <= runs[w].duplicate_mutations
    <2> SUFFICES ASSUME NEW j \in seen
                 PROVE  runs[j].duplicate_mutations <= runs[w].duplicate_mutations
      OBVIOUS
    <2>1. j \in DOMAIN runs /\ runs[j].duplicate_mutations # Missing
      BY DEF MeasuredRuns
    <2> QED BY <2>1, WorstIsWorst
  <1>6. Worst(runs, "duplicate_mutations") = Max(V)
    BY <1>4, DuplicatesDirection DEF Worst
  <1> HIDE DEF w, V
  <1>7. Max(V) = runs[w].duplicate_mutations
    <2> DEFINE d == runs[w].duplicate_mutations
               x == Max(V)
    <2>1. d \in V /\ d \in Nat /\ V \subseteq Nat /\ \A v \in V : v <= d
      BY <1>2, <1>4, <1>5
    <2> HIDE DEF d
    <2>2. \A v \in V : d >= v
      BY <2>1
    <2>3. x \in V /\ \A v \in V : x >= v
      BY <2>1, <2>2 DEF Max
    <2> HIDE DEF x
    <2>4. x >= d /\ x <= d /\ x \in Nat
      BY <2>1, <2>3
    <2>5. x = d
      BY <2>1, <2>4
    <2> QED BY <2>5 DEF x, d
  <1>8. Rescored(runs, runs[w], "duplicate_mutations") = runs[w].duplicate_mutations
    BY <1>2, <1>6, <1>7 DEF Rescored
  <1> QED
    BY <1>2, <1>3, <1>8

(* A duplicate that is scored against a limit of none is a failed check.   *)
LEMMA DuplicateFails ==
  ASSUME "duplicate_mutation_max" \in DOMAIN Grading.thresholds,
         Grading.thresholds["duplicate_mutation_max"] = 0,
         NEW all, AgentReading(all, shape.kind, clean.applied).metrics.duplicate_mutations \in Nat \ {0}
  PROVE  Failed(Checks(Result(all), Grading)) # {}
  <1> DEFINE r == Result(all)
             name == "duplicate_mutation_max"
             dup == AgentReading(all, shape.kind, clean.applied).metrics.duplicate_mutations
             c == ScoreCheck(r, Grading, name)
  <1>1. /\ r.probes = <<[probe |-> "behavior", applicable |-> TRUE,
                         metrics |-> AgentReading(all, shape.kind, clean.applied).metrics]>>
    BY DEF Result
  <1>2. Places(r, "behavior") = {1}
    BY <1>1 DEF Places
  <1>3. Max({1}) = 1
    BY DEF Max
  <1>4. LastOf(r, "behavior") = 1
    BY <1>2, <1>3 DEF LastOf
  <1>5. ThresholdSpecs[name] = [probe |-> "behavior", metric |-> "duplicate_mutations", direction |-> "max"]
    BY DEF ThresholdSpecs, Reads
  <1>6. "duplicate_mutations" \in DOMAIN AgentReading(all, shape.kind, clean.applied).metrics
    BY DEF AgentReading
  <1>7. Observed(r, 1, ThresholdSpecs[name]) = dup
    BY <1>1, <1>5, <1>6 DEF Observed, Metric
  <1>8. ThresholdFor(r, Grading, name, 1) = 0
    BY DEF ThresholdFor, DerivedFrom
  <1>9. name \in Specs(Grading)
    BY DEF Specs, DeprecatedThresholds
  <1> HIDE DEF r, dup
  <1>10. (c.skipped <=> dup = Missing) /\ (c.passed <=> dup = Missing \/ Meets("max", 0, dup))
    <2> DEFINE spec == ThresholdSpecs[name]
               at == LastOf(r, spec.probe)
               seen == Observed(r, at, spec)
               limit == ThresholdFor(r, Grading, name, at)
    <2>1. /\ c.skipped <=> seen = Missing
          /\ c.passed <=> seen = Missing \/ Meets(spec.direction, limit, seen)
      BY DEF ScoreCheck
    <2>2. spec.probe = "behavior" /\ spec.direction = "max"
      BY <1>5
    <2>3. at = 1
      BY <1>4, <2>2
    <2>4. seen = dup /\ limit = 0
      BY <1>7, <1>8, <2>3
    <2> HIDE DEF c, seen, limit, spec
    <2> QED BY <2>1, <2>2, <2>4
  <1>11. dup \in Nat \ {0}
    BY DEF dup
  <1> HIDE DEF c
  <1>12. ~c.skipped /\ ~c.passed
    <2>1. dup # Missing /\ ~(dup <= 0)
      BY <1>11 DEF Missing
    <2> QED BY <1>10, <2>1 DEF Meets
  <1>13. c \in Checks(r, Grading)
    BY <1>9 DEF Checks, c
  <1> QED
    BY <1>12, <1>13 DEF Failed, r

(* What a passing scan means to its reader, under a policy that allows no  *)
(* duplicate: in no run whose windows were all read did the store hold a   *)
(* task's write more often than the task file says (behavior.py run,       *)
(* agent_metrics.effect_metrics, policy.agent_verdict_blocker).            *)
THEOREM AppliedTwiceNeverPassesAlways ==
  ASSUME "duplicate_mutation_max" \in DOMAIN Grading.thresholds,
         Grading.thresholds["duplicate_mutation_max"] = 0
  PROVE  Spec => []AppliedTwiceNeverPasses
  <1>1. RunInv => AppliedTwiceNeverPasses
    <2> SUFFICES ASSUME RunInv, report.passed = "yes", NEW a \in FullyRead, a.twice
                 PROVE  FALSE
      BY DEF AppliedTwiceNeverPasses
    <2> DEFINE e == AgentReading(runs, shape.kind, clean.applied).evidence
               i == a.run
               w == WorstRun(runs)
    <2>1. /\ report # NoReport /\ e.taskStatus = {"ok"} /\ e.undeclared = {} /\ e.unreadable = {}
          /\ Failed(Checks(Result(runs), Grading)) = {}
      BY Passing
    <2>2. /\ i \in DOMAIN runs /\ a \in Accounts(i)
          /\ DOMAIN runs = 1..Len(runs) /\ Len(runs) \in Nat
      BY <2>1, ReportedAccounts DEF FullyRead, Under_Fault
    <2>3. \A o \in Accounts(i) : o.read
      <3>1. i > 0
        BY DEF FullyRead, Under_Fault
      <3> QED BY <3>1 DEF FullyRead, Under_Fault, Accounts
    <2>4. RunsTold
      BY DEF RunInv
    <2>5. runs[i].duplicate_mutations >= 1 \/ runs[i].unreadable # {} \/ runs[i].undeclared # {}
      BY <2>2, <2>3, <2>4 DEF RunsTold, RunTold
    <2>6. runs[i].unreadable = {}
      <3>1. e.unreadable = UNION {runs[j].unreadable : j \in DOMAIN runs}
        BY DEF AgentReading
      <3> QED BY <2>1, <2>2, <3>1
    <2>7. w \in DOMAIN runs
      <3>1. CASE MeasuredRuns(runs, "duplicate_mutations") = {}
        BY <2>2, <3>1 DEF WorstRun
      <3>2. CASE MeasuredRuns(runs, "duplicate_mutations") # {}
        <4>1. PICK j \in DOMAIN runs : runs[j].duplicate_mutations # Missing
          BY <3>2 DEF MeasuredRuns
        <4> QED BY <2>2, <2>4, <4>1, WorstIsWorst
      <3> QED BY <3>1, <3>2
    <2>8. runs[i].undeclared = {}
      <3>1. e.undeclared = runs[w].undeclared
        BY DEF AgentReading
      <3> QED BY <2>1, <2>2, <2>4, <2>7, <3>1 DEF RunsTold
    <2>9. runs[i].duplicate_mutations \in Nat \ {0}
      <3>1. runs[i].duplicate_mutations \in Nat \cup {Missing}
        BY <2>2, <2>4 DEF RunsTold, RunTold
      <3>2. runs[i].duplicate_mutations >= 1
        BY <2>5, <2>6, <2>8
      <3> QED BY <3>1, <3>2 DEF Missing
    <2>10. AgentReading(runs, shape.kind, clean.applied).metrics.duplicate_mutations \in Nat \ {0}
      BY <2>2, <2>4, <2>9, WorstIsScored
    <2> QED BY <2>1, <2>10, DuplicateFails
  <1> QED
    BY <1>1, RunInvCorrect, PTL

-----------------------------------------------------------------------------
(* The backoff.  A row's times are whole, and after a reply the agent's    *)
(* next call comes when it has waited, which is what makes the gap between *)
(* two stamps of the proxy the wait the agent chose.                       *)
RowsTimed ==
    /\ \A i \in DOMAIN rows : /\ rows[i].received \in Nat /\ rows[i].wait \in Nat
                              /\ rows[i].replied \in Nat \cup {Missing}
    /\ \A i \in 2..Len(rows) : rows[i - 1].replied # Missing =>
          rows[i].received = rows[i - 1].replied + rows[i].wait

(* A call is made when the last one let the agent go on and it has waited. *)
LEMMA CallTimed ==
  ASSUME RowsTimed, IsSequence(rows), NEW op, NEW key, NEW fault, NEW wait \in Nat,
         rows' = Append(rows, Row(op, key, fault, wait))
  PROVE  RowsTimed'
  <1> DEFINE e == Row(op, key, fault, wait)
             n == Len(rows)
  <1>1. n \in Nat /\ DOMAIN rows = 1..n
    BY SequenceLen
  <1>2. /\ IsSequence(rows') /\ DOMAIN rows' = 1..(n + 1)
        /\ \A i \in 1..n : rows'[i] = rows[i]
        /\ rows'[n + 1] = e
    <2> HIDE DEF e
    <2>1. rows' = Append(rows, e)
      BY DEF e
    <2> QED BY <1>1, <2>1, AppendIsSequence
  <1>3. Len(rows') = n + 1
    <2>1. Len(rows') \in Nat /\ DOMAIN rows' = 1..Len(rows')
      BY <1>2, SequenceLen
    <2>2. \A k \in Nat : 1..k = 1..(n + 1) => k = n + 1
      BY <1>1
    <2> QED BY <1>2, <2>1, <2>2
  <1>4. rows = <<>> <=> n = 0
    BY <1>1, EmptySeq DEF IsSequence
  <1>5. n # 0 => /\ rows[n].received \in Nat /\ rows[n].replied \in Nat \cup {Missing}
                 /\ FreeAt = IF rows[n].replied = Missing THEN rows[n].received + ReadTimeout
                             ELSE rows[n].replied
    BY <1>1, <1>4 DEF RowsTimed, FreeAt
  <1>6. FreeAt \in Nat
    <2>1. n = 0 => FreeAt = 0
      BY <1>4 DEF FreeAt
    <2> QED BY <1>5, <2>1 DEF ReadTimeout, Missing
  <1>7. /\ e.wait = wait /\ e.received = FreeAt + wait
        /\ e.replied \in {FreeAt + wait + 1, Missing}
    BY DEF Row
  <1>8. e.received \in Nat /\ e.replied \in Nat \cup {Missing} /\ e.wait \in Nat
    BY <1>6, <1>7
  <1> HIDE DEF e, n
  <1>9. ASSUME NEW i \in 1..(n + 1)
        PROVE  /\ rows'[i].received \in Nat /\ rows'[i].wait \in Nat
               /\ rows'[i].replied \in Nat \cup {Missing}
    <2>1. i = n + 1 \/ i \in DOMAIN rows
      BY <1>1
    <2> QED BY <1>1, <1>2, <1>8, <2>1 DEF RowsTimed
  <1>10. ASSUME NEW i \in 2..(n + 1), rows'[i - 1].replied # Missing
         PROVE  rows'[i].received = rows'[i - 1].replied + rows'[i].wait
    <2>1. CASE i \in 2..n
      <3>1. i - 1 \in 1..n /\ i \in 1..n
        BY <1>1, <2>1
      <3>2. rows'[i - 1] = rows[i - 1] /\ rows'[i] = rows[i]
        BY <1>2, <3>1
      <3> QED BY <1>10, <2>1, <3>2 DEF RowsTimed, n
    <2>2. CASE i = n + 1
      <3>1. n \in 1..n /\ i - 1 = n /\ n # 0
        BY <1>1, <2>2
      <3>2. rows'[i - 1] = rows[n] /\ rows'[i] = e
        BY <1>2, <2>2, <3>1
      <3> QED BY <1>5, <1>7, <1>10, <3>1, <3>2
    <2> QED BY <1>1, <2>1, <2>2
  <1> QED
    BY <1>2, <1>3, <1>9, <1>10 DEF RowsTimed

(* Rows keep the times they were recorded with, and the next task starts   *)
(* without any.                                                            *)
LEMMA RowsTimedAlways == Spec => []RowsTimed
  <1>1. Init => RowsTimed
    BY DEF Init, RowsTimed
  <1>2. RunInv /\ RowsTimed /\ [Next]_vars => RowsTimed'
    <2> SUFFICES ASSUME RunInv, RowsTimed, [Next]_vars PROVE RowsTimed'
      OBVIOUS
    <2>1. ASSUME NEW op \in shape.ops, NEW key \in shape.keys, NEW fault \in Faults,
                 NEW wait \in shape.waits, Call(op, key, fault, wait)
          PROVE  RowsTimed'
      <3>1. wait \in Nat /\ IsSequence(rows)
        BY ShapesAssumption DEF RunInv, Kept, ShapeOK
      <3>2. rows' = Append(rows, Row(op, key, fault, wait))
        BY <2>1 DEF Call
      <3> QED BY <3>1, <3>2, CallTimed
    <2>2. ASSUME NEW claimed \in BOOLEAN, NEW read \in BOOLEAN, TaskEnds(claimed, read)
          PROVE  RowsTimed'
      BY <2>2 DEF TaskEnds, RowsTimed
    <2>3. ASSUME UNCHANGED rows PROVE RowsTimed'
      BY <2>3 DEF RowsTimed
    <2> QED
      BY <2>1, <2>2, <2>3
      DEF Next, NoCallsOrAbandoned, RefuseUnseen, CleanPassEnds, RunEnds, vars
  <1> QED
    BY <1>1, <1>2, RunInvCorrect, PTL DEF Spec

(* A gap that is counted is one of the agent's own waits, and all are.     *)
LEMMA GapsAreWaits ==
  ASSUME RowsTimed, IsSequence(rows)
  PROVE  /\ DOMAIN Gaps(rows) = 1..(Len(rows) - 1)
         /\ \A i \in 1..(Len(rows) - 1) : Gaps(rows)[i] # Missing =>
               /\ i + 1 \in OwnWaits /\ Gaps(rows)[i] = rows[i + 1].wait
               /\ rows[i + 1].wait \in Nat \ {0}
  <1>1. Len(rows) \in Nat /\ DOMAIN rows = 1..Len(rows)
    BY SequenceLen
  <1>2. ASSUME NEW i \in 1..(Len(rows) - 1), Gap(rows[i], rows[i + 1]) # Missing
        PROVE  /\ i + 1 \in OwnWaits /\ Gap(rows[i], rows[i + 1]) = rows[i + 1].wait
               /\ rows[i + 1].wait \in Nat \ {0}
    <2>1. i \in 1..Len(rows) /\ i + 1 \in 2..Len(rows) /\ i + 1 \in 1..Len(rows) /\ (i + 1) - 1 = i
      BY <1>1
    <2>2. /\ ~rows[i].ok /\ rows[i].replied # Missing /\ rows[i].hint = Missing
          /\ Gap(rows[i], rows[i + 1]) = rows[i + 1].received - rows[i].replied
          /\ ~(rows[i + 1].received - rows[i].replied < Resolution)
      BY <1>2 DEF Gap
    <2>3. rows[i].replied \in Nat /\ rows[i + 1].wait \in Nat
      BY <1>1, <2>1, <2>2 DEF RowsTimed
    <2>4. rows[i + 1].received = rows[i].replied + rows[i + 1].wait
      BY <2>1, <2>2 DEF RowsTimed
    <2>5. rows[i + 1].received - rows[i].replied = rows[i + 1].wait /\ rows[i + 1].wait >= 1
      BY <2>2, <2>3, <2>4 DEF Resolution
    <2> QED BY <2>1, <2>2, <2>3, <2>5 DEF OwnWaits
  <1> QED
    BY <1>2 DEF Gaps

(* A record of one call made again and again is one trajectory.            *)
LEMMA OneTrajectory ==
  ASSUME IsSequence(rows),
         \A i, j \in DOMAIN rows : rows[i].op = rows[j].op /\ rows[i].key = rows[j].key
  PROVE  TrajectoriesOf([t \in {1} |-> rows]) \subseteq {<<1, rows>>}
  <1> DEFINE n == Len(rows)
             group(i) == {j \in DOMAIN rows : rows[j].op = rows[i].op /\ rows[j].key = rows[i].key}
  <1>1. n \in Nat /\ DOMAIN rows = 1..n /\ rows = [k \in 1..n |-> rows[k]]
    BY SequenceLen DEF IsSequence
  <1>2. \A i \in DOMAIN rows : group(i) = 1..n
    BY <1>1
  <1>3. \A k \in 0..n : IsFiniteSet(1..k) /\ Cardinality(1..k) = k
    BY <1>1, FS_Interval
  <1> HIDE DEF n
  <1>4. ASSUME NEW k \in 1..n PROVE Kth(1..n, k) = k
    <2>1. \A i \in 1..n : {j \in 1..n : j <= i} = 1..i /\ i \in 0..n
      BY <1>1
    <2>2. \A i \in 1..n : Cardinality({j \in 1..n : j <= i}) = i
      BY <1>3, <2>1
    <2> QED BY <2>2 DEF Kth
  <1>5. ASSUME NEW i \in DOMAIN rows
        PROVE  [k \in 1..Cardinality(group(i)) |-> rows[Kth(group(i), k)]] = rows
    <2>1. group(i) = 1..n
      BY <1>2
    <2> HIDE DEF group
    <2>2. Cardinality(group(i)) = n
      BY <1>1, <1>3, <2>1
    <2>3. \A k \in 1..n : rows[Kth(group(i), k)] = rows[k]
      BY <1>4, <2>1
    <2> QED BY <1>1, <2>2, <2>3
  <1>6. Trajectories(rows) \subseteq {rows}
    <2>1. Trajectories(rows) = {[k \in 1..Cardinality(group(i)) |-> rows[Kth(group(i), k)]] :
                                  i \in DOMAIN rows}
      BY DEF Trajectories
    <2> HIDE DEF group
    <2> QED BY <1>5, <2>1
  <1> QED
    BY <1>6 DEF TrajectoriesOf

(* A ranked value of a sample is one of its values.                        *)
LEMMA RankedIsIn ==
  ASSUME NEW f, IsFiniteSet(DOMAIN f), DOMAIN f # {}, \A x \in DOMAIN f : f[x] \in Nat,
         NEW k \in Int, k <= Cardinality(DOMAIN f)
  PROVE  \E x \in DOMAIN f : Ranked(f, k) = f[x]
  <1> DEFINE D == DOMAIN f
             many == {j \in D : Cardinality({i \in D : f[i] <= f[j]}) >= k}
             values == {f[i] : i \in many}
  <1>1. \E j \in D : Cardinality({i \in D : f[i] <= f[j]}) >= k
    <2>1. IsFiniteSet(D) /\ D # {} /\ (\A x \in D : f[x] \in Nat) /\ k <= Cardinality(D)
      OBVIOUS
    <2> HIDE DEF D
    <2> QED BY <2>1, RankIsTaken
  <1>2. values \in SUBSET Nat /\ values # {}
    BY <1>1
  <1>3. Ranked(f, k) = Min(values)
    BY DEF Ranked
  <1>4. Min(values) \in values
    <2> HIDE DEF values
    <2> QED BY <1>2, MinIsIn
  <1> QED
    BY <1>3, <1>4

(* The median lies among the values: twice it lies between twice any two   *)
(* bounds on them.                                                         *)
LEMMA MedianIsBetween ==
  ASSUME NEW f, IsFiniteSet(DOMAIN f), DOMAIN f # {}, \A x \in DOMAIN f : f[x] \in Nat,
         NEW b \in Nat
  PROVE  /\ TwiceMedian(f) \in Nat
         /\ (\A x \in DOMAIN f : f[x] >= b) => TwiceMedian(f) >= 2 * b
         /\ (\A x \in DOMAIN f : f[x] <= b) => TwiceMedian(f) <= 2 * b
  <1> DEFINE n == Cardinality(DOMAIN f)
             low == (n + 1) \div 2
             high == (n + 2) \div 2
  <1>1. n \in Nat /\ n >= 1
    BY FS_CardinalityType, FS_EmptySet
  <1>2. low \in Int /\ low <= n /\ high \in Int /\ high <= n
    BY <1>1
  <1> HIDE DEF low, high
  <1>3. PICK x \in DOMAIN f : Ranked(f, low) = f[x]
    BY <1>2, RankedIsIn
  <1>4. PICK y \in DOMAIN f : Ranked(f, high) = f[y]
    BY <1>2, RankedIsIn
  <1>5. TwiceMedian(f) = f[x] + f[y]
    BY <1>3, <1>4 DEF TwiceMedian, low, high
  <1>6. f[x] \in Nat /\ f[y] \in Nat
    OBVIOUS
  <1> QED
    BY <1>5, <1>6

(* A ratio of two waits says which is the longer.                          *)
LEMMA RatioOfWaits ==
  ASSUME NEW a \in Nat \ {0}, NEW b \in Nat \ {0}
  PROVE  /\ (60 * b) \div a \in Nat
         /\ a <= b => (60 * b) \div a >= 60
         /\ b <= a => (60 * b) \div a <= 60
  <1> DEFINE c == 60 * b
             q == c \div a
  <1>1. c \in Nat
    OBVIOUS
  <1> HIDE DEF c
  <1>2. q \in Nat /\ a * q <= c /\ c < a * (q + 1)
    BY <1>1
  <1> HIDE DEF q
  <1>3. ASSUME a <= b, q <= 59 PROVE FALSE
    <2>1. a * (q + 1) <= a * 60
      BY <1>2, <1>3
    <2> QED BY <1>2, <1>3, <2>1 DEF c
  <1>4. ASSUME b <= a, q >= 61 PROVE FALSE
    <2>1. a * q >= a * 61
      BY <1>2, <1>4
    <2> QED BY <1>1, <1>2, <1>4, <2>1 DEF c
  <1> QED
    BY <1>2, <1>3, <1>4 DEF q, c

(* The shape of the backoff is the agent's: one that never waits shorter   *)
(* after a failure it was told of is not read as shrinking, one that never *)
(* waits longer not as growing, whatever replies were lost between and     *)
(* whatever waits the server asked for (agent_metrics.timing_metrics).     *)
THEOREM BackoffIsTheAgentsAlways == Spec => []BackoffIsTheAgents
  <1>1. RunInv /\ RowsTimed => BackoffIsTheAgents
    <2> SUFFICES ASSUME RunInv, RowsTimed,
                        \A i, j \in DOMAIN rows : rows[i].op = rows[j].op /\ rows[i].key = rows[j].key
                 PROVE  LET read == BackoffShape([t \in {1} |-> rows])
                        IN  /\ (\A i, j \in OwnWaits : i < j => rows[i].wait <= rows[j].wait)
                                  => read # "shrinking"
                            /\ (\A i, j \in OwnWaits : i < j => rows[i].wait >= rows[j].wait)
                                  => read # "growing"
      BY DEF BackoffIsTheAgents
    <2> DEFINE gaps == Gaps(rows)
               R == Ratios(gaps)
               D == DOMAIN R
               s == <<1, rows>>
               rowsOf == [t \in {1} |-> rows]
               F == AllRatios(rowsOf)
    <2>1. IsSequence(rows) /\ Len(rows) \in Nat
      BY SequenceLen DEF RunInv, Kept
    <2>2. ASSUME NEW i \in D
          PROVE  /\ i \in Nat /\ gaps[i] # Missing /\ gaps[i + 1] # Missing
                 /\ i \in 1..(Len(rows) - 1) /\ i + 1 \in 1..(Len(rows) - 1)
                 /\ R[i] = (60 * gaps[i + 1]) \div gaps[i]
      <3>1. DOMAIN gaps = 1..(Len(rows) - 1)
        BY <2>1, GapsAreWaits
      <3>2. \E m \in Nat : DOMAIN gaps = 1..m /\ Len(gaps) = m
        <4> DEFINE m == IF Len(rows) = 0 THEN 0 ELSE Len(rows) - 1
                   S == {gaps[j] : j \in 1..m}
        <4>1. m \in Nat /\ DOMAIN gaps = 1..m
          BY <2>1, <3>1
        <4>2. gaps = [j \in 1..m |-> gaps[j]]
          BY <4>1 DEF Gaps
        <4>3. gaps \in [1..m -> S]
          <5> HIDE DEF gaps, m
          <5> QED BY <4>2
        <4> HIDE DEF gaps, m, S
        <4>4. gaps \in Seq(S)
          BY <4>1, <4>3, SeqDef
        <4>5. Len(gaps) \in Nat /\ DOMAIN gaps = 1..Len(gaps)
          BY <4>4, LenProperties
        <4> QED BY <4>5
      <3> HIDE DEF gaps
      <3>3. /\ i \in 1..(Len(gaps) - 1) /\ gaps[i] # Missing /\ gaps[i + 1] # Missing
            /\ R[i] = (60 * gaps[i + 1]) \div gaps[i]
        BY DEF Ratios
      <3>4. i \in Nat /\ i \in DOMAIN gaps /\ i + 1 \in DOMAIN gaps
        BY <3>2, <3>3
      <3> QED BY <3>1, <3>3, <3>4
    <2>3. ASSUME NEW i \in D
          PROVE  /\ R[i] \in Nat
                 /\ (\A x, y \in OwnWaits : x < y => rows[x].wait <= rows[y].wait) => R[i] >= 60
                 /\ (\A x, y \in OwnWaits : x < y => rows[x].wait >= rows[y].wait) => R[i] <= 60
      <3> DEFINE a == rows[i + 1].wait
                 b == rows[(i + 1) + 1].wait
      <3>1. /\ i + 1 \in OwnWaits /\ gaps[i] = a /\ a \in Nat \ {0}
            /\ (i + 1) + 1 \in OwnWaits /\ gaps[i + 1] = b /\ b \in Nat \ {0}
            /\ i + 1 < (i + 1) + 1
        <4>1. /\ i \in 1..(Len(rows) - 1) /\ gaps[i] # Missing
              /\ i + 1 \in 1..(Len(rows) - 1) /\ gaps[i + 1] # Missing
          BY <2>2
        <4>2. i + 1 < (i + 1) + 1
          BY <2>2
        <4> QED BY <2>1, <4>1, <4>2, GapsAreWaits
      <3>2. R[i] = (60 * b) \div a
        BY <2>2, <3>1
      <3>3. /\ (\A x, y \in OwnWaits : x < y => rows[x].wait <= rows[y].wait) => a <= b
            /\ (\A x, y \in OwnWaits : x < y => rows[x].wait >= rows[y].wait) => b <= a
        BY <3>1
      <3> HIDE DEF a, b
      <3>4. /\ (60 * b) \div a \in Nat
            /\ a <= b => (60 * b) \div a >= 60
            /\ b <= a => (60 * b) \div a <= 60
        BY <3>1, RatioOfWaits
      <3> QED BY <3>2, <3>3, <3>4
    <2>4. /\ IsFiniteSet(DOMAIN F)
          /\ \A p \in DOMAIN F : \E i \in D : F[p] = R[i]
      <3> DEFINE pairs == UNION {{<<q, i>> : i \in DOMAIN Ratios(Gaps(q[2]))} :
                                    q \in TrajectoriesOf(rowsOf)}
                 ours == {<<s, i>> : i \in D}
      <3>1. TrajectoriesOf(rowsOf) \subseteq {s}
        BY <2>1, OneTrajectory
      <3>2. DOMAIN F = pairs /\ \A p \in pairs : F[p] = Ratios(Gaps(p[1][2]))[p[2]]
        BY DEF AllRatios
      <3>3. pairs \subseteq ours
        <4>1. \A q \in TrajectoriesOf(rowsOf) : q = s /\ q[2] = rows
          BY <3>1
        <4> HIDE DEF s, rowsOf
        <4> QED BY <4>1
      <3>4. IsFiniteSet(ours)
        <4>1. D \in SUBSET (1..Len(rows))
          BY <2>1, <2>2
        <4>2. IsFiniteSet(D)
          <5> HIDE DEF D
          <5>1. IsFiniteSet(1..Len(rows))
            BY <2>1, FS_Interval
          <5> QED BY <4>1, <5>1, FS_Subset
        <4> DEFINE named == [i \in D |-> <<s, i>>]
        <4>3. named \in Surjection(D, ours)
          <5> HIDE DEF D, s
          <5> QED BY DEF Surjection
        <4> HIDE DEF D, named, ours
        <4> QED BY <4>2, <4>3, FS_Surjection
      <3>5. \A p \in ours : p[1][2] = rows /\ p[2] \in D
        OBVIOUS
      <3> HIDE DEF pairs, ours, F, R
      <3>6. IsFiniteSet(DOMAIN F)
        BY <3>2, <3>3, <3>4, FS_Subset
      <3>7. ASSUME NEW p \in DOMAIN F PROVE F[p] = R[p[2]] /\ p[2] \in D
        BY <3>2, <3>3, <3>5 DEF R
      <3> QED BY <3>6, <3>7
    <2>5. BackoffShape(rowsOf) = LET growth == IF DOMAIN F = {} THEN Missing ELSE TwiceMedian(F)
                                 IN  IF growth = Missing THEN "none"
                                     ELSE IF growth >= 180 THEN "growing"
                                     ELSE IF growth <= 80 THEN "shrinking" ELSE "flat"
      BY DEF BackoffShape, BackoffGrowth
    <2> HIDE DEF F, R, D, rowsOf
    <2>6. \A p \in DOMAIN F : F[p] \in Nat
      BY <2>3, <2>4
    <2>7. DOMAIN F # {} =>
            /\ TwiceMedian(F) \in Nat
            /\ (\A p \in DOMAIN F : F[p] >= 60) => TwiceMedian(F) >= 120
            /\ (\A p \in DOMAIN F : F[p] <= 60) => TwiceMedian(F) <= 120
      BY <2>4, <2>6, MedianIsBetween
    <2>8. (\A x, y \in OwnWaits : x < y => rows[x].wait <= rows[y].wait) =>
             \A p \in DOMAIN F : F[p] >= 60
      BY <2>3, <2>4
    <2>9. (\A x, y \in OwnWaits : x < y => rows[x].wait >= rows[y].wait) =>
             \A p \in DOMAIN F : F[p] <= 60
      BY <2>3, <2>4
    <2>10. /\ (\A x, y \in OwnWaits : x < y => rows[x].wait <= rows[y].wait) =>
                 BackoffShape(rowsOf) # "shrinking"
           /\ (\A x, y \in OwnWaits : x < y => rows[x].wait >= rows[y].wait) =>
                 BackoffShape(rowsOf) # "growing"
      <3> DEFINE g == IF DOMAIN F = {} THEN Missing ELSE TwiceMedian(F)
      <3>1. /\ (\A x, y \in OwnWaits : x < y => rows[x].wait <= rows[y].wait) =>
                   g = Missing \/ ~(g <= 80)
            /\ (\A x, y \in OwnWaits : x < y => rows[x].wait >= rows[y].wait) =>
                   g = Missing \/ ~(g >= 180)
        <4> DEFINE up == \A x, y \in OwnWaits : x < y => rows[x].wait <= rows[y].wait
                   down == \A x, y \in OwnWaits : x < y => rows[x].wait >= rows[y].wait
                   m == TwiceMedian(F)
        <4>1. DOMAIN F # {} => m \in Nat /\ (up => m >= 120) /\ (down => m <= 120)
          BY <2>7, <2>8, <2>9
        <4> HIDE DEF up, down, m
        <4>2. /\ up => g = Missing \/ ~(g <= 80)
              /\ down => g = Missing \/ ~(g >= 180)
          BY <4>1 DEF m
        <4> QED BY <4>2 DEF up, down
      <3>2. BackoffShape(rowsOf) = IF g = Missing THEN "none"
                                   ELSE IF g >= 180 THEN "growing"
                                   ELSE IF g <= 80 THEN "shrinking" ELSE "flat"
        BY <2>5
      <3> HIDE DEF g
      <3>3. /\ BackoffShape(rowsOf) = "shrinking" => g # Missing /\ g <= 80
            /\ BackoffShape(rowsOf) = "growing" => g # Missing /\ g >= 180
        BY <3>2
      <3> QED BY <3>1, <3>3
    <2> QED BY <2>10 DEF rowsOf
  <1> QED
    BY <1>1, RunInvCorrect, RowsTimedAlways, PTL
=============================================================================
