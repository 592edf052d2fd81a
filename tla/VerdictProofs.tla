--------------------------- MODULE VerdictProofs ---------------------------
(***************************************************************************)
(* What a scan's verdict never says, proved of Verdict for every policy    *)
(* that loads, every server and every reading of an agent.                 *)
(***************************************************************************)
EXTENDS Verdict, DataTheorems

Stages == {"parse", "setup", "running", "scoring", "reporting", "done"}

(* No report before the probes are through, and one exit code for it.      *)
ExitInv ==
    /\ stage \in Stages
    /\ stage \in {"parse", "setup", "running", "scoring"} => report = NoReport
    /\ stage = "done" /\ report # NoReport /\ opts.command = "ci" =>
          /\ exit = CiCode
          /\ exit = 0 /\ opts.json => wrote = "scan"

(* A ci run that exits 0 has written its record, if asked for one.         *)
LEMMA GreenIsRecorded ==
  ASSUME CiCode = 0, opts.json
  PROVE  CiWrites
  BY DEF CiCode, CiWrites

(* A scan says its verdict once: no report before the last probe, and the  *)
(* code ci ends with is the one its report decides                         *)
(* (cli.py ci).                                                            *)
THEOREM ExitInvCorrect == Spec => []ExitInv
  <1>1. Init => ExitInv
    BY DEF Init, ExitInv, Stages
  <1>2. ExitInv /\ [Next]_vars => ExitInv'
    <2> SUFFICES ASSUME ExitInv, [Next]_vars PROVE ExitInv'
      OBVIOUS
    <2> USE DEF ExitInv, Stages
    <2>1. CASE RefuseUsage
      BY <2>1 DEF RefuseUsage, Exit
    <2>2. CASE Start
      BY <2>2 DEF Start
    <2>3. CASE TargetRefuses
      BY <2>3 DEF TargetRefuses, Refuse, Exit
    <2>4. CASE RefuseUnusableBaseline
      BY <2>4 DEF RefuseUnusableBaseline, Refuse, Exit
    <2>5. CASE SetUp
      BY <2>5 DEF SetUp
    <2>6. CASE Escapes
      BY <2>6 DEF Escapes, Exit
    <2>7. CASE ProbeReports
      <3>1. stage = "running" /\ stage' \in {"scoring", "running"} /\ report' = report
        BY <2>7 DEF ProbeReports
      <3> QED BY <3>1
    <2>8. CASE NothingToRun
      BY <2>8 DEF NothingToRun
    <2>9. CASE Score
      <3>1. stage' = "reporting"
        BY <2>9 DEF Score
      <3> QED BY <3>1
    <2>10. CASE CiExits
      <3>1. stage' = "done" /\ exit' = CiCode /\ wrote' = (IF CiWrites THEN "scan" ELSE wrote)
            /\ UNCHANGED <<opts, policy, result, report>>
        BY <2>10 DEF CiExits, Exit
      <3>2. CiCode' = CiCode
        BY <3>1 DEF CiCode
      <3> QED BY <3>1, <3>2, GreenIsRecorded
    <2>11. CASE ScanExits
      BY <2>11 DEF ScanExits, Exit
    <2>12. CASE UNCHANGED vars
      <3>1. CiCode' = CiCode
        BY <2>12 DEF vars, CiCode
      <3> QED BY <2>12, <3>1 DEF vars
    <2> QED
      BY <2>1, <2>2, <2>3, <2>4, <2>5, <2>6, <2>7, <2>8, <2>9, <2>10, <2>11, <2>12 DEF Next
  <1> QED
    BY <1>1, <1>2, PTL DEF Spec

(* The exit code is 0 just when the headline says PASS, and 2 only under a *)
(* headline without a verdict.                                             *)
LEMMA CodesAgree ==
    /\ (CiCode = 0) <=> (Headline \in {"PASS", "PASS, UNRECONCILED"})
    /\ CiCode = 2 => Headline \in {"NO VERDICT", "NOT MEASURED"}
  BY DEF CiCode, Headline, UnreconciledReadings

(* ci is green exactly when the line a reader sees says PASS, exit 2 is    *)
(* never said of a PASS or a FAIL, and a green scan has its record         *)
(* (cli.py ci, outputs/common.py verdict_lines).                           *)
THEOREM ExitAgreesWithHeadlineAlways == Spec => []ExitAgreesWithHeadline
  <1>1. ExitInv => ExitAgreesWithHeadline
    BY CodesAgree DEF ExitInv, ExitAgreesWithHeadline
  <1> QED
    BY <1>1, ExitInvCorrect, PTL

-----------------------------------------------------------------------------
(* A scan without a verdict does not pass.                                 *)

(* A service scan whose verify tool was not measured is not passed.        *)
LEMMA DeclinedNeverPasses ==
  ASSUME NEW r, NEW p, r.rule # "agent_behavior", VerifyNotMeasured(r)
  PROVE  Evaluate(r, p).passed # "yes"
  BY DEF Evaluate

(* An agent scan with a blocker is not passed.                             *)
LEMMA BlockedNeverPasses ==
  ASSUME NEW r, NEW p, r.rule = "agent_behavior",
         \A b : AgentVerdictBlocker(r, b) # "none"
  PROVE  Evaluate(r, p).passed # "yes"
  BY DEF Evaluate

(* A task whose window was not read is such a blocker.                     *)
LEMMA UnreadTaskBlocks ==
  ASSUME NEW r, NEW b, r.rule = "agent_behavior", r.evidence.taskStatus # {},
         r.evidence.taskStatus # {"ok"}
  PROVE  AgentVerdictBlocker(r, b) # "none"
  BY DEF AgentVerdictBlocker

ResultFields == {"probes", "selected", "expected", "rule", "ops", "asked", "evidence"}
EntryFields == {"probe", "applicable", "metrics", "caveats"}

Shaped(r) ==
    /\ DOMAIN r = ResultFields
    /\ {"oracle", "taskStatus"} \subseteq DOMAIN r.evidence
    /\ \A i \in DOMAIN r.probes : DOMAIN r.probes[i] = EntryFields

(* A result with its oracle's word taken back differs in that and in       *)
(* nothing else.                                                           *)
LEMMA UnreadIsUnread ==
  ASSUME NEW r, Shaped(r), NEW at \in DOMAIN r.probes, NEW status
  PROVE  LET u == Unread(r, at, status)
         IN  /\ u.asked = r.asked /\ u.rule = r.rule
             /\ Places(u, "behavior") = Places(r, "behavior")
             /\ r.rule = "service" => u.evidence.oracle = status
             /\ r.rule # "service" => u.evidence.taskStatus = r.evidence.taskStatus \cup {status}
  <1> DEFINE u == Unread(r, at, status)
  <1>1. u.asked = r.asked /\ u.rule = r.rule
    BY DEF Unread, Shaped, ResultFields
  <1>2. u.probes = [r.probes EXCEPT ![at].metrics["duplicate_mutations"] = Missing]
    BY DEF Unread, Shaped, ResultFields
  <1>3. DOMAIN u.probes = DOMAIN r.probes
        /\ \A i \in DOMAIN r.probes : u.probes[i].probe = r.probes[i].probe
    BY <1>2 DEF Shaped, EntryFields
  <1>4. Places(u, "behavior") = Places(r, "behavior")
    <2> HIDE DEF u
    <2> QED BY <1>3 DEF Places
  <1>5. r.rule = "service" => u.evidence = [r.evidence EXCEPT !.oracle = status]
    BY DEF Unread, Shaped, ResultFields
  <1>6. r.rule # "service" =>
            u.evidence = [r.evidence EXCEPT !.taskStatus = r.evidence.taskStatus \cup {status}]
    BY DEF Unread, Shaped, ResultFields
  <1>7. /\ r.rule = "service" => u.evidence.oracle = status
        /\ r.rule # "service" => u.evidence.taskStatus = r.evidence.taskStatus \cup {status}
    <2> HIDE DEF u
    <2> QED BY <1>5, <1>6 DEF Shaped
  <1> QED
    BY <1>1, <1>4, <1>7

-----------------------------------------------------------------------------
(* Sequences end to end.                                                   *)

Flattens(g, s, n) == g = [i \in 1..n |-> IF i = 1 THEN s[i] ELSE g[i - 1] \o s[i]]

(* The recursion that flattens a sequence of sequences has a solution.     *)
LEMMA FlattensExists ==
  ASSUME NEW s, NEW n \in Nat
  PROVE  \E g : Flattens(g, s, n)
  <1> DEFINE Bad == {m \in Nat : ~ \E g : Flattens(g, s, m)}
  <1>1. Bad \in SUBSET Nat
    OBVIOUS
  <1> SUFFICES ASSUME Bad # {} PROVE FALSE
    OBVIOUS
  <1>2. PICK m \in Bad : \A k \in Bad : m <= k
    <2> HIDE DEF Bad
    <2> QED BY <1>1, LeastExists
  <1>3. m # 0
    <2>1. 1..0 = {}
      OBVIOUS
    <2>2. Flattens(<<>>, s, 0)
      BY <2>1 DEF Flattens
    <2> QED BY <2>2
  <1>4. m - 1 \in Nat /\ m - 1 \notin Bad
    BY <1>2, <1>3
  <1>5. PICK g : Flattens(g, s, m - 1)
    BY <1>4
  <1> DEFINE h == [i \in 1..m |-> IF i < m THEN g[i]
                                 ELSE IF i = 1 THEN s[i] ELSE g[i - 1] \o s[i]]
  <1>6. \A i \in 1..(m - 1) : g[i] = IF i = 1 THEN s[i] ELSE g[i - 1] \o s[i]
    BY <1>5 DEF Flattens
  <1>7. ASSUME NEW i \in 1..m
        PROVE  h[i] = IF i = 1 THEN s[i] ELSE h[i - 1] \o s[i]
    <2>1. CASE i < m
      <3>1. i \in 1..(m - 1) /\ h[i] = g[i]
        BY <2>1
      <3>2. i # 1 => h[i - 1] = g[i - 1]
        BY <2>1
      <3> HIDE DEF h
      <3> QED BY <1>6, <3>1, <3>2
    <2>2. CASE i = m
      <3>1. h[i] = IF i = 1 THEN s[i] ELSE g[i - 1] \o s[i]
        BY <2>2
      <3>2. i # 1 => h[i - 1] = g[i - 1]
        BY <2>2
      <3> HIDE DEF h
      <3> QED BY <3>1, <3>2
    <2> QED BY <2>1, <2>2
  <1>8. Flattens(h, s, m)
    <2>1. h = [i \in 1..m |-> h[i]]
      OBVIOUS
    <2> HIDE DEF h
    <2> QED BY <1>7, <2>1 DEF Flattens
  <1> HIDE DEF h
  <1> QED BY <1>8

(* Flattened sequences over a set are a sequence over it.                  *)
LEMMA FlattenIsSeq ==
  ASSUME NEW T, NEW s \in Seq(Seq(T))
  PROVE  FlattenSeq(s) \in Seq(T)
  <1> DEFINE n == Len(s)
             f == CHOOSE g : Flattens(g, s, n)
  <1>1. n \in Nat
    OBVIOUS
  <1>2. FlattenSeq(s) = IF n = 0 THEN s ELSE f[n]
    BY DEF FlattenSeq, Flattens
  <1>3. Flattens(f, s, n)
    BY <1>1, FlattensExists
  <1>4. \A i \in 1..n : s[i] \in Seq(T)
    OBVIOUS
  <1> HIDE DEF f, n
  <1> DEFINE Bad == {i \in 1..n : f[i] \notin Seq(T)}
  <1>5. Bad = {}
    <2> SUFFICES ASSUME Bad # {} PROVE FALSE
      OBVIOUS
    <2>1. Bad \in SUBSET Nat
      BY <1>1
    <2>2. PICK i \in Bad : \A k \in Bad : i <= k
      <3> HIDE DEF Bad
      <3> QED BY <2>1, LeastExists
    <2>3. f[i] = IF i = 1 THEN s[i] ELSE f[i - 1] \o s[i]
      BY <1>3 DEF Flattens
    <2>4. i # 1 => f[i - 1] \in Seq(T)
      BY <1>1, <2>2
    <2>5. i \in 1..n /\ s[i] \in Seq(T) /\ f[i] \notin Seq(T)
      BY <1>4, <2>2
    <2>6. i # 1 => f[i - 1] \o s[i] \in Seq(T)
      BY <2>4, <2>5, ConcatProperties
    <2> HIDE DEF Bad
    <2> QED BY <2>3, <2>5, <2>6
  <1>6. CASE n = 0
    <2>0. \A q \in Seq(Seq(T)) : q # <<>> => Len(q) \in Nat \ {0}
      BY EmptySeq
    <2>1. s = <<>>
      BY <1>6, <2>0 DEF n
    <2>2. <<>> \in Seq(T)
      BY EmptySeq
    <2> QED BY <1>2, <1>6, <2>1, <2>2
  <1>7. CASE n # 0
    BY <1>1, <1>2, <1>5, <1>7
  <1> QED BY <1>6, <1>7

(* Two sequences joined are a sequence.                                    *)
LEMMA ConcatIsSequence ==
  ASSUME NEW s, IsSequence(s), NEW t, IsSequence(t)
  PROVE  IsSequence(s \o t)
  <1> DEFINE U == Range(s) \cup Range(t)
  <1>1. s \in Seq(U) /\ t \in Seq(U)
    BY WiderSeq DEF IsSequence
  <1> HIDE DEF U
  <1>2. s \o t \in Seq(U)
    BY <1>1, ConcatProperties
  <1> QED
    BY <1>2, TypedIsSequence

(* So are none, one and two elements.                                      *)
LEMMA ShortIsSequence ==
  /\ IsSequence(<<>>)
  /\ \A e : IsSequence(<<e>>)
  /\ \A e, f : IsSequence(<<e, f>>)
  <1>1. <<>> \in Seq({})
    OBVIOUS
  <1>2. \A e : <<e>> \in Seq({e})
    OBVIOUS
  <1>3. \A e, f : <<e, f>> \in Seq({e, f})
    OBVIOUS
  <1> QED
    BY <1>1, <1>2, <1>3, TypedIsSequence

(* Flattened sequences are a sequence.                                     *)
LEMMA FlattenIsSequence ==
  ASSUME NEW s, NEW n \in Nat, s = [i \in 1..n |-> s[i]],
         \A i \in 1..n : IsSequence(s[i])
  PROVE  IsSequence(FlattenSeq(s))
  <1> DEFINE T == UNION {Range(s[i]) : i \in 1..n}
  <1>1. ASSUME NEW i \in 1..n PROVE s[i] \in Seq(T)
    <2>1. Range(s[i]) \subseteq T
      OBVIOUS
    <2>2. s[i] \in Seq(Range(s[i]))
      BY DEF IsSequence
    <2> HIDE DEF T
    <2> QED BY <2>1, <2>2, WiderSeq
  <1> HIDE DEF T
  <1>2. s \in [1..n -> Seq(T)]
    BY <1>1
  <1>3. s \in Seq(Seq(T))
    BY <1>2
  <1> QED
    BY <1>3, FlattenIsSeq, TypedIsSequence

(* A finite set can be listed.                                             *)
LEMMA SetToSeqIsSequence ==
  ASSUME NEW S, IsFiniteSet(S)
  PROVE  IsSequence(SetToSeq(S))
  <1> DEFINE n == Cardinality(S)
  <1>1. n \in Nat /\ ExistsBijection(1..n, S)
    BY FS_CardinalityType
  <1>2. PICK f : f \in Bijection(1..n, S)
    BY <1>1 DEF ExistsBijection
  <1>3. f \in [1..n -> S] /\ IsInjective(f)
    BY <1>2 DEF Bijection, Injection, IsInjective
  <1>4. SetToSeq(S) \in [1..n -> S]
    BY <1>3 DEF SetToSeq
  <1> HIDE DEF n
  <1>5. SetToSeq(S) \in Seq(S)
    BY <1>1, <1>4
  <1> QED
    BY <1>5, TypedIsSequence

-----------------------------------------------------------------------------
(* The contract probe's calls are a sequence, whatever tools are listed.   *)

(* The malformed calls made for one field are a sequence.                  *)
LEMMA FieldCasesIsSequence ==
  ASSUME NEW tool, NEW f
  PROVE  IsSequence(FieldCases(tool, f))
  <1> DEFINE field == tool.fields[f]
             null == <<Case("null_required", {f}, ~PermitsNull(field))>>
             missing == IF f \in tool.required
                        THEN <<Case("missing_required", {f}, TRUE)>> ELSE <<>>
  <1>1. IsSequence(null)
    BY ShortIsSequence
  <1>2. IsSequence(WrongType(f, field))
    BY ShortIsSequence DEF WrongType
  <1>3. IsSequence(Strings(f, field))
    BY ShortIsSequence DEF Strings
  <1>4. IsSequence(OutOfRange(f, field))
    BY ShortIsSequence DEF OutOfRange
  <1>5. IsSequence(missing)
    BY ShortIsSequence
  <1>6. FieldCases(tool, f) = null \o WrongType(f, field) \o Strings(f, field)
                                \o OutOfRange(f, field) \o missing
    BY DEF FieldCases
  <1> HIDE DEF field, null, missing
  <1> QED
    BY <1>1, <1>2, <1>3, <1>4, <1>5, <1>6, ConcatIsSequence

(* So are those of one tool.                                               *)
LEMMA BuildCasesIsSequence ==
  ASSUME NEW tool, IsFiniteSet(tool.required), IsFiniteSet(DOMAIN tool.fields)
  PROVE  IsSequence(BuildCases(tool))
  <1> DEFINE listed(fields) == FlattenSeq([i \in DOMAIN SetToSeq(fields) |->
                                              FieldCases(tool, SetToSeq(fields)[i])])
             whole == IF Cardinality(tool.required) >= 2
                      THEN <<Case("missing_all_required", tool.required, TRUE)>> ELSE <<>>
             extra == IF tool.closed THEN <<Case("extra_param", {}, TRUE)>> ELSE <<>>
  <1>1. ASSUME NEW F, IsFiniteSet(F) PROVE IsSequence(listed(F))
    <2> DEFINE q == SetToSeq(F)
               c == [i \in DOMAIN q |-> FieldCases(tool, q[i])]
    <2>1. Len(q) \in Nat /\ DOMAIN q = 1..Len(q)
      BY <1>1, SetToSeqIsSequence, SequenceLen
    <2>2. listed(F) = FlattenSeq(c)
      OBVIOUS
    <2> HIDE DEF q
    <2>3. c = [i \in 1..Len(q) |-> c[i]] /\ \A i \in 1..Len(q) : c[i] = FieldCases(tool, q[i])
      BY <2>1
    <2> HIDE DEF c, listed
    <2>4. IsSequence(FlattenSeq(c))
      BY <2>1, <2>3, FieldCasesIsSequence, FlattenIsSequence
    <2> QED BY <2>2, <2>4
  <1>2. IsFiniteSet(DOMAIN tool.fields \ tool.required)
    BY FS_Difference
  <1>3. IsSequence(whole) /\ IsSequence(extra)
    BY ShortIsSequence
  <1>4. BuildCases(tool) = listed(tool.required) \o listed(DOMAIN tool.fields \ tool.required)
                             \o whole \o extra
    BY DEF BuildCases
  <1> HIDE DEF listed, whole, extra
  <1> QED
    BY <1>1, <1>2, <1>3, <1>4, ConcatIsSequence

ToolsOK(tools) ==
    /\ tools \in Seq(Range(tools))
    /\ \A i \in DOMAIN tools :
          IsFiniteSet(tools[i].required) /\ IsFiniteSet(DOMAIN tools[i].fields)

(* The contract probe sends to tools the server lists.                     *)
LEMMA CoveredAreListed ==
  ASSUME NEW tools, ToolsOK(tools), NEW limit \in Nat, NEW mutating
  PROVE  Covered(tools, limit, mutating) \in Seq(Range(tools))
  <1> DEFINE T == Range(tools)
             eligible == IF mutating THEN tools ELSE ReadOnlyTools(tools)
             picks == [i \in DOMAIN tools |->
                         IF Classify(tools[i]) = "read_only" THEN <<tools[i]>> ELSE <<>>]
             last == IF Len(eligible) < limit THEN Len(eligible) ELSE limit
  <1>1. tools \in Seq(T)
    BY DEF ToolsOK
  <1>2. ReadOnlyTools(tools) \in Seq(T)
    <2>1. \A i \in DOMAIN tools : tools[i] \in T
      BY DEF Range
    <2> HIDE DEF T
    <2>2. \A i \in DOMAIN tools : picks[i] \in Seq(T)
      BY <2>1
    <2>3. picks \in Seq(Seq(T))
      <3>1. DOMAIN tools = 1..Len(tools) /\ Len(tools) \in Nat
        BY <1>1, LenProperties
      <3>2. picks \in [1..Len(tools) -> Seq(T)]
        BY <2>2, <3>1
      <3> HIDE DEF picks
      <3> QED BY <3>1, <3>2
    <2>4. ReadOnlyTools(tools) = FlattenSeq(picks)
      BY DEF ReadOnlyTools
    <2> HIDE DEF picks
    <2> QED BY <2>3, <2>4, FlattenIsSeq
  <1> HIDE DEF T
  <1>3. eligible \in Seq(T)
    BY <1>1, <1>2
  <1>4. Covered(tools, limit, mutating) = SubSeq(eligible, 1, last)
    BY DEF Covered
  <1> HIDE DEF eligible
  <1>5. last \in Nat /\ last <= Len(eligible)
    BY <1>3
  <1> HIDE DEF last
  <1>6. SubSeq(eligible, 1, last) \in Seq(T)
    BY <1>3, <1>5
  <1> QED
    BY <1>4, <1>6 DEF T

(* What it sends, malformed calls and controls, is a sequence.             *)
LEMMA QuestionsIsSequence ==
  ASSUME NEW tools, ToolsOK(tools), NEW limit \in Nat, NEW mutating, NEW real
  PROVE  IsSequence(Questions(Covered(tools, limit, mutating), real))
  <1> DEFINE covered == Covered(tools, limit, mutating)
             asked == [i \in DOMAIN covered |->
                        [k \in DOMAIN BuildCases(covered[i]) |->
                            [tool |-> covered[i].name, required |-> covered[i].required # {},
                             case |-> BuildCases(covered[i])[k],
                             carries |-> CarriesBaseline(BuildCases(covered[i])[k],
                                                         BaselinePayload(covered[i], real))]]]
  <1>1. covered \in Seq(Range(tools))
    BY CoveredAreListed
  <1>2. Questions(covered, real) = FlattenSeq(asked)
    BY DEF Questions
  <1> HIDE DEF covered
  <1>3. Len(covered) \in Nat /\ DOMAIN covered = 1..Len(covered)
    BY <1>1, LenProperties
  <1>4. ASSUME NEW i \in DOMAIN covered PROVE IsSequence(asked[i])
    <2>1. covered[i] \in Range(tools)
      BY <1>1, <1>3, ElementOfSeq
    <2>2. IsFiniteSet(covered[i].required) /\ IsFiniteSet(DOMAIN covered[i].fields)
      BY <2>1 DEF ToolsOK, Range
    <2> DEFINE b == BuildCases(covered[i])
    <2>3. Len(b) \in Nat /\ DOMAIN b = 1..Len(b)
      BY <2>2, BuildCasesIsSequence, SequenceLen
    <2>4. asked[i] = [k \in DOMAIN b |-> asked[i][k]]
      BY <1>4
    <2> HIDE DEF b, asked
    <2>5. asked[i] = [k \in 1..Len(b) |-> asked[i][k]]
      BY <2>3, <2>4
    <2>6. asked[i] \in [1..Len(b) -> {asked[i][k] : k \in 1..Len(b)}]
      BY <2>5
    <2>7. asked[i] \in Seq({asked[i][k] : k \in 1..Len(b)})
      BY <2>3, <2>6
    <2> QED BY <2>7, TypedIsSequence
  <1>5. asked = [i \in 1..Len(covered) |-> asked[i]]
    BY <1>3
  <1> HIDE DEF asked
  <1>6. IsSequence(FlattenSeq(asked))
    BY <1>3, <1>4, <1>5, FlattenIsSequence
  <1> QED
    BY <1>2, <1>6 DEF covered

-----------------------------------------------------------------------------
(* Greatest and least places, and percentiles.                             *)

(* A percentile is a number, and withheld when nothing was sampled.        *)
LEMMA PercentileIsNumber ==
  ASSUME NEW D, IsFiniteSet(D), NEW sample \in [D -> Nat], NEW pct \in 0..100
  PROVE  /\ Percentile(sample, pct) \in MetricValue
         /\ D = {} => Percentile(sample, pct) = Missing
         /\ D # {} => Percentile(sample, pct) \in Nat
  <1> DEFINE n == Cardinality(D)
             rank == (n * pct + 99) \div 100
             upTo(v) == {i \in D : sample[i] <= v}
             many == {j \in D : Cardinality(upTo(sample[j])) >= rank}
             values == {sample[i] : i \in many}
  <1>1. Percentile(sample, pct) = IF D = {} THEN Missing ELSE Min(values)
    BY DEF Percentile, Ranked
  <1>2. n \in Nat /\ (D # {} => n >= 1)
    BY FS_CardinalityType, FS_EmptySet
  <1>3. rank \in Nat /\ (n >= 1 => rank <= n)
    <2>1. \A a \in Nat, p \in 0..100 : a >= 1 => a * p <= a * 100 /\ a * p \in Nat
      OBVIOUS
    <2>2. n >= 1 => n * pct <= n * 100 /\ n * pct \in Nat
      BY <1>2, <2>1
    <2>3. n = 0 => n * pct = 0
      BY <1>2
    <2> DEFINE m == n * pct
    <2>4. m \in Nat /\ (n >= 1 => m <= n * 100)
      BY <1>2, <2>2, <2>3
    <2> HIDE DEF m, n
    <2>5. (m + 99) \div 100 \in Nat /\ (n >= 1 => (m + 99) \div 100 <= n)
      BY <1>2, <2>4
    <2> QED BY <2>5 DEF m
  <1> HIDE DEF n, rank
  <1>4. D # {} => \E j \in D : Cardinality(upTo(sample[j])) >= rank
    <2>1. rank \in Int /\ (D # {} => rank <= Cardinality(D))
      BY <1>2, <1>3 DEF n
    <2> QED BY <2>1, RankIsTaken
  <1>5. D # {} => many # {}
    BY <1>4
  <1>6. D # {} => values \in SUBSET Nat /\ values # {}
    BY <1>5
  <1> HIDE DEF values
  <1> QED
    BY <1>1, <1>6, MinIsIn DEF MetricValue

-----------------------------------------------------------------------------
(* What each probe brings back: its caveats withhold what is withheld, and *)
(* what the policy reads of it is a number or Missing.                     *)

ScoredNames == DOMAIN ThresholdSpecs \ DeprecatedThresholds

Scored(probe, metrics) ==
    /\ \A t \in ScoredNames :
          ThresholdSpecs[t].probe = probe =>
              Metric([metrics |-> metrics], ThresholdSpecs[t].metric) \in MetricValue
    /\ probe = "behavior" => Metric([metrics |-> metrics], "recovery_floor") \in MetricValue

Withheld(metrics, name) == Metric([metrics |-> metrics], name) = Missing

(* A caveat given under a condition is honest if what it suppresses is     *)
(* withheld then.                                                          *)
LEMMA HonestWhen ==
  ASSUME NEW m, NEW cond, NEW effect, NEW names,
         cond /\ effect = "suppress" => \A k \in DOMAIN names : Withheld(m, names[k])
  PROVE  Honest(m, When(cond, effect, names))
  BY DEF Honest, When, Withheld, Caveat

(* Two honest lists of caveats are honest together.                        *)
LEMMA HonestUnion ==
  ASSUME NEW m, NEW A, NEW B, Honest(m, A), Honest(m, B)
  PROVE  Honest(m, A \cup B)
  BY DEF Honest

(* One caveat is honest if what it suppresses is withheld.                 *)
LEMMA HonestOne ==
  ASSUME NEW m, NEW effect, NEW names,
         effect = "suppress" => \A k \in DOMAIN names : Withheld(m, names[k])
  PROVE  Honest(m, {Caveat(effect, names)})
  BY DEF Honest, Withheld, Caveat

(* The names in a list of one or two are those one or two.                 *)
LEMMA OneName ==
  /\ \A a : \A k \in DOMAIN <<a>> : <<a>>[k] = a
  /\ \A a, b : \A k \in DOMAIN <<a, b>> : <<a, b>>[k] \in {a, b}
  /\ DOMAIN <<>> = {}
  OBVIOUS

(* The calls that succeeded are finitely many, at most all of them.        *)
LEMMA SuccessesCounted ==
  ASSUME NEW r \in Seq(ReplyOK)
  PROVE  /\ IsFiniteSet(Successes(r)) /\ Cardinality(Successes(r)) \in Nat
         /\ Cardinality(Successes(r)) <= Len(r) /\ Len(r) \in Nat
         /\ (Cardinality(Successes(r)) = 0 => Successes(r) = {})
         /\ Latencies(r) \in [Successes(r) -> Nat]
  <1>1. Len(r) \in Nat /\ DOMAIN r = 1..Len(r)
    BY LenProperties
  <1>2. IsFiniteSet(1..Len(r)) /\ Cardinality(1..Len(r)) = Len(r)
    BY <1>1, FS_Interval
  <1>3. Successes(r) \in SUBSET (1..Len(r))
    BY <1>1 DEF Successes
  <1>4. IsFiniteSet(Successes(r)) /\ Cardinality(Successes(r)) <= Len(r)
    BY <1>2, <1>3, FS_Subset
  <1>5. Cardinality(Successes(r)) \in Nat /\ (Cardinality(Successes(r)) = 0 => Successes(r) = {})
    BY <1>4, FS_CardinalityType, FS_EmptySet
  <1>6. \A i \in 1..Len(r) : r[i].ms \in Nat
    <2>1. \A i \in 1..Len(r) : r[i] \in ReplyOK
      BY ElementOfSeq
    <2> QED BY <2>1 DEF ReplyOK
  <1>7. Latencies(r) \in [Successes(r) -> Nat]
    BY <1>3, <1>6 DEF Latencies
  <1> QED
    BY <1>1, <1>4, <1>5, <1>7

(* The error rate is a number, and 100 only if no call succeeded.          *)
LEMMA ErrorRateIsNumber ==
  ASSUME NEW r \in Seq(ReplyOK)
  PROVE  ErrorRate(r) \in Nat /\ (ErrorRate(r) = 100 => Successes(r) = {})
  <1> DEFINE n == Len(r)
             k == Cardinality(Successes(r))
  <1>1. n \in Nat /\ k \in Nat /\ k <= n /\ (k = 0 => Successes(r) = {})
    BY SuccessesCounted
  <1>2. ErrorRate(r) = IF r = <<>> THEN 100 ELSE (100 * (n - k)) \div n
    BY DEF ErrorRate
  <1>3. r # <<>> => n >= 1
    BY EmptySeq
  <1>4. r = <<>> => Successes(r) = {}
    BY DEF Successes
  <1> HIDE DEF n, k
  <1>5. ASSUME n >= 1
        PROVE  /\ (100 * (n - k)) \div n \in Nat
               /\ ((100 * (n - k)) \div n = 100 => k = 0)
    <2> DEFINE q == (100 * (n - k)) \div n
    <2>1. \A a \in Nat, b \in Nat : b >= 1 => /\ a \div b \in Nat
                                             /\ (a \div b) * b <= a
      BY SMT
    <2>2. 100 * (n - k) \in Nat
      BY <1>1
    <2>3. q \in Nat /\ q * n <= 100 * (n - k)
      BY <1>1, <1>5, <2>1, <2>2
    <2> HIDE DEF q
    <2>4. q = 100 => 100 * n <= 100 * (n - k)
      BY <2>3
    <2>5. q = 100 => k = 0
      BY <1>1, <2>4
    <2> QED BY <2>3, <2>5 DEF q
  <1> QED
    BY <1>1, <1>2, <1>3, <1>4, <1>5

(* The latency probe suppresses in a caveat only what it withheld, and     *)
(* reports numbers.                                                        *)
LEMMA LatencyTold ==
  ASSUME NEW r \in Seq(ReplyOK), NEW preflight, NEW banner
  PROVE  LET m == LatencyReading(r, preflight).metrics
         IN  Honest(m, LatencyCaveats(r, preflight, banner)) /\ Scored("latency", m)
  <1> DEFINE S == Successes(r)
             p95 == Percentile(Latencies(r), 95)
             p99 == IF Cardinality(S) < P99MinSample THEN Missing
                    ELSE Percentile(Latencies(r), 99)
             m == LatencyReading(r, preflight).metrics
  <1>1. m = [error_rate |-> ErrorRate(r), p95_s |-> p95, p99_s |-> p99,
             tail_ratio |-> TailRatio(Latencies(r))]
    BY DEF LatencyReading, Reading
  <1>2. IsFiniteSet(S) /\ Latencies(r) \in [S -> Nat]
    BY SuccessesCounted
  <1>3. /\ p95 \in MetricValue /\ (S = {} => p95 = Missing)
        /\ Percentile(Latencies(r), 99) \in MetricValue
    BY <1>2, PercentileIsNumber
  <1>4. p99 \in MetricValue
    BY <1>3 DEF MetricValue
  <1>5. S = {} => p99 = Missing
    BY FS_EmptySet DEF P99MinSample
  <1>6. ErrorRate(r) \in MetricValue /\ (ErrorRate(r) = 100 => S = {})
    BY ErrorRateIsNumber DEF MetricValue
  <1> HIDE DEF p95, p99, m
  <1>7. Withheld(m, "p95_s") <=> p95 = Missing
    BY <1>1 DEF Withheld, Metric
  <1>8. Withheld(m, "p99_s") <=> p99 = Missing
    BY <1>1 DEF Withheld, Metric
  <1>9. Scored("latency", m)
    BY <1>1, <1>3, <1>4, <1>6 DEF Scored, Metric, ScoredNames, ThresholdSpecs, Reads
  <1>10. Honest(m, LatencyCaveats(r, preflight, banner))
    <2>1. CASE BaselineUnusable(r, preflight)
      <3>1. LatencyCaveats(r, preflight, banner) = {Caveat("withhold", OfTheProbe)}
        BY <2>1 DEF LatencyCaveats, UnusableBaselineCaveats
      <3> QED BY <3>1, HonestOne
    <2>2. CASE ~BaselineUnusable(r, preflight) /\ ErrorRate(r) = 100
      <3>1. LatencyCaveats(r, preflight, banner) = {Caveat("suppress", <<"p95_s", "p99_s">>)}
        BY <2>2 DEF LatencyCaveats
      <3>2. Withheld(m, "p95_s") /\ Withheld(m, "p99_s")
        BY <2>2, <1>3, <1>5, <1>6, <1>7, <1>8
      <3> QED BY <3>1, <3>2, HonestOne, OneName
    <2>3. CASE ~BaselineUnusable(r, preflight) /\ ErrorRate(r) # 100
      <3> DEFINE A == When(Cardinality(S) < P99MinSample, "suppress", <<"p99_s">>)
                 B == When(Cardinality(S) = Len(r), "annotate", <<"error_rate">>)
                 C == When(banner, "annotate", OfTheProbe)
      <3>1. LatencyCaveats(r, preflight, banner) = A \cup B \cup C
        BY <2>3 DEF LatencyCaveats
      <3>2. Cardinality(S) < P99MinSample => Withheld(m, "p99_s")
        BY <1>8 DEF p99
      <3>3. Honest(m, A)
        BY <3>2, HonestWhen, OneName
      <3>4. Honest(m, B) /\ Honest(m, C)
        BY HonestWhen
      <3> HIDE DEF A, B, C, m
      <3>5. Honest(m, A \cup B)
        BY <3>3, <3>4, HonestUnion
      <3>6. Honest(m, (A \cup B) \cup C)
        BY <3>4, <3>5, HonestUnion
      <3> QED BY <3>1, <3>6
    <2> QED BY <2>1, <2>2, <2>3
  <1> QED
    BY <1>9, <1>10 DEF m

(* A natural number is a metric's value, and so is its absence.            *)
LEMMA NumberOfNat == Nat \subseteq MetricValue /\ Missing \in MetricValue
  BY DEF MetricValue

(* A probe that reports nothing is honest.                                 *)
LEMMA NothingTold ==
  ASSUME NEW probe
  PROVE  Honest(<<>>, {}) /\ Scored(probe, <<>>)
  <1>1. \A name : Metric([metrics |-> <<>>], name) = Missing
    BY DEF Metric
  <1>2. Scored(probe, <<>>)
    BY <1>1, NumberOfNat DEF Scored
  <1> QED
    BY <1>2 DEF Honest

(* The concurrency probe suppresses in a caveat only what it withheld, and *)
(* reports numbers.                                                        *)
LEMMA ConcurrencyTold ==
  ASSUME NEW ceiling, NEW errors, NEW preflight
  PROVE  LET m == ConcurrencyReading(ceiling, errors, preflight).metrics
         IN  /\ Honest(m, ConcurrencyCaveats(ceiling, errors, preflight))
             /\ Scored("concurrency", m)
  <1> DEFINE m == ConcurrencyReading(ceiling, errors, preflight).metrics
             ladder == Ladder(ceiling)
             cut == \/ Saturation(ladder, errors) = Missing
                    \/ Cardinality(LevelsTested(errors)) < Len(ladder)
  <1>1. Scored("concurrency", m)
    BY DEF Scored, ScoredNames, ThresholdSpecs, Reads, DeprecatedThresholds
  <1>2. ConcurrencyCaveats(ceiling, errors, preflight) =
            IF RampUnusable(ladder, errors, preflight) THEN {Caveat("withhold", OfTheProbe)}
            ELSE When(cut, "annotate", <<"max_sustained_concurrency">>)
    BY DEF ConcurrencyCaveats, UnusableBaselineCaveats
  <1> HIDE DEF m
  <1>3. Honest(m, {Caveat("withhold", OfTheProbe)})
    BY HonestOne
  <1>4. Honest(m, When(cut, "annotate", <<"max_sustained_concurrency">>))
    BY HonestWhen
  <1> QED
    BY <1>1, <1>2, <1>3, <1>4 DEF m

(* A mean is a number.                                                     *)
LEMMA MeanIsNumber ==
  ASSUME NEW D, IsFiniteSet(D), NEW sample \in [D -> Nat]
  PROVE  MeanOf(sample) \in Nat
  <1>1. SumFunction(sample) = SumOf(sample, D)
    BY SumOfFunction
  <1>2. SumOf(sample, D) \in Nat
    BY SumIsNat
  <1>3. Cardinality(D) \in Nat /\ (D # {} => Cardinality(D) >= 1)
    BY FS_CardinalityType, FS_EmptySet
  <1>4. \A a \in Nat, b \in Nat : b >= 1 => a \div b \in Nat
    BY SMT
  <1>5. MeanOf(sample) = IF D = {} THEN 0 ELSE SumOf(sample, D) \div Cardinality(D)
    BY <1>1 DEF MeanOf
  <1> QED
    BY <1>2, <1>3, <1>4, <1>5

(* The token counts that were reported are a finite sample.                *)
LEMMA ReportedIsSample ==
  ASSUME NEW r \in Seq(ReplyOK), NEW side \in {"tokens_in", "tokens_out"}
  PROVE  \E D : IsFiniteSet(D) /\ Reported(r, side) \in [D -> Nat]
  <1> DEFINE D == {i \in Successes(r) : r[i][side] # Missing}
  <1>1. IsFiniteSet(D)
    BY SuccessesCounted, FS_Subset
  <1>2. \A i \in Successes(r) : r[i] \in ReplyOK
    <2>1. Successes(r) \subseteq 1..Len(r)
      BY LenProperties DEF Successes
    <2> QED BY <2>1, ElementOfSeq
  <1>3. \A i \in D : r[i][side] \in Nat
    BY <1>2 DEF ReplyOK, MetricValue
  <1>4. Reported(r, side) \in [D -> Nat]
    BY <1>3 DEF Reported
  <1> QED
    BY <1>1, <1>4

(* The cost probe suppresses in a caveat only what it withheld, and        *)
(* reports numbers.                                                        *)
LEMMA CostTold ==
  ASSUME NEW r \in Seq(ReplyOK), NEW reports, NEW pricing \in SUBSET (Nat \X Nat)
  PROVE  LET m == CostReading(reports, r, pricing).metrics
         IN  Honest(m, CostCaveats(reports, r, pricing)) /\ Scored("cost", m)
  <1> DEFINE m == CostReading(reports, r, pricing).metrics
             used == reports /\ TokensSeen(r)
             price == CHOOSE p \in pricing : TRUE
             cost == IF ~used \/ pricing = {} THEN Missing
                     ELSE MeanOf(Reported(r, "tokens_in")) * price[1]
                            + MeanOf(Reported(r, "tokens_out")) * price[2]
  <1>1. m = [cost_per_request |-> cost,
             bloat_detected |-> used /\ BloatDetected(Reported(r, "tokens_in"))]
    BY DEF CostReading, Reading
  <1>2. /\ MeanOf(Reported(r, "tokens_in")) \in Nat
        /\ MeanOf(Reported(r, "tokens_out")) \in Nat
    BY ReportedIsSample, MeanIsNumber
  <1>3. pricing # {} => price[1] \in Nat /\ price[2] \in Nat
    OBVIOUS
  <1>4. cost \in MetricValue
    <2>1. \A a, b, c, d \in Nat : a * b + c * d \in Nat
      OBVIOUS
    <2> HIDE DEF price
    <2> QED BY <1>2, <1>3, <2>1, NumberOfNat
  <1>5. pricing = {} => cost = Missing
    OBVIOUS
  <1>6. CostCaveats(reports, r, pricing) =
            IF ~used THEN {Caveat("inapplicable", OfTheProbe)}
            ELSE When(pricing = {}, "suppress", <<"cost_per_request">>)
    BY DEF CostCaveats
  <1> HIDE DEF m, cost, used
  <1>7. Metric([metrics |-> m], "cost_per_request") = cost
    BY <1>1 DEF Metric
  <1>8. Scored("cost", m)
    BY <1>4, <1>7 DEF Scored, ScoredNames, ThresholdSpecs, Reads
  <1>9. Honest(m, {Caveat("inapplicable", OfTheProbe)})
    BY HonestOne
  <1>10. Honest(m, When(pricing = {}, "suppress", <<"cost_per_request">>))
    <2>1. pricing = {} => Withheld(m, "cost_per_request")
      BY <1>5, <1>7 DEF Withheld
    <2> QED BY <2>1, HonestWhen, OneName
  <1> QED
    BY <1>6, <1>8, <1>9, <1>10 DEF m

(* Any selection of a record's calls is finite.                            *)
LEMMA PartOfRecord ==
  ASSUME NEW record, IsSequence(record), NEW S, S \subseteq DOMAIN record
  PROVE  IsFiniteSet(S) /\ Cardinality(S) \in Nat
  <1>1. Len(record) \in Nat /\ DOMAIN record = 1..Len(record)
    BY SequenceLen
  <1>2. IsFiniteSet(1..Len(record))
    BY <1>1, FS_Interval
  <1>3. IsFiniteSet(S)
    BY <1>1, <1>2, FS_Subset
  <1> QED
    BY <1>3, FS_CardinalityType

(* The crash rate is a number or withheld.                                 *)
LEMMA CrashRateIsNumber ==
  ASSUME NEW record, IsSequence(record)
  PROVE  CrashRate(record) \in MetricValue /\ Cardinality(Crashed(record)) \in Nat
  <1>1. Len(record) \in Nat /\ DOMAIN record = 1..Len(record)
    BY SequenceLen
  <1>2. record # <<>> => Len(record) >= 1
    BY EmptySeq DEF IsSequence
  <1>3. Cardinality(Crashed(record)) \in Nat
    BY PartOfRecord DEF Crashed, Where
  <1>4. \A a \in Nat, b \in Nat : b >= 1 => (100 * a) \div b \in Nat
    BY SMT
  <1>5. record # <<>> => (100 * Cardinality(Crashed(record))) \div Len(record) \in Nat
    BY <1>1, <1>2, <1>3, <1>4
  <1> QED
    BY <1>3, <1>5, NumberOfNat DEF CrashRate, ControlClean

(* So is the count of malformed calls that were accepted.                  *)
LEMMA AcceptedInvalidIsNumber ==
  ASSUME NEW record, IsSequence(record)
  PROVE  AcceptedInvalid(record) \in MetricValue
  <1>1. WronglyAccepted(record) \subseteq DOMAIN record
    BY DEF WronglyAccepted, Scoreable, Where
  <1>2. Cardinality(WronglyAccepted(record)) \in Nat
    BY <1>1, PartOfRecord
  <1> QED
    BY <1>2, NumberOfNat DEF AcceptedInvalid

(* The contract probe suppresses in a caveat only what it withheld, and    *)
(* reports numbers.                                                        *)
LEMMA ContractTold ==
  ASSUME NEW listed, NEW covered, NEW real, NEW record, IsSequence(record)
  PROVE  LET m == ContractReading(listed, record).metrics
         IN  Honest(m, ContractCaveats(listed, covered, real, record)) /\ Scored("contract", m)
  <1> DEFINE m == ContractReading(listed, record).metrics
  <1>1. CASE listed = <<>>
    <2>1. m = <<>>
      BY <1>1 DEF ContractReading, Inapplicable
    <2>2. ContractCaveats(listed, covered, real, record) = {}
      BY <1>1 DEF ContractCaveats
    <2> HIDE DEF m
    <2> QED BY <2>1, <2>2, NothingTold DEF m
  <1>2. CASE listed # <<>>
    <2>1. m = [crash_rate |-> CrashRate(record), accepted_invalid |-> AcceptedInvalid(record),
               crashes |-> Cardinality(Crashed(record))]
      BY <1>2 DEF ContractReading, Reading
    <2> DEFINE refusing == {i \in DOMAIN record : RejectsBaseline(record, record[i].tool)}
               unsure == \/ refusing # {} /\ Unattributable(record) # {}
                         \/ \E i \in refusing : record[i].case.kind = "extra_param"
                                                  /\ record[i].case.should_reject
               A == CoverageCaveats(listed, covered, real)
               B == When(EvidenceThin(record), "suppress", <<"accepted_invalid">>)
               C == When(record = <<>>, "suppress", <<"crash_rate", "accepted_invalid">>)
               D == When(record # <<>> /\ ~ControlClean(record), "suppress", <<"crash_rate">>)
               E == When(unsure, "annotate", <<"accepted_invalid">>)
    <2>2. ContractCaveats(listed, covered, real, record) = A \cup B \cup C \cup D \cup E
      BY <1>2 DEF ContractCaveats
    <2> HIDE DEF m, unsure
    <2>3. Withheld(m, "crash_rate") <=> CrashRate(record) = Missing
      BY <2>1 DEF Withheld, Metric
    <2>4. Withheld(m, "accepted_invalid") <=> AcceptedInvalid(record) = Missing
      BY <2>1 DEF Withheld, Metric
    <2>5. Honest(m, A)
      <3> DEFINE X == When(Len(covered) < Len(listed), "annotate", OfTheProbe)
                 Y == When(real # <<>> /\ {covered[i].name : i \in DOMAIN covered} # DOMAIN real,
                           "annotate", OfTheProbe)
      <3>1. A = X \cup Y
        BY DEF CoverageCaveats
      <3>2. Honest(m, X) /\ Honest(m, Y)
        BY HonestWhen
      <3> HIDE DEF A, X, Y
      <3> QED BY <3>1, <3>2, HonestUnion
    <2>6. Honest(m, B)
      <3>1. EvidenceThin(record) => Withheld(m, "accepted_invalid")
        BY <2>4 DEF AcceptedInvalid
      <3> QED BY <3>1, HonestWhen, OneName
    <2>7. Honest(m, C)
      <3>1. record = <<>> => Scoreable(record) = {}
        BY DEF Scoreable, Where
      <3>2. record = <<>> => Withheld(m, "crash_rate") /\ Withheld(m, "accepted_invalid")
        BY <2>3, <2>4, <3>1 DEF CrashRate, ControlClean, AcceptedInvalid
      <3> DEFINE names == <<"crash_rate", "accepted_invalid">>
      <3>3. \A k \in DOMAIN names : names[k] \in {"crash_rate", "accepted_invalid"}
        OBVIOUS
      <3>4. record = <<>> => \A k \in DOMAIN names : Withheld(m, names[k])
        BY <3>2, <3>3
      <3> HIDE DEF names
      <3>5. Honest(m, When(record = <<>>, "suppress", names))
        BY <3>4, HonestWhen
      <3> QED BY <3>5 DEF names
    <2>8. Honest(m, D)
      <3>1. ~ControlClean(record) => Withheld(m, "crash_rate")
        BY <2>3 DEF CrashRate
      <3> QED BY <3>1, HonestWhen, OneName
    <2>9. Honest(m, E)
      BY HonestWhen
    <2> HIDE DEF A, B, C, D, E
    <2>10. Honest(m, A \cup B)
      BY <2>5, <2>6, HonestUnion
    <2>11. Honest(m, (A \cup B) \cup C)
      BY <2>7, <2>10, HonestUnion
    <2>12. Honest(m, ((A \cup B) \cup C) \cup D)
      BY <2>8, <2>11, HonestUnion
    <2>13. Honest(m, (((A \cup B) \cup C) \cup D) \cup E)
      BY <2>9, <2>12, HonestUnion
    <2>14. /\ Metric([metrics |-> m], "crash_rate") = CrashRate(record)
           /\ Metric([metrics |-> m], "accepted_invalid") = AcceptedInvalid(record)
      BY <2>1 DEF Metric
    <2>15. Scored("contract", m)
      BY <2>14, CrashRateIsNumber, AcceptedInvalidIsNumber
         DEF Scored, ScoredNames, ThresholdSpecs, Reads
    <2> QED BY <2>2, <2>13, <2>15 DEF m
  <1> QED
    BY <1>1, <1>2

(* So does the fault probe.                                                *)
LEMMA FaultTold ==
  ASSUME NEW ops \in Seq(OperationOK)
  PROVE  LET m == FaultReading(ops).metrics
         IN  Honest(m, FaultCaveats(ops)) /\ Scored("fault", m)
  <1> DEFINE m == FaultReading(ops).metrics
             few == Cardinality(DisruptedOps(ops)) < MinDisruptedToReport
  <1>1. m = [recovery_rate |-> RecoveryRate(ops)]
    BY DEF FaultReading, Reading
  <1>2. DisruptedOps(ops) = {} => RecoveryRate(ops) = Missing
    BY DEF DisruptedOps, RecoveryRate
  <1>3. FaultCaveats(ops) =
            IF ~InjectedAny(ops) THEN {Caveat("suppress", OfTheProbe)}
            ELSE IF DisruptedOps(ops) = {} THEN {Caveat("suppress", <<"recovery_rate">>)}
            ELSE When(few, "annotate", <<"recovery_rate">>)
    BY DEF FaultCaveats
  <1>4. Scored("fault", m)
    BY DEF Scored, ScoredNames, ThresholdSpecs, Reads
  <1> HIDE DEF m
  <1>5. Honest(m, {Caveat("suppress", OfTheProbe)})
    BY HonestOne, OneName DEF OfTheProbe
  <1>6. DisruptedOps(ops) = {} => Honest(m, {Caveat("suppress", <<"recovery_rate">>)})
    <2>1. DisruptedOps(ops) = {} => Withheld(m, "recovery_rate")
      BY <1>1, <1>2 DEF Withheld, Metric
    <2> QED BY <2>1, HonestOne, OneName
  <1>7. Honest(m, When(few, "annotate", <<"recovery_rate">>))
    BY HonestWhen
  <1> HIDE DEF few
  <1> QED
    BY <1>3, <1>4, <1>5, <1>6, <1>7 DEF m

(* The recovery rate is a number or withheld.                              *)
LEMMA RecoveryRateIsNumber ==
  ASSUME NEW ops \in Seq(OperationOK)
  PROVE  RecoveryRate(ops) \in MetricValue
  <1> DEFINE D == {i \in DOMAIN ops : Disrupted(ops[i])}
             R == {i \in D : RecoveredOp(ops[i])}
  <1>1. IsSequence(ops)
    BY TypedIsSequence
  <1>2. IsFiniteSet(D) /\ Cardinality(D) \in Nat /\ Cardinality(R) \in Nat
    BY <1>1, PartOfRecord
  <1>3. D # {} => Cardinality(D) >= 1
    <2> HIDE DEF D
    <2>1. IsFiniteSet(D) /\ Cardinality(D) \in Nat
      BY <1>2
    <2>2. Cardinality(D) = 0 => D = {}
      BY <2>1, FS_EmptySet
    <2> QED BY <2>1, <2>2
  <1>4. \A a \in Nat, b \in Nat : b >= 1 => (100 * a) \div b \in Nat
    BY SMT
  <1>5. RecoveryRate(ops) = IF D = {} THEN Missing ELSE (100 * Cardinality(R)) \div Cardinality(D)
    BY DEF RecoveryRate
  <1> HIDE DEF D, R
  <1> QED
    BY <1>2, <1>3, <1>4, <1>5, NumberOfNat

(* The behaviour probe of a service suppresses only what it withheld, and  *)
(* reports numbers.                                                        *)
LEMMA BehaviorTold ==
  ASSUME NEW oracle \in {"absent", "unattributed", "stale", "failed", "ok"},
         NEW ops \in Seq(OperationOK), NEW errors
  PROVE  LET m == ServiceReading(oracle, ops, errors, 20, 2, FALSE).metrics
         IN  Honest(m, ServiceCaveats(oracle, ops, errors, FALSE)) /\ Scored("behavior", m)
  <1> DEFINE m == ServiceReading(oracle, ops, errors, 20, 2, FALSE).metrics
  <1>1. CASE ops = <<>>
    <2>1. m = <<>>
      BY <1>1 DEF ServiceReading, Inapplicable
    <2>2. ServiceCaveats(oracle, ops, errors, FALSE) = {}
      BY <1>1 DEF ServiceCaveats
    <2> HIDE DEF m
    <2> QED BY <2>1, <2>2, NothingTold DEF m
  <1>2. CASE ops # <<>>
    <2> DEFINE rate == IF errors = 100 THEN Missing ELSE RecoveryRate(ops)
               dup == ServiceDuplicates(oracle, ops)
               lost == ServiceLost(oracle, ops)
    <2>1. m = [recovery_rate |-> rate, recovery_floor |-> RecoveryFloor(20, 2),
               retry_amplification |-> Missing, duplicate_mutations |-> dup,
               lost_effects |-> lost, loops_detected |-> LoopsDetected(ops),
               caller_strategy_applicable |-> FALSE]
      BY <1>2 DEF ServiceReading
    <2>2. rate \in MetricValue
      BY RecoveryRateIsNumber, NumberOfNat
    <2>3. RecoveryFloor(20, 2) \in MetricValue
      <3>1. RecoveryFloor(20, 2) = 96
        BY DEF RecoveryFloor
      <3> QED BY <3>1, NumberOfNat
    <2>4. dup \in MetricValue
      <3> DEFINE f == [i \in DOMAIN ops |-> AtLeastZero(ops[i].effects - 1)]
      <3>1. IsFiniteSet(DOMAIN ops)
        BY PartOfRecord, TypedIsSequence
      <3>2. \A i \in DOMAIN ops : f[i] \in Nat
        <4>1. \A i \in DOMAIN ops : ops[i] \in OperationOK
          OBVIOUS
        <4> QED BY <4>1 DEF OperationOK, AtLeastZero
      <3>3. dup = IF oracle # "ok" THEN Missing ELSE SumOf(f, DOMAIN ops)
        BY SumOfFunction DEF ServiceDuplicates
      <3> HIDE DEF f, dup
      <3>4. SumOf(f, DOMAIN ops) \in Nat
        BY <3>1, <3>2, SumIsNat
      <3> QED BY <3>3, <3>4, NumberOfNat
    <2>5. oracle # "ok" => dup = Missing /\ lost = Missing
      BY DEF ServiceDuplicates, ServiceLost
    <2>6. errors = 100 \/ DisruptedOps(ops) = {} => rate = Missing
      BY DEF RecoveryRate, DisruptedOps
    <2> HIDE DEF m, rate, dup, lost
    <2>7. /\ Metric([metrics |-> m], "recovery_rate") = rate
          /\ Metric([metrics |-> m], "recovery_floor") = RecoveryFloor(20, 2)
          /\ Metric([metrics |-> m], "retry_amplification") = Missing
          /\ Metric([metrics |-> m], "duplicate_mutations") = dup
          /\ Metric([metrics |-> m], "lost_effects") = lost
      BY <2>1 DEF Metric
    <2>8. Scored("behavior", m)
      BY <2>2, <2>3, <2>4, <2>7, NumberOfNat DEF Scored, ScoredNames, ThresholdSpecs, Reads
    <2> DEFINE few == /\ DisruptedOps(ops) # {} /\ errors # 100
                      /\ Cardinality(DisruptedOps(ops)) < MinDisruptedToReport
               A == When(DisruptedOps(ops) = {}, "suppress", <<"recovery_rate">>)
               B == When(few, "annotate", <<"recovery_rate">>)
               C == When(NothingCompleted(ops) \/ ~FALSE, "suppress", <<"retry_amplification">>)
               D == When(errors = 100, "suppress", <<"recovery_rate">>)
    <2>9. ServiceCaveats(oracle, ops, errors, FALSE) = OracleCaveats(oracle) \cup (A \cup B) \cup C \cup D
      BY <1>2 DEF ServiceCaveats, RecoveryCaveats
    <2>10. Honest(m, OracleCaveats(oracle))
      <3>1. CASE oracle = "absent"
        <4>1. OracleCaveats(oracle) = {Caveat("suppress", <<"duplicate_mutations">>)}
          BY <3>1 DEF OracleCaveats
        <4>2. Withheld(m, "duplicate_mutations")
          BY <3>1, <2>5, <2>7 DEF Withheld
        <4> QED BY <4>1, <4>2, HonestOne, OneName
      <3>2. CASE oracle \in {"unattributed", "stale", "failed"}
        <4>1. OracleCaveats(oracle) = {Caveat("suppress", Effects)}
          BY <3>2 DEF OracleCaveats
        <4>2. Withheld(m, "duplicate_mutations") /\ Withheld(m, "lost_effects")
          BY <3>2, <2>5, <2>7 DEF Withheld
        <4>3. \A k \in DOMAIN Effects : Effects[k] \in {"duplicate_mutations", "lost_effects"}
          BY DEF Effects
        <4>4. \A k \in DOMAIN Effects : Withheld(m, Effects[k])
          BY <4>2, <4>3
        <4> QED BY <4>1, <4>4, HonestOne
      <3>3. CASE oracle = "ok"
        <4>1. OracleCaveats(oracle) = {Caveat("annotate", Effects)}
          BY <3>3 DEF OracleCaveats
        <4> QED BY <4>1, HonestOne
      <3> QED BY <3>1, <3>2, <3>3
    <2>11. Honest(m, A) /\ Honest(m, D)
      <3>1. errors = 100 \/ DisruptedOps(ops) = {} => Withheld(m, "recovery_rate")
        BY <2>6, <2>7 DEF Withheld
      <3>2. Honest(m, A)
        BY <3>1, HonestWhen, OneName
      <3>3. Honest(m, D)
        BY <3>1, HonestWhen, OneName
      <3> QED BY <3>2, <3>3
    <2>12. Honest(m, C)
      <3>1. Withheld(m, "retry_amplification")
        BY <2>7 DEF Withheld
      <3> QED BY <3>1, HonestWhen, OneName
    <2>13. Honest(m, B)
      BY HonestWhen
    <2> HIDE DEF A, B, C, D
    <2>14. Honest(m, A \cup B)
      BY <2>11, <2>13, HonestUnion
    <2>15. Honest(m, OracleCaveats(oracle) \cup (A \cup B))
      BY <2>10, <2>14, HonestUnion
    <2>16. Honest(m, (OracleCaveats(oracle) \cup (A \cup B)) \cup C)
      BY <2>12, <2>15, HonestUnion
    <2>17. Honest(m, ((OracleCaveats(oracle) \cup (A \cup B)) \cup C) \cup D)
      BY <2>11, <2>16, HonestUnion
    <2> QED BY <2>8, <2>9, <2>17 DEF m
  <1> QED
    BY <1>1, <1>2

-----------------------------------------------------------------------------
(* What a scan holds while it runs.                                        *)

Entry(probe, s) ==
    [probe |-> probe, applicable |-> s.reading.applicable, metrics |-> s.reading.metrics,
     caveats |-> s.caveats]

EntryOK(e) ==
    /\ e.probe \in Registered
    /\ Honest(e.metrics, e.caveats)
    /\ Scored(e.probe, e.metrics)

SampleOK(probe, s) ==
    /\ Honest(s.reading.metrics, s.caveats)
    /\ Scored(probe, s.reading.metrics)
    /\ {"oracle", "taskStatus"} \subseteq DOMAIN s.reading.evidence
    /\ s.ops \in Seq(OperationOK)
    /\ probe = "contract" /\ result.rule = "service" =>
          s.reading.metrics \in {<<>>, ContractReading(server.tools, ContractRecord).metrics}

ScanOK ==
    /\ opts \in Options /\ policy \in Policies /\ server \in Servers(opts)
    /\ result.ops \in Seq(OperationOK)

(* The server and the policy of a scan are of the kinds assumed.           *)
LEMMA ServerIsOK ==
  ASSUME ScanOK
  PROVE  ServerOK(server) /\ ToolsOK(server.tools) /\ PolicyLoads(policy)
  <1>1. ServerOK(server) /\ PolicyLoads(policy)
    BY VerdictAssumption DEF ScanOK
  <1> QED
    BY <1>1 DEF ServerOK, ToolsOK

(* The contract's record answers each question once.                       *)
LEMMA RecordIsSequence ==
  ASSUME ScanOK
  PROVE  /\ IsSequence(ContractRecord)
         /\ Len(ContractRecord) = Len(Questions(Covered(server.tools, 3, opts.allow_mutating), server.real))
         /\ IsSequence(Questions(Covered(server.tools, 3, opts.allow_mutating), server.real))
  <1> DEFINE asked == Questions(Covered(server.tools, 3, opts.allow_mutating), server.real)
             entry(i) == [tool |-> asked[i].tool, required |-> asked[i].required,
                          case |-> asked[i].case, carries |-> asked[i].carries,
                          control |-> IF Dead(2 * i - 1) THEN "crashed"
                                      ELSE IF server.rejects THEN "rejected" ELSE "accepted",
                          outcome |-> Outcome(asked[i], 2 * i)]
             r == [i \in DOMAIN asked |-> entry(i)]
  <1>1. IsSequence(asked)
    BY ServerIsOK, QuestionsIsSequence
  <1>2. ContractRecord = r
    BY DEF ContractRecord
  <1> HIDE DEF asked
  <1>3. Len(asked) \in Nat /\ DOMAIN asked = 1..Len(asked)
    BY <1>1, SequenceLen
  <1> HIDE DEF entry
  <1>4. r \in [1..Len(asked) -> {entry(i) : i \in 1..Len(asked)}]
    BY <1>3
  <1> HIDE DEF r
  <1>5. r \in Seq({entry(i) : i \in 1..Len(asked)}) /\ DOMAIN r = 1..Len(asked)
    BY <1>3, <1>4
  <1>6. Len(r) = Len(asked)
    BY <1>3, <1>5, LenProperties
  <1> QED
    BY <1>1, <1>2, <1>5, <1>6, TypedIsSequence DEF asked

(* What each probe may report of a service.                                *)
LEMMA ServiceSamplesAre ==
  /\ ServiceSamples("latency") = LatencySamples
  /\ ServiceSamples("concurrency") = ConcurrencySamples
  /\ ServiceSamples("cost") = CostSamples
  /\ ServiceSamples("contract") = ContractSamples
  /\ ServiceSamples("fault") = FaultSamples
  /\ ServiceSamples("behavior") = BehaviorSamples
  /\ ServiceSamples("agent_baseline") = {Contained}
  BY DEF ServiceSamples

(* A probe that crashed reports nothing, which is honest.                  *)
LEMMA ContainedOK ==
  ASSUME NEW probe
  PROVE  SampleOK(probe, Contained)
  <1>1. /\ Contained.reading.metrics = <<>> /\ Contained.caveats = {}
        /\ Contained.reading.evidence = NoEvidence /\ Contained.ops = <<>>
    BY DEF Contained, Sample, Inapplicable
  <1>2. {"oracle", "taskStatus"} \subseteq DOMAIN NoEvidence
    BY DEF NoEvidence
  <1>3. <<>> \in Seq(OperationOK)
    BY EmptySeq
  <1> QED
    BY <1>1, <1>2, <1>3, NothingTold DEF SampleOK

(* What a probe of a service's first phase brings back.                    *)
LEMMA PlainSampleOK ==
  ASSUME NEW probe, NEW m, NEW caveats, NEW applicable, NEW ok,
         Honest(m, caveats), Scored(probe, m), probe # "contract"
  PROVE  SampleOK(probe, Sample(Reading(applicable, m), caveats, ok))
  <1> DEFINE s == Sample(Reading(applicable, m), caveats, ok)
  <1>1. /\ s.reading.metrics = m /\ s.caveats = caveats
        /\ s.reading.evidence = NoEvidence /\ s.ops = <<>>
    BY DEF Sample, Reading
  <1>2. {"oracle", "taskStatus"} \subseteq DOMAIN NoEvidence
    BY DEF NoEvidence
  <1>3. <<>> \in Seq(OperationOK)
    BY EmptySeq
  <1> HIDE DEF s
  <1>4. SampleOK(probe, s)
    BY <1>1, <1>2, <1>3 DEF SampleOK
  <1> QED
    BY <1>4 DEF s

(* Whatever the latency probe may report is honest.                        *)
LEMMA LatencySamplesOK ==
  ASSUME ScanOK, NEW s \in LatencySamples
  PROVE  SampleOK("latency", s)
  <1>1. PICK r \in server.replies :
          s = Sample(LatencyReading(r, server.preflight),
                     LatencyCaveats(r, server.preflight, server.banner), Successes(r) # {})
    BY DEF LatencySamples
  <1>2. r \in Seq(ReplyOK)
    BY ServerIsOK DEF ServerOK
  <1> DEFINE m == LatencyReading(r, server.preflight).metrics
             c == LatencyCaveats(r, server.preflight, server.banner)
             a == ~BaselineUnusable(r, server.preflight)
  <1>3. Honest(m, c) /\ Scored("latency", m)
    BY <1>2, LatencyTold
  <1>4. LatencyReading(r, server.preflight) = Reading(a, m)
    BY DEF LatencyReading, Reading
  <1> HIDE DEF m, c, a
  <1>5. SampleOK("latency", Sample(Reading(a, m), c, Successes(r) # {}))
    BY <1>3, PlainSampleOK
  <1> QED
    BY <1>1, <1>4, <1>5 DEF c

(* Whatever the concurrency probe may report is honest.                    *)
LEMMA ConcurrencySamplesOK ==
  ASSUME ScanOK, NEW s \in ConcurrencySamples
  PROVE  SampleOK("concurrency", s)
  <1>1. PICK e \in server.ramps :
          s = Sample(ConcurrencyReading(4, e, server.preflight),
                     ConcurrencyCaveats(4, e, server.preflight), \E i \in DOMAIN e : e[i] < 100)
    BY DEF ConcurrencySamples
  <1> DEFINE m == ConcurrencyReading(4, e, server.preflight).metrics
             c == ConcurrencyCaveats(4, e, server.preflight)
             a == ~RampUnusable(Ladder(4), e, server.preflight)
             ok == \E i \in DOMAIN e : e[i] < 100
  <1>3. Honest(m, c) /\ Scored("concurrency", m)
    BY ConcurrencyTold
  <1>4. ConcurrencyReading(4, e, server.preflight) = Reading(a, m)
    BY DEF ConcurrencyReading, Reading
  <1> HIDE DEF m, c, a, ok
  <1>5. SampleOK("concurrency", Sample(Reading(a, m), c, ok))
    BY <1>3, PlainSampleOK
  <1> QED
    BY <1>1, <1>4, <1>5 DEF c, ok

(* Whatever the cost probe may report is honest.                           *)
LEMMA CostSamplesOK ==
  ASSUME ScanOK, NEW s \in CostSamples
  PROVE  SampleOK("cost", s)
  <1>1. PICK r \in server.replies :
          s = Sample(CostReading(server.tokens, r, server.pricing),
                     CostCaveats(server.tokens, r, server.pricing), FALSE)
    BY DEF CostSamples
  <1>2. r \in Seq(ReplyOK) /\ server.pricing \in SUBSET (Nat \X Nat)
    BY ServerIsOK DEF ServerOK
  <1> DEFINE reading == CostReading(server.tokens, r, server.pricing)
             m == reading.metrics
             c == CostCaveats(server.tokens, r, server.pricing)
  <1>3. Honest(m, c) /\ Scored("cost", m)
    BY <1>2, CostTold
  <1>4. reading = Reading(reading.applicable, m)
    BY DEF CostReading, Reading
  <1> HIDE DEF reading, m, c
  <1>5. SampleOK("cost", Sample(Reading(reading.applicable, m), c, FALSE))
    BY <1>3, PlainSampleOK
  <1> QED
    BY <1>1, <1>4, <1>5 DEF c, reading

(* Whatever the contract probe may report is honest, and read off the      *)
(* contract's record.                                                      *)
LEMMA ContractSamplesOK ==
  ASSUME ScanOK, NEW s \in ContractSamples
  PROVE  SampleOK("contract", s)
  <1> DEFINE reading == ContractReading(server.tools, ContractRecord)
             c == ContractCaveats(server.tools, Covered(server.tools, 3, opts.allow_mutating),
                                  server.real, ContractRecord)
  <1>1. s = Sample(reading, c, AnyAccepted(ContractRecord))
    BY DEF ContractSamples
  <1>2. Honest(reading.metrics, c) /\ Scored("contract", reading.metrics)
    BY RecordIsSequence, ContractTold
  <1>3. reading.evidence = NoEvidence
    BY DEF ContractReading, Inapplicable, Reading
  <1>4. s.reading = reading /\ s.caveats = c /\ s.ops = <<>>
    BY <1>1 DEF Sample
  <1>5. {"oracle", "taskStatus"} \subseteq DOMAIN NoEvidence
    BY DEF NoEvidence
  <1>6. <<>> \in Seq(OperationOK)
    BY EmptySeq
  <1> HIDE DEF c
  <1>7. s.reading.metrics = ContractReading(server.tools, ContractRecord).metrics
    BY <1>4
  <1> HIDE DEF reading
  <1> QED
    BY <1>2, <1>3, <1>4, <1>5, <1>6, <1>7 DEF SampleOK

(* Whatever the fault probe may report is honest.                          *)
LEMMA FaultSamplesOK ==
  ASSUME ScanOK, NEW s \in FaultSamples
  PROVE  SampleOK("fault", s)
  <1>1. PICK ops \in server.chaos :
          s = [Sample(FaultReading(ops), FaultCaveats(ops), ~NothingCompleted(ops))
                  EXCEPT !.ops = ops]
    BY DEF FaultSamples
  <1>2. ops \in Seq(OperationOK)
    BY ServerIsOK DEF ServerOK
  <1>3. s.reading = FaultReading(ops) /\ s.caveats = FaultCaveats(ops) /\ s.ops = ops
    BY <1>1 DEF Sample
  <1>4. Honest(s.reading.metrics, s.caveats) /\ Scored("fault", s.reading.metrics)
    BY <1>2, <1>3, FaultTold
  <1>5. s.reading.evidence = NoEvidence
    BY <1>3 DEF FaultReading, Reading
  <1>6. {"oracle", "taskStatus"} \subseteq DOMAIN NoEvidence
    BY DEF NoEvidence
  <1> QED
    BY <1>2, <1>3, <1>4, <1>5, <1>6 DEF SampleOK

(* Whatever the behaviour probe may report of a service is honest.         *)
LEMMA BehaviorSamplesOK ==
  ASSUME ScanOK, NEW s \in BehaviorSamples
  PROVE  SampleOK("behavior", s)
  <1> DEFINE reading == ServiceReading(OracleSaid, result.ops, BaselineErrors, 20, 2, FALSE)
             c == ServiceCaveats(OracleSaid, result.ops, BaselineErrors, FALSE)
  <1>1. s = Sample(reading, c, FALSE)
    BY DEF BehaviorSamples
  <1>2. OracleSaid \in {"absent", "unattributed", "stale", "failed", "ok"}
    BY ServerIsOK DEF ServerOK, OracleSaid
  <1>3. Honest(reading.metrics, c) /\ Scored("behavior", reading.metrics)
    BY <1>2, BehaviorTold DEF ScanOK
  <1>4. {"oracle", "taskStatus"} \subseteq DOMAIN reading.evidence
    BY DEF ServiceReading, Inapplicable, NoEvidence
  <1>5. s.reading = reading /\ s.caveats = c /\ s.ops = <<>>
    BY <1>1 DEF Sample
  <1>6. <<>> \in Seq(OperationOK)
    BY EmptySeq
  <1> HIDE DEF reading, c
  <1> QED
    BY <1>3, <1>4, <1>5, <1>6 DEF SampleOK

(* Whatever it may report of an agent is honest, as assumed of the         *)
(* readings.                                                               *)
LEMMA AgentSamplesOK ==
  ASSUME NEW r \in AgentReadings
  PROVE  SampleOK("behavior", Sample(r.reading, AgentCaveats(r.reading, r.kind), TRUE))
  <1> DEFINE s == Sample(r.reading, AgentCaveats(r.reading, r.kind), TRUE)
             m == r.reading.metrics
  <1>1. AgentReadingOK(r)
    BY VerdictAssumption
  <1>2. Honest(m, AgentCaveats(r.reading, r.kind))
        /\ {"oracle", "taskStatus"} \subseteq DOMAIN r.reading.evidence
    BY <1>1 DEF AgentReadingOK
  <1>3. \A name : Metric([metrics |-> m], name) = Metric(r.reading, name)
    BY DEF Metric
  <1>4. Scored("behavior", m)
    BY <1>1, <1>3 DEF AgentReadingOK, Scored, ScoredNames
  <1>5. s.reading = r.reading /\ s.caveats = AgentCaveats(r.reading, r.kind) /\ s.ops = <<>>
    BY DEF Sample
  <1>6. <<>> \in Seq(OperationOK)
    BY EmptySeq
  <1> HIDE DEF s
  <1>7. SampleOK("behavior", s)
    BY <1>2, <1>4, <1>5, <1>6 DEF SampleOK
  <1> QED
    BY <1>7 DEF s

(* Whatever a probe brings back, of a service or of an agent.              *)
LEMMA SamplesOK ==
  ASSUME ScanOK, NEW probe \in Registered, NEW s \in Samples(probe) \cup {Contained}
  PROVE  SampleOK(probe, s)
  <1>1. CASE s = Contained
    BY <1>1, ContainedOK
  <1>2. CASE s # Contained /\ result.rule = "service"
    <2>1. s \in ServiceSamples(probe)
      BY <1>2 DEF Samples
    <2>2. probe \in {"latency", "cost", "concurrency", "contract", "agent_baseline",
                     "fault", "behavior"}
      BY DEF Registered, ServiceOnlyProbes
    <2> QED
      BY <1>2, <2>1, <2>2, ServiceSamplesAre, LatencySamplesOK, ConcurrencySamplesOK,
         CostSamplesOK, ContractSamplesOK, FaultSamplesOK, BehaviorSamplesOK
  <1>3. CASE s # Contained /\ result.rule # "service"
    <2>1. CASE probe = "behavior"
      <3>1. s \in {Sample(r.reading, AgentCaveats(r.reading, r.kind), TRUE) : r \in AgentReadings}
        BY <1>3, <2>1 DEF Samples
      <3> QED
        BY <2>1, <3>1, AgentSamplesOK
    <2>2. CASE probe # "behavior"
      <3>1. s = Sample(Reading(TRUE, <<>>), {}, FALSE)
        BY <1>3, <2>2 DEF Samples
      <3>2. /\ s.reading.metrics = <<>> /\ s.caveats = {}
            /\ s.reading.evidence = NoEvidence /\ s.ops = <<>>
        BY <3>1 DEF Sample, Reading
      <3>3. {"oracle", "taskStatus"} \subseteq DOMAIN NoEvidence
        BY DEF NoEvidence
      <3>4. <<>> \in Seq(OperationOK)
        BY EmptySeq
      <3> QED
        BY <1>3, <3>2, <3>3, <3>4, NothingTold DEF SampleOK
    <2> QED BY <2>1, <2>2
  <1> QED
    BY <1>1, <1>2, <1>3

(* The probes that were named, or the default ones, are registered.        *)
LEMMA ResolvedRegistered ==
  ASSUME NEW o \in Options, ~UsageError(o)
  PROVE  ResolveProbes(o) \in Seq(Registered)
  <1>1. o.probes \in Seq(STRING)
    BY VerdictAssumption
  <1>2. \A i \in DOMAIN o.probes : o.probes[i] \in Registered
    BY DEF UsageError
  <1>3. o.probes \in Seq(Registered)
    <2> DEFINE q == o.probes
    <2>1. Len(q) \in Nat /\ DOMAIN q = 1..Len(q) /\ q = [i \in 1..Len(q) |-> q[i]]
      BY <1>1, LenProperties
    <2>2. \A i \in 1..Len(q) : q[i] \in Registered
      BY <1>2, <2>1
    <2> HIDE DEF q
    <2>3. q \in [1..Len(q) -> Registered]
      BY <2>1, <2>2
    <2>4. q \in Seq(Registered)
      BY <2>1, <2>3
    <2> QED BY <2>4 DEF q
  <1>4. DefaultProbes \in Seq(Registered) /\ AgentProbes \in Seq(Registered)
    BY DEF DefaultProbes, AgentProbes, Registered, ServiceOnlyProbes
  <1> QED
    BY <1>3, <1>4 DEF ResolveProbes

(* The probes that run are registered ones.                                *)
LEMMA RunOrderRegistered ==
  ASSUME NEW o \in Options, ~UsageError(o)
  PROVE  RunOrder(o) \in Seq(Registered)
  <1> DEFINE probes == ResolveProbes(o)
  <1>1. probes \in Seq(Registered)
    BY ResolvedRegistered
  <1> HIDE DEF probes
  <1>2. ASSUME NEW phase PROVE InPhase(probes, phase) \in Seq(Registered)
    <2> DEFINE picks == [i \in DOMAIN probes |->
                           IF PhaseOf(probes[i]) = phase THEN <<probes[i]>> ELSE <<>>]
    <2>1. Len(probes) \in Nat /\ DOMAIN probes = 1..Len(probes)
      BY <1>1, LenProperties
    <2>2. \A i \in 1..Len(probes) : probes[i] \in Registered
      BY <1>1, ElementOfSeq
    <2>3. \A e \in Registered : <<e>> \in Seq(Registered)
      OBVIOUS
    <2>4. <<>> \in Seq(Registered)
      BY EmptySeq
    <2>5. \A i \in 1..Len(probes) : picks[i] \in Seq(Registered)
      BY <2>1, <2>2, <2>3, <2>4
    <2>6. picks \in [1..Len(probes) -> Seq(Registered)]
      BY <2>1, <2>2, <2>3, <2>4
    <2>7. InPhase(probes, phase) = FlattenSeq(picks)
      BY DEF InPhase
    <2> HIDE DEF picks
    <2>8. picks \in Seq(Seq(Registered))
      BY <2>1, <2>6
    <2> QED BY <2>7, <2>8, FlattenIsSeq
  <1> DEFINE chosen(phase) == IF phase \in o.phases THEN InPhase(probes, phase) ELSE <<>>
  <1>3. ASSUME NEW phase PROVE chosen(phase) \in Seq(Registered)
    BY <1>2, EmptySeq
  <1>4. RunOrder(o) = chosen(Phases[1]) \o chosen(Phases[2]) \o chosen(Phases[3])
    BY DEF RunOrder, probes
  <1> HIDE DEF chosen
  <1>5. chosen(Phases[1]) \o chosen(Phases[2]) \in Seq(Registered)
    BY <1>3, ConcatProperties
  <1> QED
    BY <1>3, <1>4, <1>5, ConcatProperties

Readings ==
    \A i \in DOMAIN result.probes :
        /\ DOMAIN result.probes[i] = EntryFields
        /\ EntryOK(result.probes[i])
        /\ result.probes[i].probe = "contract" /\ result.rule = "service" =>
              result.probes[i].metrics \in
                  {<<>>, ContractReading(server.tools, ContractRecord).metrics}

(* What has been reported so far is what the probes could have found, and  *)
(* the report, once there is one, is made of the whole of it.              *)
ScanInv ==
    /\ ScanOK
    /\ DOMAIN result = ResultFields
    /\ result.rule = RuleOf(opts)
    /\ {"oracle", "taskStatus"} \subseteq DOMAIN result.evidence
    /\ IsSequence(result.probes)
    /\ Readings
    /\ todo \in Seq(Registered)
    /\ report = NoReport \/ (stage \in {"reporting", "done"} /\ report = Evaluate(result, policy))
    /\ stage = "reporting" => report = Evaluate(result, policy)

(* A scan that has reported nothing satisfies the invariant.               *)
LEMMA ScanInvInit == Init => ScanInv
  <1> SUFFICES ASSUME Init PROVE ScanInv
    OBVIOUS
  <1>1. result = [probes |-> <<>>, selected |-> {}, expected |-> {}, rule |-> RuleOf(opts),
                  ops |-> <<>>, asked |-> opts.verify_tool \/ opts.verify_command,
                  evidence |-> NoEvidence]
    BY DEF Init
  <1>2. DOMAIN result = ResultFields /\ result.rule = RuleOf(opts) /\ result.probes = <<>>
        /\ result.ops = <<>> /\ result.evidence = NoEvidence
    BY <1>1 DEF ResultFields
  <1>3. {"oracle", "taskStatus"} \subseteq DOMAIN NoEvidence
    BY DEF NoEvidence
  <1>4. IsSequence(<<>>) /\ <<>> \in Seq(OperationOK) /\ <<>> \in Seq(Registered)
    BY ShortIsSequence, EmptySeq
  <1>5. Readings
    BY <1>2 DEF Readings
  <1>6. opts \in Options /\ policy \in Policies /\ server \in Servers(opts)
        /\ stage = "parse" /\ todo = <<>> /\ report = NoReport
    BY DEF Init
  <1> QED
    BY <1>2, <1>3, <1>4, <1>5, <1>6 DEF ScanInv, ScanOK

(* A step that leaves the command, the policy, the server and the result   *)
(* alone.                                                                  *)
LEMMA ResultKept ==
  ASSUME ScanInv, UNCHANGED <<opts, policy, server, result>>
  PROVE  /\ ScanOK' /\ (DOMAIN result = ResultFields)' /\ (result.rule = RuleOf(opts))'
         /\ ({"oracle", "taskStatus"} \subseteq DOMAIN result.evidence)'
         /\ IsSequence(result.probes)' /\ Readings'
         /\ Evaluate(result, policy)' = Evaluate(result, policy)
  <1>1. ScanOK'
    BY DEF ScanInv, ScanOK
  <1>2. ContractRecord' = ContractRecord
    BY DEF ContractRecord, Outcome, Dead
  <1>3. Readings'
    BY <1>2 DEF ScanInv, Readings
  <1>4. RuleOf(opts)' = RuleOf(opts)
    BY DEF RuleOf
  <1> QED
    BY <1>1, <1>3, <1>4 DEF ScanInv

(* A probe's report keeps it.                                              *)
LEMMA ReportKeepsInv == ScanInv /\ ProbeReports => ScanInv'
  <1> SUFFICES ASSUME ScanInv, ProbeReports PROVE ScanInv'
    OBVIOUS
  <1>1. /\ stage = "running" /\ todo # <<>> /\ todo' = Tail(todo)
        /\ stage' \in {"running", "scoring"}
        /\ UNCHANGED <<opts, policy, server, report>>
    BY DEF ProbeReports
  <1> DEFINE probe == Head(todo)
  <1>2. PICK s \in Samples(probe) \cup {Contained} :
          result' = [result EXCEPT
            !.probes = Append(result.probes, Entry(probe, s)),
            !.ops = IF probe = "fault" THEN s.ops ELSE result.ops,
            !.evidence = IF probe = "behavior" THEN s.reading.evidence ELSE result.evidence]
    BY DEF ProbeReports, Entry, ScanInv, ResultFields
  <1>3. probe \in Registered /\ todo' \in Seq(Registered)
    BY <1>1, HeadTailProperties DEF ScanInv
  <1> HIDE DEF probe
  <1>4. SampleOK(probe, s)
    BY <1>2, <1>3, SamplesOK DEF ScanInv
  <1>5. /\ DOMAIN result' = ResultFields /\ result'.rule = result.rule
        /\ result'.probes = Append(result.probes, Entry(probe, s))
        /\ result'.ops = IF probe = "fault" THEN s.ops ELSE result.ops
        /\ result'.evidence = IF probe = "behavior" THEN s.reading.evidence ELSE result.evidence
    BY <1>2 DEF ScanInv, ResultFields
  <1>6. ScanOK'
    BY <1>1, <1>4, <1>5 DEF ScanInv, ScanOK, SampleOK
  <1>7. ({"oracle", "taskStatus"} \subseteq DOMAIN result.evidence)'
    BY <1>4, <1>5 DEF ScanInv, SampleOK
  <1>8. (result.rule = RuleOf(opts))'
    BY <1>1, <1>5 DEF ScanInv, RuleOf
  <1>9. ContractRecord' = ContractRecord
    BY <1>1 DEF ContractRecord, Outcome, Dead
  <1> DEFINE contract == ContractReading(server.tools, ContractRecord).metrics
  <1>10. (ContractReading(server.tools, ContractRecord).metrics)' = contract
    BY <1>1, <1>9
  <1> HIDE DEF contract
  <1> DEFINE e == Entry(probe, s)
  <1>11. /\ DOMAIN e = EntryFields /\ EntryOK(e)
         /\ e.probe = "contract" /\ result.rule = "service" => e.metrics \in {<<>>, contract}
    BY <1>3, <1>4 DEF Entry, EntryFields, EntryOK, SampleOK, contract
  <1>12. /\ IsSequence(Append(result.probes, e))
         /\ \A i \in DOMAIN Append(result.probes, e) :
               \/ i \in DOMAIN result.probes /\ Append(result.probes, e)[i] = result.probes[i]
               \/ Append(result.probes, e)[i] = e
    BY AppendIsSequence DEF ScanInv
  <1>13. \A i \in DOMAIN result.probes :
            /\ DOMAIN result.probes[i] = EntryFields /\ EntryOK(result.probes[i])
            /\ result.probes[i].probe = "contract" /\ result.rule = "service" =>
                  result.probes[i].metrics \in {<<>>, contract}
    BY DEF ScanInv, Readings, contract
  <1> HIDE DEF e
  <1>14. \A i \in DOMAIN result'.probes :
            /\ DOMAIN result'.probes[i] = EntryFields /\ EntryOK(result'.probes[i])
            /\ result'.probes[i].probe = "contract" /\ result'.rule = "service" =>
                  result'.probes[i].metrics \in {<<>>, contract}
    BY <1>5, <1>11, <1>12, <1>13 DEF e
  <1>15. Readings'
    BY <1>10, <1>14 DEF Readings
  <1>16. IsSequence(result.probes)'
    BY <1>5, <1>12 DEF e
  <1>17. report' = NoReport
    BY <1>1 DEF ScanInv
  <1> QED
    BY <1>1, <1>3, <1>5, <1>6, <1>7, <1>8, <1>15, <1>16, <1>17 DEF ScanInv

(* The invariant survives every step from the command line to the exit     *)
(* code.                                                                   *)
LEMMA ScanInvStep == ScanInv /\ [Next]_vars => ScanInv'
  <1> SUFFICES ASSUME ScanInv, [Next]_vars PROVE ScanInv'
    OBVIOUS
  <1>1. CASE RefuseUsage
    <2>1. UNCHANGED <<opts, policy, server, result, todo, report>>
          /\ stage = "parse" /\ stage' = "done"
      BY <1>1 DEF RefuseUsage, Exit
    <2> QED BY <2>1, ResultKept DEF ScanInv
  <1>2. CASE Start
    <2>1. /\ UNCHANGED <<opts, policy, server, report>>
          /\ ~UsageError(opts) /\ todo' = RunOrder(opts)
          /\ stage = "parse" /\ stage' = "setup"
      BY <1>2 DEF Start
    <2>2. PICK a, b : result' = [result EXCEPT !.selected = a, !.expected = b]
      BY <1>2 DEF Start
    <2>3. /\ DOMAIN result' = ResultFields /\ result'.rule = result.rule
          /\ result'.probes = result.probes /\ result'.ops = result.ops
          /\ result'.evidence = result.evidence
      BY <2>2 DEF ScanInv, ResultFields
    <2>4. ScanOK'
      BY <2>1, <2>3 DEF ScanInv, ScanOK
    <2>5. ContractRecord' = ContractRecord
      BY <2>1 DEF ContractRecord, Outcome, Dead
    <2>6. Readings'
      BY <2>1, <2>3, <2>5 DEF ScanInv, Readings
    <2>7. (result.rule = RuleOf(opts))'
      BY <2>1, <2>3 DEF ScanInv, RuleOf
    <2>8. todo' \in Seq(Registered)
      BY <2>1, RunOrderRegistered DEF ScanInv, ScanOK
    <2>9. report' = NoReport
      BY <2>1 DEF ScanInv
    <2> QED BY <2>1, <2>3, <2>4, <2>6, <2>7, <2>8, <2>9 DEF ScanInv
  <1>3. CASE TargetRefuses \/ RefuseUnusableBaseline \/ Escapes
    <2>1. UNCHANGED <<opts, policy, server, result, todo, report>>
          /\ stage \in {"setup", "running"} /\ stage' = "done"
      BY <1>3 DEF TargetRefuses, RefuseUnusableBaseline, Escapes, Refuse, Exit
    <2> QED BY <2>1, ResultKept DEF ScanInv
  <1>4. CASE SetUp \/ NothingToRun
    <2>1. UNCHANGED <<opts, policy, server, result, todo, report>>
          /\ stage \in {"setup", "running"} /\ stage' \in {"running", "scoring"}
      BY <1>4 DEF SetUp, NothingToRun
    <2> QED BY <2>1, ResultKept DEF ScanInv
  <1>5. CASE ProbeReports
    BY <1>5, ReportKeepsInv
  <1>6. CASE Score
    <2>1. UNCHANGED <<opts, policy, server, result, todo>>
          /\ stage' = "reporting" /\ report' = Evaluate(result, policy)
      BY <1>6 DEF Score
    <2> QED BY <2>1, ResultKept DEF ScanInv
  <1>7. CASE CiExits \/ ScanExits
    <2>1. UNCHANGED <<opts, policy, server, result, todo, report>>
          /\ stage = "reporting" /\ stage' = "done"
      BY <1>7 DEF CiExits, ScanExits, Exit
    <2> QED BY <2>1, ResultKept DEF ScanInv
  <1>8. CASE UNCHANGED vars
    <2>1. UNCHANGED <<opts, policy, server, result, todo, report, stage>>
      BY <1>8 DEF vars
    <2> QED BY <2>1, ResultKept DEF ScanInv
  <1> QED
    BY <1>1, <1>2, <1>3, <1>4, <1>5, <1>6, <1>7, <1>8 DEF Next

(* What a scan holds is what its probes could have found of this server or *)
(* this agent, in the order they were asked for, and its report is made of *)
(* all of it (scanner.py run, policy.py evaluate).                         *)
THEOREM ScanInvCorrect == Spec => []ScanInv
  BY ScanInvInit, ScanInvStep, PTL DEF Spec

(* A caveat that says its metric is withheld and the number it speaks of   *)
(* are computed apart; the number is withheld, whatever the server answers *)
(* (probes/*.py _caveats, docs/API-STABILITY.md:86-88).                    *)
THEOREM SuppressedIsNoneAlways == Spec => []SuppressedIsNone
  <1>1. ScanInv => SuppressedIsNone
    BY DEF ScanInv, Readings, EntryOK, SuppressedIsNone
  <1> QED
    BY <1>1, ScanInvCorrect, PTL

(* A duplicate is not got rid of by not reading it: the same scan with its *)
(* oracle stale or failed would not have passed (policy.py evaluate,       *)
(* verify_not_measured, agent_verdict_blocker).                            *)
THEOREM UnreadDuplicatesNeverPassAlways == Spec => []UnreadDuplicatesNeverPass
  <1>1. ScanInv => UnreadDuplicatesNeverPass
    <2> DEFINE at == FirstOf(result, "behavior")
    <2> SUFFICES ASSUME ScanInv, result.asked, at # 0, NEW status \in {"stale", "failed"}
                 PROVE  Evaluate(Unread(result, at, status), policy).passed # "yes"
      BY DEF UnreadDuplicatesNeverPass
    <2> DEFINE u == Unread(result, at, status)
    <2>1. Shaped(result)
      BY DEF ScanInv, Readings, Shaped
    <2>2. at \in DOMAIN result.probes /\ Places(result, "behavior") # {}
      <3>1. Places(result, "behavior") # {} /\ at = Min(Places(result, "behavior"))
        BY DEF FirstOf
      <3>2. Places(result, "behavior") \subseteq DOMAIN result.probes
        BY DEF Places
      <3>3. DOMAIN result.probes \in SUBSET Nat
        BY SequenceLen DEF ScanInv
      <3>4. Min(Places(result, "behavior")) \in Places(result, "behavior")
        BY <3>1, <3>2, <3>3, MinIsIn
      <3> QED BY <3>1, <3>2, <3>4
    <2> HIDE DEF at
    <2>3. /\ u.asked = result.asked /\ u.rule = result.rule
          /\ Places(u, "behavior") = Places(result, "behavior")
          /\ result.rule = "service" => u.evidence.oracle = status
          /\ result.rule # "service" =>
                u.evidence.taskStatus = result.evidence.taskStatus \cup {status}
      BY <2>1, <2>2, UnreadIsUnread
    <2> HIDE DEF u
    <2>4. CASE result.rule = "service"
      <3>1. VerifyNotMeasured(u)
        BY <2>2, <2>3, <2>4 DEF VerifyNotMeasured
      <3>2. Evaluate(u, policy).passed # "yes"
        BY <2>3, <2>4, <3>1, DeclinedNeverPasses
      <3> QED BY <3>2 DEF u
    <2>5. CASE result.rule # "service"
      <3>1. u.rule = "agent_behavior"
        BY <2>3, <2>5 DEF ScanInv, RuleOf
      <3>2. u.evidence.taskStatus # {} /\ u.evidence.taskStatus # {"ok"}
        BY <2>3, <2>5
      <3>3. \A b : AgentVerdictBlocker(u, b) # "none"
        BY <3>1, <3>2, UnreadTaskBlocks
      <3>4. Evaluate(u, policy).passed # "yes"
        BY <3>1, <3>3, BlockedNeverPasses
      <3> QED BY <3>4 DEF u
    <2> QED BY <2>4, <2>5
  <1> QED
    BY <1>1, ScanInvCorrect, PTL

-----------------------------------------------------------------------------
(* What a tool is blamed for.                                              *)

(* The i-th entry of the contract probe's record.                          *)
LEMMA RecordEntries ==
  ASSUME ScanOK, NEW i \in DOMAIN ContractRecord
  PROVE  LET r == ContractRecord
         IN  /\ r[i].control = IF Dead(2 * i - 1) THEN "crashed"
                               ELSE IF server.rejects THEN "rejected" ELSE "accepted"
             /\ \E q : r[i].case = q.case /\ r[i].outcome = Outcome(q, 2 * i)
  <1> DEFINE asked == Questions(Covered(server.tools, 3, opts.allow_mutating), server.real)
  <1>1. ContractRecord = [k \in DOMAIN asked |->
            [tool |-> asked[k].tool, required |-> asked[k].required,
             case |-> asked[k].case, carries |-> asked[k].carries,
             control |-> IF Dead(2 * k - 1) THEN "crashed"
                         ELSE IF server.rejects THEN "rejected" ELSE "accepted",
             outcome |-> Outcome(asked[k], 2 * k)]]
    BY DEF ContractRecord
  <1> HIDE DEF asked
  <1>2. ContractRecord[i] =
            [tool |-> asked[i].tool, required |-> asked[i].required,
             case |-> asked[i].case, carries |-> asked[i].carries,
             control |-> IF Dead(2 * i - 1) THEN "crashed"
                         ELSE IF server.rejects THEN "rejected" ELSE "accepted",
             outcome |-> Outcome(asked[i], 2 * i)]
    BY <1>1
  <1> QED
    BY <1>2

(* A tool that lets nothing malformed through is not said to have accepted *)
(* any.                                                                    *)
LEMMA NothingWronglyAccepted ==
  ASSUME ScanOK, server.lax = {}
  PROVE  AcceptedInvalid(ContractRecord) \in {Missing, 0}
  <1> DEFINE r == ContractRecord
  <1>1. WronglyAccepted(r) = {}
    <2> SUFFICES ASSUME NEW i \in WronglyAccepted(r) PROVE FALSE
      OBVIOUS
    <2>1. i \in DOMAIN r /\ r[i].case.should_reject /\ r[i].outcome = "accepted"
      BY DEF WronglyAccepted, Scoreable, Where
    <2>2. PICK q : r[i].case = q.case /\ r[i].outcome = Outcome(q, 2 * i)
      BY <2>1, RecordEntries
    <2>3. Outcome(q, 2 * i) \in {"crashed", "rejected"}
      BY <2>1, <2>2 DEF Outcome
    <2> QED BY <2>1, <2>2, <2>3
  <1> HIDE DEF r
  <1>2. Cardinality({}) = 0
    BY FS_EmptySet
  <1>3. AcceptedInvalid(r) \in {Missing, 0}
    BY <1>1, <1>2 DEF AcceptedInvalid
  <1> QED
    BY <1>3 DEF r

(* A tool that dies of nothing is not said to have crashed, wherever its   *)
(* session ends but in the last call.                                      *)
LEMMA NothingCrashed ==
  ASSUME ScanOK, server.fragile = {}, server.dies # 2 * Len(ContractRecord)
  PROVE  CrashRate(ContractRecord) \in {Missing, 0}
  <1> DEFINE r == ContractRecord
             n == Len(r)
  <1>1. IsSequence(r) /\ n \in Nat /\ DOMAIN r = 1..n
    BY RecordIsSequence, SequenceLen
  <1>2. server.dies \in Nat
    BY ServerIsOK DEF ServerOK
  <1>3. ASSUME ControlClean(r) PROVE Crashed(r) = {} /\ n >= 1
    <2>1. r # <<>> /\ Undelivered(r) = {}
      BY <1>3 DEF ControlClean
    <2>2. n >= 1
      BY <1>1, <2>1, EmptySeq DEF IsSequence
    <2>3. n \in DOMAIN r
      BY <1>1, <2>2
    <2>4. r[n].control # "crashed"
      BY <2>1, <2>3 DEF Undelivered, Where
    <2>5. ~Dead(2 * n - 1)
      BY <2>3, <2>4, RecordEntries
    <2>6. server.dies # 0 => 2 * n - 1 < server.dies
      BY <1>1, <1>2, <2>5 DEF Dead
    <2>7. ASSUME NEW i \in Crashed(r) PROVE FALSE
      <3>1. i \in 1..n /\ r[i].outcome = "crashed"
        BY <1>1 DEF Crashed, Where
      <3>2. PICK q : r[i].outcome = Outcome(q, 2 * i)
        BY <1>1, <3>1, RecordEntries
      <3>3. Dead(2 * i)
        BY <3>1, <3>2 DEF Outcome
      <3>4. server.dies # 0 /\ 2 * i >= server.dies
        BY <3>3 DEF Dead
      <3>5. \A k \in 1..n : 2 * k <= 2 * n
        BY <1>1
      <3>6. server.dies # 2 * n
        OBVIOUS
      <3> HIDE DEF n
      <3> QED BY <1>1, <1>2, <2>6, <3>1, <3>4, <3>5, <3>6
    <2> QED BY <2>2, <2>7
  <1> HIDE DEF r, n
  <1>4. \A b \in Nat : b >= 1 => (100 * 0) \div b = 0
    BY SMT
  <1>5. Cardinality({}) = 0
    BY FS_EmptySet
  <1>6. CrashRate(r) \in {Missing, 0}
    <2>1. CASE ControlClean(r)
      <3>1. CrashRate(r) = (100 * 0) \div n
        BY <1>3, <1>5, <2>1 DEF CrashRate, n
      <3> QED BY <1>1, <1>3, <1>4, <2>1, <3>1
    <2>2. CASE ~ControlClean(r)
      BY <2>2 DEF CrashRate
    <2> QED BY <2>1, <2>2
  <1> QED
    BY <1>6 DEF r

(* The entry a probe's metrics are read from is that probe's.              *)
LEMMA LastIsAPlace ==
  ASSUME NEW r, IsSequence(r.probes), NEW name
  PROVE  LET at == LastOf(r, name)
         IN  at # 0 => at \in DOMAIN r.probes /\ r.probes[at].probe = name
  <1>1. Len(r.probes) \in Nat /\ DOMAIN r.probes = 1..Len(r.probes)
    BY SequenceLen
  <1>2. Places(r, name) \in SUBSET (1..Len(r.probes))
    BY <1>1 DEF Places
  <1>3. Places(r, name) # {} => Max(Places(r, name)) \in Places(r, name)
    BY <1>1, <1>2, MaxIsIn
  <1> QED
    BY <1>3 DEF LastOf, Places

(* A policy's thresholds are numbers and name scored metrics.              *)
LEMMA ThresholdIsNat ==
  ASSUME NEW p, PolicyLoads(p), NEW name \in Specs(p)
  PROVE  name \in ScoredNames /\ p.thresholds[name] \in Nat
  BY DEF PolicyLoads, Specs, ScoredNames

(* A tool that validates what its schema declares and survives what it is  *)
(* sent fails no contract check, wherever its session ends but in the last *)
(* malformed call of all (contract.py _compute_metrics, Control.clean).    *)
THEOREM HonestToolNotBlamedAlways == Spec => []HonestToolNotBlamed
  <1>1. ScanInv => HonestToolNotBlamed
    <2> SUFFICES ASSUME ScanInv, result.rule = "service", server.lax = {}, server.fragile = {},
                        server.dies # 2 * Len(ContractRecord),
                        NEW c \in Failed(report.checks), c.probe = "contract"
                 PROVE  FALSE
      BY DEF HonestToolNotBlamed
    <2>0. ScanOK /\ IsSequence(result.probes)
      BY DEF ScanInv
    <2>1. report.checks = Checks(result, policy)
      <3>1. report # NoReport
        BY DEF Failed, NoReport
      <3> QED BY <3>1 DEF ScanInv, Evaluate
    <2>2. PICK name \in Specs(policy) : c = ScoreCheck(result, policy, name)
      BY <2>1 DEF Failed, Checks
    <2>3. ~c.passed /\ ~c.skipped
      BY DEF Failed
    <2> DEFINE spec == ThresholdSpecs[name]
               at == LastOf(result, spec.probe)
               seen == Observed(result, at, spec)
               t == ThresholdFor(result, policy, name, at)
    <2>4. c.probe = spec.probe /\ c.skipped = (seen = Missing)
          /\ c.passed = (seen = Missing \/ Meets(spec.direction, t, seen))
      BY <2>2 DEF ScoreCheck
    <2>5. name \in ScoredNames /\ policy.thresholds[name] \in Nat
      BY <2>0, ServerIsOK, ThresholdIsNat
    <2>6. /\ name \in {"contract_crash_rate_max", "contract_invalid_accepted_max"}
          /\ spec.probe = "contract" /\ spec.direction = "max"
          /\ spec.metric = IF name = "contract_crash_rate_max" THEN "crash_rate"
                           ELSE "accepted_invalid"
      BY <2>4, <2>5 DEF ScoredNames, ThresholdSpecs, Reads
    <2>7. t = policy.thresholds[name]
      BY <2>6 DEF ThresholdFor, DerivedFrom
    <2> HIDE DEF t, spec
    <2>8. seen # Missing /\ ~(seen <= t)
      BY <2>3, <2>4, <2>6 DEF Meets
    <2>9. at # 0 /\ seen = Metric(result.probes[at], spec.metric)
      BY <2>8 DEF Observed
    <2> DEFINE m == result.probes[at].metrics
    <2>10. at \in DOMAIN result.probes /\ result.probes[at].probe = "contract"
      BY <2>0, <2>6, <2>9, LastIsAPlace
    <2> HIDE DEF seen, at
    <2>11. m \in {<<>>, ContractReading(server.tools, ContractRecord).metrics}
      BY <2>10 DEF ScanInv, Readings
    <2>12. /\ spec.metric = "crash_rate" =>
                 seen \in {Missing, CrashRate(ContractRecord)}
           /\ spec.metric = "accepted_invalid" =>
                 seen \in {Missing, AcceptedInvalid(ContractRecord)}
      BY <2>9, <2>11 DEF Metric, ContractReading, Inapplicable, Reading
    <2>13. seen = 0
      BY <2>0, <2>6, <2>8, <2>12, NothingCrashed, NothingWronglyAccepted
    <2> QED BY <2>5, <2>7, <2>8, <2>13
  <1> QED
    BY <1>1, ScanInvCorrect, PTL

-----------------------------------------------------------------------------
(* A worse measurement.                                                    *)

WorseValue(direction, seen) == IF direction = "min" THEN seen - 1 ELSE seen + 1

(* Whole division by a positive number is monotone.                        *)
LEMMA Division ==
  /\ \A a, b \in Int, t \in Nat : t >= 1 /\ a <= b => a \div t <= b \div t
  /\ \A a \in Int, t \in Nat : t >= 1 => a \div t \in Int
  /\ \A a, t \in Nat : t >= 1 => a \div t \in Nat
  /\ \A t \in Nat : t >= 1 => (100 * t) \div t = 100
  <1>1. \A a \in Int, t \in Nat : t >= 1 => a \div t \in Int
    BY SMT
  <1>2. \A a, t \in Nat : t >= 1 => a \div t \in Nat
    BY SMT
  <1>3. \A t \in Nat : t >= 1 => (100 * t) \div t = 100
    BY SMT
  <1>4. \A a, b \in Int, t \in Nat : t >= 1 /\ a <= b => a \div t <= b \div t
    BY SMT
  <1> QED BY <1>1, <1>2, <1>3, <1>4

(* A check's score is a number.                                            *)
LEMMA ScoreIsNat ==
  ASSUME NEW direction \in {"max", "min"}, NEW t \in Nat, NEW seen \in Nat
  PROVE  ScoreValue(direction, t, seen) \in Nat
  <1>1. t >= 1 => (100 * (2 * t - seen)) \div t \in Int
    BY Division
  <1>2. t >= 1 => (100 * seen) \div t \in Nat
    BY Division
  <1> QED
    BY <1>1, <1>2 DEF ScoreValue, AtLeastZero

(* Past the limit the curve is below full credit, and it falls.            *)
LEMMA ScoreFalls ==
  ASSUME NEW direction \in {"max", "min"}, NEW t \in Nat, NEW seen \in Nat,
         direction = "min" => seen > 0
  PROVE  LET worse == WorseValue(direction, seen)
         IN  /\ worse \in Nat
             /\ ScoreValue(direction, t, worse) <= ScoreValue(direction, t, seen)
             /\ Meets(direction, t, worse) => Meets(direction, t, seen)
  <1> DEFINE worse == WorseValue(direction, seen)
  <1>1. worse \in Nat
    BY DEF WorseValue
  <1>2. Meets(direction, t, worse) => Meets(direction, t, seen)
    BY DEF WorseValue, Meets
  <1>3. CASE direction = "max"
    <2>1. worse = seen + 1
      BY <1>3 DEF WorseValue
    <2> DEFINE past(o) == (100 * (2 * t - o)) \div t
    <2>2. \A o : ScoreValue("max", t, o) = IF o <= t THEN 100 ELSE IF t = 0 THEN 0
                                          ELSE AtLeastZero(past(o))
      BY DEF ScoreValue
    <2>3. t >= 1 => past(seen + 1) <= past(seen) /\ past(seen + 1) \in Int /\ past(seen) \in Int
      <3>1. 100 * (2 * t - (seen + 1)) <= 100 * (2 * t - seen)
        OBVIOUS
      <3>2. 100 * (2 * t - (seen + 1)) \in Int /\ 100 * (2 * t - seen) \in Int
        OBVIOUS
      <3> DEFINE a == 100 * (2 * t - (seen + 1))
                 b == 100 * (2 * t - seen)
      <3>3. a <= b /\ a \in Int /\ b \in Int
        BY <3>1, <3>2
      <3> HIDE DEF a, b
      <3>4. t >= 1 => a \div t <= b \div t /\ a \div t \in Int /\ b \div t \in Int
        BY <3>3, Division
      <3> QED BY <3>4 DEF a, b
    <2>4. t >= 1 /\ seen + 1 > t => past(seen + 1) <= 100
      <3> DEFINE a == 100 * (2 * t - (seen + 1))
                 b == 100 * t
      <3>1. a \in Int /\ b \in Int /\ (seen + 1 > t => a <= b)
        OBVIOUS
      <3> HIDE DEF a, b
      <3>2. t >= 1 /\ seen + 1 > t => a \div t <= b \div t
        BY <3>1, Division
      <3>3. t >= 1 => b \div t = 100
        BY Division DEF b
      <3> QED BY <3>2, <3>3 DEF a
    <2> HIDE DEF past
    <2>5. ScoreValue("max", t, seen + 1) <= ScoreValue("max", t, seen)
      BY <2>2, <2>3, <2>4 DEF AtLeastZero
    <2> QED BY <1>1, <1>2, <1>3, <2>1, <2>5
  <1>4. CASE direction = "min"
    <2>1. worse = seen - 1
      BY <1>4 DEF WorseValue
    <2> DEFINE short(o) == (100 * o) \div t
    <2>2. \A o : ScoreValue("min", t, o) = IF o >= t \/ t = 0 THEN 100 ELSE short(o)
      BY DEF ScoreValue
    <2>3. t >= 1 => /\ short(seen - 1) <= short(seen) /\ short(seen - 1) \in Int
                    /\ short(seen) \in Int
      <3> DEFINE a == 100 * (seen - 1)
                 b == 100 * seen
      <3>1. a \in Int /\ b \in Int /\ a <= b
        OBVIOUS
      <3> HIDE DEF a, b
      <3>2. t >= 1 => a \div t <= b \div t /\ a \div t \in Int /\ b \div t \in Int
        BY <3>1, Division
      <3> QED BY <3>2 DEF a, b
    <2>4. t >= 1 /\ seen - 1 < t => short(seen - 1) <= 100
      <3> DEFINE a == 100 * (seen - 1)
                 b == 100 * t
      <3>1. a \in Int /\ b \in Int /\ (seen - 1 < t => a <= b)
        OBVIOUS
      <3> HIDE DEF a, b
      <3>2. t >= 1 /\ seen - 1 < t => a \div t <= b \div t
        BY <3>1, Division
      <3>3. t >= 1 => b \div t = 100
        BY Division DEF b
      <3> QED BY <3>2, <3>3 DEF a
    <2> HIDE DEF short
    <2>5. ScoreValue("min", t, seen - 1) <= ScoreValue("min", t, seen)
      BY <2>2, <2>3, <2>4
    <2> QED BY <1>1, <1>2, <1>4, <2>1, <2>5
  <1> QED
    BY <1>3, <1>4

-----------------------------------------------------------------------------
(* What a check reads is a number.                                         *)

Readable(r) ==
    /\ DOMAIN r = ResultFields
    /\ IsSequence(r.probes)
    /\ \A i \in DOMAIN r.probes :
          /\ DOMAIN r.probes[i] = EntryFields
          /\ Scored(r.probes[i].probe, r.probes[i].metrics)

(* What a check looks at is a number or withheld.                          *)
LEMMA ObservedIsNumber ==
  ASSUME NEW r, Readable(r), NEW name \in ScoredNames
  PROVE  LET spec == ThresholdSpecs[name]
         IN  Observed(r, LastOf(r, spec.probe), spec) \in MetricValue
  <1> DEFINE spec == ThresholdSpecs[name]
             at == LastOf(r, spec.probe)
  <1>1. at # 0 => at \in DOMAIN r.probes /\ r.probes[at].probe = spec.probe
    BY LastIsAPlace DEF Readable
  <1>2. at # 0 => Metric([metrics |-> r.probes[at].metrics], spec.metric) \in MetricValue
    BY <1>1 DEF Readable, Scored
  <1>3. at # 0 => Metric([metrics |-> r.probes[at].metrics], spec.metric) =
                    Metric(r.probes[at], spec.metric)
    BY DEF Metric
  <1> HIDE DEF at, spec
  <1>4. Observed(r, at, spec) \in MetricValue
    BY <1>2, <1>3, NumberOfNat DEF Observed
  <1> QED
    BY <1>4 DEF at, spec

(* What it is compared with is a number, the recovery floor included.      *)
LEMMA ThresholdIsNumber ==
  ASSUME NEW r, Readable(r), NEW p, PolicyLoads(p), NEW name \in Specs(p)
  PROVE  ThresholdFor(r, p, name, LastOf(r, ThresholdSpecs[name].probe)) \in Nat
  <1> DEFINE at == LastOf(r, ThresholdSpecs[name].probe)
             floor == Metric(r.probes[at], "recovery_floor")
  <1>1. p.thresholds[name] \in Nat
    BY ThresholdIsNat
  <1>2. ThresholdSpecs["recovery_rate_min"].probe = "behavior"
    BY DEF ThresholdSpecs, Reads
  <1>3. ASSUME at # 0, name = "recovery_rate_min" PROVE floor \in MetricValue
    <2>1. at \in DOMAIN r.probes /\ r.probes[at].probe = "behavior"
      BY <1>2, <1>3, LastIsAPlace DEF Readable
    <2>2. Metric([metrics |-> r.probes[at].metrics], "recovery_floor") \in MetricValue
      BY <2>1 DEF Readable, Scored
    <2> QED BY <2>2 DEF Metric
  <1>4. ThresholdFor(r, p, name, at) =
          IF name = "recovery_rate_min" /\ at # 0 /\ floor # Missing THEN floor
          ELSE p.thresholds[name]
    BY DEF ThresholdFor, DerivedFrom
  <1> HIDE DEF at, floor
  <1>5. ThresholdFor(r, p, name, at) \in Nat
    BY <1>1, <1>3, <1>4 DEF MetricValue
  <1> QED
    BY <1>5 DEF at

-----------------------------------------------------------------------------
(* The same scan, one metric worse.                                        *)

SameScan(r, w) ==
    /\ w.rule = r.rule /\ w.asked = r.asked /\ w.evidence = r.evidence
    /\ \A name : Places(w, name) = Places(r, name)
    /\ \A i \in DOMAIN r.probes : w.probes[i].applicable = r.probes[i].applicable

(* A result with one metric worsened differs in that metric and in nothing *)
(* else.                                                                   *)
LEMMA WorseIsSame ==
  ASSUME NEW r, Readable(r), NEW name \in ScoredNames, NEW at \in DOMAIN r.probes,
         ThresholdSpecs[name].metric \in DOMAIN r.probes[at].metrics
  PROVE  LET spec == ThresholdSpecs[name]
             w == Worse(r, at, name)
         IN  /\ SameScan(r, w)
             /\ Metric(w.probes[at], spec.metric) =
                    WorseValue(spec.direction, Metric(r.probes[at], spec.metric))
             /\ \A i \in DOMAIN r.probes : \A m :
                   i # at \/ m # spec.metric =>
                       Metric(w.probes[i], m) = Metric(r.probes[i], m)
  <1> DEFINE spec == ThresholdSpecs[name]
             w == Worse(r, at, name)
             v == WorseValue(spec.direction, Metric(r.probes[at], spec.metric))
  <1>1. /\ w.rule = r.rule /\ w.asked = r.asked /\ w.evidence = r.evidence
    BY DEF Worse, Readable, ResultFields
  <1>2. w.probes = [r.probes EXCEPT ![at].metrics[spec.metric] = v]
    BY DEF Worse, WorseValue, Readable, ResultFields
  <1> HIDE DEF w, v, spec
  <1>3. DOMAIN w.probes = DOMAIN r.probes
        /\ \A i \in DOMAIN r.probes : /\ w.probes[i].probe = r.probes[i].probe
                                      /\ w.probes[i].applicable = r.probes[i].applicable
    BY <1>2 DEF Readable, EntryFields
  <1>4. \A n : Places(w, n) = Places(r, n)
    BY <1>3 DEF Places
  <1>5. \A i \in DOMAIN r.probes : i # at => w.probes[i] = r.probes[i]
    BY <1>2
  <1>6. w.probes[at].metrics = [r.probes[at].metrics EXCEPT ![spec.metric] = v]
    BY <1>2 DEF Readable, EntryFields
  <1>7. spec.metric \in DOMAIN r.probes[at].metrics
    BY DEF spec
  <1>8. Metric(w.probes[at], spec.metric) = v
    BY <1>6, <1>7 DEF Metric
  <1>9. \A m : m # spec.metric => Metric(w.probes[at], m) = Metric(r.probes[at], m)
    BY <1>6 DEF Metric
  <1>10. \A i \in DOMAIN r.probes : \A m :
            i # at \/ m # spec.metric => Metric(w.probes[i], m) = Metric(r.probes[i], m)
    BY <1>5, <1>9 DEF Metric
  <1>11. SameScan(r, w)
    BY <1>1, <1>3, <1>4 DEF SameScan
  <1> QED
    BY <1>8, <1>10, <1>11 DEF w, v, spec

NoBetter(r, w, p) ==
    \A n \in Specs(p) :
        LET a == ScoreCheck(r, p, n)
            b == ScoreCheck(w, p, n)
        IN  /\ b.at = a.at /\ b.skipped = a.skipped
            /\ a.score \in Nat /\ b.score \in Nat /\ b.score <= a.score
            /\ b.passed => a.passed

(* No metric is scored twice.                                              *)
LEMMA OneMetricOneThreshold ==
  ASSUME NEW n \in ScoredNames, NEW k \in ScoredNames,
         ThresholdSpecs[n].probe = ThresholdSpecs[k].probe,
         ThresholdSpecs[n].metric = ThresholdSpecs[k].metric
  PROVE  n = k
  BY DEF ScoredNames, ThresholdSpecs, Reads

(* The recovery floor, which is a threshold, is no scored metric.          *)
LEMMA FloorIsNotScored ==
  ASSUME NEW n \in ScoredNames
  PROVE  ThresholdSpecs[n].metric # "recovery_floor" /\ ThresholdSpecs[n].direction \in {"max", "min"}
  BY DEF ScoredNames, ThresholdSpecs, Reads

(* A metric worsened scores no better on any check.                        *)
LEMMA WorseIsNoBetter ==
  ASSUME NEW r, Readable(r), NEW p, PolicyLoads(p), NEW name \in Specs(p),
         CanWorsen(r, LastOf(r, ThresholdSpecs[name].probe), ThresholdSpecs[name])
  PROVE  LET w == Worse(r, LastOf(r, ThresholdSpecs[name].probe), name)
         IN  SameScan(r, w) /\ NoBetter(r, w, p)
  <1> DEFINE spec == ThresholdSpecs[name]
             at == LastOf(r, spec.probe)
             w == Worse(r, at, name)
             seen == Observed(r, at, spec)
  <1>1. name \in ScoredNames
    BY ThresholdIsNat
  <1>2. seen \in MetricValue /\ seen # Missing /\ (spec.direction = "min" => seen > 0)
    BY <1>1, ObservedIsNumber DEF CanWorsen
  <1>3. at # 0 /\ r.probes[at].applicable /\ seen = Metric(r.probes[at], spec.metric)
    BY <1>2 DEF Observed, Missing
  <1>4. at \in DOMAIN r.probes /\ r.probes[at].probe = spec.probe
    BY <1>3, LastIsAPlace DEF Readable
  <1>5. spec.metric \in DOMAIN r.probes[at].metrics
    BY <1>2, <1>3 DEF Metric, Missing
  <1>6. /\ SameScan(r, w)
        /\ Metric(w.probes[at], spec.metric) = WorseValue(spec.direction, seen)
        /\ \A i \in DOMAIN r.probes : \A m :
              i # at \/ m # spec.metric => Metric(w.probes[i], m) = Metric(r.probes[i], m)
    BY <1>1, <1>3, <1>4, <1>5, WorseIsSame
  <1>7. seen \in Nat
    BY <1>2 DEF MetricValue, Missing
  <1> HIDE DEF w
  <1>8. \A n : LastOf(w, n) = LastOf(r, n)
    BY <1>6 DEF SameScan, LastOf
  <1>9. ASSUME NEW n \in Specs(p)
        PROVE  LET a == ScoreCheck(r, p, n)
                   b == ScoreCheck(w, p, n)
               IN  /\ b.at = a.at /\ b.skipped = a.skipped
                   /\ a.score \in Nat /\ b.score \in Nat /\ b.score <= a.score
                   /\ b.passed => a.passed
    <2> DEFINE sn == ThresholdSpecs[n]
               k == LastOf(r, sn.probe)
               x == Observed(r, k, sn)
               y == Observed(w, k, sn)
               t == ThresholdFor(r, p, n, k)
               tw == ThresholdFor(w, p, n, k)
               a == ScoreCheck(r, p, n)
               b == ScoreCheck(w, p, n)
    <2>1. n \in ScoredNames
      BY ThresholdIsNat
    <2>2. x \in MetricValue
      BY <2>1, ObservedIsNumber
    <2>3. t \in Nat
      BY ThresholdIsNumber
    <2>4. sn.direction \in {"max", "min"}
      BY <2>1, FloorIsNotScored
    <2>5. k # 0 => k \in DOMAIN r.probes
      BY LastIsAPlace DEF Readable
    <2>6. tw = t
      <3>1. k # 0 => Metric(w.probes[k], "recovery_floor") = Metric(r.probes[k], "recovery_floor")
        BY <1>1, <1>6, <2>5, FloorIsNotScored
      <3>2. n \in DOMAIN DerivedFrom => DerivedFrom[n] = "recovery_floor"
        BY DEF DerivedFrom
      <3> HIDE DEF k
      <3> QED BY <3>1, <3>2 DEF ThresholdFor
    <2>7. /\ a.at = k /\ a.skipped = (x = Missing)
          /\ a.score = IF x = Missing THEN 0 ELSE ScoreValue(sn.direction, t, x)
          /\ a.passed = (x = Missing \/ Meets(sn.direction, t, x))
      BY DEF ScoreCheck
    <2>8. /\ b.at = k /\ b.skipped = (y = Missing)
          /\ b.score = IF y = Missing THEN 0 ELSE ScoreValue(sn.direction, t, y)
          /\ b.passed = (y = Missing \/ Meets(sn.direction, t, y))
      <3>1. LastOf(w, sn.probe) = k
        BY <1>8
      <3>2. /\ b.at = k /\ b.skipped = (y = Missing)
            /\ b.score = IF y = Missing THEN 0 ELSE ScoreValue(sn.direction, tw, y)
            /\ b.passed = (y = Missing \/ Meets(sn.direction, tw, y))
        <4> HIDE DEF k
        <4> QED BY <3>1 DEF ScoreCheck
      <3> HIDE DEF b, y, t, tw, k
      <3> QED BY <2>6, <3>2
    <2>9. x = Missing \/ x \in Nat
      BY <2>2 DEF MetricValue
    <2>10. n # name => y = x
      <3>1. k # 0 => w.probes[k].applicable = r.probes[k].applicable
        BY <1>6, <2>5 DEF SameScan
      <3>2. n # name /\ k # 0 => k # at \/ sn.metric # spec.metric
        <4>1. k # 0 => r.probes[k].probe = sn.probe
          BY LastIsAPlace DEF Readable
        <4> HIDE DEF k, at
        <4> QED BY <1>1, <1>4, <2>1, <4>1, OneMetricOneThreshold
      <3>3. n # name /\ k # 0 => Metric(w.probes[k], sn.metric) = Metric(r.probes[k], sn.metric)
        BY <1>6, <2>5, <3>2
      <3> HIDE DEF k, sn
      <3> QED BY <3>1, <3>3 DEF Observed
    <2>11. n = name => x = seen /\ y = WorseValue(sn.direction, seen)
      <3>1. w.probes[at].applicable
        BY <1>3, <1>4, <1>6 DEF SameScan
      <3>2. n = name => k = at /\ sn = spec
        OBVIOUS
      <3>3. Observed(w, at, spec) = Metric(w.probes[at], spec.metric)
        BY <1>3, <3>1 DEF Observed
      <3> HIDE DEF at, spec
      <3> QED BY <1>6, <3>2, <3>3
    <2> HIDE DEF a, b, x, y, t, tw, k, sn, at, spec, seen
    <2>12. CASE n # name
      <3>1. y = x
        BY <2>10, <2>12
      <3>2. x \in Nat => ScoreValue(sn.direction, t, x) \in Nat
        BY <2>3, <2>4, ScoreIsNat
      <3>3. b.at = a.at /\ b.skipped = a.skipped /\ b.score = a.score /\ b.passed = a.passed
        BY <2>7, <2>8, <3>1
      <3>4. a.score \in Nat
        BY <2>7, <2>9, <3>2
      <3> QED BY <3>3, <3>4 DEF a, b
    <2>13. CASE n = name
      <3>1. x = seen /\ y = WorseValue(sn.direction, seen) /\ (sn.direction = "min" => seen > 0)
        BY <1>2, <2>11, <2>13 DEF sn, spec, seen, at
      <3>2. /\ y \in Nat /\ ScoreValue(sn.direction, t, y) <= ScoreValue(sn.direction, t, x)
            /\ Meets(sn.direction, t, y) => Meets(sn.direction, t, x)
        BY <1>2, <1>7, <2>3, <2>4, <3>1, ScoreFalls
      <3>3. x # Missing /\ y # Missing
        BY <1>7, <3>1, <3>2 DEF Missing
      <3>4. ScoreValue(sn.direction, t, x) \in Nat /\ ScoreValue(sn.direction, t, y) \in Nat
        BY <1>7, <2>3, <2>4, <3>1, <3>2, ScoreIsNat
      <3>5. /\ a.skipped = FALSE /\ b.skipped = FALSE
            /\ a.score = ScoreValue(sn.direction, t, x) /\ b.score = ScoreValue(sn.direction, t, y)
            /\ a.passed <=> Meets(sn.direction, t, x)
            /\ b.passed <=> Meets(sn.direction, t, y)
        BY <2>7, <2>8, <3>3
      <3> QED BY <2>7, <2>8, <3>2, <3>4, <3>5 DEF a, b
    <2> QED BY <2>12, <2>13
  <1>10. SameScan(r, w) /\ NoBetter(r, w, p)
    BY <1>6, <1>9 DEF NoBetter
  <1> QED
    BY <1>10 DEF w

-----------------------------------------------------------------------------
(* The sums a score is made of.                                            *)

(* A probe's scores added up are a sum over its checks.                    *)
LEMMA ScoresAreSum ==
  ASSUME NEW checks, IsFiniteSet(checks)
  PROVE  SumOfScores(checks) = SumOf([c \in checks |-> c.score], checks)
  <1> DEFINE S == checks
             f == [c \in S |-> c.score]
             Counts(g) == g = [s \in SUBSET S |->
                                IF s = {} THEN 0 ELSE First(s).score + g[s \ {First(s)}]]
             h == CHOOSE g : Counts(g)
  <1>1. SumOfScores(checks) = h[S]
    BY DEF SumOfScores, MapThenSumSet, MapThenFoldSet, First
  <1>2. \A g : Counts(g) <=> Adds(g, f, S)
    <2>1. \A s \in SUBSET S : s # {} => f[First(s)] = First(s).score
      BY FirstIsIn
    <2> HIDE DEF f, S
    <2>2. ASSUME NEW g
          PROVE  [s \in SUBSET S |->
                    IF s = {} THEN 0 ELSE First(s).score + g[s \ {First(s)}]] =
                 [s \in SUBSET S |-> IF s = {} THEN 0 ELSE f[First(s)] + g[s \ {First(s)}]]
      BY <2>1
    <2> QED BY <2>2 DEF Adds
  <1>3. Adds(h, f, S)
    <2>1. \E g : Adds(g, f, S)
      BY AddsExists
    <2> HIDE DEF f, S
    <2> QED BY <1>2, <2>1
  <1>4. SumOf(f, S) = h[S]
    <2> HIDE DEF h, f
    <2> QED BY <1>3, SumIsSolution
  <1> QED
    BY <1>1, <1>4

(* The weights added up are a sum over the dimensions.                     *)
LEMMA WeightIsSum ==
  ASSUME NEW b, NEW dims, IsFiniteSet(dims)
  PROVE  WeightOf(b, dims) = SumOf([d \in dims |-> b[d].weight], dims)
  <1> DEFINE S == dims
             f == [d \in S |-> b[d].weight]
             Counts(g) == g = [s \in SUBSET S |->
                                IF s = {} THEN 0 ELSE b[First(s)].weight + g[s \ {First(s)}]]
             h == CHOOSE g : Counts(g)
  <1>1. WeightOf(b, dims) = h[S]
    BY DEF WeightOf, MapThenSumSet, MapThenFoldSet, First
  <1>2. \A g : Counts(g) <=> Adds(g, f, S)
    <2>1. \A s \in SUBSET S : s # {} => f[First(s)] = b[First(s)].weight
      BY FirstIsIn
    <2> HIDE DEF f, S
    <2>2. ASSUME NEW g
          PROVE  [s \in SUBSET S |->
                    IF s = {} THEN 0 ELSE b[First(s)].weight + g[s \ {First(s)}]] =
                 [s \in SUBSET S |-> IF s = {} THEN 0 ELSE f[First(s)] + g[s \ {First(s)}]]
      BY <2>1
    <2> QED BY <2>2 DEF Adds
  <1>3. Adds(h, f, S)
    <2>1. \E g : Adds(g, f, S)
      BY AddsExists
    <2> HIDE DEF f, S
    <2> QED BY <1>2, <2>1
  <1>4. SumOf(f, S) = h[S]
    <2> HIDE DEF h, f
    <2> QED BY <1>3, SumIsSolution
  <1> QED
    BY <1>1, <1>4

(* The weighted scores added up are one too.                               *)
LEMMA WeightedIsSum ==
  ASSUME NEW b, NEW dims, IsFiniteSet(dims)
  PROVE  MapThenSumSet(LAMBDA d : b[d].score * b[d].weight, dims) = SumOf([d \in dims |-> b[d].score * b[d].weight], dims)
  <1> DEFINE S == dims
             f == [d \in S |-> b[d].score * b[d].weight]
             Counts(g) == g = [s \in SUBSET S |->
                                IF s = {} THEN 0 ELSE b[First(s)].score * b[First(s)].weight + g[s \ {First(s)}]]
             h == CHOOSE g : Counts(g)
  <1>1. MapThenSumSet(LAMBDA d : b[d].score * b[d].weight, dims) = h[S]
    BY DEF MapThenSumSet, MapThenFoldSet, First
  <1>2. \A g : Counts(g) <=> Adds(g, f, S)
    <2>1. \A s \in SUBSET S : s # {} => f[First(s)] = b[First(s)].score * b[First(s)].weight
      BY FirstIsIn
    <2> HIDE DEF f, S
    <2>2. ASSUME NEW g
          PROVE  [s \in SUBSET S |->
                    IF s = {} THEN 0 ELSE b[First(s)].score * b[First(s)].weight + g[s \ {First(s)}]] =
                 [s \in SUBSET S |-> IF s = {} THEN 0 ELSE f[First(s)] + g[s \ {First(s)}]]
      BY <2>1
    <2> QED BY <2>2 DEF Adds
  <1>3. Adds(h, f, S)
    <2>1. \E g : Adds(g, f, S)
      BY AddsExists
    <2> HIDE DEF f, S
    <2> QED BY <1>2, <2>1
  <1>4. SumOf(f, S) = h[S]
    <2> HIDE DEF h, f
    <2> QED BY <1>3, SumIsSolution
  <1> QED
    BY <1>1, <1>4

-----------------------------------------------------------------------------
(* No score of a worse scan is higher.                                     *)

Checked(r, p, at) ==
    {n \in Specs(p) : ScoreCheck(r, p, n).at = at /\ ~ScoreCheck(r, p, n).skipped}

ScoresOf(r, p, at) == [n \in Checked(r, p, at) |-> ScoreCheck(r, p, n).score]

(* A policy has finitely many checks.                                      *)
LEMMA CheckedIsFinite ==
  ASSUME NEW r, NEW p, PolicyLoads(p), NEW at
  PROVE  IsFiniteSet(Specs(p)) /\ IsFiniteSet(Checked(r, p, at))
  <1> DEFINE L == (({} \cup {"p95_latency_ms"}) \cup {"p99_latency_ms"}) \cup {"error_rate_max"}
             B == ((L \cup {"recovery_rate_min"}) \cup {"retry_amplification_max"})
                     \cup {"duplicate_mutation_max"}
             C == ((B \cup {"cost_per_request_max"}) \cup {"contract_crash_rate_max"})
                     \cup {"contract_invalid_accepted_max"}
  <1>1. IsFiniteSet(C)
    <2>1. IsFiniteSet(L)
      BY FS_EmptySet, FS_AddElement
    <2> HIDE DEF L
    <2>2. IsFiniteSet(B)
      BY <2>1, FS_AddElement
    <2> HIDE DEF B
    <2> QED
      BY <2>2, FS_AddElement
  <1>2. Specs(p) \subseteq C
    BY ThresholdIsNat DEF ScoredNames, ThresholdSpecs, DeprecatedThresholds
  <1> HIDE DEF C
  <1>3. IsFiniteSet(Specs(p))
    BY <1>1, <1>2, FS_Subset
  <1>4. Checked(r, p, at) \subseteq Specs(p)
    BY DEF Checked
  <1> QED
    BY <1>3, <1>4, FS_Subset

(* A probe's score is the mean over the checks that found a number.        *)
LEMMA ProbeScoreIs ==
  ASSUME NEW r, NEW p, PolicyLoads(p), NEW at,
         \A n \in Specs(p) : ScoreCheck(r, p, n).score \in Nat
  PROVE  ProbeScore(Checks(r, p), at) =
            IF at = 0 \/ Checked(r, p, at) = {} THEN Missing
            ELSE (6 * SumOf(ScoresOf(r, p, at), Checked(r, p, at)))
                     \div Cardinality(Checked(r, p, at))
  <1> DEFINE N == Checked(r, p, at)
             mine == {c \in Checks(r, p) : c.at = at /\ ~c.skipped}
             h == [n \in N |-> ScoreCheck(r, p, n)]
             g == [c \in mine |-> c.score]
  <1>1. IsFiniteSet(N) /\ N \subseteq Specs(p)
    BY CheckedIsFinite DEF Checked
  <1>2. h \in [N -> mine]
    BY DEF Checked, Checks
  <1>3. \A x, y \in N : h[x] = h[y] => x = y
    <2>1. \A n : ScoreCheck(r, p, n).name = n
      BY DEF ScoreCheck
    <2> QED BY <2>1
  <1>4. \A c \in mine : \E n \in N : h[n] = c
    BY DEF Checked, Checks
  <1>5. ExistsBijection(N, mine)
    <2> HIDE DEF N, mine, h
    <2>1. h \in Injection(N, mine)
      BY <1>2, <1>3 DEF Injection, IsInjective
    <2>2. h \in Surjection(N, mine)
      BY <1>2, <1>4 DEF Surjection
    <2> QED BY <2>1, <2>2 DEF ExistsBijection, Bijection
  <1>6. IsFiniteSet(mine) /\ Cardinality(mine) = Cardinality(N)
    BY <1>1, <1>5, FS_Bijection
  <1>7. \A n \in N : ScoresOf(r, p, at)[n] = g[h[n]]
    BY <1>2 DEF ScoresOf
  <1>8. \A c \in mine : g[c] \in Int
    BY DEF Checks
  <1>9. mine = {} <=> N = {}
    BY <1>2, <1>4
  <1>10. SumOfScores(mine) = SumOf(g, mine)
    BY <1>6, ScoresAreSum
  <1>11. ProbeScore(Checks(r, p), at) =
            IF at = 0 \/ mine = {} THEN Missing
            ELSE (6 * SumOfScores(mine)) \div Cardinality(mine)
    BY DEF ProbeScore
  <1> HIDE DEF N, mine, h, g
  <1>12. SumOf(ScoresOf(r, p, at), N) = SumOf(g, mine)
    BY <1>1, <1>2, <1>3, <1>4, <1>6, <1>7, <1>8, SumRenamed
  <1> QED
    BY <1>6, <1>9, <1>10, <1>11, <1>12 DEF N

(* A number that only falls, and is there or not in both scans.            *)
Falls(a, b) ==
    /\ a \in MetricValue /\ b \in MetricValue
    /\ a = Missing <=> b = Missing
    /\ b <= a

(* If no check scores better the mean does not rise, and is withheld in    *)
(* the same cases.                                                         *)
LEMMA ProbeScoreFalls ==
  ASSUME NEW r, NEW w, NEW p, PolicyLoads(p), NoBetter(r, w, p), NEW at
  PROVE  Falls(ProbeScore(Checks(r, p), at), ProbeScore(Checks(w, p), at))
  <1> DEFINE N == Checked(r, p, at)
             f == ScoresOf(r, p, at)
             g == ScoresOf(w, p, at)
             k == Cardinality(N)
             a == SumOf(f, N)
             b == SumOf(g, N)
  <1>1. Checked(w, p, at) = N
    BY DEF NoBetter, Checked
  <1>2. IsFiniteSet(N) /\ N \subseteq Specs(p)
    BY CheckedIsFinite DEF Checked
  <1>3. \A n \in N : f[n] \in Nat /\ g[n] \in Nat /\ g[n] <= f[n]
    BY <1>1, <1>2 DEF NoBetter, ScoresOf
  <1>4. /\ \A n \in Specs(p) : ScoreCheck(r, p, n).score \in Nat
        /\ \A n \in Specs(p) : ScoreCheck(w, p, n).score \in Nat
    BY DEF NoBetter
  <1>5. /\ ProbeScore(Checks(r, p), at) = IF at = 0 \/ N = {} THEN Missing ELSE (6 * a) \div k
        /\ ProbeScore(Checks(w, p), at) = IF at = 0 \/ N = {} THEN Missing ELSE (6 * b) \div k
    BY <1>1, <1>4, ProbeScoreIs
  <1> HIDE DEF N, f, g
  <1>6. a \in Nat /\ b \in Nat /\ b <= a
    BY <1>2, <1>3, SumIsNat, SumMonotone
  <1>7. k \in Nat /\ (N # {} => k >= 1)
    BY <1>2, FS_CardinalityType, FS_EmptySet
  <1> HIDE DEF a, b, k
  <1>8. 6 * a \in Nat /\ 6 * b \in Nat /\ 6 * b <= 6 * a
    BY <1>6
  <1>9. N # {} => /\ (6 * a) \div k \in Nat /\ (6 * b) \div k \in Nat
                  /\ (6 * b) \div k <= (6 * a) \div k
    BY <1>7, <1>8, Division
  <1> QED
    BY <1>5, <1>9 DEF Falls, MetricValue, Missing

(* Dimension by dimension.                                                 *)
Lower(a, b) ==
    /\ DOMAIN b = DOMAIN a /\ IsFiniteSet(DOMAIN a)
    /\ \A d \in DOMAIN a :
          /\ a[d].weight \in Nat /\ a[d].weight > 0 /\ b[d].weight = a[d].weight
          /\ Falls(a[d].score, b[d].score)

(* Then no dimension of the breakdown rises.                               *)
LEMMA BreakdownFalls ==
  ASSUME NEW r, NEW w, NEW p, PolicyLoads(p), SameScan(r, w), NoBetter(r, w, p)
  PROVE  Lower(Breakdown(r, p, Checks(r, p)), Breakdown(w, p, Checks(w, p)))
  <1> DEFINE a == Breakdown(r, p, Checks(r, p))
             b == Breakdown(w, p, Checks(w, p))
             D == {d \in DOMAIN p.weights : p.weights[d] > 0}
  <1>1. DOMAIN a = D /\ DOMAIN b = D
    BY DEF Breakdown
  <1>2. \A d \in D : /\ a[d].score = ProbeScore(Checks(r, p), FirstOf(r, d))
                     /\ b[d].score = ProbeScore(Checks(w, p), FirstOf(w, d))
                     /\ a[d].weight = p.weights[d] /\ b[d].weight = p.weights[d]
    BY DEF Breakdown
  <1>3. \A d : FirstOf(w, d) = FirstOf(r, d)
    BY DEF SameScan, FirstOf
  <1>4. IsFiniteSet(D) /\ \A d \in D : p.weights[d] \in Nat /\ p.weights[d] > 0
    <2>1. D \subseteq DOMAIN p.weights
      OBVIOUS
    <2> QED BY <2>1, FS_Subset DEF PolicyLoads
  <1> HIDE DEF a, b, D
  <1>5. \A d \in D : Falls(a[d].score, b[d].score)
    BY <1>2, <1>3, ProbeScoreFalls
  <1>6. Lower(a, b)
    BY <1>1, <1>2, <1>4, <1>5 DEF Lower
  <1> QED
    BY <1>6 DEF a, b

(* Then neither does the weighted score, over the same dimensions.         *)
LEMMA WeightedFalls ==
  ASSUME NEW a, NEW b, Lower(a, b)
  PROVE  /\ Measured(b) = Measured(a)
         /\ WeightOf(b, Measured(b)) = WeightOf(a, Measured(a))
         /\ Falls(WeightedScore(a), WeightedScore(b))
  <1> DEFINE dims == Measured(a)
             wa == [d \in dims |-> a[d].weight]
             wb == [d \in dims |-> b[d].weight]
             sa == [d \in dims |-> a[d].score * a[d].weight]
             sb == [d \in dims |-> b[d].score * b[d].weight]
             total == SumOf(wa, dims)
  <1>1. Measured(b) = dims
    BY DEF Measured, Lower, Falls
  <1>2. IsFiniteSet(dims) /\ dims \subseteq DOMAIN a
    <2>1. dims \subseteq DOMAIN a
      BY DEF Measured
    <2> QED BY <2>1, FS_Subset DEF Lower
  <1>3. \A d \in dims : /\ a[d].score \in Nat /\ b[d].score \in Nat /\ b[d].score <= a[d].score
                        /\ a[d].weight \in Nat /\ a[d].weight > 0 /\ b[d].weight = a[d].weight
    BY <1>2 DEF Measured, Lower, Falls, MetricValue
  <1>4. wb = wa
    BY <1>3
  <1>5. WeightOf(a, dims) = total /\ WeightOf(b, dims) = total
    BY <1>2, <1>4, WeightIsSum
  <1>6. \A x, y, n \in Nat : y <= x => y * n <= x * n /\ y * n \in Nat /\ x * n \in Nat
    BY SMT
  <1>7. \A d \in dims : sa[d] \in Nat /\ sb[d] \in Nat /\ sb[d] <= sa[d]
    BY <1>3, <1>6
  <1>8. \A d \in dims : wa[d] \in Nat /\ wa[d] > 0
    BY <1>3
  <1>9. /\ WeightedScore(a) = IF dims = {} THEN Missing ELSE SumOf(sa, dims) \div (6 * total)
        /\ WeightedScore(b) = IF dims = {} THEN Missing ELSE SumOf(sb, dims) \div (6 * total)
    BY <1>1, <1>2, <1>5, WeightedIsSum DEF WeightedScore
  <1> HIDE DEF dims, wa, wb, sa, sb
  <1>10. SumOf(sa, dims) \in Nat /\ SumOf(sb, dims) \in Nat /\ SumOf(sb, dims) <= SumOf(sa, dims)
    BY <1>2, <1>7, SumIsNat, SumMonotone
  <1>11. dims # {} => total \in Nat /\ total >= 1
    <2> SUFFICES ASSUME NEW d \in dims PROVE total \in Nat /\ total >= 1
      OBVIOUS
    <2>1. total = wa[d] + SumOf(wa, dims \ {d})
      BY <1>2, <1>8, SumRemove
    <2>2. SumOf(wa, dims \ {d}) \in Nat
      BY <1>2, <1>8, FS_Subset, SumIsNat
    <2> QED BY <1>8, <2>1, <2>2
  <1> HIDE DEF total
  <1>12. dims # {} => 6 * total \in Nat /\ 6 * total >= 1
    BY <1>11
  <1>13. dims # {} => /\ SumOf(sa, dims) \div (6 * total) \in Nat
                      /\ SumOf(sb, dims) \div (6 * total) \in Nat
                      /\ SumOf(sb, dims) \div (6 * total) <= SumOf(sa, dims) \div (6 * total)
    BY <1>10, <1>12, Division
  <1>14. Falls(WeightedScore(a), WeightedScore(b))
    BY <1>9, <1>13 DEF Falls, MetricValue, Missing
  <1> QED
    BY <1>1, <1>5, <1>14 DEF dims

(* A scan that fails more is capped no higher.                             *)
LEMMA CapsFall ==
  ASSUME NEW r, NEW w, NEW p, PolicyLoads(p), NoBetter(r, w, p),
         NEW a, NEW b, Falls(a, b)
  PROVE  /\ Falls(ApplyCaps(a, Checks(r, p), p), ApplyCaps(b, Checks(w, p), p))
         /\ Failed(Checks(w, p)) = {} => Failed(Checks(r, p)) = {}
  <1> DEFINE fr == Failed(Checks(r, p))
             fw == Failed(Checks(w, p))
             cr == IF \E c \in fr : c.name \in AbsoluteChecks
                   THEN p.absolute_fail_cap ELSE p.fail_cap
             cw == IF \E c \in fw : c.name \in AbsoluteChecks
                   THEN p.absolute_fail_cap ELSE p.fail_cap
  <1>1. ASSUME NEW c \in fr PROVE \E d \in fw : d.name = c.name
    <2>1. PICK n \in Specs(p) : c = ScoreCheck(r, p, n)
      BY DEF Failed, Checks
    <2>2. ~c.passed /\ ~c.skipped
      BY DEF Failed
    <2> DEFINE d == ScoreCheck(w, p, n)
    <2>3. ~d.passed /\ ~d.skipped
      BY <2>1, <2>2 DEF NoBetter
    <2>4. d \in Checks(w, p)
      BY DEF Checks
    <2>5. d.name = n /\ c.name = n
      BY <2>1 DEF ScoreCheck
    <2> HIDE DEF d
    <2> QED BY <2>3, <2>4, <2>5 DEF Failed
  <1>2. fw = {} => fr = {}
    BY <1>1
  <1>3. p.absolute_fail_cap \in Nat /\ p.fail_cap \in Nat /\ p.absolute_fail_cap <= p.fail_cap
    BY DEF PolicyLoads
  <1>4. cr \in Nat /\ cw \in Nat /\ (fr # {} => cw <= cr)
    BY <1>1, <1>3
  <1>5. /\ ApplyCaps(a, Checks(r, p), p) = IF a = Missing \/ fr = {} \/ a <= cr THEN a ELSE cr
        /\ ApplyCaps(b, Checks(w, p), p) = IF b = Missing \/ fw = {} \/ b <= cw THEN b ELSE cw
    BY DEF ApplyCaps
  <1> HIDE DEF fr, fw, cr, cw
  <1>6. Falls(ApplyCaps(a, Checks(r, p), p), ApplyCaps(b, Checks(w, p), p))
    BY <1>2, <1>4, <1>5 DEF Falls, MetricValue, Missing
  <1> QED
    BY <1>2, <1>6 DEF fr, fw

(* What withholds an agent's verdict is the same for both results.         *)
LEMMA BlockerIsSame ==
  ASSUME NEW r, NEW w, SameScan(r, w), IsSequence(r.probes), NEW a, NEW b,
         Measured(b) = Measured(a)
  PROVE  AgentVerdictBlocker(w, b) = AgentVerdictBlocker(r, a)
  <1> DEFINE at == FirstOf(r, "behavior")
  <1>1. FirstOf(w, "behavior") = at
    BY DEF SameScan, FirstOf
  <1>2. at # 0 => at \in DOMAIN r.probes
    <2>1. DOMAIN r.probes \in SUBSET Nat
      BY SequenceLen
    <2>2. Places(r, "behavior") \subseteq DOMAIN r.probes
      BY DEF Places
    <2>3. Places(r, "behavior") # {} =>
            Min(Places(r, "behavior")) \in Places(r, "behavior")
      BY <2>1, <2>2, MinIsIn
    <2> QED BY <2>2, <2>3 DEF FirstOf
  <1>3. at # 0 => w.probes[at].applicable = r.probes[at].applicable
    BY <1>2 DEF SameScan
  <1>4. w.rule = r.rule /\ w.asked = r.asked /\ w.evidence = r.evidence
    BY DEF SameScan
  <1> HIDE DEF at
  <1> QED
    BY <1>1, <1>3, <1>4 DEF AgentVerdictBlocker, at

(* A result no better on any check has no higher score and no better       *)
(* verdict.                                                                *)
LEMMA VerdictFalls ==
  ASSUME NEW r, Readable(r), NEW w, NEW p, PolicyLoads(p), SameScan(r, w), NoBetter(r, w, p)
  PROVE  /\ Evaluate(w, p).score <= Evaluate(r, p).score
         /\ Rank(Evaluate(w, p).passed) <= Rank(Evaluate(r, p).passed)
  <1> DEFINE ba == Breakdown(r, p, Checks(r, p))
             bb == Breakdown(w, p, Checks(w, p))
             a == ApplyCaps(WeightedScore(ba), Checks(r, p), p)
             b == ApplyCaps(WeightedScore(bb), Checks(w, p), p)
             dr == \/ a = Missing
                   \/ IF r.rule = "agent_behavior" THEN AgentVerdictBlocker(r, ba) # "none"
                      ELSE ~CoverageIsEnough(ba, p) \/ VerifyNotMeasured(r)
             dw == \/ b = Missing
                   \/ IF w.rule = "agent_behavior" THEN AgentVerdictBlocker(w, bb) # "none"
                      ELSE ~CoverageIsEnough(bb, p) \/ VerifyNotMeasured(w)
             pr == a >= p.pass_score /\ Failed(Checks(r, p)) = {}
             pw == b >= p.pass_score /\ Failed(Checks(w, p)) = {}
  <1>1. /\ Evaluate(r, p).score = a /\ Evaluate(w, p).score = b
        /\ Evaluate(r, p).passed = IF dr THEN "none" ELSE IF pr THEN "yes" ELSE "no"
        /\ Evaluate(w, p).passed = IF dw THEN "none" ELSE IF pw THEN "yes" ELSE "no"
    BY DEF Evaluate
  <1> HIDE DEF ba, bb
  <1>2. Lower(ba, bb)
    BY BreakdownFalls DEF ba, bb
  <1>3. /\ Measured(bb) = Measured(ba)
        /\ WeightOf(bb, Measured(bb)) = WeightOf(ba, Measured(ba))
        /\ Falls(WeightedScore(ba), WeightedScore(bb))
    BY <1>2, WeightedFalls
  <1>4. Falls(a, b) /\ (Failed(Checks(w, p)) = {} => Failed(Checks(r, p)) = {})
    BY <1>3, CapsFall
  <1>5. AgentVerdictBlocker(w, bb) = AgentVerdictBlocker(r, ba)
    BY <1>3, BlockerIsSame DEF Readable
  <1>6. CoverageIsEnough(bb, p) = CoverageIsEnough(ba, p)
    BY <1>3 DEF CoverageIsEnough
  <1>7. VerifyNotMeasured(w) = VerifyNotMeasured(r) /\ w.rule = r.rule
    BY DEF VerifyNotMeasured, SameScan
  <1> HIDE DEF a, b
  <1>8. dw <=> dr
    BY <1>4, <1>5, <1>6, <1>7 DEF Falls
  <1>9. p.pass_score \in Nat
    BY DEF PolicyLoads
  <1>10. ~dr /\ ~dw /\ pw => pr
    BY <1>4, <1>9 DEF Falls, MetricValue, Missing
  <1>11. Rank("no") = 0 /\ Rank("none") = 1 /\ Rank("yes") = 2
    BY DEF Rank
  <1>12. b <= a
    BY <1>4 DEF Falls
  <1> HIDE DEF dr, dw, pr, pw
  <1> QED
    BY <1>1, <1>8, <1>10, <1>11, <1>12

(* A worse measurement never helps: no score rises and no verdict improves *)
(* when one metric gets worse, whatever the policy's thresholds, weights   *)
(* and caps (policy.py _score_value, _weighted_score, _apply_caps).        *)
THEOREM WorseNeverHelpsAlways == Spec => []WorseNeverHelps
  <1>1. ScanInv => WorseNeverHelps
    <2> SUFFICES ASSUME ScanInv, stage = "reporting", NEW name \in Specs(policy),
                        CanWorsen(result, LastOf(result, ThresholdSpecs[name].probe),
                                  ThresholdSpecs[name])
                 PROVE  LET at == LastOf(result, ThresholdSpecs[name].probe)
                            worse == Evaluate(Worse(result, at, name), policy)
                        IN  /\ worse.score <= report.score
                            /\ Rank(worse.passed) <= Rank(report.passed)
      BY DEF WorseNeverHelps
    <2>1. Readable(result)
      BY DEF ScanInv, Readings, EntryOK, Readable
    <2>2. PolicyLoads(policy)
      BY ServerIsOK DEF ScanInv
    <2> DEFINE w == Worse(result, LastOf(result, ThresholdSpecs[name].probe), name)
    <2>3. SameScan(result, w) /\ NoBetter(result, w, policy)
      BY <2>1, <2>2, WorseIsNoBetter
    <2>4. report = Evaluate(result, policy)
      BY DEF ScanInv
    <2> HIDE DEF w
    <2>5. /\ Evaluate(w, policy).score <= report.score
          /\ Rank(Evaluate(w, policy).passed) <= Rank(report.passed)
      BY <2>1, <2>2, <2>3, <2>4, VerdictFalls
    <2> QED BY <2>5 DEF w
  <1> QED
    BY <1>1, ScanInvCorrect, PTL

-----------------------------------------------------------------------------
(* A probe that was named once runs once.                                  *)

Distinct(s) == \A i, j \in DOMAIN s : s[i] = s[j] => i = j

Elements(s) == {s[i] : i \in DOMAIN s}

(* Two sequences without repetition and with nothing in common, joined.    *)
LEMMA ConcatOnce ==
  ASSUME NEW T, NEW a \in Seq(T), NEW b \in Seq(T), Distinct(a), Distinct(b),
         Elements(a) \cap Elements(b) = {}
  PROVE  /\ a \o b \in Seq(T) /\ Distinct(a \o b)
         /\ Elements(a \o b) = Elements(a) \cup Elements(b)
  <1> DEFINE c == a \o b
  <1>1. /\ Len(a) \in Nat /\ DOMAIN a = 1..Len(a)
        /\ Len(b) \in Nat /\ DOMAIN b = 1..Len(b)
    BY LenProperties
  <1>2. /\ c \in Seq(T) /\ Len(c) = Len(a) + Len(b)
        /\ \A i \in 1..(Len(a) + Len(b)) :
              c[i] = IF i <= Len(a) THEN a[i] ELSE b[i - Len(a)]
    BY ConcatProperties
  <1>3. DOMAIN c = 1..(Len(a) + Len(b))
    BY <1>2, LenProperties
  <1> HIDE DEF c
  <1>4. \A i \in DOMAIN c : \/ i \in DOMAIN a /\ c[i] = a[i]
                            \/ i - Len(a) \in DOMAIN b /\ c[i] = b[i - Len(a)]
    BY <1>1, <1>2, <1>3
  <1>5. \A i \in DOMAIN a : i \in DOMAIN c /\ c[i] = a[i]
    BY <1>1, <1>2, <1>3
  <1>6. \A i \in DOMAIN b : i + Len(a) \in DOMAIN c /\ c[i + Len(a)] = b[i]
    BY <1>1, <1>2, <1>3
  <1>7. Elements(c) = Elements(a) \cup Elements(b)
    BY <1>4, <1>5, <1>6 DEF Elements
  <1>8. \A i \in DOMAIN a, j \in DOMAIN b : a[i] # b[j]
    BY DEF Elements
  <1>9. ASSUME NEW i \in DOMAIN c, NEW j \in DOMAIN c, c[i] = c[j] PROVE i = j
    <2>1. i \in Nat /\ j \in Nat
      BY <1>1, <1>3
    <2> QED BY <1>1, <1>4, <1>8, <1>9, <2>1 DEF Distinct
  <1> QED
    BY <1>2, <1>7, <1>9 DEF c, Distinct

(* The probes of one phase are those of the command, each once.            *)
LEMMA PickedOnce ==
  ASSUME NEW T, NEW p \in Seq(T), Distinct(p), NEW phase
  PROVE  /\ InPhase(p, phase) \in Seq(T) /\ Distinct(InPhase(p, phase))
         /\ Elements(InPhase(p, phase)) \subseteq {e \in Elements(p) : PhaseOf(e) = phase}
  <1> DEFINE n == Len(p)
             picks == [i \in DOMAIN p |-> IF PhaseOf(p[i]) = phase THEN <<p[i]>> ELSE <<>>]
             f == CHOOSE g : Flattens(g, picks, n)
  <1>1. n \in Nat /\ DOMAIN p = 1..n /\ \A i \in 1..n : p[i] \in T
    BY LenProperties, ElementOfSeq
  <1>2. /\ \A i \in 1..n : picks[i] = IF PhaseOf(p[i]) = phase THEN <<p[i]>> ELSE <<>>
        /\ DOMAIN picks = 1..n /\ picks \in [1..n -> Seq(T)]
    <2>1. \A e \in T : <<e>> \in Seq(T)
      OBVIOUS
    <2>2. <<>> \in Seq(T)
      BY EmptySeq
    <2> QED BY <1>1, <2>1, <2>2
  <1>3. Len(picks) = n
    BY <1>1, <1>2, LenProperties
  <1>4. InPhase(p, phase) = FlattenSeq(picks)
    BY DEF InPhase
  <1> HIDE DEF picks
  <1>4b. FlattenSeq(picks) = IF n = 0 THEN picks ELSE f[n]
    <2> HIDE DEF n
    <2> QED BY <1>3 DEF FlattenSeq, Flattens
  <1>5. Flattens(f, picks, n)
    BY <1>1, FlattensExists
  <1> HIDE DEF f
  <1> DEFINE Here(i) == {e \in {p[j] : j \in 1..i} : PhaseOf(e) = phase}
             Fine(i) == f[i] \in Seq(T) /\ Distinct(f[i]) /\ Elements(f[i]) \subseteq Here(i)
             Bad == {i \in 1..n : ~Fine(i)}
  <1>6. ASSUME NEW i \in 1..n
        PROVE  /\ picks[i] \in Seq(T) /\ Distinct(picks[i])
               /\ Elements(picks[i]) \subseteq {e \in {p[i]} : PhaseOf(e) = phase}
    <2>1. CASE PhaseOf(p[i]) = phase
      <3>1. picks[i] = <<p[i]>>
        BY <1>2, <2>1
      <3>2. Elements(<<p[i]>>) = {p[i]} /\ Distinct(<<p[i]>>)
        BY DEF Elements, Distinct
      <3> QED BY <1>2, <2>1, <3>1, <3>2
    <2>2. CASE PhaseOf(p[i]) # phase
      <3>1. picks[i] = <<>>
        BY <1>2, <2>2
      <3>2. Elements(<<>>) = {} /\ Distinct(<<>>)
        BY DEF Elements, Distinct
      <3> QED BY <1>2, <3>1, <3>2
    <2> QED BY <2>1, <2>2
  <1>7. Bad = {}
    <2> SUFFICES ASSUME Bad # {} PROVE FALSE
      OBVIOUS
    <2>1. Bad \in SUBSET Nat
      BY <1>1
    <2>2. PICK i \in Bad : \A k \in Bad : i <= k
      <3> HIDE DEF Bad
      <3> QED BY <2>1, LeastExists
    <2>3. i \in 1..n /\ ~Fine(i)
      OBVIOUS
    <2>4. f[i] = IF i = 1 THEN picks[i] ELSE f[i - 1] \o picks[i]
      BY <1>5, <2>3 DEF Flattens
    <2>5. i # 1 => Fine(i - 1)
      <3>1. i # 1 => i - 1 \in 1..n /\ ~(i <= i - 1)
        BY <1>1, <2>3
      <3>2. i # 1 => i - 1 \notin Bad
        <4> HIDE DEF Bad
        <4> QED BY <2>2, <3>1
      <3> HIDE DEF Fine
      <3> QED BY <3>1, <3>2
    <2> HIDE DEF Bad
    <2>6. CASE i = 1
      <3>1. {e \in {p[i]} : PhaseOf(e) = phase} \subseteq Here(i)
        BY <2>6
      <3> QED BY <1>6, <2>3, <2>4, <2>6, <3>1
    <2>7. CASE i # 1
      <3>1. f[i - 1] \in Seq(T) /\ Distinct(f[i - 1]) /\ Elements(f[i - 1]) \subseteq Here(i - 1)
        BY <2>5, <2>7
      <3>2. p[i] \notin Here(i - 1)
        BY <1>1, <2>3 DEF Distinct
      <3>3. Elements(f[i - 1]) \cap Elements(picks[i]) = {}
        BY <1>6, <2>3, <3>1, <3>2
      <3>4. /\ f[i] \in Seq(T) /\ Distinct(f[i])
            /\ Elements(f[i]) = Elements(f[i - 1]) \cup Elements(picks[i])
        <4> HIDE DEF Fine, Here
        <4> QED BY <1>6, <2>3, <2>4, <2>7, <3>1, <3>3, ConcatOnce
      <3>5. Here(i - 1) \cup {e \in {p[i]} : PhaseOf(e) = phase} \subseteq Here(i)
        BY <1>1, <2>3
      <3> HIDE DEF Here
      <3> QED BY <1>6, <2>3, <3>1, <3>4, <3>5
    <2> QED BY <2>6, <2>7
  <1>8. CASE n = 0
    <2>1. DOMAIN picks = {}
      BY <1>2, <1>8
    <2>2. picks \in Seq(T) /\ Elements(picks) = {} /\ Distinct(picks)
      <3>1. picks = <<>>
        BY <2>1, <1>2, <1>3, <1>8
      <3> QED BY <2>1, <3>1, EmptySeq DEF Elements, Distinct
    <2> QED BY <1>4, <1>4b, <1>8, <2>2
  <1>9. CASE n # 0
    <2>1. n \in 1..n
      BY <1>1, <1>9
    <2>2. Fine(n)
      BY <1>7, <2>1
    <2>3. Here(n) \subseteq {e \in Elements(p) : PhaseOf(e) = phase}
      BY <1>1 DEF Elements
    <2> QED BY <1>4, <1>4b, <1>9, <2>2, <2>3
  <1> QED
    BY <1>8, <1>9

(* A command that names no probe twice runs none twice, and only those it  *)
(* names.                                                                  *)
LEMMA RunOrderOnce ==
  ASSUME NEW o \in Options, ~UsageError(o), Distinct(o.probes)
  PROVE  Distinct(RunOrder(o)) /\ Elements(RunOrder(o)) \subseteq Elements(ResolveProbes(o))
  <1> DEFINE probes == ResolveProbes(o)
             T == Registered
             chosen(phase) == IF phase \in o.phases THEN InPhase(probes, phase) ELSE <<>>
             Of(phase) == {e \in Elements(probes) : PhaseOf(e) = phase}
  <1>1. probes \in Seq(T)
    BY ResolvedRegistered
  <1>2. Distinct(probes)
    <2>1. Distinct(DefaultProbes)
      BY DEF Distinct, DefaultProbes
    <2>2. Distinct(AgentProbes)
      BY DEF Distinct, AgentProbes
    <2> QED BY <2>1, <2>2 DEF ResolveProbes
  <1>3. ASSUME NEW phase
        PROVE  /\ chosen(phase) \in Seq(T) /\ Distinct(chosen(phase))
               /\ Elements(chosen(phase)) \subseteq Of(phase)
    <2>1. <<>> \in Seq(T) /\ Distinct(<<>>) /\ Elements(<<>>) = {}
      BY EmptySeq DEF Distinct, Elements
    <2> HIDE DEF probes, T
    <2>2. /\ InPhase(probes, phase) \in Seq(T) /\ Distinct(InPhase(probes, phase))
          /\ Elements(InPhase(probes, phase)) \subseteq Of(phase)
      BY <1>1, <1>2, PickedOnce
    <2> QED BY <2>1, <2>2
  <1>4. RunOrder(o) = chosen(Phases[1]) \o chosen(Phases[2]) \o chosen(Phases[3])
    BY DEF RunOrder
  <1>5. Phases[1] # Phases[2] /\ Phases[1] # Phases[3] /\ Phases[2] # Phases[3]
    BY DEF Phases
  <1> DEFINE a == chosen(Phases[1])
             b == chosen(Phases[2])
             c == chosen(Phases[3])
  <1>6. /\ a \in Seq(T) /\ Distinct(a) /\ Elements(a) \subseteq Of(Phases[1])
        /\ b \in Seq(T) /\ Distinct(b) /\ Elements(b) \subseteq Of(Phases[2])
        /\ c \in Seq(T) /\ Distinct(c) /\ Elements(c) \subseteq Of(Phases[3])
    BY <1>3
  <1>7. RunOrder(o) = (a \o b) \o c
    BY <1>4
  <1> HIDE DEF a, b, c, chosen, T
  <1>8. /\ Elements(a) \cap Elements(b) = {}
        /\ (Elements(a) \cup Elements(b)) \cap Elements(c) = {}
    BY <1>5, <1>6
  <1>9. /\ a \o b \in Seq(T) /\ Distinct(a \o b)
        /\ Elements(a \o b) = Elements(a) \cup Elements(b)
    BY <1>6, <1>8, ConcatOnce
  <1> DEFINE d == a \o b
  <1>10. d \in Seq(T) /\ Distinct(d) /\ Elements(d) \cap Elements(c) = {}
    BY <1>8, <1>9
  <1> HIDE DEF d
  <1>11. /\ Distinct(d \o c)
         /\ Elements(d \o c) = Elements(d) \cup Elements(c)
    BY <1>6, <1>10, ConcatOnce
  <1> QED
    BY <1>6, <1>7, <1>9, <1>11 DEF d

(* The probes still to run and the ones that have reported are different   *)
(* ones, all of them asked for; none has reported, and none will, when the *)
(* scan refuses its baseline.                                              *)
Planned ==
    /\ Distinct(todo)
    /\ Elements(todo) \subseteq result.selected
    /\ \A i \in DOMAIN result.probes :
          /\ result.probes[i].probe \in result.selected \ Elements(todo)
          /\ \A j \in DOMAIN result.probes :
                result.probes[i].probe = result.probes[j].probe => i = j
    /\ stage = "parse" => todo = <<>>
    /\ stage \in {"parse", "setup"} => result.probes = <<>>
    /\ stage = "running" \/ result.probes # <<>> => ~UnusableBaseline

(* What a probe's report changes.                                          *)
LEMMA ReportIs ==
  ASSUME ScanInv, ProbeReports
  PROVE  \E s \in Samples(Head(todo)) \cup {Contained} :
            /\ Head(todo) \in Registered
            /\ result'.probes = Append(result.probes, Entry(Head(todo), s))
            /\ result'.rule = result.rule /\ result'.selected = result.selected
            /\ result'.ops = IF Head(todo) = "fault" THEN s.ops ELSE result.ops
            /\ accepted' = (accepted \/ s.ok)
            /\ Entry(Head(todo), s).probe = Head(todo)
  <1>1. PICK s \in Samples(Head(todo)) \cup {Contained} :
          /\ result' = [result EXCEPT
                !.probes = Append(result.probes, Entry(Head(todo), s)),
                !.ops = IF Head(todo) = "fault" THEN s.ops ELSE result.ops,
                !.evidence = IF Head(todo) = "behavior" THEN s.reading.evidence
                             ELSE result.evidence]
          /\ accepted' = (accepted \/ s.ok)
    BY DEF ProbeReports, Entry, ScanInv, ResultFields
  <1>2. Head(todo) \in Registered
    BY HeadTailProperties DEF ProbeReports, ScanInv
  <1>3. DOMAIN result = ResultFields
    BY DEF ScanInv
  <1>4. Entry(Head(todo), s).probe = Head(todo)
    BY DEF Entry
  <1> QED
    BY <1>1, <1>2, <1>3, <1>4 DEF ResultFields

(* The head of a sequence without repetition is not in its tail.           *)
LEMMA TailOnce ==
  ASSUME NEW T, NEW s \in Seq(T), s # <<>>, Distinct(s)
  PROVE  /\ Distinct(Tail(s))
         /\ Elements(Tail(s)) \subseteq Elements(s) \ {Head(s)} /\ Head(s) \in Elements(s)
  <1>1. /\ Len(s) \in Nat /\ DOMAIN s = 1..Len(s) /\ Len(s) >= 1
    BY LenProperties, EmptySeq
  <1>2. /\ Tail(s) \in Seq(T) /\ Len(Tail(s)) = Len(s) - 1 /\ Head(s) = s[1]
        /\ \A i \in 1..(Len(s) - 1) : Tail(s)[i] = s[i + 1]
    BY HeadTailProperties
  <1>3. DOMAIN Tail(s) = 1..(Len(s) - 1)
    BY <1>2, LenProperties
  <1>4. \A i \in DOMAIN Tail(s) :
          /\ i \in Nat /\ i + 1 \in DOMAIN s /\ i + 1 # 1 /\ Tail(s)[i] = s[i + 1]
    BY <1>1, <1>2, <1>3
  <1>5. 1 \in DOMAIN s
    BY <1>1
  <1>6. Distinct(Tail(s))
    <2> SUFFICES ASSUME NEW i \in DOMAIN Tail(s), NEW j \in DOMAIN Tail(s),
                        Tail(s)[i] = Tail(s)[j]
                 PROVE  i = j
      BY DEF Distinct
    <2>1. i + 1 = j + 1
      BY <1>4 DEF Distinct
    <2> QED BY <1>4, <2>1
  <1>7. Elements(Tail(s)) \subseteq Elements(s) \ {Head(s)}
    <2> SUFFICES ASSUME NEW i \in DOMAIN Tail(s)
                 PROVE  Tail(s)[i] \in Elements(s) \ {Head(s)}
      BY DEF Elements
    <2>1. Tail(s)[i] = s[i + 1] /\ i + 1 \in DOMAIN s /\ i + 1 # 1
      BY <1>4
    <2>2. s[i + 1] # s[1]
      BY <1>5, <2>1 DEF Distinct
    <2> QED BY <1>2, <2>1, <2>2 DEF Elements
  <1> QED
    BY <1>2, <1>5, <1>6, <1>7 DEF Elements

(* The scan's plan, from the command line on.                              *)
LEMMA PlannedStep ==
  ASSUME \A o \in Options : Distinct(o.probes), ScanInv, Planned, [Next]_vars
  PROVE  Planned'
  <1>0. DOMAIN result = ResultFields /\ todo \in Seq(Registered) /\ opts \in Options
        /\ IsSequence(result.probes)
    BY DEF ScanInv, ScanOK
  <1>1. CASE Start
    <2>1. /\ UNCHANGED <<opts, server>> /\ ~UsageError(opts) /\ todo' = RunOrder(opts)
          /\ stage = "parse" /\ stage' = "setup"
      BY <1>1 DEF Start
    <2>2. PICK b : result' = [result EXCEPT !.selected = Elements(ResolveProbes(opts)),
                                            !.expected = b]
      BY <1>1 DEF Start, Elements
    <2>3. result'.selected = Elements(ResolveProbes(opts)) /\ result'.probes = <<>>
      BY <1>0, <2>1, <2>2 DEF Planned, ResultFields
    <2>4. Distinct(todo)' /\ (Elements(todo) \subseteq result.selected)'
      <3>1. Distinct(RunOrder(opts))
            /\ Elements(RunOrder(opts)) \subseteq Elements(ResolveProbes(opts))
        BY <1>0, <2>1, RunOrderOnce
      <3>2. Elements(todo)' = Elements(RunOrder(opts)) /\ (Distinct(todo)' <=> Distinct(RunOrder(opts)))
        BY <2>1 DEF Elements, Distinct
      <3> QED BY <2>3, <3>1, <3>2
    <2> QED BY <2>1, <2>3, <2>4 DEF Planned
  <1>2. CASE ProbeReports
    <2>1. /\ stage = "running" /\ todo # <<>> /\ todo' = Tail(todo)
          /\ stage' \in {"running", "scoring"} /\ UNCHANGED <<opts, server>>
      BY <1>2 DEF ProbeReports
    <2>2. PICK s \in Samples(Head(todo)) \cup {Contained} :
            /\ result'.probes = Append(result.probes, Entry(Head(todo), s))
            /\ result'.rule = result.rule /\ result'.selected = result.selected
            /\ Entry(Head(todo), s).probe = Head(todo)
      BY <1>2, ReportIs
    <2> DEFINE e == Entry(Head(todo), s)
               rest == Tail(todo)
    <2>3. /\ Distinct(rest) /\ Head(todo) \in Elements(todo)
          /\ Elements(rest) \subseteq Elements(todo) \ {Head(todo)}
      BY <1>0, <2>1, TailOnce DEF Planned
    <2>4. (Distinct(todo)' <=> Distinct(rest)) /\ Elements(todo)' = Elements(rest)
      BY <2>1 DEF Distinct, Elements
    <2> HIDE DEF e, rest
    <2>5. /\ DOMAIN Append(result.probes, e) = 1..(Len(result.probes) + 1)
          /\ \A i \in DOMAIN Append(result.probes, e) :
                \/ /\ i \in DOMAIN result.probes
                   /\ Append(result.probes, e)[i] = result.probes[i]
                \/ /\ i = Len(result.probes) + 1
                   /\ Append(result.probes, e)[i] = e
      BY <1>0, AppendIsSequence
    <2>6. result'.probes = Append(result.probes, e) /\ e.probe = Head(todo)
      BY <2>2 DEF e
    <2>7. \A i \in DOMAIN result.probes :
             /\ result.probes[i].probe \in result.selected
             /\ result.probes[i].probe \notin Elements(todo)
             /\ \A j \in DOMAIN result.probes :
                   result.probes[i].probe = result.probes[j].probe => i = j
      BY DEF Planned
    <2>8. \A i \in DOMAIN result'.probes :
             /\ result'.probes[i].probe \in result.selected
             /\ result'.probes[i].probe \notin Elements(rest)
             /\ \A j \in DOMAIN result'.probes :
                   result'.probes[i].probe = result'.probes[j].probe => i = j
      <3>1. e.probe \in result.selected /\ e.probe \notin Elements(rest)
        BY <2>3, <2>6 DEF Planned
      <3>2. \A i \in DOMAIN result.probes : result.probes[i].probe # e.probe
        BY <2>3, <2>6, <2>7
      <3> QED BY <2>3, <2>5, <2>6, <2>7, <3>1, <3>2
    <2>9. UnusableBaseline' <=> UnusableBaseline
      BY <2>1, <2>2 DEF UnusableBaseline
    <2>10. Elements(rest) \subseteq result.selected
      BY <2>3 DEF Planned
    <2> QED BY <2>1, <2>2, <2>3, <2>4, <2>8, <2>9, <2>10 DEF Planned
  <1>3. CASE SetUp
    <2>1. UNCHANGED <<opts, server, todo, result>> /\ stage' = "running" /\ ~UnusableBaseline
          /\ stage = "setup"
      BY <1>3 DEF SetUp
    <2>2. UnusableBaseline' <=> UnusableBaseline
      BY <2>1 DEF UnusableBaseline
    <2>3. Elements(todo)' = Elements(todo) /\ (Distinct(todo)' <=> Distinct(todo))
      BY <2>1 DEF Elements, Distinct
    <2> QED BY <2>1, <2>2, <2>3 DEF Planned
  <1>4. CASE ~(Start \/ ProbeReports \/ SetUp)
    <2>1. /\ UNCHANGED <<opts, server, todo, result>>
          /\ stage' = stage \/ stage' \in {"done", "scoring", "reporting"}
      BY <1>4 DEF Next, RefuseUsage, TargetRefuses, RefuseUnusableBaseline, Escapes, NothingToRun,
                  Score, CiExits, ScanExits, Refuse, Exit, vars
    <2>2. UnusableBaseline' <=> UnusableBaseline
      BY <2>1 DEF UnusableBaseline
    <2>3. Elements(todo)' = Elements(todo) /\ (Distinct(todo)' <=> Distinct(todo))
      BY <2>1 DEF Elements, Distinct
    <2> QED BY <2>1, <2>2, <2>3 DEF Planned
  <1> QED
    BY <1>1, <1>2, <1>3, <1>4

(* Before a scan there is nothing to plan.                                 *)
LEMMA PlannedInit == Init => Planned
  <1> SUFFICES ASSUME Init PROVE Planned
    OBVIOUS
  <1>1. todo = <<>> /\ result.probes = <<>> /\ stage = "parse"
    BY DEF Init
  <1>2. DOMAIN <<>> = {}
    OBVIOUS
  <1> QED
    BY <1>1, <1>2 DEF Planned, Distinct, Elements

(* A command that names no probe twice runs none twice, and a scan that    *)
(* goes on has a baseline to measure from (cli.py, scanner.py run).        *)
LEMMA PlannedAlways ==
  ASSUME \A o \in Options : Distinct(o.probes)
  PROVE  Spec => []Planned
  <1>1. ScanInv /\ Planned /\ [Next]_vars => Planned'
    BY PlannedStep
  <1> QED
    BY <1>1, PlannedInit, ScanInvCorrect, PTL DEF Spec

(* Then there is one entry of a name at most.                              *)
LEMMA OneEntry ==
  ASSUME ScanInv, Planned, NEW i \in DOMAIN result.probes, NEW name,
         result.probes[i].probe = name
  PROVE  FirstOf(result, name) = i /\ LastOf(result, name) = i /\ i # 0
  <1>1. Len(result.probes) \in Nat /\ DOMAIN result.probes = 1..Len(result.probes)
    BY SequenceLen DEF ScanInv
  <1>2. Places(result, name) = {i}
    BY DEF Places, Planned
  <1>3. i \in Nat /\ i # 0
    BY <1>1
  <1>4. Min({i}) = i /\ Max({i}) = i
    BY <1>3 DEF Min, Max
  <1> QED
    BY <1>2, <1>3, <1>4 DEF FirstOf, LastOf

(* A first or a last entry is an entry.                                    *)
LEMMA FirstIsAPlace ==
  ASSUME NEW r, IsSequence(r.probes), NEW name, FirstOf(r, name) # 0
  PROVE  FirstOf(r, name) \in DOMAIN r.probes /\ r.probes[FirstOf(r, name)].probe = name
  <1>1. Len(r.probes) \in Nat /\ DOMAIN r.probes = 1..Len(r.probes)
    BY SequenceLen
  <1>2. Places(r, name) \in SUBSET Nat
    BY <1>1 DEF Places
  <1>3. Places(r, name) # {} => Min(Places(r, name)) \in Places(r, name)
    BY <1>2, MinIsIn
  <1> QED
    BY <1>3 DEF FirstOf, Places

-----------------------------------------------------------------------------
(* What the guide rests on.                                                *)

(* The entry says that a metric of its own is withheld.                    *)
Suppresses(e, metric) ==
    \E names : /\ Caveat("suppress", names) \in e.caveats
               /\ \E k \in DOMAIN names : names[k] = metric

(* What a section opens with and the metric it rests on come together, or  *)
(* the entry says that the metric is withheld.                             *)
Backed(e) ==
    LET has(name)   == name \in DOMAIN e.metrics /\ e.metrics[name] # Missing
        lacks(name) == Metric(e, name) = Missing
    IN  /\ e.probe = "latency" /\ e.applicable /\ lacks("p99_s") =>
              ~has("tail_ratio") \/ Suppresses(e, "p99_s")
        /\ e.probe = "contract" /\ lacks("crash_rate") =>
              ~has("crashes") \/ Suppresses(e, "crash_rate")
        /\ e.probe = "concurrency" /\ lacks("max_sustained_concurrency") =>
              ~has("saturation_point")
        /\ e.probe = "cost" /\ e.applicable /\ lacks("cost_per_request") =>
              "bloat_detected" \notin DOMAIN e.metrics

(* An entry without metrics has nothing to back.                           *)
LEMMA NothingBacked ==
  ASSUME NEW e, e.metrics = <<>>
  PROVE  Backed(e)
  BY DEF Backed

(* A ladder of four is 1, 2 and 4.                                         *)
LEMMA LadderOfFour ==
  /\ Len(Ladder(4)) = 3
  /\ \A i \in 1..3 : Ladder(4)[i] \in {1, 2, 4}
  <1> DEFINE power(i) == 2 ^ i
             below == {i \in 0..6 : power(i) < 4}
             ladder == [i \in 1..3 |-> IF i <= 2 THEN power(i - 1) ELSE 4]
  <1>1. /\ power(0) = 1 /\ power(1) = 2 /\ power(2) = 4 /\ power(3) = 8
        /\ power(4) = 16 /\ power(5) = 32 /\ power(6) = 64
    BY SMT
  <1>2. Ladder(4) = [i \in 1..(Cardinality(below) + 1) |->
                        IF i <= Cardinality(below) THEN power(i - 1) ELSE 4]
    BY DEF Ladder
  <1> HIDE DEF power
  <1>3. below = {0, 1}
    <2>1. \A i \in 0..6 : i = 0 \/ i = 1 \/ i = 2 \/ i = 3 \/ i = 4 \/ i = 5 \/ i = 6
      OBVIOUS
    <2> QED BY <1>1, <2>1
  <1>4. Cardinality({0, 1}) = 2
    <2>1. Cardinality({}) = 0 /\ IsFiniteSet({})
      BY FS_EmptySet
    <2>2. Cardinality({} \cup {0}) = 1 /\ IsFiniteSet({} \cup {0})
      BY <2>1, FS_AddElement
    <2>3. Cardinality(({} \cup {0}) \cup {1}) = 2
      BY <2>2, FS_AddElement
    <2>4. ({} \cup {0}) \cup {1} = {0, 1}
      OBVIOUS
    <2> QED BY <2>3, <2>4
  <1> HIDE DEF below
  <1>5. Ladder(4) = ladder
    <2>1. Cardinality(below) = 2
      BY <1>3, <1>4
    <2>2. Ladder(4) = [i \in 1..(2 + 1) |-> IF i <= 2 THEN power(i - 1) ELSE 4]
      BY <1>2, <2>1
    <2> QED BY <2>2
  <1>6. ladder[1] = 1 /\ ladder[2] = 2 /\ ladder[3] = 4 /\ DOMAIN ladder = 1..3
    BY <1>1
  <1> HIDE DEF ladder
  <1>7. \A i \in 1..3 : i = 1 \/ i = 2 \/ i = 3
    OBVIOUS
  <1>8. \A i \in 1..3 : ladder[i] \in {1, 2, 4}
    BY <1>6, <1>7
  <1>9. ladder \in [1..3 -> {1, 2, 4}]
    <2>1. ladder = [i \in 1..3 |-> ladder[i]]
      BY DEF ladder
    <2> QED BY <1>8, <2>1
  <1>10. ladder \in Seq({1, 2, 4}) /\ Len(ladder) = 3
    <2>0. \A T : \A n \in Nat : \A f \in [1..n -> T] : f \in Seq(T)
      OBVIOUS
    <2>1. ladder \in Seq({1, 2, 4})
      BY <1>9, <2>0
    <2>2. Len(ladder) \in Nat /\ DOMAIN ladder = 1..Len(ladder)
      BY <2>1, LenProperties
    <2> QED BY <1>6, <2>1, <2>2
  <1> QED
    BY <1>5, <1>8, <1>10

(* The highest level that held is always a number.                         *)
LEMMA SustainedIsNumber ==
  ASSUME NEW e \in Seq(0..100), Len(e) <= Len(Ladder(4))
  PROVE  MaxSustained(Ladder(4), e) # Missing
  <1> DEFINE held == {i \in LevelsTested(e) : e[i] <= SaturationErrorRate}
             S == {0} \cup {Ladder(4)[i] : i \in held}
  <1>1. Len(e) \in Nat /\ DOMAIN e = 1..Len(e)
    BY LenProperties
  <1>2. held \subseteq 1..3
    <2>1. held \subseteq DOMAIN e
      BY DEF LevelsTested
    <2> HIDE DEF held
    <2>2. Len(e) <= 3
      BY LadderOfFour
    <2> QED BY <1>1, <2>1, <2>2
  <1>3. S \subseteq {0, 1, 2, 4} /\ 0 \in S
    BY <1>2, LadderOfFour
  <1>4. MaxSustained(Ladder(4), e) = Max(S)
    BY DEF MaxSustained
  <1> HIDE DEF S
  <1>5. \E x \in S : \A y \in S : x >= y
    <2>1. \A m : (\A y \in S : y <= m) <=> (\A y \in S : m >= y)
      BY <1>3
    <2>2. CASE 4 \in S
      BY <1>3, <2>2
    <2>3. CASE 4 \notin S /\ 2 \in S
      BY <1>3, <2>3
    <2>4. CASE 4 \notin S /\ 2 \notin S /\ 1 \in S
      BY <1>3, <2>4
    <2>5. CASE 4 \notin S /\ 2 \notin S /\ 1 \notin S
      BY <1>3, <2>5
    <2> QED BY <2>2, <2>3, <2>4, <2>5
  <1>6. Max(S) \in S
    BY <1>5 DEF Max
  <1> QED
    BY <1>3, <1>4, <1>6 DEF Missing

(* A latency result that reports a tail reports its percentile, or says    *)
(* that the sample was too small for one.                                  *)
LEMMA LatencyBacked ==
  ASSUME ScanOK, NEW s \in LatencySamples
  PROVE  Backed(Entry("latency", s))
  <1>1. PICK r \in server.replies :
          s = Sample(LatencyReading(r, server.preflight),
                     LatencyCaveats(r, server.preflight, server.banner), Successes(r) # {})
    BY DEF LatencySamples
  <1>2. r \in Seq(ReplyOK)
    BY ServerIsOK DEF ServerOK
  <1> DEFINE S == Successes(r)
             p99 == Percentile(Latencies(r), 99)
             e == Entry("latency", s)
  <1>3. /\ e.probe = "latency" /\ (e.applicable <=> ~BaselineUnusable(r, server.preflight))
        /\ e.metrics = [error_rate |-> ErrorRate(r), p95_s |-> Percentile(Latencies(r), 95),
                        p99_s |-> IF Cardinality(S) < P99MinSample THEN Missing ELSE p99,
                        tail_ratio |-> TailRatio(Latencies(r))]
        /\ e.caveats = LatencyCaveats(r, server.preflight, server.banner)
    BY <1>1 DEF Entry, Sample, LatencyReading, Reading
  <1>4. IsFiniteSet(S) /\ Latencies(r) \in [S -> Nat] /\ Cardinality(S) \in Nat
    BY <1>2, SuccessesCounted
  <1>5. Cardinality(S) >= P99MinSample => p99 \in Nat
    <2>1. Cardinality(S) >= P99MinSample => S # {}
      BY FS_EmptySet DEF P99MinSample
    <2> QED BY <1>4, <2>1, PercentileIsNumber
  <1> HIDE DEF p99, e, S
  <1>6. Metric(e, "p99_s") = Missing => Cardinality(S) < P99MinSample
    BY <1>3, <1>4, <1>5 DEF Metric, P99MinSample, Missing
  <1>7. ASSUME e.applicable, Metric(e, "p99_s") = Missing
        PROVE  Suppresses(e, "p99_s")
    <2>1. CASE ErrorRate(r) = 100
      <3>1. Caveat("suppress", <<"p95_s", "p99_s">>) \in e.caveats
        BY <1>3, <1>7, <2>1 DEF LatencyCaveats
      <3> DEFINE names == <<"p95_s", "p99_s">>
      <3>2. 2 \in DOMAIN names /\ names[2] = "p99_s"
        OBVIOUS
      <3> HIDE DEF names
      <3> QED BY <3>1, <3>2 DEF Suppresses, names
    <2>2. CASE ErrorRate(r) # 100
      <3>1. Caveat("suppress", <<"p99_s">>) \in e.caveats
        BY <1>3, <1>6, <1>7, <2>2 DEF LatencyCaveats, When, S
      <3> DEFINE names == <<"p99_s">>
      <3>2. 1 \in DOMAIN names /\ names[1] = "p99_s"
        OBVIOUS
      <3> HIDE DEF names
      <3> QED BY <3>1, <3>2 DEF Suppresses, names
    <2> QED BY <2>1, <2>2
  <1>8. Backed(e)
    BY <1>3, <1>7 DEF Backed
  <1> QED
    BY <1>8 DEF e

(* A ramp that saturated has a level that held, if only none of them.      *)
LEMMA ConcurrencyBacked ==
  ASSUME ScanOK, NEW s \in ConcurrencySamples
  PROVE  Backed(Entry("concurrency", s))
  <1>1. PICK r \in server.ramps :
          s = Sample(ConcurrencyReading(4, r, server.preflight),
                     ConcurrencyCaveats(4, r, server.preflight), \E i \in DOMAIN r : r[i] < 100)
    BY DEF ConcurrencySamples
  <1>2. MaxSustained(Ladder(4), r) # Missing
    BY ServerIsOK, SustainedIsNumber DEF ServerOK
  <1> DEFINE e == Entry("concurrency", s)
  <1>3. /\ e.probe = "concurrency"
        /\ e.metrics = [max_sustained_concurrency |-> MaxSustained(Ladder(4), r),
                        saturation_point |-> Saturation(Ladder(4), r)]
    BY <1>1 DEF Entry, Sample, ConcurrencyReading, Reading
  <1> HIDE DEF e
  <1>4. Metric(e, "max_sustained_concurrency") # Missing
    BY <1>2, <1>3 DEF Metric
  <1>5. Backed(e)
    BY <1>3, <1>4 DEF Backed
  <1> QED
    BY <1>5 DEF e

(* A cost that applies has a price.                                        *)
LEMMA CostBacked ==
  ASSUME NEW s \in CostSamples
  PROVE  Backed(Entry("cost", s))
  <1>1. PICK r \in server.replies :
          s = Sample(CostReading(server.tokens, r, server.pricing),
                     CostCaveats(server.tokens, r, server.pricing), FALSE)
    BY DEF CostSamples
  <1> DEFINE e == Entry("cost", s)
             reading == CostReading(server.tokens, r, server.pricing)
  <1>2. PICK cost, bloat :
          reading = Reading(cost # Missing, [cost_per_request |-> cost, bloat_detected |-> bloat])
    BY DEF CostReading
  <1>3. s.reading = reading
    BY <1>1 DEF Sample
  <1>4. /\ e.probe = "cost" /\ e.applicable = reading.applicable
        /\ e.metrics = reading.metrics
    BY <1>3 DEF Entry
  <1>5. /\ reading.applicable = (cost # Missing)
        /\ reading.metrics = [cost_per_request |-> cost, bloat_detected |-> bloat]
    <2> HIDE DEF reading
    <2> QED BY <1>2 DEF Reading
  <1> HIDE DEF e, reading
  <1>6. Metric(e, "cost_per_request") = cost
    BY <1>4, <1>5 DEF Metric
  <1>7. Backed(e)
    BY <1>4, <1>5, <1>6 DEF Backed
  <1> QED
    BY <1>7 DEF e

(* A contract result that counts crashes has a crash rate, or says that    *)
(* there is none.                                                          *)
LEMMA ContractBacked ==
  ASSUME ScanOK, NEW s \in ContractSamples
  PROVE  Backed(Entry("contract", s))
  <1> DEFINE record == ContractRecord
             covered == Covered(server.tools, 3, opts.allow_mutating)
             e == Entry("contract", s)
  <1>1. s = Sample(ContractReading(server.tools, record),
                   ContractCaveats(server.tools, covered, server.real, record),
                   AnyAccepted(record))
    BY DEF ContractSamples
  <1>2. IsSequence(record) /\ CrashRate(record) \in MetricValue
    BY RecordIsSequence, CrashRateIsNumber
  <1>3. /\ e.probe = "contract"
        /\ e.metrics = ContractReading(server.tools, record).metrics
        /\ e.caveats = ContractCaveats(server.tools, covered, server.real, record)
    BY <1>1 DEF Entry, Sample
  <1> HIDE DEF e, record, covered
  <1>4. CASE server.tools = <<>>
    <2>1. e.metrics = <<>>
      BY <1>3, <1>4 DEF ContractReading, Inapplicable
    <2>2. Backed(e)
      BY <2>1, NothingBacked
    <2> QED BY <2>2 DEF e
  <1>5. CASE server.tools # <<>>
    <2>1. e.metrics = [crash_rate |-> CrashRate(record), accepted_invalid |-> AcceptedInvalid(record),
                       crashes |-> Cardinality(Crashed(record))]
      BY <1>3, <1>5 DEF ContractReading, Reading
    <2>2. Metric(e, "crash_rate") = CrashRate(record)
      BY <2>1 DEF Metric
    <2>3. ASSUME CrashRate(record) = Missing PROVE Suppresses(e, "crash_rate")
      <3>1. ~ControlClean(record)
        <4>1. Len(record) \in Nat /\ DOMAIN record = 1..Len(record)
          BY <1>2, SequenceLen
        <4>2. record # <<>> => Len(record) >= 1
          BY <1>2, <4>1, EmptySeq DEF IsSequence
        <4>3. Cardinality(Crashed(record)) \in Nat
          BY <1>2, CrashRateIsNumber
        <4>4. \A a \in Nat, b \in Nat : b >= 1 => (100 * a) \div b \in Nat
          BY SMT
        <4>5. record # <<>> => (100 * Cardinality(Crashed(record))) \div Len(record) \in Nat
          BY <4>1, <4>2, <4>3, <4>4
        <4> QED BY <2>3, <4>5 DEF CrashRate, ControlClean, Missing
      <3>2. CASE record = <<>>
        <4> DEFINE names == <<"crash_rate", "accepted_invalid">>
        <4>1. Caveat("suppress", names) \in e.caveats
          BY <1>3, <1>5, <3>2 DEF ContractCaveats, When
        <4>2. 1 \in DOMAIN names /\ names[1] = "crash_rate"
          OBVIOUS
        <4> HIDE DEF names
        <4> QED BY <4>1, <4>2 DEF Suppresses
      <3>3. CASE record # <<>>
        <4> DEFINE names == <<"crash_rate">>
        <4>1. Caveat("suppress", names) \in e.caveats
          BY <1>3, <1>5, <3>1, <3>3 DEF ContractCaveats, When
        <4>2. 1 \in DOMAIN names /\ names[1] = "crash_rate"
          OBVIOUS
        <4> HIDE DEF names
        <4> QED BY <4>1, <4>2 DEF Suppresses
      <3> QED BY <3>2, <3>3
    <2>4. Backed(e)
      BY <1>3, <2>2, <2>3 DEF Backed
    <2> QED BY <2>4 DEF e
  <1> QED
    BY <1>4, <1>5

(* Whatever a probe brings back is backed.                                 *)
LEMMA SamplesBacked ==
  ASSUME ScanOK, NEW probe \in Registered, NEW s \in Samples(probe) \cup {Contained}
  PROVE  Backed(Entry(probe, s))
  <1>1. CASE probe \in {"fault", "behavior", "agent_baseline"}
    <2>1. Entry(probe, s).probe = probe
      BY DEF Entry
    <2> QED BY <1>1, <2>1 DEF Backed
  <1>2. CASE s.reading.metrics = <<>>
    <2>1. Entry(probe, s).metrics = <<>>
      BY <1>2 DEF Entry
    <2> QED BY <2>1, NothingBacked
  <1>3. CASE probe \notin {"fault", "behavior", "agent_baseline"} /\ s.reading.metrics # <<>>
    <2>1. s # Contained
      BY <1>3 DEF Contained, Sample, Inapplicable
    <2>2. result.rule = "service"
      <3> SUFFICES ASSUME result.rule # "service" PROVE FALSE
        OBVIOUS
      <3>1. s = Sample(Reading(TRUE, <<>>), {}, FALSE)
        BY <1>3, <2>1 DEF Samples
      <3> QED BY <1>3, <3>1 DEF Sample, Reading
    <2>3. s \in ServiceSamples(probe)
      BY <1>3, <2>1, <2>2 DEF Samples
    <2>4. probe \in {"latency", "cost", "concurrency", "contract"}
      BY <1>3 DEF Registered, ServiceOnlyProbes
    <2> QED
      BY <2>3, <2>4, ServiceSamplesAre, LatencyBacked, ConcurrencyBacked, CostBacked, ContractBacked
  <1> QED
    BY <1>1, <1>2, <1>3

AllBacked == \A i \in DOMAIN result.probes : Backed(result.probes[i])

(* Every result of a scan is backed, at every step of it.                  *)
LEMMA AllBackedStep == ScanInv /\ AllBacked /\ [Next]_vars => AllBacked'
  <1> SUFFICES ASSUME ScanInv, AllBacked, [Next]_vars PROVE AllBacked'
    OBVIOUS
  <1>1. CASE ProbeReports
    <2>1. PICK s \in Samples(Head(todo)) \cup {Contained} :
            /\ Head(todo) \in Registered
            /\ result'.probes = Append(result.probes, Entry(Head(todo), s))
      BY <1>1, ReportIs
    <2> DEFINE e == Entry(Head(todo), s)
    <2>2. Backed(e)
      BY <2>1, SamplesBacked DEF ScanInv
    <2> HIDE DEF e
    <2>3. \A i \in DOMAIN Append(result.probes, e) :
             \/ i \in DOMAIN result.probes /\ Append(result.probes, e)[i] = result.probes[i]
             \/ Append(result.probes, e)[i] = e
      BY AppendIsSequence DEF ScanInv
    <2>4. result'.probes = Append(result.probes, e)
      BY <2>1 DEF e
    <2>5. \A i \in DOMAIN result'.probes : Backed(result'.probes[i])
      BY <2>2, <2>3, <2>4 DEF AllBacked
    <2> QED BY <2>5 DEF AllBacked
  <1>2. CASE Start
    <2>1. result'.probes = result.probes
      BY <1>2 DEF Start, ScanInv, ResultFields
    <2> QED BY <2>1 DEF AllBacked
  <1>3. CASE ~(Start \/ ProbeReports)
    <2>1. result' = result
      BY <1>3 DEF Next, RefuseUsage, TargetRefuses, RefuseUnusableBaseline, SetUp, Escapes,
                  NothingToRun, Score, CiExits, ScanExits, vars
    <2> QED BY <2>1 DEF AllBacked
  <1> QED
    BY <1>1, <1>2, <1>3

(* AllBacked is an invariant of every scan.                                *)
LEMMA AllBackedAlways == Spec => []AllBacked
  <1>1. Init => AllBacked
    <2> SUFFICES ASSUME Init PROVE AllBacked
      OBVIOUS
    <2>1. result.probes = <<>>
      BY DEF Init
    <2>2. DOMAIN <<>> = {}
      OBVIOUS
    <2> QED BY <2>1, <2>2 DEF AllBacked
  <1> QED
    BY <1>1, AllBackedStep, ScanInvCorrect, PTL DEF Spec

(* A caveat an entry carries is printed in the section that rests on the   *)
(* metric it names.                                                        *)
LEMMA SuppressedIsPrinted ==
  ASSUME NEW r, NEW checks, NEW i \in DOMAIN r.probes, NEW advice,
         Suppresses(r.probes[i], advice.metric)
  PROVE  \E c \in SectionCaveats(r, checks, advice) : c.effect = "suppress"
  <1>1. PICK names : /\ Caveat("suppress", names) \in r.probes[i].caveats
                     /\ \E k \in DOMAIN names : names[k] = advice.metric
    BY DEF Suppresses
  <1> DEFINE c == Caveat("suppress", names)
             speaker == r.probes[Speaker(r, checks, c)].probe
             said == Joined(c, [probe |-> speaker])
  <1>2. c \in ProbeCaveats(r)
    BY <1>1 DEF ProbeCaveats
  <1>3. said \in ResultCaveats(r, checks)
    <2> HIDE DEF c
    <2> QED BY <1>2 DEF ResultCaveats
  <1>4. said.effect = "suppress" /\ said.metrics = names
    <2> HIDE DEF speaker
    <2> QED BY DEF Joined, Caveat
  <1> HIDE DEF said
  <1>5. advice.metric \in SpokenFor({said})
    BY <1>1, <1>4 DEF SpokenFor
  <1> QED
    BY <1>3, <1>4, <1>5 DEF SectionCaveats

(* A number that is not its default is one its probe published.            *)
LEMMA NumberIsPublished ==
  ASSUME NEW r, IsSequence(r.probes), NEW probe, NEW metric, NEW default,
         Number(r, probe, metric, default) # default
  PROVE  LET at == FirstOf(r, probe)
         IN  /\ at \in DOMAIN r.probes /\ r.probes[at].probe = probe /\ r.probes[at].applicable
             /\ metric \in DOMAIN r.probes[at].metrics
             /\ r.probes[at].metrics[metric] # Missing
             /\ Number(r, probe, metric, Missing) # Missing
  <1> DEFINE at == FirstOf(r, probe)
             published == Published(r, probe)
  <1>1. metric \in DOMAIN published /\ published[metric] # Missing
    BY DEF Number
  <1>2. at # 0 /\ r.probes[at].applicable
    <2> SUFFICES ASSUME at = 0 \/ ~r.probes[at].applicable PROVE FALSE
      OBVIOUS
    <2>1. published = [none |-> Missing]
      BY DEF Published
    <2> QED BY <1>1, <2>1
  <1>3. published = r.probes[at].metrics
    BY <1>2 DEF Published
  <1>4. at \in DOMAIN r.probes /\ r.probes[at].probe = probe
    BY <1>2, FirstIsAPlace
  <1>5. Number(r, probe, metric, Missing) # Missing
    BY <1>1 DEF Number
  <1> QED
    BY <1>1, <1>2, <1>3, <1>4, <1>5

(* A number that is withheld is missing from the entry that applies.       *)
LEMMA WithheldIsMissing ==
  ASSUME NEW r, NEW probe, NEW metric, Number(r, probe, metric, Missing) = Missing,
         FirstOf(r, probe) # 0, r.probes[FirstOf(r, probe)].applicable
  PROVE  Metric(r.probes[FirstOf(r, probe)], metric) = Missing
  <1>1. Published(r, probe) = r.probes[FirstOf(r, probe)].metrics
    BY DEF Published
  <1> QED
    BY <1>1 DEF Number, Metric

(* A check that fails saw a number at the one entry of its probe.          *)
LEMMA FailedIsNumber ==
  ASSUME ScanInv, Planned, report = Evaluate(result, policy), NEW name,
         FailedCheck(report.checks, name)
  PROVE  LET spec == ThresholdSpecs[name]
         IN  Number(result, spec.probe, spec.metric, Missing) # Missing
  <1> DEFINE spec == ThresholdSpecs[name]
             at == LastOf(result, spec.probe)
  <1>1. report.checks = Checks(result, policy)
    BY DEF Evaluate
  <1>2. PICK n \in Specs(policy) :
          LET c == ScoreCheck(result, policy, n) IN ~c.skipped /\ c.name = name
    BY <1>1 DEF FailedCheck, Failed, Checks
  <1>3. n = name /\ Observed(result, at, spec) # Missing
    BY <1>2 DEF ScoreCheck
  <1>4. at # 0 /\ result.probes[at].applicable /\ Metric(result.probes[at], spec.metric) # Missing
    BY <1>3 DEF Observed
  <1>5. at \in DOMAIN result.probes /\ result.probes[at].probe = spec.probe
    BY <1>4, LastIsAPlace DEF ScanInv
  <1>6. FirstOf(result, spec.probe) = at
    BY <1>5, OneEntry
  <1> QED
    BY <1>4, <1>6, WithheldIsMissing

(* What is offered applies, and rests on what it is offered with.          *)
LEMMA OfferIs ==
  ASSUME NEW applies, NEW section, NEW probe, NEW metric,
         NEW advice \in Offer(applies, section, probe, metric)
  PROVE  applies /\ advice.probe = probe /\ advice.metric = metric
  BY DEF Offer

(* A section that rests on a withheld metric has a caveat to print.        *)
LEMMA AdviceIsBacked ==
  ASSUME ScanInv, Planned, AllBacked, stage = "reporting",
         NEW advice \in ApplicableAdvice(result, report.checks),
         Number(result, advice.probe, advice.metric, Missing) = Missing
  PROVE  \E c \in SectionCaveats(result, report.checks, advice) : c.effect = "suppress"
  <1> DEFINE at(probe) == FirstOf(result, probe)
             offered(probe, metric) == advice.probe = probe /\ advice.metric = metric
             above(probe, metric, limit) == Number(result, probe, metric, 0) > limit
  <1>0. IsSequence(result.probes) /\ report = Evaluate(result, policy)
    BY DEF ScanInv
  <1>1. \/ \E name \in {"duplicate_mutations", "loops_detected"} :
              above("behavior", name, 0) /\ offered("behavior", name)
        \/ above("behavior", "retry_amplification", 200) /\ offered("behavior", "retry_amplification")
        \/ Number(result, "behavior", "recovery_rate", 100) < 90 /\ offered("behavior", "recovery_rate")
        \/ above("contract", "accepted_invalid", 0) /\ offered("contract", "accepted_invalid")
        \/ above("contract", "crashes", 0) /\ offered("contract", "crash_rate")
        \/ above("concurrency", "saturation_point", 0)
              /\ offered("concurrency", "max_sustained_concurrency")
        \/ FailedCheck(report.checks, "p95_latency_ms") /\ offered("latency", "p95_s")
        \/ Number(result, "latency", "tail_ratio", 0) >= 300 /\ offered("latency", "p99_s")
        \/ Flag(result, "cost", "bloat_detected") /\ offered("cost", "cost_per_request")
        \/ FailedCheck(report.checks, "cost_per_request_max") /\ offered("cost", "cost_per_request")
    <2> DEFINE a1 == above("behavior", "duplicate_mutations", 0)
               a2 == above("contract", "crashes", 0)
               a3 == above("contract", "accepted_invalid", 0)
               a4 == Number(result, "behavior", "recovery_rate", 100) < 90
               a5 == /\ Flag(result, "behavior", "caller_strategy_applicable")
                     /\ above("behavior", "retry_amplification", 200)
               a6 == above("behavior", "loops_detected", 0)
               a7 == above("concurrency", "saturation_point", 0)
               a8 == FailedCheck(report.checks, "p95_latency_ms")
               a9 == Number(result, "latency", "tail_ratio", 0) >= 300
               a10 == Flag(result, "cost", "bloat_detected")
               a11 == FailedCheck(report.checks, "cost_per_request_max")
    <2>1. \/ advice \in Offer(a1, "duplicate_mutations", "behavior", "duplicate_mutations")
          \/ advice \in Offer(a2, "contract_crashes", "contract", "crash_rate")
          \/ advice \in Offer(a3, "accepts_invalid", "contract", "accepted_invalid")
          \/ advice \in Offer(a4, "poor_recovery", "behavior", "recovery_rate")
          \/ advice \in Offer(a5, "retry_amplification", "behavior", "retry_amplification")
          \/ advice \in Offer(a6, "stuck_loops", "behavior", "loops_detected")
          \/ advice \in Offer(a7, "saturates", "concurrency", "max_sustained_concurrency")
          \/ advice \in Offer(a8, "slow_p95", "latency", "p95_s")
          \/ advice \in Offer(a9, "heavy_tail", "latency", "p99_s")
          \/ advice \in Offer(a10, "prompt_bloat", "cost", "cost_per_request")
          \/ advice \in Offer(a11, "expensive", "cost", "cost_per_request")
      BY DEF ApplicableAdvice
    <2> HIDE DEF a1, a2, a3, a4, a5, a6, a7, a8, a9, a10, a11
    <2>2. \A b, section, probe, metric :
            advice \in Offer(b, section, probe, metric) => b /\ offered(probe, metric)
      BY OfferIs
    <2> HIDE DEF offered
    <2>3. \/ a1 /\ offered("behavior", "duplicate_mutations")
          \/ a2 /\ offered("contract", "crash_rate")
          \/ a3 /\ offered("contract", "accepted_invalid")
          \/ a4 /\ offered("behavior", "recovery_rate")
          \/ a5 /\ offered("behavior", "retry_amplification")
          \/ a6 /\ offered("behavior", "loops_detected")
          \/ a7 /\ offered("concurrency", "max_sustained_concurrency")
          \/ a8 /\ offered("latency", "p95_s")
          \/ a9 /\ offered("latency", "p99_s")
          \/ (a10 \/ a11) /\ offered("cost", "cost_per_request")
      BY <2>1, <2>2, Zenon
    <2> USE DEF offered
    <2> QED
      BY <2>3, Zenon DEF a1, a2, a3, a4, a5, a6, a7, a8, a9, a10, a11
  <1>2. CASE \E name \in {"duplicate_mutations", "loops_detected"} :
              above("behavior", name, 0) /\ offered("behavior", name)
    BY <1>0, <1>2, NumberIsPublished
  <1>3. CASE above("behavior", "retry_amplification", 200) /\ offered("behavior", "retry_amplification")
    BY <1>0, <1>3, NumberIsPublished
  <1>4. CASE Number(result, "behavior", "recovery_rate", 100) < 90
               /\ offered("behavior", "recovery_rate")
    BY <1>0, <1>4, NumberIsPublished
  <1>5. CASE above("contract", "accepted_invalid", 0) /\ offered("contract", "accepted_invalid")
    BY <1>0, <1>5, NumberIsPublished
  <1>6. CASE above("contract", "crashes", 0) /\ offered("contract", "crash_rate")
    <2>1. Number(result, "contract", "crashes", 0) # 0
      BY <1>6
    <2>2. /\ at("contract") \in DOMAIN result.probes
          /\ result.probes[at("contract")].probe = "contract"
          /\ result.probes[at("contract")].applicable
          /\ "crashes" \in DOMAIN result.probes[at("contract")].metrics
          /\ result.probes[at("contract")].metrics["crashes"] # Missing
      BY <1>0, <2>1, NumberIsPublished
    <2>3. at("contract") # 0
      BY <1>0, <2>2, SequenceLen
    <2>4. Metric(result.probes[at("contract")], "crash_rate") = Missing
      BY <1>6, <2>2, <2>3, WithheldIsMissing
    <2>5. Suppresses(result.probes[at("contract")], "crash_rate")
      BY <2>2, <2>4 DEF AllBacked, Backed
    <2> QED BY <1>6, <2>2, <2>5, SuppressedIsPrinted
  <1>7. CASE above("concurrency", "saturation_point", 0)
               /\ offered("concurrency", "max_sustained_concurrency")
    <2>1. Number(result, "concurrency", "saturation_point", 0) # 0
      BY <1>7
    <2>2. /\ at("concurrency") \in DOMAIN result.probes
          /\ result.probes[at("concurrency")].probe = "concurrency"
          /\ result.probes[at("concurrency")].applicable
          /\ "saturation_point" \in DOMAIN result.probes[at("concurrency")].metrics
          /\ result.probes[at("concurrency")].metrics["saturation_point"] # Missing
      BY <1>0, <2>1, NumberIsPublished
    <2>3. at("concurrency") # 0
      BY <1>0, <2>2, SequenceLen
    <2>4. Metric(result.probes[at("concurrency")], "max_sustained_concurrency") = Missing
      BY <1>7, <2>2, <2>3, WithheldIsMissing
    <2> QED BY <2>2, <2>4 DEF AllBacked, Backed
  <1>8. CASE FailedCheck(report.checks, "p95_latency_ms") /\ offered("latency", "p95_s")
    <2>1. ThresholdSpecs["p95_latency_ms"].probe = "latency"
          /\ ThresholdSpecs["p95_latency_ms"].metric = "p95_s"
      BY DEF ThresholdSpecs, Reads
    <2> QED BY <1>0, <1>8, <2>1, FailedIsNumber
  <1>9. CASE Number(result, "latency", "tail_ratio", 0) >= 300 /\ offered("latency", "p99_s")
    <2>1. Number(result, "latency", "tail_ratio", 0) # 0
      BY <1>9
    <2>2. /\ at("latency") \in DOMAIN result.probes
          /\ result.probes[at("latency")].probe = "latency"
          /\ result.probes[at("latency")].applicable
          /\ "tail_ratio" \in DOMAIN result.probes[at("latency")].metrics
          /\ result.probes[at("latency")].metrics["tail_ratio"] # Missing
      BY <1>0, <2>1, NumberIsPublished
    <2>3. at("latency") # 0
      BY <1>0, <2>2, SequenceLen
    <2>4. Metric(result.probes[at("latency")], "p99_s") = Missing
      BY <1>9, <2>2, <2>3, WithheldIsMissing
    <2>5. Suppresses(result.probes[at("latency")], "p99_s")
      BY <2>2, <2>4 DEF AllBacked, Backed
    <2> QED BY <1>9, <2>2, <2>5, SuppressedIsPrinted
  <1>10. CASE Flag(result, "cost", "bloat_detected") /\ offered("cost", "cost_per_request")
    <2>1. at("cost") # 0 /\ result.probes[at("cost")].applicable
      <3> SUFFICES ASSUME at("cost") = 0 \/ ~result.probes[at("cost")].applicable PROVE FALSE
        OBVIOUS
      <3>1. Published(result, "cost") = [none |-> Missing]
        BY DEF Published
      <3> QED BY <1>10, <3>1 DEF Flag
    <2>2. /\ at("cost") \in DOMAIN result.probes /\ result.probes[at("cost")].probe = "cost"
      BY <1>0, <2>1, FirstIsAPlace
    <2>3. "bloat_detected" \in DOMAIN result.probes[at("cost")].metrics
      <3>1. Published(result, "cost") = result.probes[at("cost")].metrics
        BY <2>1 DEF Published
      <3> QED BY <1>10, <3>1 DEF Flag
    <2>4. Metric(result.probes[at("cost")], "cost_per_request") = Missing
      BY <1>10, <2>1, WithheldIsMissing
    <2> QED BY <2>1, <2>2, <2>3, <2>4 DEF AllBacked, Backed
  <1>11. CASE FailedCheck(report.checks, "cost_per_request_max") /\ offered("cost", "cost_per_request")
    <2>1. ThresholdSpecs["cost_per_request_max"].probe = "cost"
          /\ ThresholdSpecs["cost_per_request_max"].metric = "cost_per_request"
      BY DEF ThresholdSpecs, Reads
    <2> QED BY <1>0, <1>11, <2>1, FailedIsNumber
  <1> QED
    BY <1>1, <1>2, <1>3, <1>4, <1>5, <1>6, <1>7, <1>8, <1>9, <1>10, <1>11

(* When no probe is named twice, no section of the guide rests on a metric *)
(* its scan withheld without saying so (agents_md.py _section_caveats).    *)
THEOREM GuideNeverBareAlways ==
  ASSUME \A o \in Options : Distinct(o.probes)
  PROVE  Spec => []GuideNeverBare
  <1>1. ScanInv /\ Planned /\ AllBacked => GuideNeverBare
    BY AdviceIsBacked DEF GuideNeverBare
  <1> QED
    BY <1>1, PlannedAlways, AllBackedAlways, ScanInvCorrect, PTL

-----------------------------------------------------------------------------
(* A server that took nothing.                                             *)

(* What an entry says when no call of the scan was accepted: the latency   *)
(* probe timed failures, and the operations of the chaos pass came back    *)
(* from nothing, unless the behaviour probe withholds that because of the  *)
(* first.                                                                  *)
FailedThroughout(e) == e.probe = "latency" /\ Metric(e, "error_rate") = 100

NothingTaken(rule, e, entries) ==
    /\ rule # "service" /\ e.probe = "behavior" => ~e.applicable
    /\ rule = "service" /\ e.probe = "latency" =>
          /\ e.applicable => Metric(e, "error_rate") = 100
          /\ Metric(e, "error_rate") # Missing => e.applicable
    /\ rule = "service" /\ e.probe = "behavior" /\ e.applicable =>
          \/ Metric(e, "recovery_rate") = 0 /\ Metric(e, "recovery_floor") = 96
          \/ \E j \in DOMAIN entries : FailedThroughout(entries[j])

Untaken ==
    ~accepted /\ ~opts.tool_args =>
        /\ server.preflight # "ok"
        /\ NothingCompleted(result.ops)
        /\ \A i \in DOMAIN result.probes : NothingTaken(result.rule, result.probes[i], result.probes)

(* Operations of which none was ever answered were all disrupted, and none *)
(* of them recovered.                                                      *)
LEMMA NothingRecovered ==
  ASSUME NEW ops \in Seq(OperationOK), ops # <<>>, NothingCompleted(ops)
  PROVE  RecoveryRate(ops) = 0
  <1> DEFINE D == {i \in DOMAIN ops : Disrupted(ops[i])}
             R == {i \in D : RecoveredOp(ops[i])}
  <1>1. IsSequence(ops)
    BY TypedIsSequence
  <1>2. Len(ops) \in Nat /\ DOMAIN ops = 1..Len(ops) /\ Len(ops) >= 1
    BY LenProperties, EmptySeq
  <1>3. ASSUME NEW i \in DOMAIN ops
        PROVE  Disrupted(ops[i]) /\ ~RecoveredOp(ops[i])
    <2> DEFINE tries == ops[i].attempts
    <2>1. ops[i] \in OperationOK
      BY <1>2
    <2>2. /\ tries \in Seq([ok : BOOLEAN, injected : BOOLEAN]) /\ tries # <<>>
          /\ \A k \in 1..(Len(tries) - 1) : ~tries[k].ok
      BY <2>1 DEF OperationOK
    <2>3. ~tries[Len(tries)].ok
      BY <1>3 DEF NothingCompleted, FailedOp
    <2> HIDE DEF tries
    <2>4. Len(tries) \in Nat /\ DOMAIN tries = 1..Len(tries) /\ Len(tries) >= 1
      BY <2>2, LenProperties, EmptySeq
    <2>5. \A k \in DOMAIN tries : ~tries[k].ok
      BY <2>2, <2>3, <2>4
    <2> QED BY <2>4, <2>5 DEF Disrupted, RecoveredOp, tries
  <1>4. D = DOMAIN ops /\ R = {}
    BY <1>3
  <1>5. IsFiniteSet(D) /\ Cardinality(D) \in Nat /\ D # {}
    BY <1>1, <1>2, <1>4, PartOfRecord
  <1>6. RecoveryRate(ops) = IF D = {} THEN Missing ELSE (100 * Cardinality(R)) \div Cardinality(D)
    BY DEF RecoveryRate
  <1> HIDE DEF D, R
  <1>7. Cardinality(D) >= 1 /\ Cardinality(R) = 0
    BY <1>4, <1>5, FS_EmptySet
  <1>8. \A b \in Nat : b >= 1 => (100 * 0) \div b = 0
    BY SMT
  <1> QED
    BY <1>5, <1>6, <1>7, <1>8

(* The floor of two retries at a fault rate of one in five.                *)
LEMMA FloorIsNinetySix == RecoveryFloor(20, 2) = 96
  BY SMT DEF RecoveryFloor

(* While probes run without arguments of the user's, a probe that depends  *)
(* on the baseline has one that was not refused.                           *)
LEMMA NotRefused ==
  ASSUME Planned, stage = "running", result.rule = "service", ~opts.tool_args,
         NEW probe \in result.selected \cap BaselineDependent
  PROVE  server.preflight # "refused"
  BY DEF Planned, UnusableBaseline

(* The latency probe, when none of its requests was answered.              *)
LEMMA LatencyUntaken ==
  ASSUME ScanOK, server.preflight # "refused", NEW s \in LatencySamples, ~s.ok
  PROVE  LET e == Entry("latency", s) IN e.applicable /\ Metric(e, "error_rate") = 100
  <1>1. PICK r \in server.replies :
          s = Sample(LatencyReading(r, server.preflight),
                     LatencyCaveats(r, server.preflight, server.banner), Successes(r) # {})
    BY DEF LatencySamples
  <1>2. r \in Seq(ReplyOK)
    BY ServerIsOK DEF ServerOK
  <1>3. Successes(r) = {}
    BY <1>1 DEF Sample
  <1>4. ErrorRate(r) = 100
    <2>1. Cardinality(Successes(r)) = 0
      BY <1>3, FS_EmptySet
    <2>2. Len(r) \in Nat /\ (r # <<>> => Len(r) >= 1)
      BY <1>2, LenProperties, EmptySeq
    <2>3. r # <<>> => (100 * (Len(r) - 0)) \div Len(r) = 100
      BY <2>2, Division
    <2> QED BY <2>1, <2>3 DEF ErrorRate
  <1> DEFINE e == Entry("latency", s)
  <1>5. /\ e.applicable <=> ~BaselineUnusable(r, server.preflight)
        /\ e.metrics = [error_rate |-> ErrorRate(r), p95_s |-> Percentile(Latencies(r), 95),
                        p99_s |-> IF Cardinality(Successes(r)) < P99MinSample THEN Missing
                                  ELSE Percentile(Latencies(r), 99),
                        tail_ratio |-> TailRatio(Latencies(r))]
    BY <1>1 DEF Entry, Sample, LatencyReading, Reading
  <1> HIDE DEF e
  <1>6. e.applicable /\ Metric(e, "error_rate") = 100
    BY <1>4, <1>5 DEF BaselineUnusable, Metric
  <1> QED
    BY <1>6 DEF e

(* The behaviour probe, when no operation was ever answered.               *)
LEMMA BehaviorUntaken ==
  ASSUME ScanInv, NothingCompleted(result.ops), NEW s \in BehaviorSamples,
         Entry("behavior", s).applicable
  PROVE  LET e == Entry("behavior", s)
         IN  \/ Metric(e, "recovery_rate") = 0 /\ Metric(e, "recovery_floor") = 96
             \/ \E j \in DOMAIN result.probes : FailedThroughout(result.probes[j])
  <1> DEFINE e == Entry("behavior", s)
             reading == ServiceReading(OracleSaid, result.ops, BaselineErrors, 20, 2, FALSE)
             caveats == ServiceCaveats(OracleSaid, result.ops, BaselineErrors, FALSE)
  <1>1. e.applicable = reading.applicable /\ e.metrics = reading.metrics
    <2>1. s = Sample(reading, caveats, FALSE)
      BY DEF BehaviorSamples
    <2> HIDE DEF reading, caveats
    <2> QED BY <2>1 DEF Entry, Sample
  <1>2. result.ops # <<>>
    BY <1>1 DEF ServiceReading, Inapplicable
  <1>3. CASE BaselineErrors = 100
    <2> DEFINE at == FirstOf(result, "latency")
    <2>1. at # 0 /\ Metric(result.probes[at], "error_rate") = 100
      BY <1>3 DEF BaselineErrors, Missing
    <2>2. at \in DOMAIN result.probes /\ result.probes[at].probe = "latency"
      BY <2>1, FirstIsAPlace DEF ScanInv
    <2> QED BY <2>1, <2>2 DEF FailedThroughout
  <1>4. CASE BaselineErrors # 100
    <2> DEFINE loops == LoopsDetected(result.ops)
               duplicates == ServiceDuplicates(OracleSaid, result.ops)
               lost == ServiceLost(OracleSaid, result.ops)
    <2>1. RecoveryRate(result.ops) = 0
      BY <1>2, NothingRecovered DEF ScanInv, ScanOK
    <2>2. PICK amplification :
            reading.metrics = [recovery_rate |-> 0, recovery_floor |-> 96,
                               retry_amplification |-> amplification,
                               duplicate_mutations |-> duplicates, lost_effects |-> lost,
                               loops_detected |-> loops, caller_strategy_applicable |-> FALSE]
      BY <1>2, <1>4, <2>1, FloorIsNinetySix DEF ServiceReading
    <2> HIDE DEF reading, loops, duplicates, lost, e
    <2>3. Metric(e, "recovery_rate") = 0 /\ Metric(e, "recovery_floor") = 96
      BY <1>1, <2>2 DEF Metric
    <2> QED BY <2>3 DEF e
  <1> QED
    BY <1>3, <1>4

(* What one more report says of a server that took nothing.                *)
LEMMA ReportUntaken ==
  ASSUME ScanInv, Planned, Untaken, ~accepted, ~opts.tool_args, stage = "running",
         todo # <<>>, NEW s \in Samples(Head(todo)) \cup {Contained}, ~s.ok
  PROVE  /\ NothingTaken(result.rule, Entry(Head(todo), s), result.probes)
         /\ Head(todo) = "fault" => NothingCompleted(s.ops)
  <1> DEFINE probe == Head(todo)
             e == Entry(probe, s)
  <1>0. e.probe = probe
    BY DEF Entry
  <1>1. CASE s = Contained
    <2>1. ~e.applicable /\ e.metrics = <<>> /\ s.ops = <<>>
      BY <1>1 DEF Entry, Contained, Sample, Inapplicable
    <2>2. Metric(e, "error_rate") = Missing
      BY <2>1 DEF Metric
    <2>3. NothingCompleted(s.ops)
      BY <2>1 DEF NothingCompleted
    <2> QED BY <1>0, <2>1, <2>2, <2>3 DEF NothingTaken
  <1>2. CASE s # Contained /\ result.rule # "service"
    <2>1. probe # "behavior"
      <3> SUFFICES ASSUME probe = "behavior" PROVE FALSE
        OBVIOUS
      <3>1. s \in {Sample(r.reading, AgentCaveats(r.reading, r.kind), TRUE) : r \in AgentReadings}
        BY <1>2 DEF Samples
      <3> QED BY <3>1 DEF Sample
    <2>2. s = Sample(Reading(TRUE, <<>>), {}, FALSE)
      BY <1>2, <2>1 DEF Samples
    <2>3. NothingCompleted(s.ops)
      BY <2>2 DEF Sample, NothingCompleted
    <2> QED BY <1>0, <1>2, <2>1, <2>3 DEF NothingTaken
  <1>3. CASE s # Contained /\ result.rule = "service"
    <2>1. s \in ServiceSamples(probe)
      BY <1>3 DEF Samples
    <2>2. CASE probe = "latency"
      <3>1. probe \in result.selected
        BY TailOnce DEF ScanInv, Planned
      <3>2. server.preflight # "refused"
        BY <1>3, <2>2, <3>1, NotRefused DEF BaselineDependent
      <3>3. e.applicable /\ Metric(e, "error_rate") = 100
        BY <2>1, <2>2, <3>2, ServiceSamplesAre, LatencyUntaken DEF ScanInv
      <3> QED BY <1>0, <2>2, <3>3 DEF NothingTaken
    <2>3. CASE probe = "behavior"
      <3>1. e.applicable =>
              \/ Metric(e, "recovery_rate") = 0 /\ Metric(e, "recovery_floor") = 96
              \/ \E j \in DOMAIN result.probes : FailedThroughout(result.probes[j])
        BY <2>1, <2>3, ServiceSamplesAre, BehaviorUntaken DEF Untaken
      <3> QED BY <1>0, <1>3, <2>3, <3>1 DEF NothingTaken
    <2>4. CASE probe \notin {"latency", "behavior"}
      <3>1. NothingTaken(result.rule, e, result.probes)
        BY <1>0, <2>4 DEF NothingTaken
      <3>2. ASSUME probe = "fault" PROVE NothingCompleted(s.ops)
        <4>1. PICK ops \in server.chaos :
                s = [Sample(FaultReading(ops), FaultCaveats(ops), ~NothingCompleted(ops))
                        EXCEPT !.ops = ops]
          BY <2>1, <3>2, ServiceSamplesAre DEF FaultSamples
        <4>2. s.ops = ops /\ s.ok = ~NothingCompleted(ops)
          BY <4>1 DEF Sample
        <4> QED BY <4>2
      <3> QED BY <3>1, <3>2
    <2> QED BY <2>2, <2>3, <2>4
  <1> QED
    BY <1>1, <1>2, <1>3

(* An entry that says nothing was taken says so beside later ones.         *)
LEMMA UntakenStays ==
  ASSUME NEW s, NEW entries, IsSequence(entries), NEW e, NEW rule, NothingTaken(rule, e, entries)
  PROVE  NothingTaken(rule, e, Append(entries, s))
  <1>1. \A j \in DOMAIN entries :
           j \in DOMAIN Append(entries, s) /\ Append(entries, s)[j] = entries[j]
    BY AppendIsSequence
  <1> QED
    BY <1>1 DEF NothingTaken

(* Untaken is inductive.                                                   *)
LEMMA UntakenStep == ScanInv /\ Planned /\ Untaken /\ [Next]_vars => Untaken'
  <1> SUFFICES ASSUME ScanInv, Planned, Untaken, [Next]_vars,
                      ~accepted', ~opts'.tool_args
               PROVE  /\ server'.preflight # "ok"
                      /\ NothingCompleted(result'.ops)
                      /\ \A i \in DOMAIN result'.probes :
                            NothingTaken(result'.rule, result'.probes[i], result'.probes)
    BY DEF Untaken
  <1>1. CASE ProbeReports
    <2>1. PICK s \in Samples(Head(todo)) \cup {Contained} :
            /\ result'.probes = Append(result.probes, Entry(Head(todo), s))
            /\ result'.rule = result.rule
            /\ result'.ops = IF Head(todo) = "fault" THEN s.ops ELSE result.ops
            /\ accepted' = (accepted \/ s.ok)
      BY <1>1, ReportIs
    <2>2. /\ ~accepted /\ ~s.ok /\ ~opts.tool_args /\ server' = server
          /\ stage = "running" /\ todo # <<>>
      BY <1>1, <2>1 DEF ProbeReports
    <2> DEFINE e == Entry(Head(todo), s)
    <2>3. NothingTaken(result.rule, e, result.probes) /\ (Head(todo) = "fault" => NothingCompleted(s.ops))
      BY <2>2, ReportUntaken
    <2>4. server.preflight # "ok" /\ NothingCompleted(result.ops)
          /\ \A i \in DOMAIN result.probes : NothingTaken(result.rule, result.probes[i], result.probes)
      BY <2>2 DEF Untaken
    <2> HIDE DEF e
    <2>5. \A i \in DOMAIN Append(result.probes, e) :
             \/ i \in DOMAIN result.probes /\ Append(result.probes, e)[i] = result.probes[i]
             \/ Append(result.probes, e)[i] = e
      BY AppendIsSequence DEF ScanInv
    <2>6. \A i \in DOMAIN Append(result.probes, e) :
             NothingTaken(result.rule, Append(result.probes, e)[i], Append(result.probes, e))
      BY <2>3, <2>4, <2>5, UntakenStays DEF ScanInv
    <2>7. result'.probes = Append(result.probes, e)
      BY <2>1 DEF e
    <2>8. result'.rule = result.rule
      BY <2>1
    <2>9. \A i \in DOMAIN result'.probes : NothingTaken(result'.rule, result'.probes[i], result'.probes)
      BY <2>6, <2>7, <2>8
    <2>10. NothingCompleted(result'.ops)
      BY <2>1, <2>3, <2>4
    <2> QED BY <2>2, <2>4, <2>9, <2>10
  <1>2. CASE ~ProbeReports
    <2>1. /\ opts' = opts /\ server' = server /\ accepted' = accepted
          /\ result'.probes = result.probes /\ result'.ops = result.ops
          /\ result'.rule = result.rule
      <3>1. CASE Start
        BY <3>1 DEF Start, ScanInv, ResultFields
      <3>2. CASE ~Start
        BY <1>2, <3>2 DEF Next, RefuseUsage, TargetRefuses, RefuseUnusableBaseline, SetUp,
                          Escapes, NothingToRun, Score, CiExits, ScanExits, vars
      <3> QED BY <3>1, <3>2
    <2>2. server.preflight # "ok" /\ NothingCompleted(result.ops)
          /\ \A i \in DOMAIN result.probes : NothingTaken(result.rule, result.probes[i], result.probes)
      BY <2>1 DEF Untaken
    <2>3. \A i \in DOMAIN result'.probes : NothingTaken(result'.rule, result'.probes[i], result'.probes)
      BY <2>1, <2>2
    <2> QED BY <2>1, <2>2, <2>3
  <1> QED
    BY <1>1, <1>2

(* While no call was accepted, no probe has measured anything but that.    *)
LEMMA UntakenAlways ==
  ASSUME \A o \in Options : Distinct(o.probes)
  PROVE  Spec => []Untaken
  <1>1. Init => Untaken
    <2> SUFFICES ASSUME Init PROVE Untaken
      OBVIOUS
    <2>1. result.probes = <<>> /\ result.ops = <<>> /\ accepted = (server.preflight = "ok")
      BY DEF Init
    <2>2. DOMAIN <<>> = {}
      OBVIOUS
    <2> QED BY <2>1, <2>2 DEF Untaken, NothingCompleted
  <1> QED
    BY <1>1, UntakenStep, PlannedAlways, ScanInvCorrect, PTL DEF Spec

(* A policy that asks about errors and recovery, tolerates fewer than all  *)
(* requests failing, and does not rest half of its weight or more on the   *)
(* two probes that need no accepted call; the shipped policy is one.       *)
AsksForCalls(p) ==
    /\ {"error_rate_max", "recovery_rate_min"} \subseteq DOMAIN p.thresholds
    /\ p.thresholds["error_rate_max"] < 100
    /\ LET offline == {"cost", "contract"} \cap DOMAIN p.weights
       IN  2 * SumOf(p.weights, offline) <= GradedWeight(p)

(* No check failed, so the latency probe did not measure an error rate and *)
(* the behaviour probe did not apply.                                      *)
LEMMA NothingMeasured ==
  ASSUME ScanInv, Planned, Untaken, ~accepted, ~opts.tool_args, result.rule = "service",
         AsksForCalls(policy), Failed(Checks(result, policy)) = {},
         NEW i \in DOMAIN result.probes, result.probes[i].probe \in {"latency", "behavior"}
  PROVE  ~result.probes[i].applicable
  <1>1. \A j \in DOMAIN result.probes : NothingTaken("service", result.probes[j], result.probes)
    BY DEF Untaken
  <1>2. \A name \in Specs(policy) :
           LET c == ScoreCheck(result, policy, name) IN c.passed \/ c.skipped
    BY DEF Failed, Checks
  <1>3. ASSUME NEW j \in DOMAIN result.probes, result.probes[j].probe = "latency"
        PROVE  ~result.probes[j].applicable /\ Metric(result.probes[j], "error_rate") # 100
    <2> DEFINE n == "error_rate_max"
               spec == ThresholdSpecs[n]
    <2>1. n \in Specs(policy) /\ policy.thresholds[n] \in Nat /\ policy.thresholds[n] < 100
      <3>1. n \in Specs(policy)
        BY DEF AsksForCalls, Specs, DeprecatedThresholds
      <3> QED BY <3>1, ServerIsOK, ThresholdIsNat DEF AsksForCalls, ScanInv
    <2>2. spec.probe = "latency" /\ spec.metric = "error_rate" /\ spec.direction = "max"
      BY DEF ThresholdSpecs, Reads
    <2>3. LastOf(result, "latency") = j /\ j # 0
      BY <1>3, OneEntry
    <2> DEFINE seen == Observed(result, j, spec)
    <2>4. ThresholdFor(result, policy, n, j) = policy.thresholds[n]
      BY DEF ThresholdFor, DerivedFrom
    <2>5. LET c == ScoreCheck(result, policy, n)
          IN  /\ c.skipped <=> seen = Missing
              /\ c.passed <=> (seen = Missing \/ Meets("max", policy.thresholds[n], seen))
      <3> HIDE DEF seen
      <3>1. seen = Observed(result, LastOf(result, spec.probe), spec)
        BY <2>2, <2>3 DEF seen
      <3> QED BY <2>2, <2>3, <2>4, <3>1 DEF ScoreCheck
    <2>6. seen # 100
      <3> SUFFICES ASSUME seen = 100 PROVE FALSE
        OBVIOUS
      <3> HIDE DEF seen, n
      <3>1. ~Meets("max", policy.thresholds[n], seen)
        BY <2>1 DEF Meets
      <3> QED BY <1>2, <2>1, <2>5, <3>1 DEF Missing
    <2>7. seen = IF result.probes[j].applicable THEN Metric(result.probes[j], "error_rate")
                 ELSE Missing
      BY <2>2, <2>3 DEF Observed
    <2>8. /\ result.probes[j].applicable => Metric(result.probes[j], "error_rate") = 100
          /\ Metric(result.probes[j], "error_rate") # Missing => result.probes[j].applicable
      BY <1>1, <1>3 DEF NothingTaken
    <2> HIDE DEF seen
    <2> QED BY <2>6, <2>7, <2>8 DEF Missing
  <1>4. CASE result.probes[i].probe = "latency"
    BY <1>3, <1>4
  <1>5. CASE result.probes[i].probe = "behavior"
    <2> SUFFICES ASSUME result.probes[i].applicable PROVE FALSE
      OBVIOUS
    <2>1. \A j \in DOMAIN result.probes : ~FailedThroughout(result.probes[j])
      BY <1>3 DEF FailedThroughout
    <2>2. /\ Metric(result.probes[i], "recovery_rate") = 0
          /\ Metric(result.probes[i], "recovery_floor") = 96
      BY <1>1, <1>5, <2>1 DEF NothingTaken
    <2> DEFINE n == "recovery_rate_min"
               spec == ThresholdSpecs[n]
    <2>3. n \in Specs(policy)
      BY DEF AsksForCalls, Specs, DeprecatedThresholds
    <2>4. spec.probe = "behavior" /\ spec.metric = "recovery_rate" /\ spec.direction = "min"
      BY DEF ThresholdSpecs, Reads
    <2>5. LastOf(result, "behavior") = i /\ i # 0
      BY <1>5, OneEntry
    <2>6. ThresholdFor(result, policy, n, i) = 96
      BY <2>2, <2>5 DEF ThresholdFor, DerivedFrom, Missing
    <2>7. Observed(result, i, spec) = 0
      BY <2>2, <2>4, <2>5 DEF Observed
    <2>8. LET c == ScoreCheck(result, policy, n) IN ~c.passed /\ ~c.skipped
      <3> DEFINE seen == Observed(result, i, spec)
                 floor == ThresholdFor(result, policy, n, i)
      <3>1. /\ seen = Observed(result, LastOf(result, spec.probe), spec)
            /\ floor = ThresholdFor(result, policy, n, LastOf(result, spec.probe))
        BY <2>4, <2>5
      <3>2. ~Meets("min", floor, seen) /\ seen # Missing
        BY <2>6, <2>7 DEF Meets, Missing
      <3> HIDE DEF seen, floor, n
      <3>3. LET c == ScoreCheck(result, policy, n)
            IN  /\ c.skipped <=> seen = Missing
                /\ c.passed <=> (seen = Missing \/ Meets("min", floor, seen))
        BY <2>4, <3>1 DEF ScoreCheck
      <3> QED BY <3>2, <3>3
    <2> QED BY <1>2, <2>3, <2>8
  <1> QED
    BY <1>4, <1>5

(* A dimension with a score is that of a probe that measured.              *)
LEMMA MeasuredIsApplicable ==
  ASSUME NEW r, IsSequence(r.probes), NEW p, PolicyLoads(p),
         NEW d \in Measured(Breakdown(r, p, Checks(r, p)))
  PROVE  /\ d \in DOMAIN p.weights
         /\ d \in {"latency", "behavior", "cost", "contract"}
         /\ \E i \in DOMAIN r.probes : r.probes[i].probe = d /\ r.probes[i].applicable
  <1> DEFINE at == FirstOf(r, d)
  <1>1. d \in DOMAIN p.weights /\ ProbeScore(Checks(r, p), at) # Missing
    BY DEF Measured, Breakdown
  <1>2. at # 0 /\ \E c \in Checks(r, p) : c.at = at /\ ~c.skipped
    BY <1>1 DEF ProbeScore
  <1>3. PICK n \in Specs(p) :
          LET c == ScoreCheck(r, p, n) IN c.at = at /\ ~c.skipped
    BY <1>2 DEF Checks
  <1> DEFINE spec == ThresholdSpecs[n]
  <1>4. LastOf(r, spec.probe) = at /\ Observed(r, at, spec) # Missing
    BY <1>3 DEF ScoreCheck
  <1>5. at \in DOMAIN r.probes /\ r.probes[at].probe = d /\ r.probes[at].probe = spec.probe
    BY <1>2, <1>4, FirstIsAPlace, LastIsAPlace
  <1>6. r.probes[at].applicable
    BY <1>4 DEF Observed
  <1>7. n \in ScoredNames
    BY ThresholdIsNat
  <1>8. spec.probe \in {"latency", "behavior", "cost", "contract"}
    BY <1>7 DEF ScoredNames, ThresholdSpecs, DeprecatedThresholds, Reads
  <1> QED
    BY <1>1, <1>5, <1>6, <1>8

(* What is left to be measured does not carry enough of the weight.        *)
LEMMA TooLittleMeasured ==
  ASSUME NEW r, NEW p, PolicyLoads(p), AsksForCalls(p),
         Measured(Breakdown(r, p, Checks(r, p))) \subseteq {"cost", "contract"}
  PROVE  ~CoverageIsEnough(Breakdown(r, p, Checks(r, p)), p)
  <1> DEFINE b == Breakdown(r, p, Checks(r, p))
             M == Measured(b)
             offline == {"cost", "contract"} \cap DOMAIN p.weights
             w == [d \in M |-> b[d].weight]
  <1>1. M \subseteq offline /\ \A d \in M : b[d].weight = p.weights[d]
    BY DEF Measured, Breakdown
  <1>2. IsFiniteSet(offline) /\ \A d \in offline : p.weights[d] \in Nat
    <2>1. IsFiniteSet(DOMAIN p.weights)
      BY DEF PolicyLoads
    <2> QED BY <2>1, FS_Subset DEF PolicyLoads
  <1> HIDE DEF b, M, offline
  <1> DEFINE rest == offline \ M
  <1>3. /\ IsFiniteSet(M) /\ IsFiniteSet(rest) /\ M \cap rest = {} /\ M \cup rest = offline
        /\ \A d \in M \cup rest : p.weights[d] \in Nat /\ p.weights[d] \in Int
    BY <1>1, <1>2, FS_Subset
  <1> HIDE DEF rest
  <1>4. WeightOf(b, M) = SumOf(p.weights, M)
    <2>1. WeightOf(b, M) = SumOf(w, M)
      BY <1>3, WeightIsSum
    <2>2. SumOf(w, M) = SumOf(p.weights, M)
      BY <1>1, <1>3, SumEqual
    <2> QED BY <2>1, <2>2
  <1>5. SumOf(p.weights, M \cup rest) = SumOf(p.weights, M) + SumOf(p.weights, rest)
    BY <1>3, SumDisjoint
  <1>6. SumOf(p.weights, offline) = SumOf(p.weights, M) + SumOf(p.weights, rest)
    BY <1>3, <1>5, Zenon
  <1>7. /\ SumOf(p.weights, M) \in Nat /\ SumOf(p.weights, rest) \in Nat
        /\ SumOf(p.weights, offline) \in Nat
    <2>1. SumOf(p.weights, M) \in Nat /\ SumOf(p.weights, rest) \in Nat
      BY <1>3, SumIsNat
    <2> QED BY <1>6, <2>1
  <1>8. 2 * SumOf(p.weights, offline) <= GradedWeight(p)
    BY DEF AsksForCalls, offline
  <1>9. GradedWeight(p) \in Nat
    <2> DEFINE graded == {ThresholdSpecs[n].probe : n \in Specs(p)} \cap DOMAIN p.weights
    <2>1. GradedWeight(p) = SumOf(p.weights, graded)
      BY DEF GradedWeight, SumOf
    <2>2. IsFiniteSet(graded) /\ \A d \in graded : p.weights[d] \in Nat
      BY FS_Subset DEF PolicyLoads
    <2> HIDE DEF graded
    <2>3. SumOf(p.weights, graded) \in Nat
      BY <2>2, SumIsNat
    <2> QED BY <2>1, <2>3
  <1>10. CoverageIsEnough(b, p) => 2 * SumOf(p.weights, M) > GradedWeight(p)
    BY <1>4 DEF CoverageIsEnough, M
  <1>11. ~CoverageIsEnough(b, p)
    BY <1>6, <1>7, <1>8, <1>9, <1>10
  <1> QED
    BY <1>11 DEF b

(* A scan that reports with nothing accepted is not passed.                *)
LEMMA UntakenNeverPasses ==
  ASSUME ScanInv, Planned, Untaken, AsksForCalls(policy), report = Evaluate(result, policy),
         ~accepted, ~opts.tool_args
  PROVE  report.passed # "yes"
  <1> DEFINE checks == Checks(result, policy)
             b == Breakdown(result, policy, checks)
  <1> SUFFICES ASSUME report.passed = "yes" PROVE FALSE
    OBVIOUS
  <1>0. IsSequence(result.probes) /\ PolicyLoads(policy)
    BY ServerIsOK DEF ScanInv
  <1>1. /\ Failed(checks) = {}
        /\ IF result.rule = "agent_behavior" THEN AgentVerdictBlocker(result, b) = "none"
           ELSE CoverageIsEnough(b, policy)
    BY DEF Evaluate
  <1>2. CASE result.rule = "agent_behavior"
    <2> DEFINE at == FirstOf(result, "behavior")
    <2>1. AgentVerdictBlocker(result, b) = "none"
      BY <1>1, <1>2
    <2>2. at # 0 /\ result.probes[at].applicable
      <3> HIDE DEF b
      <3> QED BY <1>2, <2>1 DEF AgentVerdictBlocker
    <2>3. at \in DOMAIN result.probes /\ result.probes[at].probe = "behavior"
      BY <1>0, <2>2, FirstIsAPlace
    <2> QED BY <1>2, <2>2, <2>3 DEF Untaken, NothingTaken
  <1>3. CASE result.rule # "agent_behavior"
    <2>1. result.rule = "service"
      BY <1>3 DEF ScanInv, RuleOf
    <2>2. CoverageIsEnough(b, policy)
      BY <1>1, <1>3
    <2>3. ASSUME NEW d \in Measured(b) PROVE d \in {"cost", "contract"}
      <3>1. /\ d \in {"latency", "behavior", "cost", "contract"}
            /\ \E i \in DOMAIN result.probes :
                  result.probes[i].probe = d /\ result.probes[i].applicable
        BY <1>0, <2>3, MeasuredIsApplicable
      <3>2. d \notin {"latency", "behavior"}
        BY <1>1, <2>1, <3>1, NothingMeasured
      <3> QED BY <3>1, <3>2
    <2> QED BY <1>0, <2>2, <2>3, TooLittleMeasured
  <1> QED
    BY <1>2, <1>3

(* A scan none of whose calls was accepted does not pass on what it made   *)
(* up, whatever the server and whatever was measured of it, when no probe  *)
(* is named twice and its policy asks about calls                          *)
(* (scanner.py _refuse_unusable_baseline).                                 *)
THEOREM NothingAcceptedNeverPassesAlways ==
  ASSUME \A o \in Options : Distinct(o.probes), \A p \in Policies : AsksForCalls(p)
  PROVE  Spec => []NothingAcceptedNeverPasses
  <1>1. ScanInv /\ Planned /\ Untaken => NothingAcceptedNeverPasses
    <2> SUFFICES ASSUME ScanInv, Planned, Untaken, report.passed = "yes", ~opts.tool_args,
                        ~accepted
                 PROVE  FALSE
      BY DEF NothingAcceptedNeverPasses
    <2>1. report = Evaluate(result, policy)
      BY DEF ScanInv, NoReport
    <2>2. AsksForCalls(policy)
      BY DEF ScanInv, ScanOK
    <2> QED BY <2>1, <2>2, UntakenNeverPasses
  <1> QED
    BY <1>1, PlannedAlways, UntakenAlways, ScanInvCorrect, PTL
=============================================================================
