-------------------------- MODULE ScanSessionProofs --------------------------
(***************************************************************************)
(* Theorems about ScanSession for every family of commands, every surface  *)
(* of tools and any number of scans, checked by TLAPS.                     *)
(***************************************************************************)
EXTENDS ScanSession, TLAPS, FiniteSetTheorems

-----------------------------------------------------------------------------
(* The inductive invariant.                                                *)

Places ==
    {"idle", "connect", "initialize", "list", "select", "verify", "preflight",
     "probes", "before", "window", "after", "closing", "ended"}
Alarm == {"none", "user", "deadline"}
Ending == {"none", "refused", "transport", "stale", "cancelled", "result"}
Outcome == Ending \cup {"timeout", "killed"}

(* The ids the calls of a command can carry, and the calls of any scan.    *)
OwnIds(c) == {PreflightId} \cup {SentIds(c)[i] : i \in 1..c.requests}
Call == [id : UNION {OwnIds(c) : c \in Commands}, scan : Nat]
Read == {Unread} \cup [answered : {TRUE}, entries : SUBSET Call]

TypeOK ==
    /\ scan \in Nat /\ command \in Commands /\ at \in Places
    /\ alarm \in Alarm /\ session \in {"none", "open", "closed", "abandoned"}
    /\ bounded \in BOOLEAN /\ ending \in Ending /\ outcome \in Outcome
    /\ preflight \in {"none", "sent", "ok", "refused", "undelivered"}
    /\ reads \in [setup : Read, before : Read, after : BOOLEAN]
    /\ flying \subseteq Call /\ landed \subseteq Call

(* A read counts finitely many entries: what counting rests on.            *)
FiniteState ==
    /\ IsFiniteSet(landed)
    /\ reads.before # Unread => IsFiniteSet(reads.before.entries)

(* A call names the scan that sent it, and its id is one of that command's.*)
CallsAreOurs ==
    \A c \in flying \cup landed :
        c.scan <= scan /\ (c.scan = scan => c.id \in OwnIds(command))

(* Up to the preflight the scan has sent nothing that may write.           *)
BeforePreflight ==
    \/ at \in {"connect", "initialize", "list", "select", "verify"}
    \/ at = "preflight" /\ preflight = "none"

NothingSent == \A c \in flying \cup landed : c.scan # scan
QuietUntilPreflight == BeforePreflight => NothingSent

(* Only a scan that has sent nothing unwinds with "stale", and it has left *)
(* the block that could send; past the read at setup the ids are not stale.*)
StaleIsQuiet ==
    /\ "stale" \in {ending, outcome} => NothingSent /\ at \in {"closing", "ended"}
    /\ at = "preflight" => ~SetupRefusesStale(command, reads.setup)

SessionInv ==
    TypeOK /\ FiniteState /\ CallsAreOurs /\ QuietUntilPreflight /\ StaleIsQuiet

-----------------------------------------------------------------------------
(* Every variable keeps its type.                                          *)

(* A scan that has not connected is well typed.                            *)
LEMMA InitTypes == ASSUME Init PROVE TypeOK
BY DEF Init, TypeOK, NoReads, Read, Places, Alarm, Ending, Outcome

(* What a call of the running scan looks like.                             *)
LEMMA OwnCallTypes ==
    ASSUME TypeOK, NEW id \in OwnIds(command)
    PROVE  [id |-> id, scan |-> scan] \in Call
BY DEF TypeOK, Call

(* The ids a recovery pass sends are among those its command makes.        *)
LEMMA SentIdsAreOwn ==
    ASSUME NEW i \in 1..command.requests
    PROVE  SentIds(command)[i] \in OwnIds(command)
BY DEF OwnIds

(* Every await answered, failed, given up or cancelled keeps the types.    *)
LEMMA NextTypes ==
    ASSUME ScanSessionAssumption, TypeOK, [Next]_vars
    PROVE  TypeOK'
<1> USE DEF TypeOK, Places, Alarm, Ending, Outcome
<1>1. CASE Start
  <2>1. NoReads \in [setup : Read, before : Read, after : BOOLEAN]
    BY DEF NoReads, Read
  <2>2. reads' \in [setup : Read, before : Read, after : BOOLEAN]
    BY <1>1, <2>1 DEF Start
  <2>3. flying' \subseteq Call /\ landed' \subseteq Call
    BY <1>1 DEF Start, world
  <2>4. /\ scan' \in Nat /\ command' \in Commands /\ at' = "connect" /\ alarm' = "none"
        /\ session' = "open" /\ bounded' = FALSE /\ ending' = "none" /\ outcome' = "none"
        /\ preflight' = "none"
    BY <1>1 DEF Start
  <2> QED BY <2>2, <2>3, <2>4
<1>2. CASE Select
  <2>1. CASE CloseConnected("refused")
    BY <1>2, <2>1 DEF Select, CloseConnected, Close, run, world
  <2>2. CASE at' \in {"verify", "preflight"} /\ UNCHANGED <<session, bounded, ending, outcome>>
    BY <1>2, <2>2 DEF Select, run, world
  <2> QED BY <1>2, <2>1, <2>2 DEF Select
<1>3. CASE Probes
  <2>1. CASE CloseConnected("result")
    BY <1>3, <2>1 DEF Probes, CloseConnected, Close, run, world
  <2>2. CASE at' \in {"before", "window"} /\ UNCHANGED <<session, bounded, ending, outcome>>
    BY <1>3, <2>2 DEF Probes, run, world
  <2> QED BY <1>3, <2>1, <2>2 DEF Probes
<1>4. CASE Connected
  BY <1>4 DEF Connected, Connecting, run, ends, world
<1>5. CASE ConnectFails
  BY <1>5 DEF ConnectFails, CloseUnconnected, Close, run, world
<1>6. ASSUME NEW by \in Alarm, ConnectCancelled(by) PROVE TypeOK'
  <2>1. /\ at' = "closing" /\ ending' \in {"transport", "cancelled"} /\ bounded' = FALSE
        /\ alarm' = by
    BY <1>6 DEF ConnectCancelled, CloseUnconnected, Close
  <2>2. UNCHANGED <<scan, command, session, outcome, preflight, reads, flying, landed>>
    BY <1>6 DEF ConnectCancelled, CloseUnconnected, Close, run, world
  <2>3. /\ at' \in Places /\ ending' \in Ending /\ bounded' \in BOOLEAN /\ alarm' \in Alarm
    BY <1>6, <2>1
  <2>4. /\ scan' \in Nat /\ command' \in Commands /\ outcome' \in Outcome
        /\ session' \in {"none", "open", "closed", "abandoned"}
    BY <2>2
  <2>5. /\ preflight' \in {"none", "sent", "ok", "refused", "undelivered"}
        /\ reads' \in [setup : Read, before : Read, after : BOOLEAN]
        /\ flying' \subseteq Call /\ landed' \subseteq Call
    BY <2>2
  <2> QED BY <2>3, <2>4, <2>5
<1>7. ASSUME NEW read \in {Unread, Snapshot} PROVE read \in Read
  <2>1. Snapshot \in [answered : {TRUE}, entries : SUBSET Call]
    BY Zenon DEF Snapshot
  <2> QED BY <1>7, <2>1, Zenon DEF Read
<1>8. ASSUME NEW read \in Read, SetupReads(read) PROVE TypeOK'
  <2>1. CASE CloseConnected("stale")
    BY <1>8, <2>1 DEF SetupReads, CloseConnected, Close, run, world
  <2>2. CASE at' = "preflight" /\ UNCHANGED <<session, bounded, ending, outcome>>
    BY <1>8, <2>2 DEF SetupReads, run, world
  <2> QED BY <1>8, <2>1, <2>2 DEF SetupReads
<1>9. ASSUME NEW read \in Read, WindowOpens(read) PROVE TypeOK'
  BY <1>9 DEF WindowOpens, run, ends, world
<1>10. ASSUME NEW answered \in BOOLEAN, WindowCloses(answered) PROVE TypeOK'
  BY <1>10 DEF WindowCloses, CloseConnected, Close, run, world
<1>11. CASE SetupMisreads
  BY <1>11 DEF SetupMisreads, CloseConnected, Close, run, world
<1>12. CASE Preflight
  <2>1. PreflightId \in OwnIds(command)
    BY DEF OwnIds
  <2> QED BY <1>12, <2>1, OwnCallTypes DEF Preflight, SendCall, run, ends
<1>13. ASSUME NEW answer \in {"ok", "refused", "undelivered"}, Preflighted(answer)
       PROVE  TypeOK'
  <2>1. ASSUME NEW with \in {"refused", "stale"}, CloseConnected(with) PROVE TypeOK'
    BY <1>13, <2>1 DEF Preflighted, CloseConnected, Close, run, world
  <2>2. CASE at' = "probes" /\ UNCHANGED <<session, bounded, ending, outcome>>
    BY <1>13, <2>2 DEF Preflighted, run, world
  <2> QED BY <1>13, <2>1, <2>2 DEF Preflighted
<1>14. CASE Operate
  BY <1>14, SentIdsAreOwn, OwnCallTypes DEF Operate, ToSend, SendCall, run, ends
<1>15. CASE PassOver
  <2>1. CASE CloseConnected("result")
    BY <1>15, <2>1 DEF PassOver, CloseConnected, Close, run, world
  <2>2. CASE at' = "after" /\ UNCHANGED <<session, bounded, ending, outcome>>
    BY <1>15, <2>2 DEF PassOver, run, world
  <2> QED BY <1>15, <2>1, <2>2 DEF PassOver
<1>16. ASSUME NEW how \in {"closed", "abandoned"}, NEW by \in Alarm, Ended(how, by)
       PROVE  TypeOK'
  BY <1>16 DEF Ended, Says, run, world
<1>17. ASSUME NEW by \in {"user", "deadline"}, SetupCancelled(by) PROVE TypeOK'
  BY <1>17 DEF SetupCancelled, Leave, run, world
<1>18. ASSUME NEW by \in {"user", "deadline"}, ProbeCancelled(by) PROVE TypeOK'
  BY <1>18 DEF ProbeCancelled, CloseConnected, Close, run, world
<1>19. CASE Killed
  BY <1>19 DEF Killed, Leave, run, world
<1>20. ASSUME NEW call \in flying, Land(call) PROVE TypeOK'
  BY <1>20 DEF Land, run, ends
<1>21. CASE UNCHANGED vars
  BY <1>21 DEF vars, run, ends, world
<1>22. ASSUME NEW by \in {"user", "deadline"}, Cancelled(by) PROVE TypeOK'
  BY <1>6, <1>16, <1>17, <1>18, <1>22 DEF Cancelled, CloseCancelled
<1>23. CASE Answered
  <2>1. CASE Closed
    BY <1>16, <2>1 DEF Closed
  <2>2. CASE ConnectCancelled("none")
    BY <1>6, <2>2
  <2> QED
    BY <1>4, <1>5, <1>7, <1>8, <1>9, <1>10, <1>11, <1>12, <1>13, <1>14, <1>15, <1>23,
       <2>1, <2>2
    DEF Answered
<1>24. CASE GivenUp
  BY <1>16, <1>24 DEF GivenUp
<1> QED
  BY <1>1, <1>2, <1>3, <1>19, <1>20, <1>21, <1>22, <1>23, <1>24 DEF Next

(* TypeOK holds in every state of every session: places, endings, the ids  *)
(* and scans of the calls, and what the reads of the state may hold.       *)
THEOREM SessionTypeCorrect ==
    ASSUME ScanSessionAssumption
    PROVE  Spec => []TypeOK
<1>1. Init => TypeOK
  BY InitTypes
<1>2. TypeOK /\ [Next]_vars => TypeOK'
  BY NextTypes
<1> QED BY <1>1, <1>2, PTL DEF Spec

-----------------------------------------------------------------------------
(* The calls, in flight or applied.                                        *)

(* A step starts a scan, sends one call, or moves no call but from flight  *)
(* to the server's state.                                                  *)
LEMMA StepCalls ==
    ASSUME [Next]_vars
    PROVE  \/ Start
           \/ Preflight
           \/ Operate
           \/ /\ UNCHANGED run
              /\ flying' \cup landed' = flying \cup landed
<1>1. ASSUME NEW call \in flying, Land(call)
      PROVE  UNCHANGED run /\ flying' \cup landed' = flying \cup landed
  BY <1>1 DEF Land
<1>2. CASE UNCHANGED vars
  BY <1>2 DEF vars, world
<1>3. ASSUME NEW how, NEW by, Ended(how, by)
      PROVE  UNCHANGED run /\ UNCHANGED world
  BY <1>3 DEF Ended
<1>4. ASSUME NEW by, Cancelled(by)
      PROVE  UNCHANGED run /\ UNCHANGED world
  BY <1>3, <1>4
  DEF Cancelled, ConnectCancelled, SetupCancelled, ProbeCancelled, CloseCancelled
<1>5. CASE Answered
  <2>1. ASSUME NEW read, SetupReads(read) \/ WindowOpens(read)
        PROVE  UNCHANGED run /\ UNCHANGED world
    BY <2>1 DEF SetupReads, WindowOpens
  <2>2. ASSUME NEW answered, WindowCloses(answered)
        PROVE  UNCHANGED run /\ UNCHANGED world
    BY <2>2 DEF WindowCloses
  <2>3. ASSUME NEW answer, Preflighted(answer)
        PROVE  UNCHANGED run /\ UNCHANGED world
    BY <2>3 DEF Preflighted
  <2>4. ASSUME Connected \/ ConnectFails \/ ConnectCancelled("none") \/ SetupMisreads
               \/ PassOver \/ Closed
        PROVE  UNCHANGED run /\ UNCHANGED world
    BY <1>3, <2>4 DEF Connected, ConnectFails, ConnectCancelled, SetupMisreads, PassOver, Closed
  <2> QED BY <1>5, <2>1, <2>2, <2>3, <2>4 DEF Answered, world
<1> QED
  BY <1>1, <1>2, <1>3, <1>4, <1>5
  DEF Next, Select, Probes, GivenUp, Killed, world

(* A call names its scan and one of its command's ids, after every step.   *)
LEMMA NextCallsAreOurs ==
    ASSUME TypeOK, CallsAreOurs, [Next]_vars
    PROVE  CallsAreOurs'
<1>1. \A c \in flying \cup landed : c.scan \in Nat
  BY DEF TypeOK, Call
<1>2. CASE Start
  BY <1>1, <1>2 DEF Start, CallsAreOurs, TypeOK, world
<1>3. ASSUME NEW id \in OwnIds(command), SendCall(id), UNCHANGED <<run, landed>>
      PROVE  CallsAreOurs'
  BY <1>3 DEF CallsAreOurs, SendCall, TypeOK, run
<1>4. CASE Preflight
  BY <1>3, <1>4 DEF Preflight, OwnIds
<1>5. CASE Operate
  BY <1>3, <1>5, SentIdsAreOwn DEF Operate, ToSend
<1>6. CASE UNCHANGED run /\ flying' \cup landed' = flying \cup landed
  BY <1>6 DEF CallsAreOurs, run
<1> QED BY <1>2, <1>4, <1>5, <1>6, StepCalls

(* The server applies one call at a time, so what a read counts stays      *)
(* finite.                                                                 *)
LEMMA NextFinite ==
    ASSUME TypeOK, FiniteState, [Next]_vars
    PROVE  FiniteState'
<1>1. IsFiniteSet(landed)'
  <2>1. \/ UNCHANGED landed
        \/ \E call \in flying : Land(call)
    BY DEF Next, vars, world, Start, Select, Probes, Answered, Connected, ConnectFails,
       ConnectCancelled, SetupReads, WindowOpens, WindowCloses, SetupMisreads, Preflight,
       Preflighted, Operate, PassOver, Closed, Ended, Cancelled, SetupCancelled,
       ProbeCancelled, CloseCancelled, GivenUp, Killed
  <2> QED BY <2>1, FS_AddElement DEF FiniteState, Land
<1>2. (reads.before # Unread => IsFiniteSet(reads.before.entries))'
  <2>1. \/ UNCHANGED reads
        \/ Start
        \/ \E read : SetupReads(read)
        \/ \E read \in {Unread, Snapshot} : WindowOpens(read)
        \/ \E answered : WindowCloses(answered)
    BY DEF Next, vars, world, Select, Probes, Answered, Connected, ConnectFails,
       ConnectCancelled, SetupMisreads, Preflight, Preflighted, Operate, PassOver, Closed,
       Ended, Cancelled, SetupCancelled, ProbeCancelled, CloseCancelled, GivenUp, Killed, Land
  <2>2. CASE Start
    BY <2>2 DEF Start, NoReads
  <2>3. ASSUME NEW read \in {Unread, Snapshot}, WindowOpens(read)
        PROVE  (reads.before # Unread => IsFiniteSet(reads.before.entries))'
    <3>1. reads'.before = read
      BY <2>3 DEF WindowOpens, TypeOK
    <3> QED BY <2>3, <3>1 DEF FiniteState, Snapshot
  <2>4. ASSUME NEW read, SetupReads(read) PROVE reads'.before = reads.before
    BY <2>4 DEF SetupReads, TypeOK
  <2>5. ASSUME NEW answered, WindowCloses(answered) PROVE reads'.before = reads.before
    BY <2>5 DEF WindowCloses, TypeOK
  <2> QED BY <2>1, <2>2, <2>3, <2>4, <2>5 DEF FiniteState
<1> QED BY <1>1, <1>2 DEF FiniteState

-----------------------------------------------------------------------------
(* What a scan has sent when it unwinds with "stale".                      *)

(* A step that is not the preflight or an operation sends nothing.         *)
LEMMA QuietStep ==
    ASSUME TypeOK, CallsAreOurs, NothingSent, [Next]_vars, ~Preflight, ~Operate
    PROVE  NothingSent'
<1>1. \A c \in flying \cup landed : c.scan \in Nat
  BY DEF TypeOK, Call
<1>2. CASE Start
  BY <1>1, <1>2 DEF Start, CallsAreOurs, NothingSent, TypeOK, world
<1>3. CASE UNCHANGED run /\ flying' \cup landed' = flying \cup landed
  BY <1>3 DEF NothingSent, run
<1> QED BY <1>2, <1>3, StepCalls

(* A scan that starts has sent nothing: every call is an earlier scan's.   *)
LEMMA StartIsQuiet ==
    ASSUME TypeOK, CallsAreOurs, Start
    PROVE  NothingSent'
<1>1. \A c \in flying \cup landed : c.scan \in Nat
  BY DEF TypeOK, Call
<1> QED BY <1>1 DEF Start, CallsAreOurs, NothingSent, TypeOK, world

(* Where a step can arrive before the preflight, and from where.           *)
LEMMA StepBeforePreflight ==
    ASSUME [Next]_vars, BeforePreflight'
    PROVE  Start \/ BeforePreflight
BY DEF BeforePreflight, Next, vars, run, ends, world, Select, Probes, Answered, Connected,
   Connecting, ConnectFails, ConnectCancelled, SetupReads, WindowOpens, WindowCloses,
   SetupMisreads, Preflight, Preflighted, Operate, PassOver, Closed, Ended, Cancelled,
   SetupCancelled, ProbeCancelled, CloseCancelled, GivenUp, Killed, Land, Leave,
   CloseUnconnected, CloseConnected, Close

(* No step before the preflight sends anything.                            *)
LEMMA NextQuiet ==
    ASSUME TypeOK, CallsAreOurs, QuietUntilPreflight, [Next]_vars
    PROVE  QuietUntilPreflight'
<1>1. CASE Preflight
  BY <1>1 DEF Preflight, QuietUntilPreflight, BeforePreflight
<1>2. CASE Operate
  BY <1>2 DEF Operate, QuietUntilPreflight, BeforePreflight, ends
<1>3. CASE ~Preflight /\ ~Operate
  BY <1>3, StepBeforePreflight, QuietStep, StartIsQuiet DEF QuietUntilPreflight
<1> QED BY <1>1, <1>2, <1>3

(* How a scan comes to unwind, or to end, with "stale".                    *)
LEMMA StepToStale ==
    ASSUME TypeOK, [Next]_vars, "stale" \in {ending', outcome'}
    PROVE  \/ "stale" \in {ending, outcome} /\ (at \in {"closing", "ended"} =>
                                                   at' \in {"closing", "ended"})
           \/ \E read : SetupReads(read) /\ at' = "closing"
           \/ \E answer : Preflighted(answer) /\ SetupRefusesStale(command, reads.setup)
<1>1. ASSUME NEW how, NEW by, Ended(how, by)
      PROVE  "stale" \in {ending, outcome} /\ at' = "ended"
  BY <1>1 DEF Ended, Says, ends
<1>2. ASSUME NEW read, SetupReads(read)
      PROVE  \/ "stale" \in {ending, outcome} /\ at = "verify"
             \/ at' = "closing"
  BY <1>2 DEF SetupReads, CloseConnected, Close
<1>3. ASSUME NEW answer, Preflighted(answer)
      PROVE  \/ "stale" \in {ending, outcome} /\ at = "preflight"
             \/ SetupRefusesStale(command, reads.setup)
  BY <1>3 DEF Preflighted, CloseConnected, Close, SetupRefusesStale
<1>4. ASSUME NEW by, Cancelled(by)
      PROVE  "stale" \in {ending, outcome} /\ at' \in {"closing", "ended"}
  BY <1>1, <1>4
  DEF Cancelled, ConnectCancelled, SetupCancelled, ProbeCancelled, CloseCancelled, Leave,
      CloseUnconnected, CloseConnected, Close
<1>5. CASE Answered
  <2>1. ASSUME Connected \/ ConnectFails \/ ConnectCancelled("none") \/ SetupMisreads
               \/ Preflight \/ Operate \/ PassOver \/ (\E read : WindowOpens(read))
               \/ (\E answered : WindowCloses(answered))
        PROVE  "stale" \in {ending, outcome} /\ at \notin {"closing", "ended"}
    BY <2>1
    DEF Connected, Connecting, ConnectFails, ConnectCancelled, SetupMisreads, Preflight,
        Operate, PassOver, WindowOpens, WindowCloses, ends, CloseUnconnected,
        CloseConnected, Close
  <2> QED BY <1>1, <1>2, <1>3, <1>5, <2>1 DEF Answered, Closed
<1>6. CASE Start
  BY <1>6 DEF Start
<1>7. CASE Select \/ Probes \/ Killed
  BY <1>7 DEF Select, Probes, Killed, Leave, CloseConnected, Close
<1>8. CASE (\E call \in flying : Land(call)) \/ UNCHANGED vars
  BY <1>8 DEF Land, vars, ends
<1> QED BY <1>1, <1>4, <1>5, <1>6, <1>7, <1>8 DEF Next, GivenUp

(* Past the read at setup, nothing it would have refused.                  *)
LEMMA NextNotStale ==
    ASSUME TypeOK, StaleIsQuiet, [Next]_vars, at' = "preflight"
    PROVE  ~SetupRefusesStale(command, reads.setup)'
<1>1. CASE Select
  BY <1>1 DEF Select, CloseConnected, Close, SetupRefusesStale, StaleOpIds, RecoveryOpIds, run
<1>2. ASSUME NEW read, SetupReads(read)
      PROVE  ~SetupRefusesStale(command, reads.setup)'
  <2>1. reads'.setup = read /\ command' = command
    BY <1>2 DEF SetupReads, TypeOK, run
  <2>2. ~SetupRefusesStale(command, read)
    BY <1>2 DEF SetupReads, CloseConnected, Close
  <2> QED BY <2>1, <2>2
<1>3. CASE at = "preflight" /\ UNCHANGED <<run, reads>>
  BY <1>3 DEF StaleIsQuiet, run
<1>4. Select \/ (\E read : SetupReads(read)) \/ (at = "preflight" /\ UNCHANGED <<run, reads>>)
  BY DEF Next, vars, run, Start, Probes, Answered, Connected, Connecting, ConnectFails,
     ConnectCancelled, WindowOpens, WindowCloses, SetupMisreads, Preflight, Preflighted,
     Operate, PassOver, Closed, Ended, Cancelled, SetupCancelled, ProbeCancelled,
     CloseCancelled, GivenUp, Killed, Land, Leave, CloseUnconnected, CloseConnected, Close
<1> QED BY <1>1, <1>2, <1>3, <1>4

(* A scan that refuses stale state still has sent nothing while it         *)
(* unwinds.                                                                *)
LEMMA NextStale ==
    ASSUME TypeOK, CallsAreOurs, QuietUntilPreflight, StaleIsQuiet, [Next]_vars
    PROVE  StaleIsQuiet'
<1>1. ASSUME "stale" \in {ending', outcome'}
      PROVE  NothingSent' /\ at' \in {"closing", "ended"}
  <2>1. CASE "stale" \in {ending, outcome}
    <3>1. NothingSent /\ at \in {"closing", "ended"}
      BY <2>1 DEF StaleIsQuiet
    <3>2. ~Preflight /\ ~Operate
      BY <3>1 DEF Preflight, Operate
    <3>3. at' \in {"closing", "ended"}
      BY <1>1, <3>1, StepToStale DEF SetupReads, Preflighted
    <3> QED BY <3>1, <3>2, <3>3, QuietStep
  <2>2. ASSUME NEW read, SetupReads(read), at' = "closing"
        PROVE  NothingSent' /\ at' \in {"closing", "ended"}
    <3>1. NothingSent
      BY <2>2 DEF SetupReads, QuietUntilPreflight, BeforePreflight
    <3>2. ~Preflight /\ ~Operate
      BY <2>2 DEF SetupReads, Preflight, Operate
    <3> QED BY <2>2, <3>1, <3>2, QuietStep
  <2>3. ASSUME NEW answer, Preflighted(answer), SetupRefusesStale(command, reads.setup)
        PROVE  FALSE
    BY <2>3 DEF Preflighted, StaleIsQuiet
  <2> QED BY <1>1, <2>1, <2>2, <2>3, StepToStale
<1> QED BY <1>1, NextNotStale DEF StaleIsQuiet

-----------------------------------------------------------------------------
(* The invariant, and what follows from it.                                *)

(* Calls carry their own scan's ids, nothing is sent before the preflight, *)
(* and only a scan that sent nothing unwinds with "stale", in every state. *)
THEOREM SessionInvCorrect ==
    ASSUME ScanSessionAssumption
    PROVE  Spec => []SessionInv
<1>1. Init => SessionInv
  <2>1. ASSUME Init
        PROVE  FiniteState /\ CallsAreOurs /\ QuietUntilPreflight /\ StaleIsQuiet
    BY <2>1, FS_EmptySet
    DEF Init, NoReads, FiniteState, CallsAreOurs, QuietUntilPreflight, NothingSent,
        StaleIsQuiet
  <2> QED BY <2>1, InitTypes DEF SessionInv
<1>2. SessionInv /\ [Next]_vars => SessionInv'
  BY NextTypes, NextFinite, NextCallsAreOurs, NextQuiet, NextStale DEF SessionInv
<1> QED BY <1>1, <1>2, PTL DEF Spec

(* A stale refusal costs the target nothing: not one call that may write   *)
(* went out, the preflight included, whatever the earlier scans left behind*)
(* and wherever this one was cancelled, failed or killed (setup's "not one *)
(* probe call, not even the single preflight write").                      *)
THEOREM RefusedCostsNothingAlways ==
    ASSUME ScanSessionAssumption
    PROVE  Spec => []RefusedCostsNothing
<1>1. SessionInv => RefusedCostsNothing
  BY DEF SessionInv, StaleIsQuiet, NothingSent, RefusedCostsNothing
<1> QED BY <1>1, SessionInvCorrect, PTL

(* Counting the entries of a finite state that carry an id finds them.     *)
LEMMA CountedWhenThere ==
    ASSUME NEW entries, IsFiniteSet(entries), NEW e \in entries
    PROVE  CountMatching(entries, e.id) > 0
<1> DEFINE M == {x \in entries : x.id = e.id}
<1>1. IsFiniteSet(M)
  BY FS_Subset
<1>2. Cardinality(M) \in Nat /\ Cardinality(M) # 0
  BY <1>1, FS_CardinalityType, FS_EmptySet
<1> QED BY <1>2 DEF CountMatching

(* A rerun never counts on top of an earlier run: when the oracle's status *)
(* is ok, no entry of an earlier scan in the read before the window carries*)
(* an id that one of this scan's own calls carries (_refuse_stale_state:   *)
(* "The mid-scan check stays as the backstop").                            *)
THEOREM RerunNeverCountedAlways ==
    ASSUME ScanSessionAssumption
    PROVE  Spec => []RerunNeverCounted
<1>1. SessionInv => RerunNeverCounted
  <2> SUFFICES ASSUME SessionInv, WindowStatus = "ok",
                      NEW old \in reads.before.entries, NEW c \in flying \cup landed,
                      c.scan = scan, c.id # PreflightId, old.id = c.id
               PROVE  FALSE
    BY DEF RerunNeverCounted
  <2>1. /\ HasOracle(command) /\ reads.before # Unread
        /\ RecoveryOpIds(command) # {} /\ StaleOpIds(command, reads.before) = {}
    BY DEF WindowStatus
  <2>2. c.id \in RecoveryOpIds(command)
    BY <2>1 DEF SessionInv, CallsAreOurs, OwnIds, RecoveryOpIds
  <2>3. reads.before.answered /\ IsFiniteSet(reads.before.entries)
    BY <2>1 DEF SessionInv, TypeOK, Read, FiniteState
  <2>4. CountMatching(reads.before.entries, c.id) > 0
    BY <2>3, CountedWhenThere
  <2> QED BY <2>1, <2>2, <2>3, <2>4 DEF StaleOpIds
<1> QED BY <1>1, SessionInvCorrect, PTL

(* The user's interrupt stays one: outside the close it makes the scan end *)
(* cancelled or unwind as cancelled, or -- while the session is set up --  *)
(* as the transport's failure; never as the target's fault, and it never   *)
(* runs on (setup's "must stay a cancellation").                           *)
THEOREM InterruptStaysOneAlways == Spec => InterruptStaysOne
<1> DEFINE Kept ==
      \/ outcome' = "cancelled"
      \/ at' = "closing" /\ ending' = "cancelled"
      \/ at' = "closing" /\ ending' = "transport"
<1>1. ASSUME [Next]_vars, alarm = "none", alarm' = "user", at # "closing"
      PROVE  Kept
  <2>1. CASE Cancelled("user")
    BY <1>1, <2>1
    DEF Cancelled, ConnectCancelled, SetupCancelled, ProbeCancelled, CloseCancelled, Ended,
        Leave, CloseUnconnected, CloseConnected, Close
  <2>2. CASE ~Cancelled("user")
    <3>1. alarm' \in {"none", "deadline", alarm}
      BY <1>1, <2>2
      DEF Next, vars, ends, Start, Select, Probes, Answered, Connected, ConnectFails,
          ConnectCancelled, SetupReads, WindowOpens, WindowCloses, SetupMisreads, Preflight,
          Preflighted, Operate, PassOver, Closed, Ended, Cancelled, SetupCancelled,
          ProbeCancelled, CloseCancelled, GivenUp, Killed, Land
    <3> QED BY <1>1, <3>1
  <2> QED BY <2>1, <2>2
<1>2. [Next]_vars => [alarm = "none" /\ alarm' = "user" /\ at # "closing" => Kept]_vars
  BY <1>1
<1> QED BY <1>2, PTL DEF Spec, InterruptStaysOne
=============================================================================
