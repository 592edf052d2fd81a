-------------------------- MODULE ProxyRecordProofs --------------------------
(***************************************************************************)
(* Theorems about ProxyRecord, and about the trajectories its record is    *)
(* read back as, for every set of tools, every family of schedules and     *)
(* every bound, checked by TLAPS.                                          *)
(***************************************************************************)
EXTENDS ReplayedRecord, DataTheorems

(* What the operators of FaultKinds return, for any fault and any reply.   *)
LEMMA FaultTypes ==
    ASSUME NEW fault \in DrawnFault, NEW inner \in InnerReply
    PROVE  /\ ResponseTo(fault, inner) \in Response
           /\ RealizedFault(fault, inner) \in DrawnFault
           /\ Executed(fault, inner) \in {"yes", "no", "unknown"}
           /\ OnWire(ResponseTo(fault, inner)) \in WireReply \cup {"silence"}
<1>1. /\ NoFault = "none"
      /\ fault \in {"none", "timeout", "rate_limit", "server_error",
                    "connection_refused", "malformed", "response_lost",
                    "response_lost_then_closed"}
  BY DEF DrawnFault, FaultKind, RejectingFault, LostReplyFault, NoFault
<1>2. ResponseTo(fault, inner) \in Response
  <2> DEFINE R == InnerResponse(inner)
  <2>1. R \in Response
    BY DEF InnerResponse, Response, InnerReply
  <2>2. Corrupt(R) \in Response
    BY <2>1 DEF Corrupt, Response
  <2>3. Lose(R, fault) \in Response
    BY <2>1 DEF Lose, Response
  <2>4. Reject(fault) \in Response
    BY <1>1 DEF Reject, Response
  <2>5. \/ fault = NoFault \/ fault = "malformed"
        \/ fault \in LostReplyFault \/ fault \in RejectingFault
    BY <1>1 DEF LostReplyFault, RejectingFault
  <2> HIDE DEF R
  <2> QED BY <2>1, <2>2, <2>3, <2>4, <2>5 DEF ResponseTo, R
<1>3. /\ RealizedFault(fault, inner) \in DrawnFault
      /\ Executed(fault, inner) \in {"yes", "no", "unknown"}
  BY DEF RealizedFault, Executed, DrawnFault
<1>4. OnWire(ResponseTo(fault, inner)) \in WireReply \cup {"silence"}
  BY DEF OnWire, WireReply
<1> QED BY <1>2, <1>3, <1>4

(* The row of the call being served, and its reply, have their types.      *)
LEMMA CurrentTypes ==
    ASSUME TypeOK, current \in ServedCall
    PROVE  /\ CurrentResponse \in Response
           /\ CurrentPayload \in WireReply \cup {"silence"}
           /\ CallRow \in InvocationRow
           /\ CurrentHeld => CurrentPayload \in WireReply
<1>1. current.fault \in DrawnFault /\ current.inner \in InnerReply
  BY DEF ServedCall
<1>2. /\ CurrentResponse \in Response
      /\ CurrentPayload \in WireReply \cup {"silence"}
      /\ RealizedFault(current.fault, current.inner) \in DrawnFault
      /\ Executed(current.fault, current.inner) \in {"yes", "no", "unknown"}
  BY <1>1, FaultTypes DEF CurrentResponse, CurrentPayload
<1>3. CurrentHeld \in BOOLEAN
  BY DEF CurrentHeld, TypeOK, ProcessTypes
<1>4. CallRow \in InvocationRow
  BY <1>1, <1>2, <1>3
  DEF CallRow, InvocationRow, TypeOK, ProcessTypes, ServedCall
<1> QED BY <1>2, <1>4 DEF CurrentHeld

(* A write, whole or cut short, leaves a sequence of lines.                *)
LEMMA WriteTypes ==
    ASSUME TypeOK, NEW row \in Line
    PROVE  /\ Append1(row) => file' \in Seq(Line) /\ unterminated' = FALSE
           /\ AppendCut(row) => /\ file' \in Seq(Line) /\ file' # << >>
                                /\ unterminated' = TRUE
<1>1. Junk \in Line
  BY DEF Line
<1>2. ASSUME unterminated
      PROVE  /\ [file EXCEPT ![Len(file)] = Junk] \in Seq(Line)
             /\ [file EXCEPT ![Len(file)] = Junk] # << >>
  <2>1. file \in Seq(Line) /\ file # << >>
    BY <1>2 DEF TypeOK, RecordTypes
  <2>2. Len(file) \in 1..Len(file)
    BY <2>1, EmptySeq, LenProperties
  <2>3. /\ [file EXCEPT ![Len(file)] = Junk] \in Seq(Line)
        /\ Len([file EXCEPT ![Len(file)] = Junk]) = Len(file)
    BY <1>1, <2>1, <2>2, ExceptSeq
  <2> QED BY <2>2, <2>3
<1>3. ASSUME NEW line \in Line
      PROVE  Append(file, line) \in Seq(Line) /\ Append(file, line) # << >>
  BY DEF TypeOK, RecordTypes
<1>4. Append1(row) => file' \in Seq(Line) /\ unterminated' = FALSE
  BY <1>2, <1>3 DEF Append1
<1>5. AppendCut(row) => /\ file' \in Seq(Line) /\ file' # << >>
                        /\ unterminated' = TRUE
  BY <1>1, <1>2, <1>3 DEF AppendCut
<1> QED BY <1>4, <1>5

(* A count of the rows of the record is a number.                          *)
LEMMA FiniteRows ==
    ASSUME TypeOK
    PROVE  /\ IsFiniteSet(DOMAIN file)
           /\ \A S \in SUBSET DOMAIN file :
                 IsFiniteSet(S) /\ Cardinality(S) \in Nat
           /\ \A t : CallRows(t) \subseteq DOMAIN file
           /\ Readable \subseteq DOMAIN file
           /\ InvocationRows \subseteq DOMAIN file
<1>1. IsFiniteSet(DOMAIN file)
  <2>1. Len(file) \in Nat /\ DOMAIN file = 1..Len(file)
    BY LenProperties DEF TypeOK, RecordTypes
  <2> QED BY <2>1, FS_Interval
<1>2. \A S \in SUBSET DOMAIN file : IsFiniteSet(S) /\ Cardinality(S) \in Nat
  BY <1>1, FS_Subset, FS_CardinalityType
<1> QED BY <1>1, <1>2 DEF CallRows, Readable, InvocationRows

(* A scan starts well typed.                                               *)
LEMMA InitTypes == ASSUME ProxyRecordAssumption, Init PROVE TypeOK
<1>1. RecordTypes
  BY EmptySeq DEF Init, RecordTypes, ProxyRecordAssumption, DrawnFault
<1>2. ProcessTypes /\ ControlTypes
  BY DEF Init, ProcessTypes, ControlTypes
<1>3. WorldTypes
  BY EmptySeq DEF Init, WorldTypes
<1> QED BY <1>1, <1>2, <1>3 DEF TypeOK

(* Every step of the proxy, the upstream or the kill keeps the types.      *)
LEMMA NextTypes ==
    ASSUME ProxyRecordAssumption, TypeOK, [Next]_vars
    PROVE  TypeOK'
<1> USE ProxyRecordAssumption
<1>0. RecordTypes /\ ProcessTypes /\ ControlTypes /\ WorldTypes
  BY DEF TypeOK
<1>1. CASE Connect
  <2>1. RecordTypes'
    BY <1>0, <1>1 DEF Connect, RecordTypes, durable
  <2>2. rows' \in Nat /\ ordinals' \in [Tools -> Nat]
    BY <1>1, FiniteRows DEF Connect, RestoredOrdinals
  <2>3. armed' \in BOOLEAN /\ listed' \in BOOLEAN
    BY <1>1 DEF Connect, RestoredHold
  <2>4. ProcessTypes' /\ ControlTypes'
    BY <1>1, <2>2, <2>3 DEF Connect, ProcessTypes, ControlTypes
  <2>5. WorldTypes'
    BY <1>0, <1>1 DEF Connect, WorldTypes
  <2> QED BY <2>1, <2>4, <2>5 DEF TypeOK
<1>2. CASE Note
  <2>1. NoteRow \in Line
    BY <1>0 DEF NoteRow, Line, ContextRow, ProcessTypes
  <2>2. RecordTypes'
    BY <1>0, <1>2, <2>1, WriteTypes DEF Note, RecordTypes
  <2>3. ProcessTypes' /\ ControlTypes'
    BY <1>0, <1>2 DEF Note, ProcessTypes, ControlTypes
  <2>4. WorldTypes'
    BY <1>0, <1>2 DEF Note, WorldTypes
  <2> QED BY <2>2, <2>3, <2>4 DEF TypeOK
<1>3. CASE List
  <2>1. ListRow \in Line
    BY <1>0 DEF ListRow, Line, ContextRow, ProcessTypes
  <2>2. RecordTypes'
    BY <1>0, <1>3, <2>1, WriteTypes DEF List, RecordTypes
  <2>3. ProcessTypes' /\ ControlTypes'
    BY <1>0, <1>3 DEF List, ProcessTypes, ControlTypes
  <2>4. WorldTypes'
    BY <1>0, <1>3 DEF List, WorldTypes, observed
  <2> QED BY <2>2, <2>3, <2>4 DEF TypeOK
<1>4. ASSUME NEW t \in Tools, Call(t) PROVE TypeOK'
  <2>1. NextOrdinal(t) \in Nat
    BY <1>0 DEF NextOrdinal, ProcessTypes
  <2>2. FaultAt(t, NextOrdinal(t)) \in DrawnFault
    BY <1>0 DEF FaultAt, RecordTypes, Position, DrawnFault
  <2>3. current' \in ServedCall
    BY <1>0, <1>4, <2>1, <2>2 DEF Call, ServedCall, InnerReply, WorldTypes
  <2>4. RecordTypes'
    BY <1>0, <1>4 DEF Call, RecordTypes, durable
  <2>5. ProcessTypes'
    BY <1>0, <1>4, <2>1 DEF Call, ProcessTypes
  <2>6. ControlTypes'
    BY <1>0, <1>4, <2>3 DEF Call, ControlTypes
  <2>7. WorldTypes'
    BY <1>0, <1>4 DEF Call, WorldTypes
  <2> QED BY <2>4, <2>5, <2>6, <2>7 DEF TypeOK
<1>5. ASSUME NEW inner \in InnerReply, UpstreamReturns(inner) PROVE TypeOK'
  <2>1. current' \in ServedCall
    BY <1>0, <1>5 DEF UpstreamReturns, ControlTypes, ServedCall
  <2>2. RecordTypes' /\ WorldTypes'
    BY <1>0, <1>5 DEF UpstreamReturns, RecordTypes, WorldTypes, durable, observed
  <2>3. ProcessTypes' /\ ControlTypes'
    BY <1>0, <1>5, <2>1 DEF UpstreamReturns, ProcessTypes, ControlTypes
  <2> QED BY <2>2, <2>3 DEF TypeOK
<1>6. CASE Record
  <2>1. CallRow \in Line
    BY <1>0, <1>6, CurrentTypes DEF Record, ControlTypes, Line
  <2>2. RecordTypes'
    BY <1>0, <1>6, <2>1, WriteTypes DEF Record, RecordTypes
  <2>3. ProcessTypes' /\ ControlTypes'
    BY <1>0, <1>6 DEF Record, ProcessTypes, ControlTypes
  <2>4. WorldTypes'
    BY <1>0, <1>6 DEF Record, WorldTypes, observed
  <2> QED BY <2>2, <2>3, <2>4 DEF TypeOK
<1>7. CASE Reply
  <2>1. current \in ServedCall /\ current.id \in Nat
    BY <1>0, <1>7 DEF Reply, ControlTypes, ServedCall
  <2>2. /\ CurrentResponse.closes \in BOOLEAN
        /\ CurrentPayload # "silence" => CurrentPayload \in WireReply
        /\ CurrentHeld => CurrentPayload \in WireReply
    BY <2>1, CurrentTypes DEF Response
  <2>3. CurrentPayload \in WireReply =>
           [call |-> current.id, reply |-> CurrentPayload] \in WrittenReply
    BY <2>1 DEF WrittenReply
  <2>4. ProcessTypes' /\ wire' \in Seq(WrittenReply)
    <3>1. CASE DropReply
      BY <1>0, <1>7, <2>2, <3>1 DEF Reply, DropReply, ProcessTypes, WorldTypes
    <3>2. CASE HoldReply
      BY <1>0, <1>7, <2>2, <2>3, <3>2
      DEF Reply, HoldReply, ProcessTypes, WorldTypes
    <3>3. CASE WriteReply
      BY <1>0, <1>7, <2>2, <2>3, <3>3
      DEF Reply, WriteReply, ProcessTypes, WorldTypes
    <3> QED BY <1>7, <3>1, <3>2, <3>3 DEF Reply
  <2>5. RecordTypes' /\ ControlTypes'
    BY <1>0, <1>7 DEF Reply, RecordTypes, ControlTypes, durable
  <2>6. WorldTypes'
    BY <1>0, <1>7, <2>4 DEF Reply, WorldTypes
  <2> QED BY <2>4, <2>5, <2>6 DEF TypeOK
<1>8. ASSUME NEW reply \in pending, Release(reply) PROVE TypeOK'
  <2>1. wire' \in Seq(WrittenReply)
    BY <1>0, <1>8 DEF Release, ProcessTypes, WorldTypes
  <2>2. RecordTypes' /\ ProcessTypes' /\ ControlTypes'
    BY <1>0, <1>8 DEF Release, RecordTypes, ProcessTypes, ControlTypes, durable
  <2>3. WorldTypes'
    BY <1>0, <1>8, <2>1 DEF Release, WorldTypes
  <2> QED BY <2>2, <2>3 DEF TypeOK
<1>9. ASSUME NEW id \in reached, UpstreamRuns(id) PROVE TypeOK'
  <2>1. RecordTypes' /\ ProcessTypes' /\ ControlTypes'
    BY <1>0, <1>9
    DEF UpstreamRuns, RecordTypes, ProcessTypes, ControlTypes, durable, volatile
  <2>2. WorldTypes'
    BY <1>0, <1>9 DEF UpstreamRuns, WorldTypes
  <2> QED BY <2>1, <2>2 DEF TypeOK
<1>10. CASE Exit
  BY <1>0, <1>10
  DEF Exit, TypeOK, RecordTypes, ProcessTypes, ControlTypes, WorldTypes, durable,
      observed
<1>11. ASSUME Die PROVE ProcessTypes' /\ ControlTypes' /\ WorldTypes'
  BY <1>0, <1>11 DEF Die, ProcessTypes, ControlTypes, WorldTypes
<1>12. CASE Kill
  <2>1. RecordTypes'
    BY <1>0, <1>12 DEF Kill, Die, RecordTypes
  <2> QED BY <1>11, <1>12, <2>1 DEF Kill, TypeOK
<1>13. CASE KillInsideWrite
  <2>1. /\ NoteRow \in Line /\ ListRow \in Line
        /\ pc = "record" => CallRow \in Line
    BY <1>0, CurrentTypes
    DEF NoteRow, ListRow, Line, ContextRow, ProcessTypes, ControlTypes
  <2>2. file' \in Seq(Line) /\ file' # << >> /\ unterminated' = TRUE
    BY <1>13, <2>1, WriteTypes DEF KillInsideWrite
  <2>3. RecordTypes'
    BY <1>0, <1>13, <2>2 DEF KillInsideWrite, Die, RecordTypes
  <2> QED BY <1>11, <1>13, <2>3 DEF KillInsideWrite, TypeOK
<1>14. CASE UNCHANGED vars
  BY <1>0, <1>14
  DEF vars, durable, volatile, observed, TypeOK, RecordTypes, ProcessTypes,
      ControlTypes, WorldTypes
<1> QED
  BY <1>1, <1>2, <1>3, <1>4, <1>5, <1>6, <1>7, <1>8, <1>9, <1>10, <1>12,
     <1>13, <1>14 DEF Next

(* Every variable of a proxy and of its record keeps its type, torn rows   *)
(* included.                                                               *)
THEOREM TypeCorrect == Spec => []TypeOK
<1> USE ProxyRecordAssumption
<1>1. Init => TypeOK
  BY InitTypes
<1>2. TypeOK /\ [Next]_vars => TypeOK'
  BY NextTypes
<1> QED BY <1>1, <1>2, PTL DEF Spec

-----------------------------------------------------------------------------
(* What one whole row adds to the record.                                  *)

(* A row appended to a file without junk is its new last line and disturbs *)
(* no other.                                                               *)
LEMMA AppendedRow ==
    ASSUME TypeOK, Whole, NEW row \in Line, row.kind # "junk", Append1(row)
    PROVE  /\ file' = Append(file, row)
           /\ Len(file) \in Nat /\ Len(file') = Len(file) + 1
           /\ DOMAIN file = 1..Len(file) /\ DOMAIN file' = 1..(Len(file) + 1)
           /\ \A i \in DOMAIN file : file'[i] = file[i]
           /\ file'[Len(file) + 1] = row
           /\ Whole'
<1>1. file' = Append(file, row) /\ unterminated' = FALSE
  BY DEF Append1, Whole
<1>2. file \in Seq(Line)
  BY DEF TypeOK, RecordTypes
<1>3. /\ Len(file) \in Nat /\ Len(file') = Len(file) + 1
      /\ DOMAIN file = 1..Len(file) /\ DOMAIN file' = 1..(Len(file) + 1)
  BY <1>1, <1>2
<1>4. /\ \A i \in DOMAIN file : file'[i] = file[i]
      /\ file'[Len(file) + 1] = row
  BY <1>1, <1>2
<1>5. Whole'
  BY <1>1, <1>3, <1>4 DEF Whole
<1> QED BY <1>1, <1>3, <1>4, <1>5

(* In a file without junk every line is readable, so a row's place is its  *)
(* line number.                                                            *)
LEMMA RowsOfWhole ==
    ASSUME TypeOK, Whole
    PROVE  /\ Readable = DOMAIN file
           /\ InvocationRows = {i \in DOMAIN file : file[i].kind = "invocation"}
           /\ \A t : CallRows(t) = {i \in DOMAIN file :
                        file[i].kind = "invocation" /\ file[i].tool = t}
           /\ Cardinality(Readable) = Len(file)
<1>1. Readable = DOMAIN file
  BY DEF Whole, Readable
<1>2. Len(file) \in Nat /\ DOMAIN file = 1..Len(file)
  BY LenProperties DEF TypeOK, RecordTypes
<1>3. Cardinality(1..Len(file)) = Len(file)
  <2>1. ASSUME NEW n \in Nat PROVE Cardinality(1..n) = n
    <3>1. 1 \in Int /\ n \in Int
      OBVIOUS
    <3>2. Cardinality(1..n) = IF 1 > n THEN 0 ELSE n - 1 + 1
      BY <3>1, FS_Interval, Zenon
    <3> QED BY <3>2
  <2> QED BY <1>2, <2>1
<1> QED BY <1>1, <1>2, <1>3 DEF InvocationRows, CallRows

(* Appending a row adds one to the count of its own tool and to no other.  *)
LEMMA CountOfAppended ==
    ASSUME TypeOK, Whole, NEW row \in Line, row.kind # "junk", Append1(row),
           TypeOK'
    PROVE  /\ \A t : CallRows(t)' =
                 CallRows(t) \cup (IF row.kind = "invocation" /\ row.tool = t
                                   THEN {Len(file) + 1} ELSE {})
           /\ \A t : Cardinality(CallRows(t)') = Cardinality(CallRows(t))
                 + (IF row.kind = "invocation" /\ row.tool = t THEN 1 ELSE 0)
           /\ InvocationRows' = InvocationRows \cup
                 (IF row.kind = "invocation" THEN {Len(file) + 1} ELSE {})
           /\ \A t : \A i \in DOMAIN file :
                 {j \in CallRows(t)' : j <= i} = {j \in CallRows(t) : j <= i}
<1>1. PICK n \in Nat : n = Len(file)
  BY AppendedRow
<1>2. /\ DOMAIN file = 1..n /\ DOMAIN file' = 1..(n + 1)
      /\ \A i \in 1..n : file'[i] = file[i]
      /\ file'[n + 1] = row
      /\ Whole'
  BY <1>1, AppendedRow
<1>3. \A t : CallRows(t)' = {i \in 1..(n + 1) :
                 file'[i].kind = "invocation" /\ file'[i].tool = t}
  BY <1>2 DEF CallRows, Readable, Whole
<1>4. \A t : CallRows(t) = {i \in 1..n :
                 file[i].kind = "invocation" /\ file[i].tool = t}
  BY <1>2 DEF CallRows, Readable, Whole
<1>5. ASSUME NEW t
      PROVE  CallRows(t)' = CallRows(t) \cup
                 (IF row.kind = "invocation" /\ row.tool = t THEN {n + 1} ELSE {})
  BY <1>1, <1>2, <1>3, <1>4
<1>6. ASSUME NEW t
      PROVE  Cardinality(CallRows(t)') = Cardinality(CallRows(t))
                 + (IF row.kind = "invocation" /\ row.tool = t THEN 1 ELSE 0)
  <2>1. /\ IsFiniteSet(CallRows(t)) /\ Cardinality(CallRows(t)) \in Nat
        /\ n + 1 \notin CallRows(t)
    BY <1>1, <1>4, FiniteRows
  <2>2. CASE row.kind = "invocation" /\ row.tool = t
    <3>1. CallRows(t)' = CallRows(t) \cup {n + 1}
      BY <1>5, <2>2
    <3>2. Cardinality(CallRows(t) \cup {n + 1}) = Cardinality(CallRows(t)) + 1
      BY <2>1, FS_AddElement
    <3> QED BY <2>2, <3>1, <3>2
  <2>3. CASE ~(row.kind = "invocation" /\ row.tool = t)
    <3>1. CallRows(t)' = CallRows(t)
      BY <1>5, <2>3
    <3> QED BY <2>1, <2>3, <3>1
  <2> QED BY <2>2, <2>3
<1>7. InvocationRows' = InvocationRows \cup
         (IF row.kind = "invocation" THEN {n + 1} ELSE {})
  BY <1>1, <1>2 DEF InvocationRows, Readable, Whole
<1>8. ASSUME NEW t, NEW i \in DOMAIN file
      PROVE  {j \in CallRows(t)' : j <= i} = {j \in CallRows(t) : j <= i}
  BY <1>1, <1>2, <1>5
<1> QED BY <1>1, <1>5, <1>6, <1>7, <1>8

-----------------------------------------------------------------------------
(* The record and the schedule stay in step.                               *)

(* A whole row keeps the record's own invariants, if it is numbered next   *)
(* and, when it stands for a call, carries the next position of its tool.  *)
LEMMA RowKeepsCount ==
    ASSUME TypeOK, TypeOK', Whole, Numbered, Counted, UNCHANGED schedule,
           NEW row \in Line, row.kind # "junk", Append1(row),
           row.seq = Len(file),
           row.kind = "invocation" =>
               /\ row.ordinal = Cardinality(CallRows(row.tool)) + 1
               /\ row.fault = FaultAt(row.tool, row.ordinal)
    PROVE  Whole' /\ Numbered' /\ Counted'
<1>1. PICK n \in Nat : n = Len(file)
  BY AppendedRow
<1>2. /\ DOMAIN file = 1..n /\ DOMAIN file' = 1..(n + 1)
      /\ \A i \in 1..n : file'[i] = file[i]
      /\ file'[n + 1] = row
      /\ Whole'
  BY <1>1, AppendedRow
<1>3. Numbered'
  BY <1>1, <1>2 DEF Numbered
<1> DEFINE Old(t) == {k \in 1..n :
                         file[k].kind = "invocation" /\ file[k].tool = t}
           New(t) == {k \in 1..(n + 1) :
                         file'[k].kind = "invocation" /\ file'[k].tool = t}
           At(t, m) == IF m \in 1..MaxDepth THEN schedule[<<t, m>>] ELSE NoFault
<1>4. \A t : CallRows(t) = Old(t)
  BY <1>2 DEF CallRows, Readable, Whole
<1>5. ASSUME NEW i \in 1..(n + 1), file'[i].kind = "invocation"
      PROVE  /\ file'[i].ordinal = Cardinality({j \in New(file'[i].tool) : j <= i})
             /\ file'[i].fault = At(file'[i].tool, file'[i].ordinal)
  <2>1. CASE i \in 1..n
    <3>1. i \in InvocationRows
      BY <1>2, <1>5, <2>1 DEF InvocationRows, Readable, Whole
    <3>2. /\ file[i].ordinal = Cardinality({j \in Old(file[i].tool) : j <= i})
          /\ file[i].fault = At(file[i].tool, file[i].ordinal)
      BY <1>4, <3>1 DEF Counted, FaultAt
    <3>3. \A t : {j \in New(t) : j <= i} = {j \in Old(t) : j <= i}
      BY <1>2, <2>1
    <3> HIDE DEF Old, New, At
    <3> QED BY <1>2, <2>1, <3>2, <3>3
  <2>2. CASE i = n + 1
    <3>1. {j \in New(row.tool) : j <= n + 1} = Old(row.tool) \cup {n + 1}
      BY <1>2, <1>5, <2>2
    <3>2. IsFiniteSet(Old(row.tool)) /\ Cardinality(Old(row.tool)) \in Nat
      BY <1>4, FiniteRows, Zenon
    <3>3. n + 1 \notin Old(row.tool)
      OBVIOUS
    <3>4. Cardinality(Old(row.tool) \cup {n + 1}) = Cardinality(Old(row.tool)) + 1
      <4> HIDE DEF Old
      <4> QED BY <3>2, <3>3, FS_AddElement
    <3>5. /\ row.ordinal = Cardinality(Old(row.tool)) + 1
          /\ row.fault = At(row.tool, row.ordinal)
      BY <1>2, <1>4, <1>5, <2>2 DEF FaultAt
    <3> HIDE DEF Old, New, At
    <3> QED BY <1>2, <2>2, <3>1, <3>4, <3>5
  <2> QED BY <2>1, <2>2
<1>6. Counted'
  BY <1>2, <1>5 DEF Counted, InvocationRows, CallRows, Readable, Whole, FaultAt
<1> QED BY <1>2, <1>3, <1>6

(* An empty record is in step with an ordinal of zero for each tool.       *)
LEMMA InitPosition == ASSUME Init PROVE PositionInv
<1>1. DOMAIN file = {} /\ InvocationRows = {}
  BY DEF Init, InvocationRows, Readable
<1> QED
  BY <1>1 DEF Init, PositionInv, Whole, Numbered, InStep, ServedInPlace,
              Counted, Serving

(* A step that leaves the file alone leaves its own invariants alone.      *)
LEMMA FileKept ==
    ASSUME PositionInv, UNCHANGED <<schedule, file, unterminated>>
    PROVE  /\ Whole' /\ Numbered' /\ Counted'
           /\ \A t : CallRows(t)' = CallRows(t)
           /\ \A t, m : FaultAt(t, m)' = FaultAt(t, m)
<1>1. /\ InvocationRows' = InvocationRows
      /\ \A t : CallRows(t)' = CallRows(t)
  BY DEF InvocationRows, CallRows, Readable
<1>2. \A t, m : FaultAt(t, m)' = FaultAt(t, m)
  BY DEF FaultAt
<1>3. Whole' /\ Numbered'
  BY DEF PositionInv, Whole, Numbered
<1>4. Counted'
  BY <1>1 DEF PositionInv, Counted, CallRows, Readable, FaultAt
<1> QED BY <1>1, <1>2, <1>3, <1>4

(* Positions survive every step, the reconnect from the file included.     *)
LEMMA NextPosition ==
    ASSUME ProxyRecordAssumption, Tears = FALSE, TypeOK, TypeOK', PositionInv,
           [Next]_vars
    PROVE  PositionInv'
<1>0. /\ RecordTypes /\ ProcessTypes /\ ControlTypes /\ WorldTypes
      /\ Whole /\ Numbered /\ InStep /\ ServedInPlace /\ Counted
      /\ Len(file) \in Nat
  BY LenProperties DEF TypeOK, PositionInv, RecordTypes
<1>1. CASE Connect
  <2>1. /\ Whole' /\ Numbered' /\ Counted'
        /\ \A t : CallRows(t)' = CallRows(t)
    BY <1>1, FileKept DEF Connect, durable
  <2>2. pc' = "idle" /\ rows' = Len(file) /\ Len(file') = Len(file)
    BY <1>0, <1>1, RowsOfWhole DEF Connect, durable
  <2>3. \A t \in Tools : ordinals'[t] = Cardinality(CallRows(t))
    BY <1>1 DEF Connect, RestoredOrdinals
  <2>4. \A t \in Tools : Cardinality(CallRows(t)) \in Nat
    BY FiniteRows
  <2> QED BY <2>1, <2>2, <2>3, <2>4
          DEF PositionInv, InStep, ServedInPlace, Serving
<1>2. ASSUME NEW row \in Line, row.kind \in {"notification", "tools_list"},
             row.seq = rows, pc = "idle", Append1(row), rows' = rows + 1,
             UNCHANGED <<schedule, pc, ordinals, current>>
      PROVE  PositionInv'
  <2>1. row.kind # "junk" /\ row.kind # "invocation" /\ rows = Len(file)
    BY <1>0, <1>2 DEF InStep
  <2>2. Whole' /\ Numbered' /\ Counted'
    BY <1>0, <1>2, <2>1, RowKeepsCount
  <2>3. /\ Len(file') = Len(file) + 1
        /\ \A t : CallRows(t)' = CallRows(t)
    <3>1. Len(file') = Len(file) + 1
      BY <1>0, <1>2, <2>1, AppendedRow
    <3>2. \A t : CallRows(t)' =
             CallRows(t) \cup (IF row.kind = "invocation" /\ row.tool = t
                               THEN {Len(file) + 1} ELSE {})
      BY <1>0, <1>2, <2>1, CountOfAppended
    <3> QED BY <2>1, <3>1, <3>2
  <2> QED BY <1>0, <1>2, <2>1, <2>2, <2>3
          DEF PositionInv, InStep, ServedInPlace, Serving
<1>3. CASE Note
  <2>1. /\ NoteRow \in Line /\ NoteRow.kind = "notification"
        /\ NoteRow.seq = rows
    BY <1>0 DEF NoteRow, Line, ContextRow, ProcessTypes
  <2> QED BY <1>2, <1>3, <2>1 DEF Note
<1>4. CASE List
  <2>1. /\ ListRow \in Line /\ ListRow.kind = "tools_list"
        /\ ListRow.seq = rows
    BY <1>0 DEF ListRow, Line, ContextRow, ProcessTypes
  <2> QED BY <1>2, <1>4, <2>1 DEF List
<1>5. ASSUME NEW t \in Tools, Call(t) PROVE PositionInv'
  <2>1. /\ Whole' /\ Numbered' /\ Counted'
        /\ \A u : CallRows(u)' = CallRows(u)
        /\ \A u, m : FaultAt(u, m)' = FaultAt(u, m)
    BY <1>0, <1>5, FileKept DEF Call, durable, PositionInv
  <2>2. /\ pc = "idle" /\ Serving'
        /\ rows' = rows /\ file' = file
        /\ ordinals' = [ordinals EXCEPT ![t] = ordinals[t] + 1]
        /\ current'.tool = t /\ current'.ordinal = ordinals[t] + 1
        /\ current'.fault = FaultAt(t, ordinals[t] + 1)
    BY <1>5 DEF Call, Serving, NextOrdinal, durable
  <2>3. \A u \in Tools : ordinals[u] = Cardinality(CallRows(u))
                         /\ Cardinality(CallRows(u)) \in Nat
    BY <1>0, <2>2, FiniteRows DEF InStep, Serving
  <2>4. InStep'
    BY <1>0, <2>1, <2>2, <2>3 DEF InStep, Serving, ProcessTypes
  <2>5. ServedInPlace'
    BY <1>0, <2>1, <2>2 DEF ServedInPlace, ProcessTypes, FaultAt
  <2> QED BY <2>1, <2>4, <2>5 DEF PositionInv
<1>6. ASSUME NEW inner \in InnerReply, UpstreamReturns(inner) PROVE PositionInv'
  <2>1. /\ Whole' /\ Numbered' /\ Counted'
        /\ \A u : CallRows(u)' = CallRows(u)
        /\ \A u, m : FaultAt(u, m)' = FaultAt(u, m)
    BY <1>0, <1>6, FileKept DEF UpstreamReturns, durable, PositionInv
  <2>2. /\ pc = "upstream" /\ pc' = "record" /\ UNCHANGED <<rows, ordinals, file>>
        /\ current'.tool = current.tool /\ current'.ordinal = current.ordinal
        /\ current'.fault = current.fault
    BY <1>0, <1>6 DEF UpstreamReturns, ControlTypes, ServedCall, durable
  <2>3. InStep'
    BY <1>0, <2>1, <2>2 DEF InStep, Serving
  <2>4. ServedInPlace'
    BY <1>0, <1>6, <2>2 DEF ServedInPlace, Serving, FaultAt, UpstreamReturns,
                            durable
  <2> QED BY <2>1, <2>3, <2>4 DEF PositionInv
<1>7. CASE Record
  <2>1. /\ pc = "record" /\ pc' = "reply" /\ Append1(CallRow) /\ rows' = rows + 1
        /\ UNCHANGED <<schedule, ordinals, current>>
    BY <1>7 DEF Record
  <2>2. /\ CallRow \in Line /\ CallRow.kind = "invocation"
        /\ CallRow.seq = rows /\ CallRow.tool = current.tool
        /\ CallRow.ordinal = current.ordinal /\ CallRow.fault = current.fault
        /\ current.tool \in Tools
    BY <1>0, <2>1, CurrentTypes DEF CallRow, Line, ControlTypes, ServedCall
  <2>3. /\ rows = Len(file)
        /\ \A t \in Tools :
              ordinals[t] = Cardinality(CallRows(t))
                            + (IF current.tool = t THEN 1 ELSE 0)
    BY <1>0, <2>1 DEF InStep, Serving
  <2>4. /\ CallRow.ordinal = Cardinality(CallRows(CallRow.tool)) + 1
        /\ CallRow.fault = FaultAt(CallRow.tool, CallRow.ordinal)
    BY <1>0, <2>1, <2>2, <2>3 DEF ServedInPlace, Serving
  <2>5. Whole' /\ Numbered' /\ Counted'
    BY <1>0, <2>1, <2>2, <2>3, <2>4, RowKeepsCount
  <2>6. /\ Len(file') = Len(file) + 1
        /\ \A t : Cardinality(CallRows(t)') = Cardinality(CallRows(t))
                     + (IF current.tool = t THEN 1 ELSE 0)
    <3>1. CallRow.kind # "junk"
      BY <2>2
    <3>2. \A t : Cardinality(CallRows(t)') = Cardinality(CallRows(t))
             + (IF CallRow.kind = "invocation" /\ CallRow.tool = t THEN 1 ELSE 0)
      BY <1>0, <2>1, <2>2, <3>1, CountOfAppended
    <3> QED BY <1>0, <2>1, <2>2, <3>1, <3>2, AppendedRow
  <2>7. \A t : Cardinality(CallRows(t)) \in Nat
    BY FiniteRows
  <2>8. InStep'
    BY <2>1, <2>3, <2>6, <2>7 DEF InStep, Serving
  <2> QED BY <2>1, <2>5, <2>8 DEF PositionInv, ServedInPlace, Serving
<1>8. ASSUME UNCHANGED <<schedule, file, unterminated, rows, ordinals>>,
             ~Serving, ~Serving', pc = "down" => pc' = "down"
      PROVE  PositionInv'
  <2>1. /\ Whole' /\ Numbered' /\ Counted'
        /\ \A t : CallRows(t)' = CallRows(t)
    BY <1>0, <1>8, FileKept DEF PositionInv
  <2> QED BY <1>0, <1>8, <2>1 DEF PositionInv, InStep, ServedInPlace
<1>9. CASE Reply
  BY <1>8, <1>9 DEF Reply, durable, Serving
<1>10. ASSUME NEW reply \in pending, Release(reply) PROVE PositionInv'
  BY <1>8, <1>10 DEF Release, durable, Serving
<1>11. ASSUME UNCHANGED <<durable, pc, rows, ordinals, current>>
       PROVE  PositionInv'
  <2>1. /\ Whole' /\ Numbered' /\ Counted'
        /\ \A t : CallRows(t)' = CallRows(t)
    BY <1>0, <1>11, FileKept DEF PositionInv, durable
  <2> QED BY <1>0, <1>11, <2>1
          DEF PositionInv, InStep, ServedInPlace, Serving, FaultAt, durable
<1>12. ASSUME NEW id \in reached, UpstreamRuns(id) PROVE PositionInv'
  BY <1>11, <1>12 DEF UpstreamRuns, volatile
<1>13. CASE Exit
  BY <1>8, <1>13 DEF Exit, durable, Serving
<1>14. CASE Kill
  <2>1. /\ Whole' /\ Numbered' /\ Counted'
    BY <1>0, <1>14, FileKept DEF Kill, Die, PositionInv
  <2> QED BY <1>14, <2>1 DEF PositionInv, InStep, ServedInPlace, Serving, Kill, Die
<1>15. ~KillInsideWrite
  BY DEF KillInsideWrite
<1>16. CASE UNCHANGED vars
  BY <1>11, <1>16 DEF vars, volatile
<1> QED
  BY <1>1, <1>3, <1>4, <1>5, <1>6, <1>7, <1>9, <1>10, <1>12, <1>13, <1>14,
     <1>15, <1>16 DEF Next

(* The counters a proxy runs on are those of the record it writes.         *)
THEOREM PositionCorrect ==
    ASSUME Tears = FALSE
    PROVE  Spec => []PositionInv
<1> USE ProxyRecordAssumption
<1>1. Init => TypeOK /\ PositionInv
  BY InitTypes, InitPosition
<1>2. TypeOK /\ PositionInv /\ [Next]_vars => TypeOK' /\ PositionInv'
  BY NextTypes, NextPosition
<1> QED BY <1>1, <1>2, PTL DEF Spec

(* A file in step, recounted in sequence order, gives the faults the table *)
(* forces.                                                                 *)
LEMMA PositionsFaithful ==
    ASSUME TypeOK, PositionInv
    PROVE  RealizedScheduleFaithful
<1>1. ASSUME NEW i \in InvocationRows
      PROVE  RealizedOrdinal(i) = file[i].ordinal
  <2> DEFINE C == CallRows(file[i].tool)
  <2>1. /\ i \in DOMAIN file /\ C \subseteq DOMAIN file
        /\ DOMAIN file \subseteq Nat
    BY LenProperties
    DEF InvocationRows, Readable, CallRows, TypeOK, RecordTypes
  <2>2. \A j \in C : (\/ file[j].seq < file[i].seq
                      \/ file[j].seq = file[i].seq /\ j <= i) <=> j <= i
    BY <2>1 DEF PositionInv, Numbered
  <2>3. {j \in C : \/ file[j].seq < file[i].seq
                   \/ file[j].seq = file[i].seq /\ j <= i}
          = {j \in C : j <= i}
    BY <2>2
  <2> QED BY <2>3 DEF RealizedOrdinal, PositionInv, Counted
<1> QED BY <1>1 DEF RealizedScheduleFaithful, PositionInv, Counted

(* The realized schedule read off the record is the schedule the calls     *)
(* were faulted under, for every schedule, however often the agent         *)
(* reconnects and wherever a proxy is killed between two steps             *)
(* (fault.realized_schedule, RecordWriter.ordinals).                       *)
THEOREM ScheduleFaithful ==
    ASSUME Tears = FALSE
    PROVE  Spec => []RealizedScheduleFaithful
<1>1. TypeOK /\ PositionInv => RealizedScheduleFaithful
  BY PositionsFaithful
<1> QED BY <1>1, TypeCorrect, PositionCorrect, PTL

-----------------------------------------------------------------------------
(* What the record says of a call is true, torn rows or not.               *)

(* A step adds at most one readable call row, that of the call in service. *)
LEMMA RowsOldOrNew ==
    ASSUME TypeOK, NEW row \in Line,
           Append1(row) \/ AppendCut(row) \/ UNCHANGED file,
           NEW i \in InvocationRows'
    PROVE  \/ i \in InvocationRows /\ file'[i] = file[i]
           \/ file'[i] = row /\ row.kind = "invocation" /\ i = Len(file) + 1
              /\ (Append1(row) \/ AppendCut(row))
<1>1. /\ file \in Seq(Line)
      /\ unterminated => file # << >>
  BY DEF TypeOK, RecordTypes
<1>2. i \in DOMAIN file' /\ file'[i].kind = "invocation"
  BY DEF InvocationRows, Readable
<1>3. ASSUME file' = Append(file, row), Append1(row) \/ AppendCut(row)
      PROVE  \/ i \in InvocationRows /\ file'[i] = file[i]
             \/ file'[i] = row /\ row.kind = "invocation" /\ i = Len(file) + 1
  BY <1>1, <1>2, <1>3 DEF InvocationRows, Readable
<1>4. ASSUME file' = Append(file, Junk)
      PROVE  i \in InvocationRows /\ file'[i] = file[i]
  BY <1>1, <1>2, <1>4 DEF InvocationRows, Readable, Junk
<1>5. ASSUME file' = [file EXCEPT ![Len(file)] = Junk]
      PROVE  i \in InvocationRows /\ file'[i] = file[i]
  BY <1>1, <1>2, <1>5 DEF InvocationRows, Readable, Junk
<1>6. CASE Append1(row)
  BY <1>3, <1>5, <1>6 DEF Append1
<1>7. CASE AppendCut(row)
  BY <1>3, <1>4, <1>5, <1>7 DEF AppendCut
<1>8. CASE UNCHANGED file
  BY <1>8 DEF InvocationRows, Readable
<1> QED BY <1>6, <1>7, <1>8

(* ... so the only new row of a step is the row of the call in service, at *)
(* the end of the record.                                                  *)
LEMMA StepRows ==
    ASSUME TypeOK, [Next]_vars
    PROVE  \A i \in InvocationRows' :
              \/ i \in InvocationRows /\ file'[i] = file[i]
              \/ pc = "record" /\ file'[i] = CallRow /\ i = Len(file) + 1
                 /\ (Record \/ KillInsideWrite)
<1>1. SUFFICES ASSUME NEW i \in InvocationRows'
               PROVE  \/ i \in InvocationRows /\ file'[i] = file[i]
                      \/ /\ pc = "record" /\ file'[i] = CallRow /\ i = Len(file) + 1
                         /\ Record \/ KillInsideWrite
  OBVIOUS
<1>2. /\ NoteRow \in Line /\ NoteRow.kind = "notification"
      /\ ListRow \in Line /\ ListRow.kind = "tools_list"
      /\ pc = "record" => CallRow \in Line
  BY CurrentTypes
  DEF NoteRow, ListRow, Line, ContextRow, TypeOK, ProcessTypes, ControlTypes
<1>3. CASE UNCHANGED file
  BY <1>3 DEF InvocationRows, Readable
<1>4. CASE Note
  BY <1>2, <1>4, RowsOldOrNew DEF Note
<1>5. CASE List
  BY <1>2, <1>5, RowsOldOrNew DEF List
<1>6. CASE Record
  BY <1>2, <1>6, RowsOldOrNew DEF Record
<1>7. CASE KillInsideWrite
  <2>1. CASE pc = "record" /\ AppendCut(CallRow)
    BY <1>2, <1>7, <2>1, RowsOldOrNew
  <2>2. CASE AppendCut(NoteRow)
    BY <1>2, <2>2, RowsOldOrNew
  <2>3. CASE AppendCut(ListRow)
    BY <1>2, <2>3, RowsOldOrNew
  <2> QED BY <1>7, <2>1, <2>2, <2>3 DEF KillInsideWrite
<1> QED
  BY <1>3, <1>4, <1>5, <1>6, <1>7
  DEF Next, vars, durable, Connect, Call, UpstreamReturns, Reply, Release,
      UpstreamRuns, Exit, Kill

(* Nothing has been recorded, held or answered at the start.               *)
LEMMA InitTruth == ASSUME Init PROVE TruthInv
<1>1. InvocationRows = {} /\ Replies = {}
  BY DEF Init, InvocationRows, Readable, Replies
<1> QED
  BY <1>1 DEF Init, TruthInv, CallsInOrder, OneResponse, Settled, Busy, Serving

(* A lost reply is silent, whatever the wrapped target said.               *)
LEMMA LostIsSilent ==
    ASSUME NEW fault \in DrawnFault, NEW inner \in InnerReply,
           RealizedFault(fault, inner) \in LostReplyFault
    PROVE  OnWire(ResponseTo(fault, inner)) = "silence"
<1>1. fault \in LostReplyFault /\ inner = "ok"
  BY DEF RealizedFault, Forwards, LostReplyFault, RejectingFault, NoFault
<1>2. fault # NoFault /\ fault # "malformed"
  BY <1>1 DEF LostReplyFault, NoFault
<1>3. ResponseTo(fault, inner) = Lose(InnerResponse(inner), fault)
  BY <1>1, <1>2 DEF ResponseTo, LostReplyFault, RejectingFault, NoFault
<1>4. InnerResponse(inner).ok = TRUE
  BY <1>1 DEF InnerResponse
<1>5. /\ Lose(InnerResponse(inner), fault).ok = FALSE
      /\ Lose(InnerResponse(inner), fault).delivered = FALSE
      /\ Lose(InnerResponse(inner), fault).kind = "timeout"
  BY <1>4 DEF Lose
<1> QED BY <1>3, <1>5 DEF OnWire, IsRefused

(* Writing a reply adds it to the replies and nothing else.                *)
LEMMA RepliesWritten ==
    ASSUME TypeOK, NEW reply, wire' = Append(wire, reply)
    PROVE  Replies' = pending' \cup {wire[k] : k \in DOMAIN wire} \cup {reply}
<1>1. PICK n \in Nat : n = Len(wire)
  BY LenProperties DEF TypeOK, WorldTypes
<1>2. /\ DOMAIN wire = 1..n /\ DOMAIN wire' = 1..(n + 1)
      /\ \A k \in 1..n : wire'[k] = wire[k]
      /\ wire'[n + 1] = reply
  BY <1>1 DEF TypeOK, WorldTypes
<1>3. {wire'[k] : k \in DOMAIN wire'} = {wire[k] : k \in DOMAIN wire} \cup {reply}
  BY <1>2
<1> QED BY <1>3 DEF Replies

(* Whatever is held or on the wire is a reply.                             *)
LEMMA RepliesTyped ==
    ASSUME TypeOK
    PROVE  \A reply \in Replies : reply \in WrittenReply
BY DEF TypeOK, ProcessTypes, WorldTypes, Replies

(* Every reply there is after a step was there before it, except the one   *)
(* the call in service comes to.                                           *)
LEMMA StepReplies ==
    ASSUME TypeOK, [Next]_vars
    PROVE  \A reply \in Replies' :
              \/ reply \in Replies
              \/ /\ Reply /\ CurrentPayload # "silence"
                 /\ reply = [call |-> current.id, reply |-> CurrentPayload]
<1> DEFINE new == [call |-> current.id, reply |-> CurrentPayload]
<1>1. ASSUME pending' \subseteq pending, wire' = wire
      PROVE  Replies' \subseteq Replies
  BY <1>1 DEF Replies
<1>2. CASE Reply
  <2>1. CASE DropReply
    BY <1>1, <2>1 DEF DropReply
  <2>2. CASE HoldReply
    BY <2>2, <1>2 DEF HoldReply, Replies, CurrentHeld
  <2>3. CASE WriteReply
    <3>1. Replies' = Replies \cup {new}
      BY <2>3, RepliesWritten DEF WriteReply, Replies
    <3> QED BY <1>2, <2>3, <3>1 DEF WriteReply
  <2> QED BY <1>2, <2>1, <2>2, <2>3 DEF Reply
<1>3. ASSUME NEW reply \in pending, Release(reply)
      PROVE  Replies' \subseteq Replies
  BY <1>3, RepliesWritten DEF Release, Replies
<1>4. ASSUME ~Reply, \A reply \in pending : ~Release(reply)
      PROVE  pending' \subseteq pending /\ wire' = wire
  BY <1>4
  DEF Next, vars, durable, volatile, observed, Connect, Note, List, Call,
      UpstreamReturns, Record, UpstreamRuns, Exit, Kill, KillInsideWrite, Die
<1> QED BY <1>1, <1>2, <1>3, <1>4

(* Calls are numbered in order, and at most one is being served, after     *)
(* every step.                                                             *)
LEMMA NextOrder ==
    ASSUME TypeOK, CallsInOrder, [Next]_vars
    PROVE  CallsInOrder'
<1>1. /\ \A i \in InvocationRows' :
            \/ i \in InvocationRows /\ file'[i] = file[i]
            \/ pc = "record" /\ file'[i].call = current.id
               /\ pc' \in {"reply", "down"}
      /\ \A reply \in Replies' :
            \/ reply \in Replies
            \/ pc = "reply" /\ reply.call = current.id /\ pc' = "idle"
  <2>1. CallRow.call = current.id
    BY DEF CallRow
  <2> QED BY <2>1, StepRows, StepReplies DEF Record, KillInsideWrite, Die, Reply
<1>2. /\ calls \in Nat
      /\ Busy => current.id = calls /\ calls \in 1..calls
      /\ \A i \in InvocationRows :
            /\ file[i].call \in 1..calls
            /\ Serving => file[i].call < calls
      /\ \A reply \in Replies :
            /\ reply.call \in Nat
            /\ IF Busy THEN reply.call < calls ELSE reply.call <= calls
  <2>1. calls \in Nat /\ \A reply \in Replies : reply \in WrittenReply
    BY RepliesTyped DEF TypeOK, WorldTypes
  <2>2. \A reply \in Replies : reply.call \in Nat
    BY <2>1 DEF WrittenReply
  <2> QED BY <2>1, <2>2 DEF CallsInOrder
<1>3. ASSUME NEW t \in Tools, Call(t)
      PROVE  calls' = calls + 1 /\ current'.id = calls + 1 /\ pc = "idle"
             /\ pc' # "reply"
  BY <1>3 DEF Call
<1>4. ASSUME \A t \in Tools : ~Call(t)
      PROVE  /\ calls' = calls
             /\ Busy' => Busy /\ current'.id = current.id
             /\ (Serving' => Serving) /\ (pc = "record" /\ pc' # pc => ~Serving')
  <2>1. CASE \E inner \in InnerReply : UpstreamReturns(inner)
    BY <2>1
    DEF UpstreamReturns, observed, Busy, Serving, TypeOK, ControlTypes, ServedCall
  <2>2. ASSUME UNCHANGED calls, ~Busy' \/ UNCHANGED <<pc, current>>
        PROVE  /\ calls' = calls
               /\ Busy' => Busy /\ current'.id = current.id
               /\ (Serving' => Serving) /\ (pc = "record" /\ pc' # pc => ~Serving')
    BY <2>2 DEF Busy, Serving
  <2>3. CASE Record
    BY <2>3 DEF Record, observed, Busy, Serving
  <2>4. CASE Connect \/ Note \/ List \/ Reply \/ Exit \/ Kill \/ KillInsideWrite
    BY <2>2, <2>4
    DEF Connect, Note, List, Reply, Exit, Kill, KillInsideWrite, Die, observed, Busy
  <2>5. CASE \/ \E reply \in pending : Release(reply)
             \/ \E id \in reached : UpstreamRuns(id)
             \/ UNCHANGED vars
    BY <2>2, <2>5
    DEF Release, UpstreamRuns, vars, volatile, observed
  <2> QED BY <1>4, <2>1, <2>3, <2>4, <2>5 DEF Next
<1>5. CASE \E t \in Tools : Call(t)
  BY <1>1, <1>2, <1>3, <1>5 DEF CallsInOrder, Busy, Serving
<1>6. CASE \A t \in Tools : ~Call(t)
  BY <1>1, <1>2, <1>4, <1>6 DEF CallsInOrder, Busy, Serving
<1> QED BY <1>5, <1>6

(* Row, held reply and written reply of a call still come from one         *)
(* response after a step.                                                  *)
LEMMA NextResponse ==
    ASSUME TypeOK, CallsInOrder, OneResponse, [Next]_vars
    PROVE  OneResponse'
<1>1. SUFFICES ASSUME NEW i \in InvocationRows'
               PROVE  /\ pc' = "reply" /\ file'[i].call = current'.id
                            => file'[i].payload = CurrentPayload'
                      /\ \A reply \in Replies' : reply.call = file'[i].call
                            => reply.reply = file'[i].payload
                      /\ file'[i].realized \in LostReplyFault
                            => file'[i].payload = "silence"
  BY DEF OneResponse
<1>2. \A reply \in Replies' :
         \/ reply \in Replies
         \/ /\ pc = "reply" /\ pc' = "idle"
            /\ reply.call = current.id /\ reply.reply = CurrentPayload
  BY StepReplies DEF Reply
<1>3. pc' = "reply" =>
         /\ pc \in {"record", "reply"} /\ UNCHANGED current
         /\ CurrentPayload' = CurrentPayload
  <2>1. pc' = "reply" => pc \in {"record", "reply"} /\ UNCHANGED current
    BY DEF Next, vars, durable, volatile, observed, Connect, Note, List, Call,
           UpstreamReturns, Record, Reply, Release, UpstreamRuns, Exit, Kill,
           KillInsideWrite, Die
  <2> QED BY <2>1 DEF CurrentPayload, CurrentResponse
<1>4. /\ calls \in Nat
      /\ Busy => current.id = calls
      /\ \A reply \in Replies : Busy => reply.call < calls
  BY DEF CallsInOrder, TypeOK, WorldTypes
<1>5. CASE i \in InvocationRows /\ file'[i] = file[i]
  <2>1. /\ file[i].call \in Nat /\ (Serving => file[i].call < calls)
        /\ pc = "reply" /\ file[i].call = current.id
              => file[i].payload = CurrentPayload
        /\ \A reply \in Replies :
              reply.call = file[i].call => reply.reply = file[i].payload
        /\ file[i].realized \in LostReplyFault => file[i].payload = "silence"
    BY <1>4, <1>5 DEF OneResponse, CallsInOrder
  <2> QED BY <1>2, <1>3, <1>4, <1>5, <2>1 DEF Busy, Serving
<1>6. CASE pc = "record" /\ file'[i] = CallRow
  <2>1. /\ current.fault \in DrawnFault /\ current.inner \in InnerReply
        /\ current.id = calls
    BY <1>4, <1>6 DEF TypeOK, ControlTypes, ServedCall, Busy
  <2>2. /\ CallRow.call = calls /\ CallRow.payload = CurrentPayload
        /\ CallRow.realized \in LostReplyFault => CallRow.payload = "silence"
    BY <2>1, LostIsSilent DEF CallRow, CurrentPayload, CurrentResponse
  <2>3. \A reply \in Replies' : reply.call # calls
    BY <1>2, <1>4, <1>6 DEF Busy, CallsInOrder, TypeOK, ProcessTypes, WorldTypes
  <2> QED BY <1>3, <1>6, <2>2, <2>3
<1> QED BY <1>5, <1>6, StepRows

(* No step lets the upstream act on a call whose row says it did not.      *)
LEMMA NextSettled ==
    ASSUME TypeOK, CallsInOrder, Settled, [Next]_vars
    PROVE  Settled'
<1>1. /\ reached \subseteq reached' /\ ran \subseteq ran'
      /\ \A id \in Nat : id <= calls => (id \in reached' <=> id \in reached)
  <2>1. calls \in Nat
    BY DEF TypeOK, WorldTypes
  <2>2. ASSUME NEW t \in Tools, Call(t)
        PROVE  ran' = ran /\ (reached' = reached \/ reached' = reached \cup {calls + 1})
    BY <2>2 DEF Call
  <2>3. ASSUME NEW id \in reached, UpstreamRuns(id)
        PROVE  reached' = reached /\ ran' = ran \cup {id}
    BY <2>3 DEF UpstreamRuns
  <2>4. ASSUME \A t \in Tools : ~Call(t), \A id \in reached : ~UpstreamRuns(id)
        PROVE  UNCHANGED <<reached, ran>>
    BY <2>4
    DEF Next, vars, durable, volatile, observed, Connect, Note, List,
        UpstreamReturns, Record, Reply, Release, Exit, Kill,
        KillInsideWrite, Die
  <2> QED BY <2>1, <2>2, <2>3, <2>4
<1>2. ASSUME NEW i \in InvocationRows'
      PROVE  /\ (file[i].executed = "no")'  => (file[i].call \notin reached)'
             /\ (file[i].executed = "yes")' => (file[i].call \in ran)'
  <2>1. CASE i \in InvocationRows /\ file'[i] = file[i]
    <3>1. file[i].call \in 1..calls /\ calls \in Nat
      BY <2>1 DEF CallsInOrder, TypeOK, WorldTypes
    <3> QED BY <1>1, <2>1, <3>1 DEF Settled
  <2>2. CASE pc = "record" /\ file'[i] = CallRow
    <3>1. /\ CallRow.call = current.id
          /\ CallRow.executed = Executed(current.fault, current.inner)
          /\ current.id = calls /\ calls \in Nat
      BY <2>2 DEF CallRow, CallsInOrder, Busy, TypeOK, WorldTypes
    <3>2. /\ CallRow.executed = "no" => current.id \notin reached
          /\ CallRow.executed = "yes" => current.id \in ran
      BY <2>2, <3>1 DEF Executed, Settled, Serving
    <3> QED BY <1>1, <2>2, <3>1, <3>2
  <2> QED BY <2>1, <2>2, StepRows
<1>3. ASSUME NEW t \in Tools, Call(t)
      PROVE  /\ ~Forwards(current'.fault) => current'.id \notin reached'
             /\ pc' = "upstream" => Forwards(current'.fault)
             /\ pc' = "record" => ~Forwards(current'.fault)
  BY <1>3 DEF Call, TypeOK, WorldTypes
<1>4. ASSUME NEW inner \in InnerReply, UpstreamReturns(inner)
      PROVE  /\ pc = "upstream" /\ pc' = "record"
             /\ current'.fault = current.fault /\ current'.inner = inner
             /\ current'.id = current.id
             /\ inner = "ok" => current.id \in ran
  BY <1>4 DEF UpstreamReturns, TypeOK, ControlTypes, ServedCall
<1>5. ASSUME \A t \in Tools : ~Call(t),
             \A inner \in InnerReply : ~UpstreamReturns(inner)
      PROVE  Serving' => UNCHANGED <<pc, current>>
  BY <1>5
  DEF Next, vars, durable, volatile, observed, Connect, Note, List, Record,
      Reply, Release, UpstreamRuns, Exit, Kill, KillInsideWrite, Die, Serving
<1>6. Busy => current.id \in Nat /\ current.id <= calls
  BY DEF CallsInOrder, TypeOK, WorldTypes
<1>7. /\ Serving' /\ ~Forwards(current'.fault) => current'.id \notin reached'
      /\ pc' = "upstream" => Forwards(current'.fault)
      /\ pc' = "record" /\ Forwards(current'.fault) /\ current'.inner = "ok"
            => current'.id \in ran'
  <2>1. CASE \E t \in Tools : Call(t)
    BY <1>3, <2>1
  <2>2. CASE \E inner \in InnerReply : UpstreamReturns(inner)
    BY <1>1, <1>4, <1>6, <2>2 DEF Settled, Serving, Busy
  <2>3. CASE /\ \A t \in Tools : ~Call(t)
             /\ \A inner \in InnerReply : ~UpstreamReturns(inner)
    BY <1>1, <1>5, <1>6, <2>3 DEF Settled, Serving, Busy
  <2> QED BY <2>1, <2>2, <2>3
<1> QED BY <1>2, <1>7 DEF Settled, Forwards, Serving

(* What the record says of a call is settled, and is what the agent was    *)
(* told.                                                                   *)
THEOREM TruthCorrect == Spec => []TruthInv
<1> USE ProxyRecordAssumption
<1>1. Init => TypeOK /\ TruthInv
  BY InitTypes, InitTruth
<1>2. TypeOK /\ TruthInv /\ [Next]_vars => TypeOK' /\ TruthInv'
  BY NextTypes, NextOrder, NextResponse, NextSettled DEF TruthInv
<1> QED BY <1>1, <1>2, PTL DEF Spec

(* Invocation.executed is a fact where it is not unknown, with or without  *)
(* torn rows: FaultProxy decides it in the one place that saw both the     *)
(* fault and the inner reply.                                              *)
THEOREM ExecutedFact == Spec => []ExecutedIsAFact
<1>1. TypeOK /\ TruthInv => ExecutedIsAFact
  BY DEF TypeOK, WorldTypes, TruthInv, Settled, ExecutedIsAFact
<1> QED BY <1>1, TypeCorrect, TruthCorrect, PTL

(* No reply that a row says was lost is ever written, or waits to be,      *)
(* whatever sessions follow and wherever a proxy is killed.                *)
THEOREM LostStaysLost == Spec => []LostReplyNeverAnswered
<1>1. ASSUME TypeOK, TruthInv,
             NEW i \in InvocationRows, file[i].realized \in LostReplyFault,
             NEW reply \in Replies
      PROVE  reply.call # file[i].call
  <2>1. reply \in WrittenReply
    BY <1>1, RepliesTyped
  <2>2. reply.reply # "silence"
    BY <2>1 DEF WrittenReply, WireReply
  <2> QED BY <1>1, <2>2 DEF TruthInv, OneResponse
<1>2. TypeOK /\ TruthInv => LostReplyNeverAnswered
  BY <1>1 DEF LostReplyNeverAnswered
<1> QED BY <1>2, TypeCorrect, TruthCorrect, PTL

-----------------------------------------------------------------------------
(* No reply without its row.                                               *)

(* A row once written is never changed: the file is only appended to.      *)
LEMMA RowsStay ==
    ASSUME Tears = FALSE, TypeOK, Whole, [Next]_vars
    PROVE  \A i \in InvocationRows : i \in InvocationRows' /\ file'[i] = file[i]
<1>1. ~KillInsideWrite
  BY DEF KillInsideWrite
<1>2. ASSUME NEW row \in Line, row.kind # "junk", Append1(row)
      PROVE  \A i \in InvocationRows : i \in InvocationRows' /\ file'[i] = file[i]
  BY <1>2, AppendedRow DEF InvocationRows, Readable
<1>3. /\ NoteRow \in Line /\ NoteRow.kind = "notification"
      /\ ListRow \in Line /\ ListRow.kind = "tools_list"
      /\ pc = "record" => CallRow \in Line /\ CallRow.kind = "invocation"
  BY CurrentTypes
  DEF NoteRow, ListRow, Line, ContextRow, TypeOK, ProcessTypes, ControlTypes,
      CallRow
<1>4. CASE Note
  BY <1>2, <1>3, <1>4 DEF Note
<1>5. CASE List
  BY <1>2, <1>3, <1>5 DEF List
<1>6. CASE Record
  BY <1>2, <1>3, <1>6 DEF Record
<1>7. CASE UNCHANGED file
  BY <1>7 DEF InvocationRows, Readable
<1> QED
  BY <1>1, <1>4, <1>5, <1>6, <1>7
  DEF Next, vars, durable, Connect, Call, UpstreamReturns, Reply, Release,
      UpstreamRuns, Exit, Kill

(* The call about to be answered has its row, after every step.            *)
LEMMA NextRecorded ==
    ASSUME Tears = FALSE, TypeOK, Whole, RecordedFirst, [Next]_vars
    PROVE  RecordedFirst'
<1>1. \A i \in InvocationRows : i \in InvocationRows' /\ file'[i] = file[i]
  BY RowsStay
<1>2. ASSUME NEW reply \in Replies'
      PROVE  \E i \in InvocationRows' :
                file'[i].call = reply.call /\ file'[i].payload = reply.reply
  <2>1. CASE reply \in Replies
    BY <1>1, <2>1 DEF RecordedFirst
  <2>2. CASE Reply /\ reply = [call |-> current.id, reply |-> CurrentPayload]
    BY <1>1, <2>2 DEF RecordedFirst, Reply
  <2> QED BY <2>1, <2>2, StepReplies
<1>3. ASSUME pc' = "reply"
      PROVE  \E i \in InvocationRows' :
                file'[i].call = current'.id /\ file'[i].payload = CurrentPayload'
  <2>1. /\ Record \/ (pc = "reply" /\ UNCHANGED current)
        /\ CurrentPayload' = CurrentPayload /\ current' = current
    <3>1. Record \/ (pc = "reply" /\ UNCHANGED current)
      BY <1>3
      DEF Next, vars, durable, volatile, observed, Connect, Note, List, Call,
          UpstreamReturns, Reply, Release, UpstreamRuns, Exit, Kill,
          KillInsideWrite, Die
    <3>2. current' = current
      BY <3>1 DEF Record
    <3> QED BY <3>1, <3>2 DEF CurrentPayload, CurrentResponse
  <2>2. CASE pc = "reply" /\ UNCHANGED current
    BY <1>1, <2>1, <2>2 DEF RecordedFirst
  <2>3. CASE Record
    <3>1. /\ Append1(CallRow) /\ CallRow \in Line /\ CallRow.kind = "invocation"
          /\ CallRow.call = current.id /\ CallRow.payload = CurrentPayload
      BY <2>3, CurrentTypes DEF Record, TypeOK, ControlTypes, Line, CallRow
    <3>2. /\ Len(file) + 1 \in DOMAIN file' /\ file'[Len(file) + 1] = CallRow
      BY <3>1, AppendedRow
    <3>3. Len(file) + 1 \in InvocationRows'
      BY <3>1, <3>2 DEF InvocationRows, Readable
    <3> QED BY <2>1, <3>1, <3>2, <3>3
  <2> QED BY <2>1, <2>2, <2>3
<1> QED BY <1>2, <1>3 DEF RecordedFirst

(* A reply the agent read is in the record, as it was read, for as long as *)
(* rows are written whole: whatever is killed, and whenever.               *)
THEOREM AnswersRecorded ==
    ASSUME Tears = FALSE
    PROVE  Spec => []AnsweredIsRecorded
<1>1. Init => RecordedFirst
  BY DEF Init, RecordedFirst, Replies
<1>2. TypeOK /\ PositionInv /\ RecordedFirst /\ [Next]_vars => RecordedFirst'
  BY NextRecorded DEF PositionInv
<1>3. TypeOK /\ RecordedFirst => AnsweredIsRecorded
  BY DEF RecordedFirst, AnsweredIsRecorded, Replies
<1> QED BY <1>1, <1>2, <1>3, TypeCorrect, PositionCorrect, PTL DEF Spec

-----------------------------------------------------------------------------
(* The record implements the abstract schedule.                            *)

(* Every step is a draw of the abstract schedule, at the moment its row is *)
(* written, or a stutter of it.                                            *)
LEMMA StepDraws ==
    ASSUME Tears = FALSE, TypeOK, TypeOK', PositionInv, [Next]_vars
    PROVE  [Recorded!Next]_<<schedule,
              [t \in Tools |-> Cardinality(CallRows(t))],
              {[tool |-> file[i].tool, ordinal |-> file[i].ordinal,
                fault |-> file[i].fault] : i \in InvocationRows}>>
<1> DEFINE used == [t \in Tools |-> Cardinality(CallRows(t))]
           drawn == {[tool |-> file[i].tool, ordinal |-> file[i].ordinal,
                      fault |-> file[i].fault] : i \in InvocationRows}
<1>1. /\ schedule' = schedule /\ ~KillInsideWrite
      /\ Whole
  BY DEF Next, vars, durable, Connect, Note, List, Call, UpstreamReturns,
         Record, Reply, Release, UpstreamRuns, Exit, Kill, KillInsideWrite, Die,
         PositionInv
<1>3. ASSUME NEW row \in Line, row.kind \in {"notification", "tools_list"},
             Append1(row)
      PROVE  used' = used /\ drawn' = drawn
  <2>1. /\ row.kind # "junk" /\ row.kind # "invocation"
    BY <1>3
  <2>2. /\ \A t : CallRows(t)' = CallRows(t)
        /\ InvocationRows' = InvocationRows
    BY <1>1, <1>3, <2>1, CountOfAppended
  <2>3. \A i \in InvocationRows : file'[i] = file[i]
    BY <1>1, <1>3, <2>1, AppendedRow DEF InvocationRows, Readable
  <2>4. drawn' = drawn
    BY <2>2, <2>3
  <2> QED BY <2>2, <2>4
<1>4. CASE Note
  <2>1. NoteRow \in Line /\ NoteRow.kind = "notification"
    BY DEF NoteRow, Line, ContextRow, TypeOK, ProcessTypes
  <2> QED BY <1>1, <1>3, <1>4, <2>1 DEF Note
<1>5. CASE List
  <2>1. ListRow \in Line /\ ListRow.kind = "tools_list"
    BY DEF ListRow, Line, ContextRow, TypeOK, ProcessTypes
  <2> QED BY <1>1, <1>3, <1>5, <2>1 DEF List
<1>6. ASSUME NEW t \in Tools, Record, current.tool = t
      PROVE  Recorded!Draw(t)
  <2> DEFINE n == used[t] + 1
             entry == [tool |-> t, ordinal |-> n, fault |-> Recorded!Entry(t, n)]
  <2>1. /\ CallRow \in Line /\ CallRow.kind = "invocation" /\ CallRow.tool = t
        /\ CallRow.ordinal = current.ordinal /\ CallRow.fault = current.fault
        /\ Append1(CallRow)
    BY <1>6, CurrentTypes
    DEF Record, CallRow, Line, TypeOK, ControlTypes, ServedCall
  <2>2. used[t] = Cardinality(CallRows(t))
    BY <2>1
  <2>3. current.ordinal = n /\ current.fault = FaultAt(t, n)
    BY <1>6, <2>1, <2>2 DEF PositionInv, InStep, ServedInPlace, Serving, Record
  <2>4. \A u, m : FaultAt(u, m) = Recorded!Entry(u, m)
    BY DEF FaultAt, Recorded!Entry, NoFault, Recorded!NoFault
  <2>5. /\ \A u : Cardinality(CallRows(u)') = Cardinality(CallRows(u))
                     + (IF CallRow.kind = "invocation" /\ CallRow.tool = u
                        THEN 1 ELSE 0)
        /\ InvocationRows' = InvocationRows \cup
                     (IF CallRow.kind = "invocation" THEN {Len(file) + 1} ELSE {})
    <3>1. CallRow.kind # "junk"
      BY <2>1
    <3> QED BY <1>1, <2>1, <3>1, CountOfAppended
  <2>6. /\ \A i \in InvocationRows : file'[i] = file[i]
        /\ file'[Len(file) + 1] = CallRow
    BY <1>1, <2>1, AppendedRow DEF InvocationRows, Readable
  <2>7. \A u : Cardinality(CallRows(u)) \in Nat
    BY FiniteRows
  <2>8. used' = [used EXCEPT ![t] = n]
    <3>1. \A u \in Tools : Cardinality(CallRows(u)') =
                             IF u = t THEN n ELSE Cardinality(CallRows(u))
      BY <2>1, <2>2, <2>5, <2>7
    <3>2. used' = [u \in Tools |-> Cardinality(CallRows(u)')]
      OBVIOUS
    <3> HIDE DEF n
    <3>3. used' = [u \in Tools |-> IF u = t THEN n ELSE Cardinality(CallRows(u))]
      BY <3>1, <3>2
    <3> QED BY <3>3
  <2>9. drawn' = drawn \cup {entry}
    <3>1. InvocationRows' = InvocationRows \cup {Len(file) + 1}
      BY <2>1, <2>5
    <3>2. drawn' = {[tool |-> file'[i].tool, ordinal |-> file'[i].ordinal,
                     fault |-> file'[i].fault] : i \in InvocationRows'}
      OBVIOUS
    <3>3. entry = [tool |-> CallRow.tool, ordinal |-> CallRow.ordinal,
                   fault |-> CallRow.fault]
      BY <2>1, <2>3, <2>4
    <3> HIDE DEF entry
    <3> QED BY <2>6, <3>1, <3>2, <3>3
  <2> QED BY <1>1, <2>8, <2>9 DEF Recorded!Draw
<1>7. CASE UNCHANGED file
  <2>1. used' = used /\ drawn' = drawn
    BY <1>7 DEF CallRows, InvocationRows, Readable
  <2> QED BY <1>1, <2>1
<1>8. Note \/ List \/ Record \/ UNCHANGED file
  BY <1>1
  DEF Next, vars, durable, Connect, Call, UpstreamReturns, Reply, Release,
      UpstreamRuns, Exit, Kill
<1>9. CASE Record
  <2>1. current.tool \in Tools
    BY <1>9 DEF Record, TypeOK, ControlTypes, ServedCall
  <2>2. \E t \in Tools : Recorded!Draw(t)
    BY <1>6, <1>9, <2>1
  <2> QED BY <2>2 DEF Recorded!Next
<1> QED BY <1>4, <1>5, <1>7, <1>8, <1>9

(* The record is an implementation of one table position per tool that     *)
(* only moves on: a reconnect neither repeats nor skips an entry.          *)
THEOREM RecordImplementsSchedule ==
    ASSUME Tears = FALSE
    PROVE  Spec => ImplementsForcedSchedule
<1>1. Init => Recorded!Init
  <2>1. Init => /\ InvocationRows = {}
                /\ \A t : CallRows(t) = {}
    BY DEF Init, InvocationRows, CallRows, Readable
  <2> QED BY <2>1, FS_EmptySet DEF Init, Recorded!Init
<1>2. TypeOK /\ TypeOK' /\ PositionInv /\ [Next]_vars =>
         [Recorded!Next]_<<schedule,
            [t \in Tools |-> Cardinality(CallRows(t))],
            {[tool |-> file[i].tool, ordinal |-> file[i].ordinal,
              fault |-> file[i].fault] : i \in InvocationRows}>>
  BY StepDraws
<1> QED
  BY <1>1, <1>2, TypeCorrect, PositionCorrect, PTL
  DEF Spec, Recorded!Spec, ImplementsForcedSchedule

-----------------------------------------------------------------------------
(* One held reply per record, torn rows or not.                            *)

HeldRows == {i \in InvocationRows : file[i].held}

(* A proxy that may still hold a reply finds none held in the record, save *)
(* that of the call it is answering.                                       *)
HoldInv ==
    /\ \A i, j \in HeldRows : i = j
    /\ pc # "down" /\ armed => HeldRows = {} \/ (pc = "reply" /\ CurrentHeld)

(* A row that was held is new only in the step that records it, killed     *)
(* inside the write or not.                                                *)
LEMMA StepHeld ==
    ASSUME TypeOK, [Next]_vars
    PROVE  \A i \in HeldRows' :
              \/ i \in HeldRows
              \/ pc = "record" /\ CurrentHeld /\ i = Len(file) + 1
                 /\ (Record \/ KillInsideWrite)
BY StepRows DEF HeldRows, CallRow

(* One held row at most, and a session armed to hold only while there is   *)
(* none, after every step.                                                 *)
LEMMA NextHold ==
    ASSUME TypeOK, HoldInv, [Next]_vars
    PROVE  HoldInv'
<1>1. \A i \in HeldRows' :
         \/ i \in HeldRows
         \/ pc = "record" /\ CurrentHeld /\ i = Len(file) + 1
            /\ (Record \/ KillInsideWrite)
  BY StepHeld
<1>2. pc = "record" /\ CurrentHeld => HeldRows = {}
  BY DEF HoldInv, CurrentHeld
<1>3. \A i, j \in HeldRows' : i = j
  BY <1>1, <1>2 DEF HoldInv
<1>4. ASSUME pc' # "down", armed'
      PROVE  HeldRows' = {} \/ (pc' = "reply" /\ CurrentHeld')
  <2>1. CASE Connect
    <3>1. InvocationRows = {} /\ file' = file
      BY <1>4, <2>1 DEF Connect, RestoredHold, durable
    <3> QED BY <3>1 DEF HeldRows, InvocationRows, Readable
  <2>2. CASE Record
    <3>1. armed /\ pc = "record" /\ pc' = "reply" /\ CurrentHeld' = CurrentHeld
      BY <1>4, <2>2 DEF Record, CurrentHeld, CurrentPayload, CurrentResponse
    <3>2. HeldRows = {}
      BY <3>1 DEF HoldInv
    <3> QED BY <1>1, <3>1, <3>2
  <2>3. CASE Reply
    <3>1. armed /\ ~CurrentHeld /\ pc = "reply"
      BY <1>4, <2>3 DEF Reply, DropReply, HoldReply, WriteReply, CurrentHeld
    <3>2. HeldRows = {} /\ ~Record /\ ~KillInsideWrite
      BY <2>3, <3>1 DEF HoldInv, Record, Reply, KillInsideWrite, Die
    <3> QED BY <1>1, <3>2
  <2>4. CASE ~Connect /\ ~Record /\ ~Reply
    <3>1. ~KillInsideWrite
      BY <1>4 DEF KillInsideWrite, Die
    <3>2. /\ armed /\ pc # "down"
          /\ pc = "reply" => pc' = "reply" /\ UNCHANGED <<current, armed>>
      BY <1>4, <2>4, <3>1
      DEF Next, vars, volatile, durable, observed, Note, List, Call, UpstreamReturns,
          Release, UpstreamRuns, Exit, Kill, Die
    <3>3. HeldRows' \subseteq HeldRows
      BY <1>1, <2>4, <3>1
    <3>4. CASE HeldRows = {}
      BY <3>3, <3>4
    <3>5. CASE pc = "reply" /\ CurrentHeld
      BY <3>2, <3>5 DEF CurrentHeld, CurrentPayload, CurrentResponse
    <3> QED BY <3>2, <3>4, <3>5 DEF HoldInv
  <2> QED BY <2>1, <2>2, <2>3, <2>4
<1> QED BY <1>3, <1>4 DEF HoldInv

(* A task has one held reply at the most: a proxy that is launched, at any *)
(* time and after any kill, holds none if the record shows one             *)
(* (ProxyServer.__init__, proxy.ProxyServer.hold_s).                       *)
THEOREM HeldOnce == Spec => []HeldOncePerRecord
<1>1. Init => HoldInv
  BY DEF Init, HoldInv, HeldRows, InvocationRows, Readable
<1>2. TypeOK /\ HoldInv /\ [Next]_vars => HoldInv'
  BY NextHold
<1>3. ASSUME HoldInv PROVE HeldOncePerRecord
  <2>1. CASE HeldRows = {}
    BY <2>1, FS_EmptySet DEF HeldOncePerRecord, HeldRows
  <2>2. CASE HeldRows # {}
    <3>1. PICK i \in HeldRows : HeldRows = {i}
      BY <1>3, <2>2 DEF HoldInv
    <3>2. Cardinality(HeldRows) = 1
      BY <3>1, FS_Singleton
    <3> QED BY <3>2 DEF HeldOncePerRecord, HeldRows
  <2> QED BY <2>1, <2>2
<1> QED BY <1>1, <1>2, <1>3, TypeCorrect, PTL DEF Spec

-----------------------------------------------------------------------------
(* What the record can miss.                                               *)

RecordedCalls == {file[i].call : i \in InvocationRows}

InFlight == IF Serving THEN {current.id} ELSE {}

(* Work that was forwarded, is not in flight and has no row.               *)
Missing == reached \ (RecordedCalls \cup InFlight)

(* The row the next write runs into, when the last has no newline.         *)
Doomed ==
    IF unterminated /\ file[Len(file)].kind = "invocation"
    THEN {file[Len(file)].call} ELSE {}

(* What the kills so far will still cost: that row, and the next one.      *)
Debt == IF ~unterminated THEN 0 ELSE IF Doomed = {} THEN 1 ELSE 2

LossInv ==
    /\ ~Tears => ~unterminated
    /\ Cardinality(Missing) + Debt <= LossPerKill * kills

(* A part of a finite set and one element more has at most one element     *)
(* more.                                                                   *)
LEMMA OneMore ==
    ASSUME NEW S, IsFiniteSet(S), NEW a, NEW T, T \subseteq S \cup {a}
    PROVE  IsFiniteSet(T) /\ Cardinality(T) <= Cardinality(S) + 1
<1>1. /\ IsFiniteSet(S \cup {a}) /\ Cardinality(S) \in Nat
      /\ Cardinality(S \cup {a}) <= Cardinality(S) + 1
  <2>1. /\ IsFiniteSet(S \cup {a}) /\ Cardinality(S) \in Nat
        /\ Cardinality(S \cup {a}) =
              IF a \in S THEN Cardinality(S) ELSE Cardinality(S) + 1
    BY FS_AddElement, FS_CardinalityType
  <2> QED BY <2>1
<1>2. /\ IsFiniteSet(T) /\ Cardinality(T) <= Cardinality(S \cup {a})
      /\ Cardinality(T) \in Nat /\ Cardinality(S \cup {a}) \in Nat
  BY <1>1, FS_Subset, FS_CardinalityType
<1> QED BY <1>1, <1>2

(* The same, for what may be nothing.                                      *)
LEMMA FewMore ==
    ASSUME NEW S, IsFiniteSet(S), NEW T
    PROVE  /\ Cardinality(S) \in Nat
           /\ T \subseteq S =>
                 Cardinality(T) \in Nat /\ Cardinality(T) <= Cardinality(S)
           /\ \A a : T \subseteq S \cup {a} =>
                 Cardinality(T) \in Nat /\ Cardinality(T) <= Cardinality(S) + 1
           /\ \A a, b : T \subseteq S \cup {a} \cup {b} =>
                 Cardinality(T) \in Nat /\ Cardinality(T) <= Cardinality(S) + 2
<1>1. Cardinality(S) \in Nat
  BY FS_CardinalityType
<1>2. T \subseteq S => Cardinality(T) \in Nat /\ Cardinality(T) <= Cardinality(S)
  BY FS_Subset, FS_CardinalityType
<1>3. ASSUME NEW a, T \subseteq S \cup {a}
      PROVE  Cardinality(T) \in Nat /\ Cardinality(T) <= Cardinality(S) + 1
  BY <1>3, OneMore, FS_CardinalityType
<1>4. ASSUME NEW a, NEW b, T \subseteq S \cup {a} \cup {b}
      PROVE  Cardinality(T) \in Nat /\ Cardinality(T) <= Cardinality(S) + 2
  <2>1. /\ IsFiniteSet(S \cup {a}) /\ Cardinality(S \cup {a}) <= Cardinality(S) + 1
        /\ Cardinality(S \cup {a}) \in Nat
    BY OneMore, FS_CardinalityType
  <2>2. /\ IsFiniteSet(T) /\ Cardinality(T) <= Cardinality(S \cup {a}) + 1
        /\ Cardinality(T) \in Nat
    BY <1>4, <2>1, OneMore, FS_CardinalityType
  <2> QED BY <1>1, <2>1, <2>2
<1> QED BY <1>1, <1>2, <1>3, <1>4

(* The calls the record lacks are among those forwarded, which are         *)
(* finitely many.                                                          *)
LEMMA MissingFinite == ASSUME TypeOK PROVE IsFiniteSet(Missing)
<1>1. calls \in Nat /\ Missing \subseteq 1..calls
  BY DEF TypeOK, WorldTypes, Missing
<1>2. IsFiniteSet(1..calls)
  BY <1>1, FS_Interval
<1> QED BY <1>1, <1>2, FS_Subset

(* So they are after a step.                                               *)
LEMMA NextMissingFinite ==
    ASSUME ProxyRecordAssumption, TypeOK, [Next]_vars
    PROVE  IsFiniteSet(Missing')
<1>1. calls' \in Nat /\ Missing' \subseteq 1..calls'
  BY NextTypes DEF TypeOK, WorldTypes, Missing
<1>2. IsFiniteSet(1..calls')
  BY <1>1, FS_Interval
<1> QED BY <1>1, <1>2, FS_Subset

(* A write keeps every row but the doomed one, leaves nothing doomed but   *)
(* its own row, and has its own row when nothing was in its way.           *)
LEMMA WriteLoses ==
    ASSUME TypeOK, NEW row \in Line, row.kind # "junk", Append1(row) \/ AppendCut(row)
    PROVE  /\ RecordedCalls \subseteq RecordedCalls' \cup Doomed
           /\ unterminated => Doomed' = {}
           /\ Append1(row) => unterminated' = FALSE
           /\ AppendCut(row) => unterminated' = TRUE
           /\ ~unterminated /\ row.kind = "invocation" =>
                 /\ Append1(row) => row.call \in RecordedCalls'
                 /\ Doomed' # {} => row.call \in RecordedCalls'
           /\ row.kind # "invocation" => Doomed' = {}
<1>1. /\ file \in Seq(Line) /\ Len(file) \in Nat /\ DOMAIN file = 1..Len(file)
      /\ unterminated => file # << >>
  BY LenProperties DEF TypeOK, RecordTypes
<1>2. \A i \in InvocationRows : i \in 1..Len(file) /\ file[i].kind = "invocation"
  BY <1>1 DEF InvocationRows, Readable
<1>3. CASE unterminated
  <2>1. Len(file) \in 1..Len(file)
    BY <1>1, <1>3, EmptySeq
  <2>2. file' = [file EXCEPT ![Len(file)] = Junk]
    BY <1>3 DEF Append1, AppendCut
  <2>3. /\ DOMAIN file' = 1..Len(file) /\ Len(file') = Len(file)
        /\ file'[Len(file)] = Junk
        /\ \A i \in 1..Len(file) : i # Len(file) => file'[i] = file[i]
    <3>1. Junk \in Line
      BY DEF Line
    <3>2. /\ file' \in Seq(Line) /\ Len(file') = Len(file)
          /\ \A i \in 1..Len(file) : file'[i] = IF i = Len(file) THEN Junk ELSE file[i]
      BY <1>1, <2>1, <2>2, <3>1, ExceptSeq
    <3>3. DOMAIN file' = 1..Len(file)
      BY <3>2, LenProperties
    <3>4. file'[Len(file)] = Junk
      BY <2>1, <3>2
    <3>5. \A i \in 1..Len(file) : i # Len(file) => file'[i] = file[i]
      BY <3>2
    <3> QED BY <3>2, <3>3, <3>4, <3>5
  <2>4. Doomed' = {}
    <3>1. Junk.kind = "junk"
      BY DEF Junk
    <3>2. file'[Len(file')].kind = "junk"
      BY <2>3, <3>1, Zenon
    <3> QED BY <3>2 DEF Doomed
  <2>5. ASSUME NEW i \in InvocationRows PROVE file[i].call \in RecordedCalls' \cup Doomed
    <3>1. CASE i = Len(file)
      BY <1>2, <1>3, <3>1 DEF Doomed
    <3>2. CASE i # Len(file)
      <4>1. file'[i] = file[i] /\ i \in InvocationRows'
        BY <1>2, <2>3, <3>2 DEF InvocationRows, Readable
      <4> QED BY <4>1 DEF RecordedCalls
    <3> QED BY <3>1, <3>2
  <2> QED BY <1>3, <2>4, <2>5 DEF RecordedCalls, Append1, AppendCut
<1>4. CASE ~unterminated
  <2>1. PICK last \in {row, Junk} : file' = Append(file, last) /\ (Append1(row) => last = row)
    BY <1>4 DEF Append1, AppendCut
  <2>2. /\ DOMAIN file' = 1..(Len(file) + 1) /\ Len(file') = Len(file) + 1
        /\ file'[Len(file) + 1] = last
        /\ \A i \in 1..Len(file) : file'[i] = file[i]
    BY <1>1, <2>1
  <2>3. \A i \in InvocationRows : i \in InvocationRows' /\ file'[i] = file[i]
    BY <1>1, <1>2, <2>2 DEF InvocationRows, Readable
  <2>4. last = row /\ row.kind = "invocation" => row.call \in RecordedCalls'
    <3> SUFFICES ASSUME last = row, row.kind = "invocation" PROVE row.call \in RecordedCalls'
      OBVIOUS
    <3>1. Len(file) + 1 \in InvocationRows'
      BY <1>1, <2>2 DEF InvocationRows, Readable
    <3> QED BY <2>2, <3>1 DEF RecordedCalls
  <2>5. Doomed' # {} => last = row /\ row.kind = "invocation"
    BY <2>2 DEF Doomed, Junk
  <2> QED BY <1>4, <2>1, <2>3, <2>4, <2>5 DEF RecordedCalls, Append1, AppendCut
<1> QED BY <1>3, <1>4

(* A step that writes nothing and kills nothing loses nothing.             *)
LEMMA QuietLoses ==
    ASSUME TypeOK, [Next]_vars, UNCHANGED <<file, unterminated, kills>>
    PROVE  Missing' \subseteq Missing /\ Debt' = Debt
<1>1. RecordedCalls' = RecordedCalls /\ Doomed' = Doomed /\ Debt' = Debt
  BY DEF RecordedCalls, Doomed, Debt, InvocationRows, Readable
<1> SUFFICES Missing' \subseteq Missing
  BY <1>1
<1>2. ASSUME reached' = reached, InFlight \subseteq InFlight' PROVE Missing' \subseteq Missing
  BY <1>1, <1>2 DEF Missing
<1>3. ASSUME NEW t \in Tools, Call(t) PROVE Missing' \subseteq Missing
  <2>1. InFlight = {} /\ InFlight' = {calls + 1} /\ reached' \subseteq reached \cup {calls + 1}
    BY <1>3 DEF Call, InFlight, Serving
  <2> QED BY <1>1, <2>1 DEF Missing
<1>4. ASSUME NEW inner \in InnerReply, UpstreamReturns(inner) PROVE Missing' \subseteq Missing
  <2>1. current' = [current EXCEPT !.inner = inner] /\ pc = "upstream" /\ pc' = "record"
    BY <1>4 DEF UpstreamReturns
  <2>2. current \in ServedCall
    BY <2>1 DEF TypeOK, ControlTypes
  <2>3. current'.id = current.id
    BY <2>1, <2>2 DEF ServedCall
  <2> QED BY <1>2, <1>4, <2>1, <2>3 DEF UpstreamReturns, observed, InFlight, Serving
<1>5. CASE Note \/ List \/ Record \/ Kill \/ KillInsideWrite
  <2>1. ~Kill /\ ~KillInsideWrite
    BY DEF Kill, KillInsideWrite, Die, TypeOK, WorldTypes
  <2>2. CASE Note \/ List
    BY <1>2, <2>2 DEF Note, List, observed, InFlight, Serving
  <2>3. CASE Record
    <3>1. Append1(CallRow) /\ file' = file /\ unterminated' = unterminated
      BY <2>3 DEF Record
    <3>2. file \in Seq(Line) /\ ~unterminated /\ file' = Append(file, CallRow)
      BY <3>1 DEF Append1, TypeOK, RecordTypes
    <3>3. CallRow \in Line
      BY <2>3, CurrentTypes DEF Record, TypeOK, ControlTypes, Line
    <3>4. Len(file') = Len(file) + 1 /\ Len(file) \in Nat
      BY <3>2, <3>3
    <3> QED BY <3>1, <3>4
  <2> QED BY <1>5, <2>1, <2>2, <2>3
<1>6. CASE Connect \/ Reply \/ Exit
  BY <1>2, <1>6 DEF Connect, Reply, Exit, observed, InFlight, Serving
<1>7. CASE (\E reply \in pending : Release(reply)) \/ (\E id \in reached : UpstreamRuns(id))
           \/ UNCHANGED vars
  BY <1>2, <1>7 DEF Release, UpstreamRuns, vars, volatile, observed, InFlight, Serving
<1> QED BY <1>1, <1>3, <1>4, <1>5, <1>6, <1>7 DEF Next

(* The same with a bound on what a row of this session may be.             *)
LEMMA WritesLose ==
    ASSUME TypeOK, NEW row \in Line, row.kind # "junk", Append1(row) \/ AppendCut(row),
           reached' = reached, InFlight' = {},
           InFlight # {} => row.kind = "invocation" /\ InFlight = {row.call}
    PROVE  /\ Append1(row) => Cardinality(Missing') + Debt' <= Cardinality(Missing) + Debt
           /\ AppendCut(row) => Cardinality(Missing') + Debt' <= Cardinality(Missing) + 2 + Debt
<1>1. /\ RecordedCalls \subseteq RecordedCalls' \cup Doomed
      /\ unterminated => Doomed' = {}
      /\ Append1(row) => unterminated' = FALSE
      /\ AppendCut(row) => unterminated' = TRUE
      /\ ~unterminated /\ row.kind = "invocation" =>
            /\ Append1(row) => row.call \in RecordedCalls'
            /\ Doomed' # {} => row.call \in RecordedCalls'
      /\ row.kind # "invocation" => Doomed' = {}
  BY WriteLoses
<1>2. IsFiniteSet(Missing) /\ Cardinality(Missing) \in Nat
  BY MissingFinite, FewMore
<1>3. \A m \in Missing' : m \in Missing \cup InFlight \cup Doomed
  BY <1>1 DEF Missing
<1>4. PICK a : InFlight \subseteq {a}
  BY DEF InFlight
<1>5. PICK b : Doomed \subseteq {b}
  BY DEF Doomed
<1>6. CASE unterminated
  <2>1. Debt' <= 1 /\ Debt' \in Nat /\ (Append1(row) => Debt' = 0)
    BY <1>1, <1>6 DEF Debt
  <2>2. CASE Doomed = {}
    <3>1. Missing' \subseteq Missing \cup {a} /\ Debt = 1
      BY <1>3, <1>4, <1>6, <2>2 DEF Debt
    <3>2. Cardinality(Missing') \in Nat /\ Cardinality(Missing') <= Cardinality(Missing) + 1
      BY <1>2, <3>1, FewMore
    <3> QED BY <1>2, <2>1, <3>1, <3>2
  <2>3. CASE Doomed # {}
    <3>1. Missing' \subseteq Missing \cup {a} \cup {b} /\ Debt = 2
      BY <1>3, <1>4, <1>5, <1>6, <2>3 DEF Debt
    <3>2. Cardinality(Missing') \in Nat /\ Cardinality(Missing') <= Cardinality(Missing) + 2
      BY <1>2, <3>1, FewMore
    <3> QED BY <1>2, <2>1, <3>1, <3>2
  <2> QED BY <2>2, <2>3
<1>7. CASE ~unterminated
  <2>1. Doomed = {} /\ Debt = 0
    BY <1>7 DEF Doomed, Debt
  <2>2. ASSUME row.kind = "invocation" => row.call \in RecordedCalls'
        PROVE  Cardinality(Missing') \in Nat /\ Cardinality(Missing') <= Cardinality(Missing)
    <3>1. Missing' \subseteq Missing
      BY <1>3, <2>1, <2>2 DEF Missing
    <3> QED BY <1>2, <3>1, FewMore
  <2>3. CASE Append1(row)
    <3>1. Debt' = 0
      BY <1>1, <2>3 DEF Debt
    <3>2. ~AppendCut(row)
      BY <1>1, <2>3
    <3> QED BY <1>1, <1>2, <1>7, <2>1, <2>2, <2>3, <3>1, <3>2
  <2>4. CASE AppendCut(row) /\ ~Append1(row)
    <3>1. CASE Doomed' # {}
      <4>1. Debt' = 2 /\ row.kind = "invocation" /\ row.call \in RecordedCalls'
        BY <1>1, <1>7, <2>4, <3>1 DEF Debt
      <4> QED BY <1>2, <2>1, <2>2, <2>4, <4>1
    <3>2. CASE Doomed' = {}
      <4>1. Debt' = 1 /\ Missing' \subseteq Missing \cup {a}
        BY <1>1, <1>3, <1>4, <2>1, <2>4, <3>2 DEF Debt
      <4>2. Cardinality(Missing') \in Nat /\ Cardinality(Missing') <= Cardinality(Missing) + 1
        BY <1>2, <4>1, FewMore
      <4> QED BY <1>2, <2>1, <2>4, <4>1, <4>2
    <3> QED BY <3>1, <3>2
  <2> QED BY <2>3, <2>4
<1> QED BY <1>6, <1>7

(* Each kill pays for what it loses: the bound survives every step.        *)
LEMMA NextLoss ==
    ASSUME ProxyRecordAssumption, TypeOK, LossInv, [Next]_vars
    PROVE  LossInv'
<1>1. /\ IsFiniteSet(Missing) /\ Cardinality(Missing) \in Nat /\ Debt \in {0, 1, 2}
      /\ kills \in Nat /\ LossPerKill \in {1, 2} /\ LossPerKill' = LossPerKill
      /\ Cardinality(Missing) + Debt <= LossPerKill * kills
  BY MissingFinite, FewMore DEF Debt, LossPerKill, LossInv, TypeOK, WorldTypes
<1>2. /\ NoteRow \in Line /\ NoteRow.kind = "notification"
      /\ ListRow \in Line /\ ListRow.kind = "tools_list"
      /\ Serving /\ pc = "record" =>
            CallRow \in Line /\ CallRow.kind = "invocation" /\ InFlight = {CallRow.call}
      /\ pc \in {"idle", "reply", "down"} => InFlight = {}
  BY CurrentTypes
  DEF NoteRow, ListRow, Line, ContextRow, TypeOK, ProcessTypes, ControlTypes, CallRow,
      InFlight, Serving
<1>3. CASE UNCHANGED <<file, unterminated, kills>>
  <2>1. Cardinality(Missing') \in Nat /\ Cardinality(Missing') <= Cardinality(Missing)
    BY <1>1, <1>3, QuietLoses, FewMore
  <2>2. Debt' = Debt
    BY <1>3, QuietLoses
  <2> QED BY <1>1, <1>3, <2>1, <2>2 DEF LossInv
<1>4. ASSUME NEW row \in Line, row.kind # "junk", Append1(row), UNCHANGED <<reached, kills>>,
             InFlight' = {}, InFlight # {} => row.kind = "invocation" /\ InFlight = {row.call}
      PROVE  LossInv'
  <2>1. Cardinality(Missing') + Debt' <= Cardinality(Missing) + Debt
    BY <1>4, WritesLose
  <2>2. Cardinality(Missing') \in Nat /\ Debt' \in {0, 1, 2}
    <3>1. IsFiniteSet(Missing')
      BY NextMissingFinite
    <3>2. Cardinality(Missing') \in Nat
      BY <3>1, FS_CardinalityType
    <3>3. Debt' \in {0, 1, 2}
      BY DEF Debt
    <3> QED BY <3>2, <3>3
  <2>3. unterminated' = FALSE
    BY <1>4 DEF Append1
  <2> QED BY <1>1, <1>4, <2>1, <2>2, <2>3 DEF LossInv
<1>5. CASE Note \/ List
  BY <1>2, <1>4, <1>5 DEF Note, List, observed, InFlight, Serving
<1>6. CASE Record
  BY <1>2, <1>4, <1>6 DEF Record, observed, InFlight, Serving
<1>7. CASE Kill
  <2>1. /\ kills' = kills + 1 /\ InFlight' = {} /\ UNCHANGED <<file, unterminated, reached>>
    BY <1>7 DEF Kill, Die, InFlight, Serving
  <2>2. RecordedCalls' = RecordedCalls /\ Debt' = Debt
    BY <2>1 DEF RecordedCalls, Doomed, Debt, InvocationRows, Readable
  <2>3. PICK a : InFlight \subseteq {a}
    BY DEF InFlight
  <2>4. Missing' \subseteq Missing \cup {a}
    BY <2>1, <2>2, <2>3 DEF Missing
  <2>5. Cardinality(Missing') \in Nat /\ Cardinality(Missing') <= Cardinality(Missing) + 1
    BY <1>1, <2>4, FewMore
  <2>6. LossPerKill * (kills + 1) = LossPerKill * kills + LossPerKill
    BY <1>1
  <2> QED BY <1>1, <2>1, <2>2, <2>5, <2>6 DEF LossInv
<1>8. CASE KillInsideWrite
  <2>1. /\ kills' = kills + 1 /\ InFlight' = {} /\ reached' = reached /\ LossPerKill = 2
        /\ Tears
    BY <1>8 DEF KillInsideWrite, Die, InFlight, Serving, LossPerKill
  <2>2. Cardinality(Missing') + Debt' <= Cardinality(Missing) + 2 + Debt
    <3>1. CASE pc = "record" /\ AppendCut(CallRow)
      BY <1>2, <2>1, <3>1, WritesLose DEF Serving
    <3>2. CASE pc = "idle" /\ AppendCut(NoteRow)
      BY <1>2, <2>1, <3>2, WritesLose
    <3>3. CASE pc = "idle" /\ AppendCut(ListRow)
      BY <1>2, <2>1, <3>3, WritesLose
    <3> QED BY <1>8, <3>1, <3>2, <3>3 DEF KillInsideWrite
  <2>3. Cardinality(Missing') \in Nat /\ Debt' \in {0, 1, 2}
    <3>1. IsFiniteSet(Missing')
      BY NextMissingFinite
    <3>2. Cardinality(Missing') \in Nat
      BY <3>1, FS_CardinalityType
    <3>3. Debt' \in {0, 1, 2}
      BY DEF Debt
    <3> QED BY <3>2, <3>3
  <2> QED BY <1>1, <2>1, <2>2, <2>3 DEF LossInv
<1>9. CASE ~Note /\ ~List /\ ~Record /\ ~Kill /\ ~KillInsideWrite
  <2>1. UNCHANGED <<file, unterminated, kills>>
    BY <1>9
    DEF Next, vars, durable, observed, Connect, Call, UpstreamReturns, Reply, Release,
        UpstreamRuns, Exit
  <2> QED BY <1>3, <2>1
<1> QED BY <1>5, <1>6, <1>7, <1>8, <1>9

(* What was forwarded is in the record, save the call in flight and one    *)
(* call for each kill -- two where a kill can also cut a row short, which  *)
(* takes the next session's first row with it (RecordWriter writes before  *)
(* the reply, and appends after whatever is there).                        *)
THEOREM LossBounded == Spec => []UnrecordedWorkBounded
<1> USE ProxyRecordAssumption
<1>1. ASSUME Init PROVE LossInv
  <2>1. Missing = {} /\ unterminated = FALSE /\ kills = 0
    BY <1>1 DEF Init, Missing
  <2> QED BY <2>1, FS_EmptySet DEF LossInv, Debt, LossPerKill
<1>2. TypeOK /\ LossInv /\ [Next]_vars => LossInv'
  BY NextLoss
<1>3. ASSUME TypeOK, LossInv PROVE UnrecordedWorkBounded
  <2>1. Cardinality(Missing) \in Nat /\ Debt \in {0, 1, 2} /\ LossPerKill * kills \in Nat
    BY <1>3, MissingFinite, FewMore DEF Debt, LossPerKill, TypeOK, WorldTypes
  <2>2. Cardinality(Missing) <= LossPerKill * kills
    BY <1>3, <2>1 DEF LossInv
  <2> QED BY <2>2 DEF UnrecordedWorkBounded, Missing, RecordedCalls, InFlight, Serving
<1> QED BY <1>1, <1>2, <1>3, TypeCorrect, PTL DEF Spec

-----------------------------------------------------------------------------
(* The record read back as trajectories says what was run and what was     *)
(* seen, torn rows or not.                                                 *)

(* Sequence order puts any two rows of a tool one before the other.        *)
LEMMA RowsInSequence ==
    ASSUME TypeOK, NEW t
    PROVE  /\ CallRows(t) \subseteq InvocationRows
           /\ \A i \in CallRows(t) : ~InSequence(i, i)
           /\ \A i, j \in CallRows(t) :
                 i # j => InSequence(i, j) \/ InSequence(j, i)
           /\ \A i, j, k \in CallRows(t) :
                 InSequence(i, j) /\ InSequence(j, k) => InSequence(i, k)
<1>1. CallRows(t) \subseteq InvocationRows
  BY DEF CallRows, InvocationRows
<1>2. \A i \in CallRows(t) : i \in Nat /\ file[i].seq \in Nat
  <2>1. ASSUME NEW i \in CallRows(t) PROVE i \in Nat /\ file[i].seq \in Nat
    <3>1. i \in 1..Len(file) /\ Len(file) \in Nat /\ file[i].kind = "invocation"
      BY DEF CallRows, Readable, TypeOK, RecordTypes
    <3>2. file[i] \in Line
      BY <3>1 DEF TypeOK, RecordTypes
    <3> QED BY <3>1, <3>2 DEF Line, Junk, InvocationRow, ContextRow
  <2> QED BY <2>1
<1> QED BY <1>1, <1>2 DEF InSequence

(* A row has fewer rows before it than a later one, so no two rows of a    *)
(* tool have the same place.                                               *)
LEMMA PlacesApart ==
    ASSUME TypeOK, NEW t
    PROVE  /\ IsFiniteSet(CallRows(t)) /\ Cardinality(CallRows(t)) \in Nat
           /\ \A i \in CallRows(t) :
                 Cardinality(Earlier(t, i)) \in 0..(Cardinality(CallRows(t)) - 1)
           /\ \A i, j \in CallRows(t) :
                 i # j => Cardinality(Earlier(t, i)) # Cardinality(Earlier(t, j))
<1>1. IsFiniteSet(CallRows(t)) /\ Cardinality(CallRows(t)) \in Nat
  BY FiniteRows
<1>2. \A i \in CallRows(t) : /\ Earlier(t, i) \subseteq CallRows(t) \ {i}
                             /\ IsFiniteSet(Earlier(t, i))
                             /\ Cardinality(Earlier(t, i)) \in Nat
  <2>1. ASSUME NEW i \in CallRows(t)
        PROVE  Earlier(t, i) \subseteq CallRows(t) \ {i}
    BY RowsInSequence DEF Earlier
  <2> QED BY <1>1, <2>1, FS_Subset, FS_CardinalityType
<1>3. ASSUME NEW i \in CallRows(t), NEW S, S \subseteq CallRows(t) \ {i},
             NEW T, T \subseteq CallRows(t), S \cup {i} \subseteq T
      PROVE  Cardinality(S) + 1 <= Cardinality(T)
  <2>1. IsFiniteSet(S) /\ IsFiniteSet(T) /\ Cardinality(S) \in Nat /\ Cardinality(T) \in Nat
    BY <1>1, <1>3, FS_Subset, FS_CardinalityType
  <2>2. Cardinality(S \cup {i}) = Cardinality(S) + 1
    BY <1>3, <2>1, FS_AddElement
  <2>3. Cardinality(S \cup {i}) <= Cardinality(T)
    BY <1>3, <2>1, FS_Subset
  <2> QED BY <2>1, <2>2, <2>3
<1>4. ASSUME NEW i \in CallRows(t)
      PROVE  Cardinality(Earlier(t, i)) \in 0..(Cardinality(CallRows(t)) - 1)
  <2>1. Cardinality(Earlier(t, i)) + 1 <= Cardinality(CallRows(t))
    BY <1>2, <1>3
  <2> QED BY <1>1, <1>2, <2>1
<1>5. ASSUME NEW i \in CallRows(t), NEW j \in CallRows(t), InSequence(i, j)
      PROVE  Cardinality(Earlier(t, i)) + 1 <= Cardinality(Earlier(t, j))
  <2>1. Earlier(t, i) \cup {i} \subseteq Earlier(t, j)
    BY <1>5, RowsInSequence DEF Earlier
  <2>2. Earlier(t, j) \subseteq CallRows(t)
    BY DEF Earlier
  <2> QED BY <1>2, <1>3, <2>1, <2>2
<1>6. ASSUME NEW i \in CallRows(t), NEW j \in CallRows(t), i # j
      PROVE  Cardinality(Earlier(t, i)) # Cardinality(Earlier(t, j))
  BY <1>2, <1>5, <1>6, RowsInSequence
<1> QED BY <1>1, <1>4, <1>6

(* Every row of a tool is in its trajectory, once (replay sorts the rows   *)
(* it was given and drops none).                                           *)
LEMMA ReplayIsOrder ==
    ASSUME TypeOK, NEW t
    PROVE  /\ DOMAIN ReplayedRows(t) = 1..Cardinality(CallRows(t))
           /\ \A k \in DOMAIN ReplayedRows(t) : ReplayedRows(t)[k] \in CallRows(t)
           /\ \A k, m \in DOMAIN ReplayedRows(t) :
                 ReplayedRows(t)[k] = ReplayedRows(t)[m] => k = m
<1> DEFINE C == CallRows(t)
           n == Cardinality(C)
           place == [i \in C |-> Cardinality(Earlier(t, i)) + 1]
<1>1. /\ IsFiniteSet(C) /\ n \in Nat
      /\ \A i \in C : place[i] \in 1..n
      /\ \A i, j \in C : i # j => place[i] # place[j]
  <2>1. \A i \in C : /\ place[i] = Cardinality(Earlier(t, i)) + 1
                     /\ Cardinality(Earlier(t, i)) \in 0..(n - 1)
    BY PlacesApart
  <2>2. IsFiniteSet(C) /\ n \in Nat
    BY PlacesApart
  <2>3. \A i, j \in C : i # j => Cardinality(Earlier(t, i)) # Cardinality(Earlier(t, j))
    BY PlacesApart
  <2> HIDE DEF place, C, n
  <2> QED BY <2>1, <2>2, <2>3
<1>2. \A k \in 1..n : \E i \in C : place[i] = k
  <2>1. place \in Injection(C, 1..n)
    <3>1. place \in [C -> 1..n]
      BY <1>1
    <3> HIDE DEF place, n
    <3>2. IsInjective(place)
      BY <1>1, <3>1 DEF IsInjective
    <3> QED BY <3>1, <3>2 DEF Injection
  <2>2. IsFiniteSet(1..n) /\ Cardinality(1..n) = n
    BY <1>1, FS_Interval
  <2> HIDE DEF place, n
  <2>3. Cardinality(C) = Cardinality(1..n)
    BY <2>2 DEF n
  <2>4. place \in Surjection(C, 1..n)
    BY <2>1, <2>2, <2>3, FS_Injection
  <2> QED BY <2>4 DEF Surjection
<1>3. ASSUME NEW k \in 1..n
      PROVE  ReplayedRows(t)[k] \in C /\ place[ReplayedRows(t)[k]] = k
  <2>1. PICK i \in C : Cardinality(Earlier(t, i)) = k - 1
    <3>1. PICK i \in C : place[i] = k
      BY <1>2
    <3>2. Cardinality(Earlier(t, i)) + 1 = k /\ Cardinality(Earlier(t, i)) \in 0..(n - 1)
      BY <3>1, PlacesApart
    <3>3. Cardinality(Earlier(t, i)) = k - 1
      BY <1>1, <3>2
    <3> QED BY <3>3
  <2>2. ReplayedRows(t)[k] = CHOOSE j \in C : Cardinality(Earlier(t, j)) = k - 1
    BY DEF ReplayedRows
  <2>3. ReplayedRows(t)[k] \in C /\ Cardinality(Earlier(t, ReplayedRows(t)[k])) = k - 1
    BY <2>1, <2>2
  <2> QED BY <2>3
<1>4. DOMAIN ReplayedRows(t) = 1..n
  BY DEF ReplayedRows
<1> HIDE DEF place
<1> QED BY <1>3, <1>4

(* A call has one row, in this session or a later one: calls are numbered  *)
(* as they come, and a row is written once, while its call is served.      *)
OneRowPerCall ==
    \A i, j \in InvocationRows : file[i].call = file[j].call => i = j

(* No step writes the row of a call that has one.                          *)
LEMMA NextOneRow ==
    ASSUME TypeOK, CallsInOrder, OneRowPerCall, [Next]_vars
    PROVE  OneRowPerCall'
<1>1. \A i \in InvocationRows' :
         \/ i \in InvocationRows /\ file'[i] = file[i]
         \/ pc = "record" /\ file'[i].call = current.id /\ i = Len(file) + 1
  <2>1. CallRow.call = current.id
    BY DEF CallRow
  <2> QED BY <2>1, StepRows
<1>2. pc = "record" => \A i \in InvocationRows : file[i].call # current.id
  BY DEF CallsInOrder, Serving, Busy, TypeOK, WorldTypes
<1> QED BY <1>1, <1>2 DEF OneRowPerCall

(* For any number of sessions and kills, a call has at most one row.       *)
THEOREM OneRowPerCallAlways == Spec => []OneRowPerCall
<1>1. Init => OneRowPerCall
  BY DEF Init, OneRowPerCall, InvocationRows, Readable
<1>2. TypeOK /\ TruthInv /\ OneRowPerCall /\ [Next]_vars => OneRowPerCall'
  BY NextOneRow DEF TruthInv
<1> QED BY <1>1, <1>2, TypeCorrect, TruthCorrect, PTL DEF Spec

(* The trajectory of a tool: one invocation per row, in order, each with   *)
(* the tool's own arguments.                                               *)
LEMMA ReplayedAt ==
    ASSUME TypeOK, NEW t
    PROVE  /\ DOMAIN Replayed(t) = 1..Cardinality(CallRows(t))
           /\ \A k \in DOMAIN Replayed(t) :
                 /\ ReplayedRows(t)[k] \in CallRows(t)
                 /\ Replayed(t)[k] = [ok       |-> RowOk(file[ReplayedRows(t)[k]]),
                                      executed |-> file[ReplayedRows(t)[k]].executed,
                                      args     |-> t]
<1>1. /\ DOMAIN ReplayedRows(t) = 1..Cardinality(CallRows(t))
      /\ \A k \in DOMAIN ReplayedRows(t) : ReplayedRows(t)[k] \in CallRows(t)
  BY ReplayIsOrder
<1>2. \A i \in CallRows(t) : file[i].tool = t
  BY DEF CallRows
<1> QED BY <1>1, <1>2 DEF Replayed, InvocationOf

(* What is acknowledged again is all that is acknowledged but the first.   *)
LEMMA AgainIsNotFirst ==
    ASSUME NEW n \in Nat, NEW s, DOMAIN s = 1..n, Duplicates(s) > 0
    PROVE  /\ IsFiniteSet(Acknowledged(s))
           /\ Duplicates(s) + 1 <= Cardinality(Acknowledged(s))
<1> DEFINE A == Acknowledged(s)
           D == {j \in A : \E i \in A : i < j /\ s[i].args = s[j].args}
<1>1. A \subseteq 1..n /\ D \subseteq A /\ IsFiniteSet(A) /\ IsFiniteSet(D)
  <2>1. A \subseteq 1..n /\ D \subseteq A
    BY DEF Acknowledged
  <2>2. IsFiniteSet(1..n)
    BY FS_Interval
  <2> QED BY <2>1, <2>2, FS_Subset
<1>2. Duplicates(s) = Cardinality(D)
  BY DEF Duplicates
<1>3. A # {}
  BY <1>1, <1>2, FS_EmptySet
<1>4. PICK m \in A : \A k \in A : m <= k
  <2>1. A \in SUBSET Nat
    BY <1>1
  <2> HIDE DEF A
  <2> QED BY <1>3, <2>1, LeastExists
<1>5. m \notin D
  BY <1>1, <1>4
<1>6. Cardinality(D) \in Nat /\ Cardinality(A \ {m}) \in Nat /\ Cardinality(A) \in Nat
  <2> HIDE DEF A, D
  <2> QED BY <1>1, FS_Subset, FS_CardinalityType
<1>7. Cardinality(D) <= Cardinality(A \ {m}) /\ Cardinality(A \ {m}) = Cardinality(A) - 1
  <2> HIDE DEF A, D
  <2>1. D \subseteq A \ {m} /\ IsFiniteSet(A \ {m})
    BY <1>1, <1>5, FS_Subset
  <2> QED BY <1>1, <1>4, <2>1, FS_Subset, FS_RemoveElement
<1> QED BY <1>1, <1>2, <1>6, <1>7

(* Finitely many calls were run.                                           *)
LEMMA RanFinite ==
    ASSUME TypeOK, NEW S
    PROVE  IsFiniteSet(S \cap ran)
<1>1. calls \in Nat /\ S \cap ran \subseteq 1..calls
  BY DEF TypeOK, WorldTypes
<1>2. IsFiniteSet(1..calls)
  BY <1>1, FS_Interval
<1> QED BY <1>1, <1>2, FS_Subset

(* Distinct acknowledged places of a trajectory are distinct calls the     *)
(* upstream ran.                                                           *)
LEMMA AcknowledgedRan ==
    ASSUME TypeOK, ExecutedIsAFact, OneRowPerCall, NEW t
    PROVE  Cardinality(Acknowledged(Replayed(t))) <= Cardinality(CallsOf(t) \cap ran)
<1> DEFINE A == Acknowledged(Replayed(t))
           T == CallsOf(t) \cap ran
           call == [k \in A |-> file[ReplayedRows(t)[k]].call]
<1>1. A \subseteq DOMAIN Replayed(t)
  BY DEF Acknowledged
<1>2. ASSUME NEW k \in A
      PROVE  /\ ReplayedRows(t)[k] \in CallRows(t)
             /\ ReplayedRows(t)[k] \in InvocationRows
             /\ file[ReplayedRows(t)[k]].executed = "yes"
  <2>1. Replayed(t)[k].executed = "yes"
    BY DEF Acknowledged
  <2> QED BY <1>1, <2>1, ReplayedAt, RowsInSequence
<1>3. \A k \in A : call[k] \in T
  BY <1>2 DEF ExecutedIsAFact, CallsOf
<1>4. \A k, m \in A : call[k] = call[m] => k = m
  <2>1. ASSUME NEW k \in A, NEW m \in A, call[k] = call[m] PROVE k = m
    <3>1. ReplayedRows(t)[k] = ReplayedRows(t)[m]
      BY <1>2, <2>1 DEF OneRowPerCall
    <3>2. k \in DOMAIN ReplayedRows(t) /\ m \in DOMAIN ReplayedRows(t)
      BY <1>1, ReplayedAt, ReplayIsOrder
    <3> QED BY <3>1, <3>2, ReplayIsOrder
  <2> QED BY <2>1
<1>5. IsFiniteSet(T)
  BY RanFinite
<1>6. call \in Injection(A, T)
  <2>1. call \in [A -> T]
    BY <1>3
  <2> HIDE DEF A, T, call
  <2>2. IsInjective(call)
    BY <1>4, <2>1 DEF IsInjective
  <2> QED BY <2>1, <2>2 DEF Injection
<1> HIDE DEF A, T, call
<1>7. Cardinality(A) <= Cardinality(T)
  BY <1>5, <1>6, FS_Injection
<1> QED BY <1>7 DEF A, T

(* A duplicate delivery in the report is work the upstream did again: k of *)
(* them stand for more than k calls it acted on, across any reconnects and *)
(* wherever a proxy was killed (proxy.replay, Trajectory).                 *)
THEOREM DuplicatesWereRunAlways == Spec => []DuplicatesWereRun
<1>1. TypeOK /\ ExecutedIsAFact /\ OneRowPerCall => DuplicatesWereRun
  <2> SUFFICES ASSUME TypeOK, ExecutedIsAFact, OneRowPerCall, NEW t \in Tools,
                      Duplicates(Replayed(t)) > 0
               PROVE  Cardinality(CallsOf(t) \cap ran) > Duplicates(Replayed(t))
    BY DEF DuplicatesWereRun
  <2>1. /\ DOMAIN Replayed(t) = 1..Cardinality(CallRows(t))
        /\ Cardinality(CallRows(t)) \in Nat
    BY ReplayedAt, FiniteRows
  <2>2. /\ IsFiniteSet(Acknowledged(Replayed(t)))
        /\ Duplicates(Replayed(t)) + 1 <= Cardinality(Acknowledged(Replayed(t)))
    BY <2>1, AgainIsNotFirst
  <2>3. Cardinality(Acknowledged(Replayed(t))) <= Cardinality(CallsOf(t) \cap ran)
    BY AcknowledgedRan
  <2>4. /\ Duplicates(Replayed(t)) \in Nat
        /\ Cardinality(Acknowledged(Replayed(t))) \in Nat
        /\ Cardinality(CallsOf(t) \cap ran) \in Nat
    <3>1. /\ Cardinality(Acknowledged(Replayed(t))) \in Nat
          /\ Cardinality(CallsOf(t) \cap ran) \in Nat
      BY <2>2, RanFinite, FS_CardinalityType
    <3>2. Duplicates(Replayed(t)) \in Nat
      <4> DEFINE A == Acknowledged(Replayed(t))
                 D == {j \in A : \E i \in A :
                          i < j /\ Replayed(t)[i].args = Replayed(t)[j].args}
      <4>1. IsFiniteSet(D)
        <5>1. D \subseteq A
          OBVIOUS
        <5> QED BY <2>2, <5>1, FS_Subset
      <4> QED BY <4>1, FS_CardinalityType DEF Duplicates
    <3> QED BY <3>1, <3>2
  <2> QED BY <2>2, <2>3, <2>4
<1> QED BY <1>1, TypeCorrect, ExecutedFact, OneRowPerCallAlways, PTL

(* A row whose reply is neither dropped nor held has that reply on the     *)
(* wire, or is about to.                                                   *)
Written(i) ==
    \/ \E k \in DOMAIN wire : wire[k] = [call |-> file[i].call, reply |-> file[i].payload]
    \/ /\ pc = "reply" /\ current.id = file[i].call
       /\ CurrentPayload = file[i].payload /\ ~CurrentHeld

(* The rows that say more than the agent was told.                         *)
Unanswered ==
    {i \in InvocationRows :
        ~file[i].held /\ file[i].payload # "silence" /\ ~Written(i)}

RepliesFollow == Cardinality(Unanswered) <= kills

(* What is on the wire stays there.                                        *)
LEMMA WireStays ==
    ASSUME TypeOK, [Next]_vars
    PROVE  \A k \in DOMAIN wire : k \in DOMAIN wire' /\ wire'[k] = wire[k]
<1>1. wire \in Seq(WrittenReply)
  BY DEF TypeOK, WorldTypes
<1>2. ASSUME NEW reply, wire' = Append(wire, reply)
      PROVE  \A k \in DOMAIN wire : k \in DOMAIN wire' /\ wire'[k] = wire[k]
  BY <1>1, <1>2
<1>3. wire' = wire \/ \E reply : wire' = Append(wire, reply)
  BY DEF Next, vars, observed, Connect, Note, List, Call, UpstreamReturns, Record, Reply,
      DropReply, HoldReply, WriteReply, Release, UpstreamRuns, Exit, Kill, KillInsideWrite,
      Die
<1> QED BY <1>2, <1>3

(* The reply of a row that was written goes out in the next step of _call: *)
(* only a kill takes it, and there is one at a time to take.               *)
LEMMA StepFollow ==
    ASSUME TypeOK, [Next]_vars, NEW i \in Unanswered', i \notin Unanswered
    PROVE  \/ Kill /\ i \in InvocationRows /\ file[i].call = current.id
           \/ KillInsideWrite /\ i = Len(file) + 1
<1>1. /\ i \in InvocationRows' /\ ~file'[i].held /\ file'[i].payload # "silence"
      /\ ~Written(i)'
  BY DEF Unanswered
<1>2. \A k \in DOMAIN wire : k \in DOMAIN wire' /\ wire'[k] = wire[k]
  BY WireStays
<1>3. CASE i \in InvocationRows /\ file'[i] = file[i]
  <2>1. Written(i)
    BY <1>1, <1>3 DEF Unanswered
  <2>2. ~\E k \in DOMAIN wire :
            wire[k] = [call |-> file[i].call, reply |-> file[i].payload]
    BY <1>1, <1>2, <1>3 DEF Written
  <2>3. /\ pc = "reply" /\ current.id = file[i].call
        /\ CurrentPayload = file[i].payload /\ ~CurrentHeld
    BY <2>1, <2>2 DEF Written
  <2>4. ~Reply
    <3> SUFFICES ASSUME Reply PROVE FALSE
      OBVIOUS
    <3>1. wire' = Append(wire, [call |-> current.id, reply |-> CurrentPayload])
      BY <1>1, <1>3, <2>3 DEF Reply, DropReply, HoldReply, WriteReply
    <3>2. wire \in Seq(WrittenReply)
      BY DEF TypeOK, WorldTypes
    <3>3. /\ Len(wire) + 1 \in DOMAIN wire'
          /\ wire'[Len(wire) + 1] = [call |-> current.id, reply |-> CurrentPayload]
      BY <3>1, <3>2
    <3> QED BY <1>1, <1>3, <2>3, <3>3 DEF Written
  <2>5. ASSUME ~Kill PROVE FALSE
    <3>1. pc' = pc /\ current' = current /\ armed' = armed
      BY <2>3, <2>4, <2>5
      DEF Next, vars, volatile, Connect, Note, List, Call, UpstreamReturns, Record,
          Release, UpstreamRuns, Exit, KillInsideWrite
    <3>2. CurrentPayload' = CurrentPayload /\ (CurrentHeld' <=> CurrentHeld)
      BY <3>1 DEF CurrentPayload, CurrentHeld, CurrentResponse
    <3> QED BY <1>1, <1>3, <2>3, <3>1, <3>2 DEF Written
  <2> QED BY <1>3, <2>3, <2>5
<1>4. CASE Record /\ file'[i] = CallRow
  <2>1. pc' = "reply" /\ current' = current /\ armed' = armed
    BY <1>4 DEF Record
  <2>2. CurrentPayload' = CurrentPayload /\ (CurrentHeld' <=> CurrentHeld)
    BY <2>1 DEF CurrentPayload, CurrentHeld, CurrentResponse
  <2>3. /\ file'[i].call = current.id /\ file'[i].payload = CurrentPayload
        /\ file'[i].held = CurrentHeld
    BY <1>4 DEF CallRow
  <2> QED BY <1>1, <2>1, <2>2, <2>3 DEF Written
<1> QED BY <1>1, <1>3, <1>4, StepRows

(* So a kill adds one unanswered row at most, and nothing else adds any.   *)
LEMMA NextFollow ==
    ASSUME TypeOK, OneRowPerCall, RepliesFollow, [Next]_vars
    PROVE  RepliesFollow'
<1>1. IsFiniteSet(Unanswered) /\ Cardinality(Unanswered) \in Nat /\ kills \in Nat
  BY FiniteRows DEF Unanswered, TypeOK, WorldTypes
<1>2. CASE Kill \/ KillInsideWrite
  <2>1. kills' = kills + 1
    BY <1>2 DEF Kill, KillInsideWrite, Die
  <2>2. \A i, j \in Unanswered' \ Unanswered : i = j
    <3>1. CASE Kill
      <4>1. \A i \in Unanswered' \ Unanswered :
               \/ i \in InvocationRows /\ file[i].call = current.id
               \/ i = Len(file) + 1
        BY StepFollow
      <4>2. file' = file /\ Unanswered' \subseteq InvocationRows
        BY <3>1 DEF Kill, Unanswered, InvocationRows, Readable
      <4>3. Len(file) + 1 \notin InvocationRows
        BY DEF InvocationRows, Readable, TypeOK, RecordTypes
      <4> QED BY <4>1, <4>2, <4>3 DEF OneRowPerCall
    <3>2. CASE ~Kill
      BY <3>2, StepFollow
    <3> QED BY <3>1, <3>2
  <2>3. \E a : Unanswered' \subseteq Unanswered \cup {a}
    <3>1. CASE Unanswered' \subseteq Unanswered
      BY <3>1
    <3>2. CASE ~(Unanswered' \subseteq Unanswered)
      <4>1. PICK a : a \in Unanswered' \ Unanswered
        BY <3>2
      <4> QED BY <2>2, <4>1
    <3> QED BY <3>1, <3>2
  <2>4. Cardinality(Unanswered') \in Nat /\ Cardinality(Unanswered') <= Cardinality(Unanswered) + 1
    BY <1>1, <2>3, FewMore
  <2> QED BY <1>1, <2>1, <2>4 DEF RepliesFollow
<1>3. CASE ~Kill /\ ~KillInsideWrite
  <2>1. Unanswered' \subseteq Unanswered
    BY <1>3, StepFollow
  <2>2. Cardinality(Unanswered') \in Nat /\ Cardinality(Unanswered') <= Cardinality(Unanswered)
    BY <1>1, <2>1, FewMore
  <2>3. kills' = kills
    BY <1>3
    DEF Next, vars, observed, Connect, Note, List, Call, UpstreamReturns, Record, Reply,
        Release, UpstreamRuns, Exit
  <2> QED BY <1>1, <2>2, <2>3 DEF RepliesFollow
<1> QED BY <1>2, <1>3

(* A recovery nobody saw has a row of its tool that says more than the     *)
(* agent was told.                                                         *)
LEMMA UnseenHasRow ==
    ASSUME TypeOK, pc # "reply", NEW t \in UnseenRecoveries
    PROVE  \E i \in Unanswered : file[i].tool = t
<1>0. /\ t \in Tools /\ Recovered(Replayed(t)) /\ ResultsSeen(t) = {}
      /\ \A i \in CallRows(t) : ~file[i].held
  BY DEF UnseenRecoveries
<1>1. PICK k \in DOMAIN Replayed(t) : Replayed(t)[k].ok
  BY <1>0 DEF Recovered
<1>2. PICK i \in CallRows(t) : RowOk(file[i])
  BY <1>0, <1>1, ReplayedAt
<1>3. i \in InvocationRows /\ file[i].payload = "result" /\ file[i].tool = t
  BY <1>0, <1>2, RowsInSequence DEF RowOk, CallRows
<1>4. ~Written(i)
  BY <1>0, <1>2, <1>3 DEF Written, ResultsSeen, CallsOf
<1> QED BY <1>0, <1>2, <1>3, <1>4 DEF Unanswered

(* A recovery in the report is one the agent saw, save one for each kill:  *)
(* for every other tool none of whose replies was held, a result was       *)
(* written to the agent (proxy.ProxyServer._call, Trajectory.recovered).   *)
THEOREM RecoveryWasSeenAlways == Spec => []RecoveryWasSeen
<1>1. Init => RepliesFollow
  <2> SUFFICES ASSUME Init PROVE RepliesFollow
    OBVIOUS
  <2>1. Unanswered = {} /\ kills = 0
    BY DEF Init, Unanswered, InvocationRows, Readable
  <2> QED BY <2>1, FS_EmptySet DEF RepliesFollow
<1>2. TypeOK /\ OneRowPerCall /\ RepliesFollow /\ [Next]_vars => RepliesFollow'
  BY NextFollow
<1>3. TypeOK /\ RepliesFollow => RecoveryWasSeen
  <2> SUFFICES ASSUME TypeOK, RepliesFollow, pc # "reply"
               PROVE  Cardinality(UnseenRecoveries) <= kills
    BY DEF RecoveryWasSeen
  <2> DEFINE U == UnseenRecoveries
             f == [t \in U |-> CHOOSE i \in Unanswered : file[i].tool = t]
  <2>1. \A t \in U : f[t] \in Unanswered /\ file[f[t]].tool = t
    BY UnseenHasRow
  <2>2. f \in Injection(U, Unanswered)
    <3> HIDE DEF U
    <3>1. f \in [U -> Unanswered]
      BY <2>1
    <3> HIDE DEF f
    <3> QED BY <2>1, <3>1 DEF Injection, IsInjective
  <2>3. IsFiniteSet(Unanswered) /\ Cardinality(Unanswered) \in Nat
    BY FiniteRows DEF Unanswered
  <2> HIDE DEF f
  <2>4. IsFiniteSet(U) /\ Cardinality(U) <= Cardinality(Unanswered)
    BY <2>2, <2>3, FS_Injection
  <2>5. Cardinality(U) \in Nat /\ kills \in Nat
    BY <2>4, FS_CardinalityType DEF TypeOK, WorldTypes
  <2> QED BY <2>3, <2>4, <2>5 DEF RepliesFollow
<1> QED BY <1>1, <1>2, <1>3, TypeCorrect, OneRowPerCallAlways, PTL DEF Spec
=============================================================================
