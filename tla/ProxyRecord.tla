----------------------------- MODULE ProxyRecord -----------------------------
(***************************************************************************)
(* One task's record file and the `ratemyagent proxy` processes that write *)
(* it, one after the other: the agent launches a proxy, the proxy serves   *)
(* its calls and appends a row per call, and when the session ends -- the  *)
(* agent closed it, a closing fault ended it, the process was killed --    *)
(* the agent may reconnect, which starts a new proxy on the same file.     *)
(*                                                                         *)
(* What survives a session is the file and nothing else, so the position   *)
(* in the forced fault schedule, the row numbering, whether the listing    *)
(* was recorded and whether the task had its held reply are all read back  *)
(* from it (proxy.RecordWriter.__init__, ProxyServer.__init__).            *)
(*                                                                         *)
(* A session handles one message at a time (ProxyServer), so inside it the *)
(* only interleaving is with a kill, which may land between any two steps. *)
(***************************************************************************)
EXTENDS FaultKinds, Naturals, Sequences, FiniteSets

CONSTANTS
    Tools,        \* the upstream's tools the agent calls
    Schedules,    \* the forced schedules: functions from Position to a fault
    MaxDepth,     \* ordinals the schedules cover; past it there is no fault
    MaxSessions,  \* bound: proxy processes started on this record
    MaxCalls,     \* bound: tools/call messages the agent sends
    MaxNotes,     \* bound: notifications the agent sends
    HoldFirst,    \* TRUE when the schedule file carries hold_s
    Tears         \* TRUE when a kill may cut a row short inside the file

Position == Tools \X (1..MaxDepth)

ASSUME ProxyRecordAssumption ==
    /\ IsFiniteSet(Tools)
    /\ MaxDepth \in Nat
    /\ MaxSessions \in Nat
    /\ MaxCalls \in Nat
    /\ MaxNotes \in Nat
    /\ HoldFirst \in BOOLEAN
    /\ Tears \in BOOLEAN
    /\ Schedules \subseteq [Position -> FaultKind \cup {NoFault}]

VARIABLES
    schedule,     \* the table this pass runs under
    file,         \* the lines of the record file
    unterminated, \* TRUE when the last line has no newline yet
    session,      \* number of the running, or the last, proxy process
    pc,           \* where that process is
    rows,         \* RecordWriter._rows
    ordinals,     \* FaultProxy._ordinals
    listed,       \* RecordWriter._listed
    armed,        \* ProxyServer.hold_s is not None
    closing,      \* ProxyServer.close_after is not None
    pending,      \* ProxyServer.pending: calls whose reply is held
    current,      \* the call being handled
    calls,        \* how many tools/call messages have been accepted
    notes,        \* how many notifications have been accepted
    reached,      \* calls that were forwarded to the upstream
    ran,          \* calls the upstream has acted on
    wire,         \* the replies written to the agent, in order
    kills         \* how many proxy processes were killed

durable  == <<schedule, file, unterminated>>
volatile == <<pc, rows, ordinals, listed, armed, closing, pending, current>>
observed == <<session, calls, notes, reached, ran, wire, kills>>
vars == <<durable, volatile, observed>>

-----------------------------------------------------------------------------
(* The record file. *)

Junk == [kind |-> "junk"]

(* Lines read_record returns; a line that is not one JSON object is skipped. *)
Readable == {i \in DOMAIN file : file[i].kind # "junk"}

(* invocation_rows, of one tool. *)
CallRows(t) ==
    {i \in Readable : file[i].kind = "invocation" /\ file[i].tool = t}

InvocationRows == {i \in Readable : file[i].kind = "invocation"}

(* RecordWriter._append: the row and its newline, after whatever is there. *)
Append1(row) ==
    /\ file' = IF unterminated
               THEN [file EXCEPT ![Len(file)] = Junk]
               ELSE Append(file, row)
    /\ unterminated' = FALSE

(* mutant: the file is written anew for each row *)
AppendCut_WrittenAnew(row) == file' = <<Junk>> /\ unterminated' = TRUE

(***************************************************************************)
(* A kill inside that write: the text stops in the middle of the row, or   *)
(* the whole row is there and only its newline is missing.                 *)
(***************************************************************************)
AppendCut(row) ==
    /\ \E whole \in BOOLEAN :
         file' = IF unterminated
                 THEN [file EXCEPT ![Len(file)] = Junk]
                 ELSE Append(file, IF whole THEN row ELSE Junk)
    /\ unterminated' = TRUE

-----------------------------------------------------------------------------
(* Sessions. *)

FaultAt(t, n) == IF n \in 1..MaxDepth THEN schedule[<<t, n>>] ELSE NoFault

NoCall == [id |-> 0]

Init ==
    /\ schedule \in Schedules
    /\ file = << >>
    /\ unterminated = FALSE
    /\ session = 0
    /\ pc = "down"
    /\ rows = 0
    /\ ordinals = [t \in Tools |-> 0]
    /\ listed = FALSE
    /\ armed = FALSE
    /\ closing = FALSE
    /\ pending = {}
    /\ current = NoCall
    /\ calls = 0
    /\ notes = 0
    /\ reached = {}
    /\ ran = {}
    /\ wire = << >>
    /\ kills = 0

(* Where the schedule had got to: RecordWriter.ordinals, of the rows read. *)
RestoredOrdinals_Fresh == [t \in Tools |-> 0]                \* mutant
RestoredOrdinals == [t \in Tools |-> Cardinality(CallRows(t))]

(* Whether this session holds its first reply (ProxyServer.hold_s). *)
RestoredHold_EverySession == HoldFirst                       \* mutant
RestoredHold == HoldFirst /\ InvocationRows = {}

(***************************************************************************)
(* The agent launches a proxy.  The writer reads the file once, and the    *)
(* schedule position, the row count, the listing flag and the hold come    *)
(* from what it could read.                                                *)
(***************************************************************************)
Connect ==
    /\ pc = "down"
    /\ session < MaxSessions
    /\ session' = session + 1
    /\ pc' = "idle"
    /\ rows' = Cardinality(Readable)
    /\ ordinals' = RestoredOrdinals
    /\ listed' = (\E i \in Readable : file[i].kind = "tools_list")
    /\ armed' = RestoredHold
    /\ closing' = FALSE
    /\ pending' = {}
    /\ current' = NoCall
    /\ UNCHANGED <<durable, calls, notes, reached, ran, wire, kills>>

(* RecordWriter.note: a notification from the agent. *)
NoteRow == [kind |-> "notification", seq |-> rows]

Note ==
    /\ pc = "idle"
    /\ notes < MaxNotes
    /\ notes' = notes + 1
    /\ Append1(NoteRow)
    /\ rows' = rows + 1
    /\ UNCHANGED <<schedule, pc, ordinals, listed, armed, closing, pending,
                   current, session, calls, reached, ran, wire, kills>>

(* RecordWriter.listed: the first tools/list of a record is kept. *)
ListRow == [kind |-> "tools_list", seq |-> rows]

List ==
    /\ pc = "idle"
    /\ ~listed
    /\ Append1(ListRow)
    /\ rows' = rows + 1
    /\ listed' = TRUE
    /\ UNCHANGED <<schedule, pc, ordinals, armed, closing, pending, current,
                   observed>>

(* The position FaultProxy.invoke advances to and consults the table at. *)
NextOrdinal_Behind(t) == ordinals[t]                         \* mutant
NextOrdinal(t) == ordinals[t] + 1

(***************************************************************************)
(* A tools/call: FaultProxy.invoke advances the position and consults the  *)
(* schedule there.  A rejecting fault never reaches the upstream.          *)
(***************************************************************************)
Call(t) ==
    LET n     == NextOrdinal(t)
        fault == FaultAt(t, n)
        id    == calls + 1
    IN  /\ pc = "idle"
        /\ calls < MaxCalls
        /\ calls' = id
        /\ ordinals' = [ordinals EXCEPT ![t] = n]
        /\ current' = [id |-> id, tool |-> t, ordinal |-> n, fault |-> fault,
                       inner |-> "ok"]
        /\ pc' = IF Forwards(fault) THEN "upstream" ELSE "record"
        /\ reached' = IF Forwards(fault) THEN reached \cup {id} ELSE reached
        /\ UNCHANGED <<durable, rows, listed, armed, closing, pending, session,
                       notes, ran, wire, kills>>

(***************************************************************************)
(* The upstream acts on a call it was sent: while the proxy waits, after    *)
(* the proxy gave up waiting, or after the proxy is gone.                  *)
(***************************************************************************)
UpstreamRuns(id) ==
    /\ id \in reached \ ran
    /\ ran' = ran \cup {id}
    /\ UNCHANGED <<durable, volatile, session, calls, notes, reached, wire, kills>>

(***************************************************************************)
(* The wrapped target's invoke() returns.  A success is an acknowledgement, *)
(* so the upstream acted; a failure says nothing either way.               *)
(***************************************************************************)
UpstreamReturns(inner) ==
    /\ pc = "upstream"
    /\ inner = "ok" => current.id \in ran
    /\ current' = [current EXCEPT !.inner = inner]
    /\ pc' = "record"
    /\ UNCHANGED <<durable, rows, ordinals, listed, armed, closing, pending,
                   observed>>

CurrentResponse == ResponseTo(current.fault, current.inner)
CurrentPayload  == OnWire(CurrentResponse)

(* The first reply that has something in it is the one that is held. *)
CurrentHeld == armed /\ CurrentPayload # "silence"

CallRow ==
    [kind     |-> "invocation",
     seq      |-> rows,
     call     |-> current.id,
     tool     |-> current.tool,
     ordinal  |-> current.ordinal,
     fault    |-> current.fault,
     realized |-> RealizedFault(current.fault, current.inner),
     executed |-> Executed(current.fault, current.inner),
     payload  |-> CurrentPayload,
     held     |-> CurrentHeld]

(* mutant: a dropped reply leaves no row *)
Record_AnsweredOnly ==
    /\ pc = "record"
    /\ IF CurrentPayload = "silence"
       THEN UNCHANGED <<file, unterminated, rows>>
       ELSE Append1(CallRow) /\ rows' = rows + 1
    /\ pc' = "reply"
    /\ UNCHANGED <<schedule, ordinals, listed, armed, closing, pending, current,
                   observed>>

(* RecordWriter.write: the row goes down before the reply goes out. *)
Record ==
    /\ pc = "record"
    /\ Append1(CallRow)
    /\ rows' = rows + 1
    /\ pc' = "reply"
    /\ UNCHANGED <<schedule, ordinals, listed, armed, closing, pending, current,
                   observed>>

(***************************************************************************)
(* The end of ProxyServer._call: nothing is written for a silent outcome,  *)
(* and the closing fault arms the close; a held reply waits; any other     *)
(* reply is written.                                                       *)
(***************************************************************************)
DropReply ==
    /\ CurrentPayload = "silence"
    /\ closing' = (closing \/ CurrentResponse.closes)
    /\ UNCHANGED <<armed, pending, wire>>

HoldReply ==
    /\ CurrentHeld
    /\ armed' = FALSE
    /\ pending' = pending \cup {[call |-> current.id, reply |-> CurrentPayload]}
    /\ UNCHANGED <<closing, wire>>

(* mutant: a session that is to close answers nobody *)
WriteReply_UnlessClosing ==
    /\ CurrentPayload # "silence"
    /\ ~CurrentHeld
    /\ wire' = IF closing THEN wire
               ELSE Append(wire, [call |-> current.id, reply |-> CurrentPayload])
    /\ UNCHANGED <<armed, closing, pending>>

WriteReply ==
    /\ CurrentPayload # "silence"
    /\ ~CurrentHeld
    /\ wire' = Append(wire, [call |-> current.id, reply |-> CurrentPayload])
    /\ UNCHANGED <<armed, closing, pending>>

(* mutant: the served call stays current *)
Reply_Uncleared ==
    /\ pc = "reply"
    /\ DropReply \/ HoldReply \/ WriteReply
    /\ pc' = "idle"
    /\ UNCHANGED <<durable, rows, ordinals, listed, current, session, calls,
                   notes, reached, ran, kills>>

Reply ==
    /\ pc = "reply"
    /\ DropReply \/ HoldReply \/ WriteReply
    /\ pc' = "idle"
    /\ current' = NoCall
    /\ UNCHANGED <<durable, rows, ordinals, listed, session, calls, notes,
                   reached, ran, kills>>

(* serve.release_due: a held reply goes out when its time has come. *)
Release(reply) ==
    /\ pc = "idle"
    /\ reply \in pending
    /\ pending' = pending \ {reply}
    /\ wire' = Append(wire, reply)
    /\ UNCHANGED <<durable, pc, rows, ordinals, listed, armed, closing, current,
                   session, calls, notes, reached, ran, kills>>

(***************************************************************************)
(* serve returns: end of input, or the deadline a closing fault set.  Both *)
(* are read between messages; what was held is never written.              *)
(***************************************************************************)
Exit ==
    /\ pc = "idle"
    /\ pc' = "down"
    /\ pending' = {}
    /\ UNCHANGED <<durable, rows, ordinals, listed, armed, closing, current,
                   observed>>

(* The process is killed: between two steps, or inside a write. *)
Die ==
    /\ pc # "down"
    /\ pc' = "down"
    /\ kills' = kills + 1
    /\ pending' = {}
    /\ UNCHANGED <<schedule, rows, ordinals, listed, armed, closing, current,
                   session, calls, notes, reached, ran, wire>>

(* mutant: rows are buffered, and the last one dies with the process *)
Kill_Unflushed ==
    /\ Die
    /\ file' = SubSeq(file, 1, Len(file) - 1)
    /\ UNCHANGED unterminated

Kill == Die /\ UNCHANGED <<file, unterminated>>

KillInsideWrite ==
    /\ Tears
    /\ \/ pc = "record" /\ AppendCut(CallRow)
       \/ pc = "idle" /\ notes < MaxNotes /\ AppendCut(NoteRow)
       \/ pc = "idle" /\ ~listed /\ AppendCut(ListRow)
    /\ Die

Next ==
    \/ Connect
    \/ Note
    \/ List
    \/ \E t \in Tools : Call(t)
    \/ \E inner \in InnerReply : UpstreamReturns(inner)
    \/ Record
    \/ Reply
    \/ \E reply \in pending : Release(reply)
    \/ \E id \in reached : UpstreamRuns(id)
    \/ Exit
    \/ Kill
    \/ KillInsideWrite

Spec == Init /\ [][Next]_vars

-----------------------------------------------------------------------------
(* Types. *)

DrawnFault == FaultKind \cup {NoFault}

ServedCall ==
    [id : Nat, tool : Tools, ordinal : Nat, fault : DrawnFault,
     inner : InnerReply]

InvocationRow ==
    [kind : {"invocation"}, seq : Nat, call : Nat, tool : Tools,
     ordinal : Nat, fault : DrawnFault, realized : DrawnFault,
     executed : {"yes", "no", "unknown"},
     payload : WireReply \cup {"silence"}, held : BOOLEAN]

ContextRow == [kind : {"notification", "tools_list"}, seq : Nat]

Line == InvocationRow \cup ContextRow \cup {Junk}

WrittenReply == [call : Nat, reply : WireReply]

RecordTypes ==
    /\ schedule \in [Position -> DrawnFault]
    /\ file \in Seq(Line)
    /\ unterminated \in BOOLEAN
    /\ unterminated => file # << >>

ProcessTypes ==
    /\ rows \in Nat
    /\ ordinals \in [Tools -> Nat]
    /\ listed \in BOOLEAN
    /\ armed \in BOOLEAN
    /\ closing \in BOOLEAN
    /\ pending \subseteq WrittenReply

ControlTypes ==
    /\ pc \in {"down", "idle", "upstream", "record", "reply"}
    /\ current \in ServedCall \cup {NoCall}
    /\ pc = "idle" => current = NoCall
    /\ pc \in {"upstream", "record", "reply"} => current \in ServedCall

WorldTypes ==
    /\ session \in Nat
    /\ calls \in Nat
    /\ notes \in Nat
    /\ reached \subseteq 1..calls
    /\ ran \subseteq reached
    /\ wire \in Seq(WrittenReply)
    /\ kills \in Nat

(***************************************************************************)
(* Every variable has its type, and a call is being served exactly between *)
(* the tools/call message and the end of ProxyServer._call.                *)
(***************************************************************************)
TypeOK == RecordTypes /\ ProcessTypes /\ ControlTypes /\ WorldTypes

-----------------------------------------------------------------------------
(* What the record promises its readers. *)

(***************************************************************************)
(* The ordinal probes.fault.realized_schedule gives the row at i: walk the *)
(* task's call rows in sequence order (a stable sort) and count per tool.  *)
(***************************************************************************)
RealizedOrdinal(i) ==
    Cardinality({j \in CallRows(file[i].tool) :
                    \/ file[j].seq < file[i].seq
                    \/ file[j].seq = file[i].seq /\ j <= i})

(***************************************************************************)
(* Why it is right when no kill cuts a row short: rows are where their     *)
(* sequence says, the counters of a running proxy are those of the file    *)
(* plus the call it is serving, and a row carries the position and fault   *)
(* of the call it stands for.                                              *)
(***************************************************************************)
Serving == pc \in {"upstream", "record"}

Whole == ~unterminated /\ \A i \in DOMAIN file : file[i].kind # "junk"

Numbered == \A i \in DOMAIN file : file[i].seq = i - 1

InStep ==
    pc # "down" =>
        /\ rows = Len(file)
        /\ \A t \in Tools :
              ordinals[t] = Cardinality(CallRows(t))
                            + (IF Serving /\ current.tool = t THEN 1 ELSE 0)

ServedInPlace ==
    Serving => /\ current.ordinal = ordinals[current.tool]
               /\ current.fault = FaultAt(current.tool, current.ordinal)

Counted ==
    \A i \in InvocationRows :
        /\ file[i].ordinal = Cardinality({j \in CallRows(file[i].tool) : j <= i})
        /\ file[i].fault = FaultAt(file[i].tool, file[i].ordinal)

PositionInv == Whole /\ Numbered /\ InStep /\ ServedInPlace /\ Counted

(***************************************************************************)
(* The realized schedule is the schedule: recounting the record gives every *)
(* row the ordinal its call was faulted at, and the table's entry there is *)
(* the fault it drew -- across every reconnect.  (realized_schedule: "the  *)
(* ordinal the schedule was consulted with, rather than guessing at it".)  *)
(***************************************************************************)
RealizedScheduleFaithful ==
    \A i \in InvocationRows :
        /\ RealizedOrdinal(i) = file[i].ordinal
        /\ file[i].fault = FaultAt(file[i].tool, file[i].ordinal)

(***************************************************************************)
(* The agent is never told something the record does not hold: a reply on  *)
(* the wire has its row, saying that reply, whatever killed the proxy      *)
(* afterwards.  (The row is written, and flushed, before the reply.)       *)
(***************************************************************************)
AnsweredIsRecorded ==
    \A k \in DOMAIN wire : \E i \in InvocationRows :
        file[i].call = wire[k].call /\ file[i].payload = wire[k].reply

(* Its induction: the call about to be answered has its row already.       *)
Replies == pending \cup {wire[k] : k \in DOMAIN wire}

RecordedFirst ==
    /\ pc = "reply" => \E i \in InvocationRows :
          file[i].call = current.id /\ file[i].payload = CurrentPayload
    /\ \A reply \in Replies : \E i \in InvocationRows :
          file[i].call = reply.call /\ file[i].payload = reply.reply

(***************************************************************************)
(* How much forwarded work the record can miss: the call in flight, and at *)
(* most one call for each kill.  When a kill can also cut a row short, the *)
(* next session's first row is lost to the same kill.                      *)
(***************************************************************************)
LossPerKill == IF Tears THEN 2 ELSE 1

UnrecordedWorkBounded ==
    LET recorded == {file[i].call : i \in InvocationRows}
        inFlight == IF pc \in {"upstream", "record"} THEN {current.id} ELSE {}
    IN  Cardinality(reached \ (recorded \cup inFlight)) <= LossPerKill * kills

(***************************************************************************)
(* Invocation.executed is a fact where it is not "unknown": "no" for a     *)
(* call the upstream never acts on, then or later; "yes" for one it did.   *)
(***************************************************************************)
ExecutedIsAFact ==
    \A i \in InvocationRows :
        /\ file[i].executed = "no"  => file[i].call \notin ran
        /\ file[i].executed = "yes" => file[i].call \in ran

(***************************************************************************)
(* A lost reply stays lost: a call whose row says its reply was dropped is *)
(* never answered, in its own session or after a reconnect, and is not     *)
(* waiting to be.  (response_to_wire: "not then, not later".)              *)
(***************************************************************************)
LostReplyNeverAnswered ==
    \A i \in InvocationRows : file[i].realized \in LostReplyFault =>
        \A reply \in Replies : reply.call # file[i].call

(***************************************************************************)
(* Why those two hold, torn rows or not: calls are numbered as they are    *)
(* accepted and at most one is being served, so a row, a reply waiting and *)
(* a reply written for one call were all made from the same response; and  *)
(* a row says of the upstream what is already settled when it is written.  *)
(***************************************************************************)
Busy == pc \in {"upstream", "record", "reply"}

CallsInOrder ==
    /\ Busy => current.id = calls /\ calls > 0
    /\ \A reply \in Replies : IF Busy THEN reply.call < calls ELSE reply.call <= calls
    /\ \A i \in InvocationRows :
          /\ file[i].call \in 1..calls
          /\ Serving => file[i].call < calls

OneResponse ==
    \A i \in InvocationRows :
        /\ pc = "reply" /\ file[i].call = current.id
              => file[i].payload = CurrentPayload
        /\ \A reply \in Replies :
              reply.call = file[i].call => reply.reply = file[i].payload
        /\ file[i].realized \in LostReplyFault => file[i].payload = "silence"

Settled ==
    /\ \A i \in InvocationRows :
          /\ file[i].executed = "no"  => file[i].call \notin reached
          /\ file[i].executed = "yes" => file[i].call \in ran
    /\ Serving /\ ~Forwards(current.fault) => current.id \notin reached
    /\ pc = "upstream" => Forwards(current.fault)
    /\ pc = "record" /\ Forwards(current.fault) /\ current.inner = "ok"
          => current.id \in ran

TruthInv == CallsInOrder /\ OneResponse /\ Settled

(***************************************************************************)
(* One held reply per task: an agent that reconnects, or whose proxy was   *)
(* killed during the hold, is not made to wait a second time.              *)
(* (ProxyServer.__init__: "a reconnecting agent's second session does not  *)
(* hold a second time".)                                                   *)
(***************************************************************************)
HeldOncePerRecord ==
    Cardinality({i \in InvocationRows : file[i].held}) <= 1

(***************************************************************************)
(* The refusal body says "executed": false -- "A fact, not a guess: the    *)
(* proxy rejected it before forwarding" (response_to_wire).                *)
(***************************************************************************)
RefusedMeansNotRun ==
    \A k \in DOMAIN wire : wire[k].reply = "refused" => wire[k].call \notin ran

(***************************************************************************)
(* The abstract promise the record implements: one position per tool, that *)
(* only ever moves on, whatever sessions come and go (ForcedSchedule).     *)
(***************************************************************************)
Recorded == INSTANCE ForcedSchedule WITH
    table <- schedule,
    used  <- [t \in Tools |-> Cardinality(CallRows(t))],
    drawn <- {[tool |-> file[i].tool, ordinal |-> file[i].ordinal,
               fault |-> file[i].fault] : i \in InvocationRows}

ImplementsForcedSchedule == Recorded!Spec
=============================================================================
