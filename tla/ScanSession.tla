----------------------------- MODULE ScanSession -----------------------------
(***************************************************************************)
(* Scans of one server, one after another, each over an MCP session of its *)
(* own (scanner.py scan, targets/mcp.py setup, invoke, _close): the session*)
(* is opened, the tools are listed, the state is read, one preflight call  *)
(* goes out, the probes run, the recovery pass counts what it applied      *)
(* between two reads, and the session is closed.                           *)
(*                                                                         *)
(* Any await may fail, be cancelled by the MCP SDK's own scope, or be where*)
(* the user's interrupt or the scan's deadline arrives -- all of them as   *)
(* the same exception.  The server keeps its state from scan to scan, may  *)
(* apply a call after its caller is gone, and may never let go of a session*)
(***************************************************************************)
EXTENDS ToolSurface

CONSTANTS
    Commands,   \* see CommandOK
    Tools,      \* what the server lists
    MaxScans    \* bound: scans followed

(* A command line: seed and size, the probes, whether the arguments carry  *)
(* {op_id}, and the flags the choice of tools reads.                       *)
CommandOK(c) ==
    /\ c.requests \in Nat \ {0} /\ c.warmup \in Nat
    /\ {c.token, c.allow_mutating, c.tool_args} \subseteq BOOLEAN
    /\ c.probes \subseteq {"latency", "concurrency", "cost", "contract", "fault", "behavior"}

ASSUME ScanSessionAssumption ==
    /\ \A c \in Commands : CommandOK(c)
    /\ MaxScans \in Nat \ {0}

VARIABLES
    scan,      \* the number of the scan
    command,
    at,        \* idle, connect, initialize, list, select, verify, preflight,
               \* probes, before, window, after, closing, ended
    alarm,     \* none, user, deadline: a cancellation was asked for, and when
    session,   \* none, open, closed, abandoned
    bounded,   \* the session being closed has a close scope with a deadline
    ending,    \* what the code unwinds with while the session closes
    outcome,   \* result, refused, transport, stale, cancelled, timeout, killed
    preflight, \* what became of the preflight call
    reads,     \* the reads of the state: at setup, before the window, and
               \* whether the one after it was answered
    flying,    \* calls the server was sent and has not acted on
    landed     \* the server's state: the calls it has applied

run == <<scan, command>>
ends == <<alarm, session, bounded, ending, outcome>>
world == <<flying, landed>>
vars == <<run, at, ends, preflight, reads, world>>

Unread == [answered |-> FALSE]
Snapshot == [answered |-> TRUE, entries |-> landed]
NoReads == [setup |-> Unread, before |-> Unread, after |-> FALSE]

-----------------------------------------------------------------------------
(* Operation ids: a digest of a salt, the tool and an index.               *)

OpId(salt, index) == <<salt, index>>

(* The recovery pass salts its ids apart and starts after the indices the  *)
(* other phases use.                                                       *)
RecoverySalt(seed) == <<"recovery", seed>>
Offset(c) == c.warmup + c.requests

(* Until the recovery pass the salt is a default's, whatever the seed.     *)
PreflightId == OpId(<<"default", 0>>, 0)

SentIds(c) == [i \in 1..c.requests |-> OpId(RecoverySalt(c.seed), Offset(c) + i - 1)]

HasOracle(c) == c.verify # ""

(* Probes that register ids, and probes that measure the payload.          *)
Registers(c) == c.probes \cap {"fault", "behavior"} # {}
BaselineDependent(c) == c.probes \cap {"latency", "concurrency", "fault", "behavior"} # {}

RecoveryOpIds_Unsalted(c) ==                                     \* mutant
    IF HasOracle(c) /\ c.token
    THEN {OpId(<<"main", c.seed>>, Offset(c) + i - 1) : i \in 1..c.requests} ELSE {}

(* The one derivation of the ids a scan will write; none without an oracle *)
(* that can attribute them.                                                *)
RecoveryOpIds(c) ==
    IF HasOracle(c) /\ c.token
    THEN {SentIds(c)[i] : i \in 1..c.requests} ELSE {}

CountMatching(entries, id) == Cardinality({e \in entries : e.id = id})

StaleOpIds(c, read) ==
    IF ~read.answered THEN {}
    ELSE {id \in RecoveryOpIds(c) : CountMatching(read.entries, id) > 0}

(* _EffectOracle.status                                                    *)
WindowStatus ==
    IF ~HasOracle(command) THEN "absent"
    ELSE IF reads.before = Unread \/ ~reads.after THEN "failed"
    ELSE IF RecoveryOpIds(command) = {} THEN "unattributed"
    ELSE IF StaleOpIds(command, reads.before) # {} THEN "stale" ELSE "ok"

-----------------------------------------------------------------------------
Init ==
    /\ scan = 0 /\ command \in Commands
    /\ at = "idle" /\ alarm = "none"
    /\ session = "none" /\ bounded = FALSE /\ ending = "none" /\ outcome = "none"
    /\ preflight = "none" /\ reads = NoReads
    /\ flying = {} /\ landed = {}

(* A new process, with a target of its own; plan_effect_window is told what*)
(* the scan will register before setup.                                    *)
Start ==
    /\ at \in {"idle", "ended"} /\ scan < MaxScans
    /\ scan' = scan + 1 /\ command' \in Commands
    /\ at' = "connect" /\ alarm' = "none"
    /\ session' = "open" /\ bounded' = FALSE /\ ending' = "none" /\ outcome' = "none"
    /\ preflight' = "none" /\ reads' = NoReads
    /\ UNCHANGED world

(* The scan leaves through the close of its session.                       *)
Close(with, deadline) ==
    /\ at' = "closing" /\ ending' = with /\ bounded' = deadline
    /\ UNCHANGED <<session, outcome>>

(* The deadline _close sets is that of a scope setup() hands over only     *)
(* when it has connected: before that nothing bounds the close.            *)
CloseUnconnected(with) == Close(with, FALSE)

CloseConnected_Unbounded(with) == Close(with, FALSE)             \* mutant
CloseConnected(with) == Close(with, TRUE)

(* Nothing closes the session.                                             *)
Leave(with) ==
    /\ at' = "ended" /\ outcome' = with
    /\ UNCHANGED <<session, bounded, ending>>

-----------------------------------------------------------------------------
(* setup(), until the tools are listed.                                    *)

Connecting == {"connect", "initialize", "list"}

(* The handshake is best-effort: an exception of it is not the end.        *)
Connected ==
    /\ at \in Connecting
    /\ at' = CASE at = "connect" -> "initialize" [] at = "initialize" -> "list"
               [] at = "list" -> "select"
    /\ UNCHANGED <<run, ends, preflight, reads, world>>

ConnectFails ==
    /\ at \in {"connect", "list"}
    /\ CloseUnconnected("refused")
    /\ UNCHANGED <<run, alarm, preflight, reads, world>>

(* A cancellation is the transport's failure when the server had answered  *)
(* anything with a status of 400 or more, a routine 405 included, whoever  *)
(* asked for it.                                                           *)
ConnectCancelled(by) ==
    /\ at \in Connecting
    /\ alarm' = by
    /\ CloseUnconnected("transport") \/ CloseUnconnected("cancelled")
    /\ UNCHANGED <<run, preflight, reads, world>>

-----------------------------------------------------------------------------
(* setup(), over the open session.                                         *)

Select ==
    /\ at = "select"
    /\ IF SelectionRefused(Tools, command)
       THEN CloseConnected("refused")
       ELSE /\ at' = IF HasOracle(command) THEN "verify" ELSE "preflight"
            /\ UNCHANGED <<session, bounded, ending, outcome>>
    /\ UNCHANGED <<run, alarm, preflight, reads, world>>

SetupRefusesStale_Never(c, read) == FALSE                        \* mutant

(* _refuse_if_stale: only a scan that will register ids was planned.       *)
SetupRefusesStale(c, read) == Registers(c) /\ StaleOpIds(c, read) # {}

(* read_effect_entries: the entries, or nothing when the verify tool did   *)
(* not answer; an answer of the wrong shape refuses.                       *)
SetupReads(read) ==
    /\ at = "verify"
    /\ reads' = [reads EXCEPT !.setup = read]
    /\ IF SetupRefusesStale(command, read)
       THEN CloseConnected("stale")
       ELSE /\ at' = "preflight"
            /\ UNCHANGED <<session, bounded, ending, outcome>>
    /\ UNCHANGED <<run, alarm, preflight, world>>

SetupMisreads ==
    /\ at = "verify"
    /\ CloseConnected("refused")
    /\ UNCHANGED <<run, alarm, preflight, reads, world>>

(* A call is one entry of the state if the server applies it.              *)
SendCall(id) == flying' = flying \cup {[id |-> id, scan |-> scan]}

(* The first call that may write.  A reply that does not come is no        *)
(* evidence; the SDK's own cancellation of it is one.                      *)
Preflight ==
    /\ at = "preflight" /\ preflight = "none"
    /\ SendCall(PreflightId)
    /\ preflight' = "sent"
    /\ UNCHANGED <<run, at, ends, reads, landed>>

(* The target refuses what a scan cannot stand on, the scanner asks again  *)
(* what setup asked: a payload nobody vouched for that was refused, and    *)
(* ids that are already there.                                             *)
Preflighted(answer) ==
    /\ at = "preflight" /\ preflight = "sent"
    /\ preflight' = answer
    /\ IF answer = "refused" /\ ~command.tool_args /\ BaselineDependent(command)
       THEN CloseConnected("refused")
       ELSE IF Registers(command) /\ StaleOpIds(command, reads.setup) # {}
       THEN CloseConnected("stale")
       ELSE /\ at' = "probes"
            /\ UNCHANGED <<session, bounded, ending, outcome>>
    /\ UNCHANGED <<run, alarm, reads, world>>

(* An outer cancellation of setup's own calls is not an error setup closes *)
(* for, and the scanner has not entered the block that tears down.         *)
SetupCancelled(by) ==
    /\ at \in {"verify", "preflight"}
    /\ alarm' = by
    /\ Leave(IF by = "deadline" THEN "timeout" ELSE "cancelled")
    /\ UNCHANGED <<run, preflight, reads, world>>

-----------------------------------------------------------------------------
(* The probes.                                                             *)

Probes ==
    /\ at = "probes"
    /\ IF "fault" \in command.probes
       THEN at' = (IF HasOracle(command) THEN "before" ELSE "window")
            /\ UNCHANGED <<session, bounded, ending, outcome>>
       ELSE CloseConnected("result")
    /\ UNCHANGED <<run, alarm, preflight, reads, world>>

(* A read that raises is caught; the pass goes on without it.              *)
WindowOpens(read) ==
    /\ at = "before"
    /\ reads' = [reads EXCEPT !.before = read]
    /\ at' = "window"
    /\ UNCHANGED <<run, ends, preflight, world>>

ToSend ==
    {i \in 1..command.requests :
        [id |-> SentIds(command)[i], scan |-> scan] \notin flying \cup landed}

(* The next operation's call; what is not answered may have been applied,  *)
(* or be applied later.  Bound: one call each, RecoveryPass has the retry. *)
Operate ==
    /\ at = "window"
    /\ \E i \in ToSend : (\A j \in ToSend : i <= j) /\ SendCall(SentIds(command)[i])
    /\ UNCHANGED <<run, at, ends, preflight, reads, landed>>

PassOver ==
    /\ at = "window" /\ ToSend = {}
    /\ IF HasOracle(command)
       THEN at' = "after" /\ UNCHANGED <<session, bounded, ending, outcome>>
       ELSE CloseConnected("result")
    /\ UNCHANGED <<run, alarm, preflight, reads, world>>

WindowCloses(answered) ==
    /\ at = "after"
    /\ reads' = [reads EXCEPT !.after = answered]
    /\ CloseConnected("result")
    /\ UNCHANGED <<run, alarm, preflight, world>>

Probing == {"probes", "before", "window", "after"}

ProbeCancelled_Swallowed(by) ==                                  \* mutant
    /\ at \in Probing
    /\ alarm' = by
    /\ UNCHANGED <<run, at, session, bounded, ending, outcome, preflight, reads, world>>

(* invoke() tells the caller's cancellation, which propagates, from the    *)
(* SDK's, which is a call that was not delivered; the scanner's finally    *)
(* closes the session.                                                     *)
ProbeCancelled(by) ==
    /\ at \in Probing
    /\ alarm' = by
    /\ CloseConnected("cancelled")
    /\ UNCHANGED <<run, preflight, reads, world>>

-----------------------------------------------------------------------------
(* The close, and the end.                                                 *)

(* What scan() says.  A cancellation is the deadline's if it asked for it, *)
(* or if by the clock it has passed.  Where the code goes on in spite of   *)
(* the user's interrupt, asyncio may yet raise it, as the Python goes.     *)
Says(by) ==
    CASE by = "deadline" /\ ending = "cancelled" -> {"timeout"}
      [] by = "user" \/ ending = "cancelled" -> {"cancelled", "timeout", ending}
      [] OTHER -> {ending}

Ended(how, by) ==
    /\ at = "closing"
    /\ at' = "ended" /\ session' = how /\ alarm' = by
    /\ outcome' \in Says(by)
    /\ UNCHANGED <<run, bounded, ending, preflight, reads, world>>

(* The server lets go; or it does not within the close's deadline; or a    *)
(* cancellation arrives, which has nothing left to interrupt.              *)
Closed == Ended("closed", alarm)
GivenUp == bounded /\ Ended("abandoned", alarm)
CloseCancelled(by) == Ended("abandoned", by)

(* The process is killed.                                                  *)
Killed ==
    /\ at \notin {"idle", "ended"}
    /\ Leave("killed")
    /\ UNCHANGED <<run, alarm, preflight, reads, world>>

(* The deadline cancels a scan once, and nothing does after it; it may     *)
(* still come after the user's interrupt, or not, as the Python goes.      *)
Cancelled(by) ==
    /\ alarm = "none" \/ (alarm = "user" /\ by = "deadline")
    /\ ConnectCancelled(by) \/ SetupCancelled(by) \/ ProbeCancelled(by) \/ CloseCancelled(by)

(* The server acts on a call, whoever is still waiting for it.  Bound: what*)
(* it does after the last scan is not followed.                            *)
Land(call) ==
    /\ scan = MaxScans => at \notin {"closing", "ended"}
    /\ flying' = flying \ {call}
    /\ landed' = landed \cup {call}
    /\ UNCHANGED <<run, at, ends, preflight, reads>>

(* What the server answers, which it need not.                             *)
Answered ==
    \/ Connected \/ ConnectFails \/ ConnectCancelled("none")
    \/ \E read \in {Unread, Snapshot} : SetupReads(read) \/ WindowOpens(read)
    \/ \E answered \in BOOLEAN : WindowCloses(answered)
    \/ SetupMisreads \/ Preflight
    \/ \E answer \in {"ok", "refused", "undelivered"} : Preflighted(answer)
    \/ Operate \/ PassOver \/ Closed

Next ==
    \/ Start \/ Select \/ Probes \/ Answered
    \/ Cancelled("user") \/ Cancelled("deadline")
    \/ GivenUp \/ Killed
    \/ \E call \in flying : Land(call)

(* The code runs on between two awaits, the scan's deadline and the close's*)
(* are timers of the event loop.  Nothing is assumed of the server.        *)
Spec ==
    /\ Init /\ [][Next]_vars
    /\ WF_vars(Select \/ Probes)
    /\ WF_vars(alarm = "none" /\ Cancelled("deadline"))
    /\ WF_vars(GivenUp)

-----------------------------------------------------------------------------
(* A stale refusal costs the target nothing: not one call that may write   *)
(* went out, the preflight included (setup: "the staleness refusal below   *)
(* costs the target **nothing**: not one probe call, not even the single   *)
(* preflight write").                                                      *)
RefusedCostsNothing ==
    "stale" \in {ending, outcome} => \A c \in flying \cup landed : c.scan # scan

(* A rerun never counts on top of an earlier run: when the oracle's status *)
(* is ok, nothing an earlier scan left in the state before the window      *)
(* opened carries an id that this scan's own calls carried -- whether the  *)
(* setup read failed, or the entry landed between the two reads            *)
(* (_refuse_stale_state: "The mid-scan check stays as the backstop").      *)
RerunNeverCounted ==
    WindowStatus = "ok" =>
        \A old \in reads.before.entries, c \in flying \cup landed :
            old.scan < scan /\ c.scan = scan /\ c.id # PreflightId => old.id # c.id

(* The user's interrupt stays one: the scan ends cancelled, or with the    *)
(* result it already had; it is never reported as the target's fault, nor  *)
(* runs on to a result.  Where the code cannot tell: the server answered   *)
(* with an HTTP error while the session was being set up                   *)
(* (setup: "must stay a cancellation, or the scanner starts reporting the  *)
(* user's own interrupt as a target fault").                               *)
InterruptStaysOne ==
    [][ alarm = "none" /\ alarm' = "user" /\ at # "closing" =>
          \/ outcome' = "cancelled"
          \/ at' = "closing" /\ ending' = "cancelled"
          \/ at' = "closing" /\ ending' = "transport" ]_vars

(* A scan that has connected ends, whatever the server never answers and   *)
(* though it never lets go of the session (CLOSE_TIMEOUT_S: "Cleanup must  *)
(* be bounded or it defeats the scan deadline").                           *)
ConnectedScanEnds == at = "select" ~> at = "ended"

(* mcp.py:681: "Cleanup must be bounded or it defeats the scan deadline:   *)
(* cancelling a scan runs the teardown, and `stack.aclose()` waits on a    *)
(* subprocess that has stopped answering, so the cancellation never lands  *)
(* and the process hangs anyway".  Every scan ends.                        *)
EveryScanEnds == at = "connect" ~> at = "ended"
=============================================================================
