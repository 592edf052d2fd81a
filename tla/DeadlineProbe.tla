---------------------------- MODULE DeadlineProbe ----------------------------
(***************************************************************************)
(* How long does the agent wait for a reply that is late but coming?       *)
(* (probes.agent_deadline, AgentBaseline._measure_client_timeout.)         *)
(*                                                                         *)
(* One task is run with its first reply held: the agent of that task talks *)
(* to a proxy session (ServeLoop, with no fault in its schedule), the scan *)
(* kills it at the task deadline (AgentTarget._run_task), and measure()    *)
(* reads the record.  The agent is external: it makes a call, waits for it *)
(* as long as its own read timeout says, and then does as it likes.        *)
(***************************************************************************)
EXTENDS ServeLoop

CONSTANTS
    Patiences,     \* read timeouts the agent may have, none of them nought; Forever for none
    Forever,       \* larger than every time
    TaskDeadlines, \* values of AgentTarget.timeout_s
    Parallel       \* TRUE when the agent may make other calls while it waits

ASSUME DeadlineProbeAssumption ==
    /\ Patiences \subseteq Nat \ {0}
    /\ Forever \in Nat /\ Forever > MaxTime
    /\ TaskDeadlines \subseteq Nat
    /\ Parallel \in BOOLEAN

VARIABLES
    patience, \* this agent's read timeout
    deadline, \* this scan's per-task deadline
    agent,    \* what the agent is doing about its first call
    gaveUp,   \* when it stopped waiting without the reply: a set of one time
    accepted, \* it took the reply to its first call
    finished, \* when its process ended (meta["finished_at"]), likewise
    outcome,  \* meta["outcome"] of the task
    measured  \* what measure() returned, once the scan has read the record

params == <<patience, deadline>>
agentVars == <<params, agent, gaveUp, accepted, finished, outcome, measured>>
probeVars == <<vars, agentVars>>

NotRead == [result |-> "not read"]

ProbeInit ==
    /\ Init
    /\ patience \in Patiences
    /\ deadline \in TaskDeadlines
    /\ agent = "starting"
    /\ gaveUp = {}
    /\ accepted = FALSE
    /\ finished = {}
    /\ outcome = "running"
    /\ measured = NotRead

-----------------------------------------------------------------------------
(* The agent. *)

(* The first call of the task, the one whose reply is held. *)
MakeCall ==
    /\ agent = "starting"
    /\ Send("call")
    /\ agent' = "waiting"
    /\ UNCHANGED <<params, gaveUp, accepted, finished, outcome, measured>>

ReplyHere == \E reply \in out : reply.id = 1

Impatient == agent = "waiting" /\ ~ReplyHere /\ now >= sent[1].at + patience

(* It stops waiting, and shows it: it cancels, or it calls again.          *)
GiveUp(kind) ==
    /\ Impatient
    /\ kind \in {"note", "call"}
    /\ Send(kind)
    /\ agent' = "working"
    /\ gaveUp' = {now}
    /\ UNCHANGED <<params, accepted, finished, outcome, measured>>

AcceptReply ==
    /\ agent = "waiting"
    /\ ReplyHere
    /\ agent' = "working"
    /\ accepted' = TRUE
    /\ UNCHANGED <<vars, params, gaveUp, finished, outcome, measured>>

(* The rest of its work; with parallel calls, also while it waits.         *)
Work ==
    /\ agent = "working" \/ (Parallel /\ agent = "waiting")
    /\ Send("call")
    /\ UNCHANGED agentVars

(* It returns: after the reply, after giving up, or instead of waiting on. *)
Return ==
    /\ agent = "working" \/ Impatient
    /\ agent' = "ended"
    /\ gaveUp' = IF agent = "waiting" THEN {now} ELSE gaveUp
    /\ finished' = {now}
    /\ outcome' \in {"completed", "failed"}
    /\ CloseInput
    /\ UNCHANGED <<params, accepted, measured>>

(* The scan kills an agent that has not ended at the task deadline.        *)
DeadlineReached == agent # "ended" /\ now >= deadline

KillAgent ==
    /\ DeadlineReached
    /\ agent' = "ended"
    /\ finished' = {now}
    /\ outcome' = "abandoned"
    /\ CloseInput
    /\ UNCHANGED <<params, gaveUp, accepted, measured>>

-----------------------------------------------------------------------------
(* measure() *)

Held == {i \in DOMAIN rows : rows[i].kind = "call" /\ rows[i].held}

Smallest(times) == CHOOSE t \in times : \A u \in times : t <= u

(* Everything the agent did after the held call, by the stamps.            *)
Moves(arrived) ==
    {rows[i].received : i \in {j \in DOMAIN rows :
                                 j \notin Held /\ rows[j].received > arrived}}
        \cup finished

Unmeasured == [result |-> "unmeasured", value |-> 0]

(* mutant: the agent's exit is not one of its moves *)
Moved_RowsOnly(arrived, release) ==
    \E move \in Moves(arrived) \ finished : move < release

Moved(arrived, release) ==
    \E move \in Moves(arrived) : move < release

NoDeadline(arrived) ==
    [result |-> "no_deadline", value |-> Smallest(finished) - arrived]

Acted(arrived) ==
    [result |-> "acted", value |-> Smallest(Moves(arrived)) - arrived]

WaitedOut == [result |-> "waited_out", value |-> HoldFor]

(* mutant: the scan's own kill passes for a move of the agent *)
Reading_KillIsAMove(arrived) ==
    IF Moved(arrived, arrived + HoldFor) THEN Acted(arrived)
    ELSE IF outcome = "abandoned" THEN NoDeadline(arrived)
    ELSE WaitedOut

(***************************************************************************)
(* measure(): the release is reckoned from the arrival of the held call,    *)
(* and a kill is decided on before the agent's moves are looked at.  (The   *)
(* tolerance of RELEASE_TOLERANCE_S is below this clock's tick: a move at   *)
(* the release is a reaction to the reply.)                                *)
(***************************************************************************)
Reading(arrived) ==
    IF outcome = "abandoned" THEN NoDeadline(arrived)
    ELSE IF Moved(arrived, arrived + HoldFor) THEN Acted(arrived)
    ELSE WaitedOut

Measure ==
    IF Held = {} THEN Unmeasured ELSE Reading(rows[Smallest(Held)].received)

ReadRecord ==
    /\ agent = "ended"
    /\ measured = NotRead
    /\ measured' = Measure
    /\ UNCHANGED <<vars, params, agent, gaveUp, accepted, finished, outcome>>

-----------------------------------------------------------------------------

(* The agent does at once what a read timeout or a reply makes it do, and  *)
(* the scan kills it at the deadline; everything else may take time.       *)
AgentReady == Impatient \/ (agent = "waiting" /\ ReplyHere) \/ DeadlineReached

ProbeTick == Tick /\ ~AgentReady /\ UNCHANGED agentVars

ProbeNext ==
    \/ MakeCall
    \/ \E kind \in MessageKind : GiveUp(kind)
    \/ AcceptReply
    \/ Work
    \/ Return
    \/ KillAgent
    \/ ReadRecord
    \/ LoopStep /\ UNCHANGED agentVars
    \/ ProbeTick

ProbeSpec == ProbeInit /\ [][ProbeNext]_probeVars

-----------------------------------------------------------------------------
(* The measurement is of the agent. *)

Waited == Smallest(gaveUp) - sent[1].at

(***************************************************************************)
(* `acted` is the agent's own read timeout: it did stop waiting, without    *)
(* the reply, after that long -- never the scan's kill taken for its move.  *)
(* The value is late by no more than the call in flight that kept the      *)
(* proxy from reading the move, and the move itself when it is a call that *)
(* is not back, and so has no row, when the agent returns.                 *)
(***************************************************************************)
ActedIsPatience ==
    measured.result = "acted" =>
        /\ gaveUp # {}
        /\ Waited <= measured.value
        /\ measured.value <= Waited + 2 * UpstreamTimeout

(***************************************************************************)
(* `waited_out` is a lower bound on the agent's patience: an agent that     *)
(* stops waiting well inside the hold is never reported so ("> hold_s, a    *)
(* lower bound").                                                          *)
(***************************************************************************)
WaitedOutIsLowerBound ==
    measured.result = "waited_out" =>
        gaveUp = {} \/ Waited + 2 * UpstreamTimeout >= HoldFor

=============================================================================
