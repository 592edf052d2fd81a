------------------------------ MODULE ServeLoop ------------------------------
(***************************************************************************)
(* One `ratemyagent proxy` session as a timed loop (proxy.serve): it waits  *)
(* for a line from the agent or for the earliest deadline it owns -- a held *)
(* reply that is due, or the close that a closing fault armed -- and serves *)
(* one message at a time.  The client is unconstrained: it sends what it    *)
(* likes when it likes, and may close its end.                             *)
(*                                                                         *)
(* Time is discrete; the loop acts in no time once it has something to do, *)
(* and only a call the upstream is serving takes time, at most             *)
(* UpstreamTimeout (MCPTarget.invoke bounds every request).                *)
(***************************************************************************)
EXTENDS Naturals, Sequences, FiniteSets

CONSTANTS
    HoldFor,         \* hold_s of the schedule file; 0 when it has none
    CloseAfter,      \* close_after_s of the schedule file
    Fates,           \* what may become of a call's reply
    UpstreamTimeout, \* bound on the time the upstream takes over one call
    MaxMessages,     \* bound: lines the client sends
    LastSend,        \* bound: the client sends nothing after this time
    MaxTime          \* bound: the end of time

(* Answered; dropped by a lost reply; dropped by the closing kind. *)
Fate == {"answer", "drop", "close"}

MessageKind == {"call", "note", "request"}

ASSUME ServeLoopAssumption ==
    /\ HoldFor \in Nat
    /\ CloseAfter \in Nat
    /\ Fates \subseteq Fate
    /\ UpstreamTimeout \in Nat
    /\ MaxMessages \in Nat
    /\ LastSend \in Nat
    /\ MaxTime \in Nat

VARIABLES
    now,      \* the clock
    sent,     \* every line the client sent, in order: what and when
    eof,      \* the client closed its end
    inbox,    \* lines read off the pipe and not yet taken (asyncio.Queue)
    status,   \* where serve() is
    current,  \* the call in flight upstream
    holding,  \* ProxyServer.hold_s is set: the first reply will be held
    pending,  \* ProxyServer.pending: held replies and when they are due
    closeAt,  \* the close deadline, once armed: a set of at most one time
    rows,     \* the rows written, with their stamps
    out,      \* replies written to the client, and when
    returned  \* when each call came back from the upstream

client == <<sent, eof>>
loop == <<status, current, holding, closeAt>>
vars == <<now, client, inbox, loop, pending, rows, out, returned>>

NoCall == [id |-> 0]

Init ==
    /\ now = 0
    /\ sent = << >>
    /\ eof = FALSE
    /\ inbox = << >>
    /\ status = "reading"
    /\ current = NoCall
    /\ holding = (HoldFor > 0)
    /\ pending = {}
    /\ closeAt = {}
    /\ rows = << >>
    /\ out = {}
    /\ returned = {}

-----------------------------------------------------------------------------
(* The client, and the reader thread that feeds the queue (pump). *)

Send(kind) ==
    /\ ~eof
    /\ Len(sent) < MaxMessages
    /\ now <= LastSend
    /\ sent' = Append(sent, [kind |-> kind, at |-> now])
    /\ inbox' = Append(inbox, Len(sent) + 1)
    /\ UNCHANGED <<now, eof, loop, pending, rows, out, returned>>

CloseInput ==
    /\ ~eof
    /\ eof' = TRUE
    /\ UNCHANGED <<now, sent, inbox, loop, pending, rows, out, returned>>

-----------------------------------------------------------------------------
(* The loop. *)

Deadlines == {reply.due : reply \in pending} \cup closeAt

WakeDue == \E at \in Deadlines : at <= now

(***************************************************************************)
(* May the loop take a line?  A deadline already behind it makes the wait's *)
(* timeout zero, and a zero timeout returns no line even when one is        *)
(* queued (asyncio.wait_for).  At the deadline itself either may come first.*)
(***************************************************************************)
MayTake_Always == TRUE                                               \* mutant
MayTake == \A at \in Deadlines : now <= at

(***************************************************************************)
(* release_due, after the replies in `written` went out at once: every held *)
(* reply whose time has come is written, the rest stay.                    *)
(***************************************************************************)
Release(written, held) ==
    /\ pending' = {reply \in held : reply.due > now}
    /\ out' = out \cup {[id |-> id, at |-> now] :
                          id \in written \cup {reply.id : reply \in held \ pending'}}

Head1 == Head(inbox)

Take(kind) ==
    /\ status = "reading"
    /\ MayTake
    /\ inbox # << >>
    /\ sent[Head1].kind = kind
    /\ inbox' = Tail(inbox)

(* A notification leaves a row and gets no reply (ProxyServer.handle). *)
TakeNote ==
    /\ Take("note")
    /\ rows' = Append(rows, [id |-> Head1, kind |-> "note", received |-> now])
    /\ Release({}, pending)
    /\ UNCHANGED <<now, client, loop, returned>>

(* initialize, ping, tools/list and errors are answered on the spot. *)
TakeRequest ==
    /\ Take("request")
    /\ Release({Head1}, pending)
    /\ UNCHANGED <<now, client, loop, rows, returned>>

(* A tools/call goes upstream; the arrival stamp is taken here. *)
TakeCall ==
    /\ Take("call")
    /\ status' = "serving"
    /\ current' = [id |-> Head1, received |-> now]
    /\ UNCHANGED <<now, client, holding, closeAt, pending, rows, out, returned>>

(* When a held reply is to be written. *)
DueAt_FromArrival == current.received + HoldFor              \* mutant
DueAt == now + HoldFor

(* One held reply per task: the hold is used up by the first.              *)
StillHolding(held) == holding /\ ~held

(* The close deadline the loop reads off the server after the call. *)
ArmClose(fate) ==
    IF fate = "close" /\ closeAt = {} THEN {now + CloseAfter} ELSE closeAt

(***************************************************************************)
(* The call returns and the rest of ProxyServer._call runs: the row, with   *)
(* the stamp the reply will have, then the reply -- written, held, or       *)
(* dropped -- then release_due, and last the close deadline.               *)
(***************************************************************************)
Finish(fate) ==
    LET held  == fate = "answer" /\ holding
        stamp == IF fate # "answer" THEN {} ELSE {IF held THEN now + HoldFor ELSE now}
    IN  /\ status = "serving"
        /\ status' = "reading"
        /\ current' = NoCall
        /\ returned' = returned \cup {now}
        /\ holding' = StillHolding(held)
        /\ rows' = Append(rows, [id |-> current.id, kind |-> "call",
                                 received |-> current.received,
                                 replied |-> stamp, held |-> held])
        /\ IF held
           THEN Release({}, pending \cup {[id |-> current.id, due |-> DueAt]})
           ELSE Release(IF fate = "answer" THEN {current.id} ELSE {}, pending)
        /\ closeAt' = ArmClose(fate)
        /\ UNCHANGED <<now, client, inbox>>

(***************************************************************************)
(* The wait timed out: what is due goes out, and if the close deadline has  *)
(* come the session ends, whatever is still queued or held.                *)
(***************************************************************************)
Wakes == status = "reading" /\ WakeDue

CloseDue == \E at \in closeAt : at <= now

EndSession(ends) ==
    /\ status' = IF ends THEN "closed" ELSE "reading"
    /\ UNCHANGED <<now, client, inbox, current, holding, closeAt, rows, returned>>

(* mutants: any deadline ends a session that has a close armed; the wake    *)
(* releases nothing                                                        *)
Wake_AnyDeadline == Wakes /\ Release({}, pending) /\ EndSession(closeAt # {})
Wake_ReleasesNothing ==
    Wakes /\ EndSession(CloseDue) /\ UNCHANGED <<pending, out>>

Wake == Wakes /\ Release({}, pending) /\ EndSession(CloseDue)

(* End of input, read after every line before it: serve returns. *)
TakeEof ==
    /\ status = "reading"
    /\ MayTake
    /\ inbox = << >>
    /\ eof
    /\ status' = "ended"
    /\ UNCHANGED <<now, client, inbox, current, holding, closeAt, pending, rows,
                   out, returned>>

(* The loop has something to do without waiting. *)
LoopReady ==
    status = "reading" /\ (WakeDue \/ (MayTake /\ (inbox # << >> \/ eof)))

Tick ==
    /\ now < MaxTime
    /\ ~LoopReady
    /\ status = "serving" => now < current.received + UpstreamTimeout
    /\ now' = now + 1
    /\ UNCHANGED <<client, inbox, loop, pending, rows, out, returned>>

LoopStep ==
    \/ TakeNote
    \/ TakeRequest
    \/ TakeCall
    \/ \E fate \in Fates : Finish(fate)
    \/ Wake
    \/ TakeEof

Next ==
    \/ \E kind \in MessageKind : Send(kind)
    \/ CloseInput
    \/ LoopStep
    \/ Tick

(***************************************************************************)
(* The event loop runs what is ready, every request upstream is bounded by *)
(* its timeout, and time passes.  Nothing is assumed of the client.        *)
(***************************************************************************)
Fairness == WF_vars(LoopStep) /\ WF_vars(Tick)

Spec == Init /\ [][Next]_vars /\ Fairness

-----------------------------------------------------------------------------
(* What the session promises. *)

(***************************************************************************)
(* The stamp a row gives its reply is early, never late: the reply it names *)
(* goes out at that time or after it, and at most one call upstream later.  *)
(* A row with no stamp stands for a reply that never goes out.             *)
(***************************************************************************)
StampNeverLate ==
    \A i \in DOMAIN rows : rows[i].kind = "call" =>
        \A reply \in out : reply.id = rows[i].id =>
            \E stamp \in rows[i].replied :
                stamp <= reply.at /\ reply.at <= stamp + UpstreamTimeout

(***************************************************************************)
(* The close a fault armed is not put off: the session is gone at most one  *)
(* call upstream after the deadline of the first closing fault, whatever   *)
(* the client keeps sending.                                               *)
(***************************************************************************)
ClosedInTime ==
    status \in {"reading", "serving"} =>
        \A at \in closeAt : now <= at + UpstreamTimeout

(***************************************************************************)
(* The hold before a close is time the client can still use: what a closed  *)
(* session left unread was sent at the deadline or later, or while a call   *)
(* that ran into the deadline was being served.                            *)
(***************************************************************************)
HoldIsUsable ==
    status = "closed" =>
        \A i \in DOMAIN inbox : \A at \in closeAt :
            sent[inbox[i]].at >= at \/ \E t \in returned : t >= at

(* A held reply is a delay, not a drop: it goes out, or the session is over.*)
HeldReplyGoesOut ==
    pending # {} ~> (pending = {} \/ status \in {"closed", "ended"})
=============================================================================
