---------------------------- MODULE RecoveryPass ----------------------------
(***************************************************************************)
(* The in-process recovery pass (probes.fault.FaultInjector._recovery_pass):*)
(* one operation after the other is sent through the FaultProxy and retried *)
(* up to a budget, between two reads of the target's state from which the   *)
(* effects of each operation are counted (_EffectOracle).                   *)
(*                                                                         *)
(* The pass is sequential; what is concurrent with it is the target, which  *)
(* may act on a call long after the caller stopped waiting for it, calls of *)
(* this scan's earlier phases included, and other writers of its state.     *)
(***************************************************************************)
EXTENDS FaultKinds, Trajectory, Integers, FiniteSetsExt

CONSTANTS
    Ops,          \* operations of the pass, 1..Ops
    Kinds,        \* faults the draw may pick
    MaxRetries,
    WaitMax,      \* --backoff-max
    Budget,       \* --backoff-budget
    Hints,        \* Retry-After values a real rate limit may carry
    InjectedHint, \* FaultConfig.retry_after_s
    Idempotents,  \* may applying a call twice leave one effect: a set of BOOLEAN
    Oracles,      \* how the target's state can be read
    EarlierOps,   \* operations of earlier phases that may land late
    DirtyOps,     \* operations an earlier run with the same seed may have left
    MaxForeign    \* bound: entries other writers add

ASSUME RecoveryPassAssumption ==
    /\ Ops \in Nat \ {0}
    /\ Kinds \subseteq FaultKind
    /\ MaxRetries \in Nat /\ WaitMax \in Nat /\ Budget \in Nat
    /\ Hints \subseteq Nat /\ InjectedHint \in Nat
    /\ Idempotents \subseteq BOOLEAN
    /\ Oracles \subseteq {"absent", "anonymous", "perOp"}
    /\ EarlierOps \subseteq 1..Ops
    /\ DirtyOps \subseteq 1..Ops
    /\ MaxForeign \in Nat

NoHint == -1

VARIABLES
    idempotent, \* applying a call twice leaves one effect
    oracle,   \* no verify tool, one without {op_id}, or one per operation
    phase,    \* where the scan is
    op,       \* the operation being sent
    current,  \* the fault drawn for the call that is upstream
    last,     \* the Response of the attempt just made
    traj,     \* FaultProxy.trajectories of the pass
    backoff,  \* _BackoffBudget
    before,   \* the two reads of the target's state
    after,
    flying,   \* calls the target was sent and has not acted on
    store,    \* the target's state: effects per operation id
    foreign,  \* entries of other writers
    mine      \* effects of the pass's own calls while its window was open

scan == <<phase, op, current, last, traj, backoff>>
reads == <<before, after>>
world == <<flying, store, foreign, mine>>
fixed == <<idempotent, oracle>>
vars == <<fixed, scan, reads, world>>

Operation == 1..Ops

(* The namespaces operation ids are drawn from. *)
Id == {"earlier", "recovery"} \X Operation

(* The pass salts its ids apart from every earlier phase (_recovery_salt).  *)
Salt_Shared == "earlier"                                     \* mutant
Salt == "recovery"

(* The id an attempt carries, and the id registered for its operation       *)
(* (recovery_op_ids); the mutant derives one id for the whole pass.        *)
SentId(o) == <<Salt, o>>
Registered_First(o) == <<Salt, 1>>                           \* mutant
Registered(o) == <<Salt, o>>

Unread == [answered |-> FALSE]
Snapshot == [answered |-> TRUE, store |-> store, foreign |-> foreign]

NoResponse == [ok |-> FALSE, limited |-> FALSE, hint |-> NoHint, injected |-> FALSE]

Init ==
    /\ idempotent \in Idempotents
    /\ oracle \in Oracles
    /\ phase = "setup"
    /\ op = 1
    /\ current = NoFault
    /\ last = NoResponse
    /\ traj = [o \in Operation |-> << >>]
    /\ backoff = [left |-> Budget, waited |-> 0, simulated |-> 0,
                  waits |-> 0, unwaited |-> 0]
    /\ before = Unread
    /\ after = Unread
    /\ flying = {}
    /\ \E dirty \in SUBSET DirtyOps :
         store = [id \in Id |-> IF id \in {SentId(o) : o \in dirty} THEN 1 ELSE 0]
    /\ foreign = 0
    /\ mine = [o \in Operation |-> 0]

-----------------------------------------------------------------------------
(* The target, and whoever else writes to it. *)

WindowOpen == before # Unread /\ after = Unread

(* Bound: what the target does once the report is made is not followed.     *)
Over == phase \in {"done", "refused"}

Land(call) ==
    LET was == store[call.id]
        is  == IF idempotent /\ was > 0 THEN was ELSE was + 1
    IN  /\ call \in flying
        /\ ~Over
        /\ flying' = flying \ {call}
        /\ store' = [store EXCEPT ![call.id] = is]
        /\ mine' = IF WindowOpen /\ call.attempt > 0
                   THEN [mine EXCEPT ![call.op] = @ + is - was]
                   ELSE mine
        /\ UNCHANGED <<fixed, scan, reads, foreign>>

OtherWriter ==
    /\ foreign < MaxForeign
    /\ ~Over
    /\ foreign' = foreign + 1
    /\ UNCHANGED <<fixed, scan, reads, flying, store, mine>>

-----------------------------------------------------------------------------
(* Before the pass. *)

(* Was an id of the pass applied before it (stale_op_ids)? *)
StaleIn_Never(state) == FALSE                                \* mutant
StaleIn(state) == \E o \in Operation : state[Registered(o)] > 0

(* setup() reads the state once; a scan of dirty state is refused before it *)
(* sends anything (_refuse_stale_state), if that read answered.             *)
Setup(answered) ==
    /\ phase = "setup"
    /\ answered => oracle # "absent"
    /\ phase' = IF answered /\ oracle = "perOp" /\ StaleIn(store)
                THEN "refused" ELSE "earlier"
    /\ UNCHANGED <<fixed, op, current, last, traj, backoff, reads, world>>

(* The baseline probes and the degradation pass: some of their calls timed  *)
(* out and are still with the target.                                      *)
EarlierPhases ==
    /\ phase = "earlier"
    /\ \E late \in SUBSET EarlierOps :
         flying' = {[id |-> <<"earlier", o>>, op |-> o, attempt |-> 0] : o \in late}
    /\ phase' = "before"
    /\ UNCHANGED <<fixed, op, current, last, traj, backoff, reads, store,
                   foreign, mine>>

(* mutant: the first read waits for the calls of earlier phases to land *)
ReadBefore_Drained(answered) ==
    /\ phase = "before"
    /\ flying = {}
    /\ answered => oracle # "absent"
    /\ before' = IF answered THEN Snapshot ELSE Unread
    /\ phase' = "send"
    /\ UNCHANGED <<fixed, op, current, last, traj, backoff, after, world>>

(* _EffectOracle.before; a read that failed stays unread. *)
ReadBefore(answered) ==
    /\ phase = "before"
    /\ answered => oracle # "absent"
    /\ before' = IF answered THEN Snapshot ELSE Unread
    /\ phase' = "send"
    /\ UNCHANGED <<fixed, op, current, last, traj, backoff, after, world>>

-----------------------------------------------------------------------------
(* The pass. *)

(* FaultProxy._record. *)
Observe(fault, inner) ==
    traj' = [traj EXCEPT ![op] =
                Append(@, [ok       |-> ResponseTo(fault, inner).ok,
                           executed |-> Executed(fault, inner),
                           args     |-> op])]

(* The Response the retry loop sees, as far as the backoff reads it. *)
Seen(fault, inner, limited, hint) ==
    [ok       |-> ResponseTo(fault, inner).ok,
     limited  |-> fault = "rate_limit" \/ (Forwards(fault) /\ limited),
     hint     |-> IF fault = "rate_limit" THEN InjectedHint ELSE hint,
     injected |-> fault = "rate_limit"]

(* An attempt that draws a rejecting fault is over at once; any other goes  *)
(* to the target.                                                          *)
Reject1(fault) ==
    /\ phase = "send"
    /\ ~Forwards(fault)
    /\ Observe(fault, "ok")
    /\ last' = Seen(fault, "ok", FALSE, NoHint)
    /\ phase' = "settle"
    /\ UNCHANGED <<fixed, op, current, backoff, reads, world>>

Call == [id |-> SentId(op), op |-> op, attempt |-> Attempts(traj[op]) + 1]

Forward(fault) ==
    /\ phase = "send"
    /\ Forwards(fault)
    /\ current' = fault
    /\ flying' = flying \cup {Call}
    /\ phase' = "upstream"
    /\ UNCHANGED <<fixed, op, last, traj, backoff, reads, store, foreign, mine>>

(* The target answers, or MCPTarget.invoke stops waiting for it.            *)
Return(inner, limited, hint) ==
    /\ phase = "upstream"
    /\ inner = "ok" => Call \notin flying
    /\ limited => inner = "error"
    /\ ~limited => hint = NoHint
    /\ Observe(current, inner)
    /\ last' = Seen(current, inner, limited, hint)
    /\ current' = NoFault
    /\ phase' = "settle"
    /\ UNCHANGED <<fixed, op, backoff, reads, world>>

(* How long the pass waits (_BackoffBudget.wait_for). *)
Delay(b, response) ==
    Min({IF response.hint = NoHint THEN WaitMax ELSE response.hint,
         WaitMax, b.left})

(* Only a rate limit is waited for, and an injected one is not slept on.    *)
WaitFor(b, response) ==
    LET delay == Delay(b, response)
    IN  IF ~response.limited THEN b
        ELSE IF delay <= 0 THEN [b EXCEPT !.unwaited = @ + 1]
        ELSE [b EXCEPT !.left = @ - delay,
                       !.waits = @ + 1,
                       !.simulated = @ + (IF response.injected THEN delay ELSE 0),
                       !.waited = @ + (IF response.injected THEN 0 ELSE delay)]

(* Does the loop leave this operation?                                     *)
Leaves == last.ok \/ Attempts(traj[op]) = MaxRetries + 1

(***************************************************************************)
(* The end of one turn of the loop: a success leaves it, anything else is   *)
(* waited for -- after the last attempt as well -- and sent again while the *)
(* budget of attempts lasts.                                               *)
(***************************************************************************)
Settle ==
    /\ phase = "settle"
    /\ backoff' = IF last.ok THEN backoff ELSE WaitFor(backoff, last)
    /\ phase' = IF Leaves /\ op = Ops THEN "after" ELSE "send"
    /\ op' = IF Leaves /\ op < Ops THEN op + 1 ELSE op
    /\ last' = NoResponse
    /\ UNCHANGED <<fixed, current, traj, reads, world>>

(* _EffectOracle.after. *)
ReadAfter(answered) ==
    /\ phase = "after"
    /\ answered => oracle # "absent"
    /\ after' = IF answered THEN Snapshot ELSE Unread
    /\ phase' = "done"
    /\ UNCHANGED <<fixed, op, current, last, traj, backoff, before, world>>

ScanStep ==
    \/ \E answered \in BOOLEAN :
         Setup(answered) \/ ReadBefore(answered) \/ ReadAfter(answered)
    \/ EarlierPhases
    \/ \E fault \in Kinds \cup {NoFault} : Reject1(fault) \/ Forward(fault)
    \/ \E inner \in InnerReply, limited \in BOOLEAN, hint \in Hints \cup {NoHint} :
         Return(inner, limited, hint)
    \/ Settle

Next ==
    \/ ScanStep
    \/ \E call \in flying : Land(call)
    \/ OtherWriter

(* The scan keeps going; that a call sent is ever acted on is not assumed.  *)
Spec == Init /\ [][Next]_vars /\ WF_vars(ScanStep)

-----------------------------------------------------------------------------
(* What the pass reports. *)

(* _EffectOracle.status *)
Status ==
    IF oracle = "absent" THEN "absent"
    ELSE IF Unread \in {before, after} THEN "failed"
    ELSE IF oracle = "anonymous" THEN "unattributed"
    ELSE IF StaleIn(before.store) THEN "stale" ELSE "ok"

EffectsByOp ==
    [o \in Operation |-> after.store[Registered(o)] - before.store[Registered(o)]]

(* Entries of the window that carry no registered id. *)
NotRegistered(read) ==
    read.foreign + MapThenSumSet(LAMBDA id : read.store[id],
                                 Id \ {Registered(o) : o \in Operation})

Unattributed == Max({0, NotRegistered(after) - NotRegistered(before)})

(* Acknowledged to the caller, and no effect to be found (_effect_metrics). *)
LostEffects ==
    Cardinality({o \in Operation :
                    EffectsByOp[o] = 0 /\ \E i \in DOMAIN traj[o] : traj[o][i].ok})

Scored == phase = "done" /\ Status = "ok"

-----------------------------------------------------------------------------
(* What the numbers mean. *)

(***************************************************************************)
(* An effect counted for an operation is an effect of this pass's attempts  *)
(* at it, all of them that landed in the window, and nobody else's: not an  *)
(* earlier phase's call that lands late, not another writer's entry.        *)
(* (_recovery_pass: "Registered ids get their own namespace".)              *)
(***************************************************************************)
DuplicatesAreOurs ==
    Scored => \A o \in Operation : EffectsByOp[o] = mine[o]

(* An operation the target acknowledged and applied is never reported lost. *)
NoFalseLoss == Scored => LostEffects = 0

(***************************************************************************)
(* Every entry of the window is counted once: as an effect of one registered *)
(* operation, or as unattributed.                                          *)
(***************************************************************************)
Entries(read) ==
    read.foreign + MapThenSumSet(LAMBDA id : read.store[id], Id)

AccountsBalance ==
    Scored =>
        MapThenSumSet(LAMBDA o : EffectsByOp[o], Operation) + Unattributed
            = Entries(after) - Entries(before)

(* The pass ends, whatever the target never answers.                        *)
PassEnds == <>(phase \in {"done", "refused"})

=============================================================================
