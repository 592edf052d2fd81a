------------------------- MODULE RecoveryPassProofs -------------------------
(***************************************************************************)
(* What one pass's numbers mean (RecoveryPass), proved for any number of    *)
(* operations, any budget of retries and of waiting, any way of reading the *)
(* target, and any calls of earlier phases and writers beside it.           *)
(***************************************************************************)
EXTENDS RecoveryPass, DataTheorems

Phase == {"setup", "refused", "earlier", "before", "send", "upstream",
          "settle", "after", "done"}

Attempt == [ok : BOOLEAN, executed : {"yes", "no", "unknown"}, args : Operation]

InFlight == [id : Id, op : Operation, attempt : Nat]

Reading == [answered : {TRUE}, store : [Id -> Nat], foreign : Nat]

WorldOK ==
    /\ flying \subseteq InFlight
    /\ store \in [Id -> Nat]
    /\ foreign \in Nat
    /\ mine \in [Operation -> Int]

ScanOK ==
    /\ phase \in Phase
    /\ op \in Operation
    /\ current \in FaultKind \cup {NoFault}
    /\ last.ok \in BOOLEAN
    /\ traj \in [Operation -> Seq(Attempt)]

ReadsOK ==
    /\ before \in Reading \cup {Unread}
    /\ after \in Reading \cup {Unread}

RecoveryTypeOK ==
    /\ idempotent \in BOOLEAN /\ oracle \in Oracles
    /\ WorldOK /\ ScanOK /\ ReadsOK

(* A call carries the id of its operation in the namespace of the phase      *)
(* that sent it.                                                            *)
OwnNamespace ==
    \A call \in flying :
        call.id = IF call.attempt > 0 THEN Registered(call.op)
                  ELSE <<"earlier", call.op>>

(* The reads are made at their phases, and nothing lands after the second.  *)
ReadsInTurn ==
    /\ phase \in {"setup", "refused", "earlier", "before"} => before = Unread
    /\ after # Unread => /\ phase = "done"
                         /\ after.store = store /\ after.foreign = foreign

(* While the window is open, and in what it closed on, the growth of an      *)
(* operation's entries is what this pass's calls added.                     *)
GrowthIsOurs ==
    /\ before = Unread => \A o \in Operation : mine[o] = 0
    /\ before # Unread /\ (after # Unread \/ phase # "done") =>
          \A o \in Operation :
             mine[o] = store[Registered(o)] - before.store[Registered(o)]

(* Nobody takes an entry back.                                             *)
NothingShrinks ==
    before # Unread => /\ before.foreign <= foreign
                       /\ \A id \in Id : before.store[id] <= store[id]

(* A call being waited for is with the target or has been applied.          *)
SentOrApplied ==
    phase = "upstream" => Call \in flying \/ store[Registered(op)] > 0

(* What the caller was told succeeded was applied.                          *)
OkWasApplied ==
    \A o \in Operation :
        (\E i \in DOMAIN traj[o] : traj[o][i].ok) => store[Registered(o)] > 0

RecoveryInv ==
    /\ RecoveryTypeOK
    /\ OwnNamespace
    /\ ReadsInTurn
    /\ GrowthIsOurs
    /\ NothingShrinks
    /\ SentOrApplied
    /\ OkWasApplied

-----------------------------------------------------------------------------
(* The values the steps move between. *)

(* A read that answered is not an unread one. *)
LEMMA AnsweredIsRead == \A r \in Reading : r # Unread
  <1> SUFFICES ASSUME NEW r \in Reading, r = Unread PROVE FALSE
    OBVIOUS
  <1>1. r.answered = TRUE
    BY DEF Reading
  <1>2. Unread.answered = FALSE
    BY DEF Unread
  <1> QED
    BY <1>1, <1>2

(* A read of the state that is answered says what the state is.            *)
LEMMA SnapshotIsReading ==
  ASSUME WorldOK
  PROVE  /\ Snapshot \in Reading /\ Snapshot # Unread
         /\ Snapshot.store = store /\ Snapshot.foreign = foreign
  <1>1. Snapshot \in Reading
    BY DEF Snapshot, Reading, WorldOK
  <1>2. Snapshot.store = store /\ Snapshot.foreign = foreign
    BY DEF Snapshot
  <1> QED
    BY <1>1, <1>2, AnsweredIsRead

(* Whatever the fault, the caller is told of success only when the target   *)
(* answered with success.                                                   *)
LEMMA OkComesFromTarget ==
  ASSUME NEW fault \in FaultKind \cup {NoFault}, NEW inner \in InnerReply
  PROVE  /\ ResponseTo(fault, inner).ok \in BOOLEAN
         /\ ResponseTo(fault, inner).ok => inner = "ok" /\ Forwards(fault)
  <1> DEFINE reply == InnerResponse(inner)
  <1>0. /\ reply.ok = (inner = "ok")
        /\ DOMAIN reply = {"ok", "delivered", "kind", "closes"}
    BY Zenon DEF InnerResponse
  <1>1. CASE fault = NoFault
    <2>1. ResponseTo(fault, inner) = reply
      BY <1>1 DEF ResponseTo, NoFault, LostReplyFault, RejectingFault
    <2> QED
      BY <1>0, <1>1, <2>1 DEF Forwards, NoFault, RejectingFault
  <1>2. CASE fault = "malformed"
    <2>1. ResponseTo(fault, inner) = Corrupt(reply)
      BY <1>2 DEF ResponseTo, NoFault, LostReplyFault, RejectingFault
    <2>2. Corrupt(reply).ok = FALSE
      BY <1>0 DEF Corrupt
    <2> QED
      BY <2>1, <2>2
  <1>3. CASE fault \in LostReplyFault
    <2>1. ResponseTo(fault, inner) = Lose(reply, fault)
      BY <1>3 DEF ResponseTo, NoFault, LostReplyFault, RejectingFault
    <2>2. Lose(reply, fault).ok = FALSE
      BY <1>0 DEF Lose
    <2> QED
      BY <2>1, <2>2
  <1>4. CASE fault \in RejectingFault
    <2>1. ResponseTo(fault, inner) = Reject(fault)
      BY <1>4 DEF ResponseTo, NoFault, LostReplyFault, RejectingFault
    <2>2. Reject(fault).ok = FALSE
      BY DEF Reject
    <2> QED
      BY <2>1, <2>2
  <1> QED
    BY <1>1, <1>2, <1>3, <1>4 DEF FaultKind

(* Whether a call ran is one of the three things a row can say.            *)
LEMMA ExecutedIsKnown ==
  ASSUME NEW fault, NEW inner
  PROVE  Executed(fault, inner) \in {"yes", "no", "unknown"}
  BY DEF Executed

(* Ids of the two namespaces differ, and operations have ids of their own.  *)
LEMMA IdsApart ==
  /\ \A o \in Operation : Registered(o) \in Id /\ SentId(o) = Registered(o)
  /\ \A o, p \in Operation : Registered(o) = Registered(p) => o = p
  /\ \A o, p \in Operation : Registered(o) # <<"earlier", p>>
  /\ \A o \in Operation : <<"earlier", o>> \in Id
  BY DEF Registered, SentId, Salt, Id

-----------------------------------------------------------------------------
(* The invariant holds at the start and every step keeps it. *)

(* A pass that has not been set up satisfies the invariant.                *)
LEMMA RecoveryInit ==
  ASSUME RecoveryPassAssumption, Init
  PROVE  RecoveryInv
  <1>1. 1 \in Operation
    BY DEF RecoveryPassAssumption, Operation
  <1>2. store \in [Id -> Nat]
    BY DEF Init
  <1>3. \A o \in Operation : traj[o] = << >>
    BY DEF Init
  <1>4. traj \in [Operation -> Seq(Attempt)]
    BY DEF Init
  <1>5. RecoveryTypeOK
    BY <1>1, <1>2, <1>4 DEF Init, RecoveryTypeOK, WorldOK, ScanOK, ReadsOK,
       RecoveryPassAssumption, Phase, NoResponse
  <1>6. OkWasApplied
    BY <1>3 DEF OkWasApplied
  <1> QED
    BY <1>5, <1>6
       DEF Init, RecoveryInv, OwnNamespace, ReadsInTurn, GrowthIsOurs, NothingShrinks, SentOrApplied

(* The target acts on a call: nobody's entries shrink, and an operation's   *)
(* grow by what is counted as the pass's.                                   *)
LEMMA LandKeeps ==
  ASSUME RecoveryInv, NEW call \in flying, Land(call)
  PROVE  RecoveryInv'
  <1> DEFINE was == store[call.id]
             is  == IF idempotent /\ was > 0 THEN was ELSE was + 1
  <1>1. /\ call \in InFlight /\ call.id \in Id /\ call.op \in Operation
        /\ call.attempt \in Nat
    BY DEF RecoveryInv, RecoveryTypeOK, WorldOK, InFlight
  <1>2. was \in Nat /\ is \in Nat /\ is >= was /\ is > 0
    BY <1>1 DEF RecoveryInv, RecoveryTypeOK, WorldOK
  <1>3. /\ flying' = flying \ {call}
        /\ store' = [store EXCEPT ![call.id] = is]
        /\ mine' = IF WindowOpen /\ call.attempt > 0
                   THEN [mine EXCEPT ![call.op] = @ + is - was]
                   ELSE mine
        /\ UNCHANGED <<idempotent, oracle, phase, op, current, last, traj,
                       backoff, before, after, foreign>>
        /\ phase # "done"
    BY DEF Land, fixed, scan, reads, Over
  <1> HIDE DEF is, was
  <1>4. /\ \A id \in Id : id # call.id => store'[id] = store[id]
        /\ store'[call.id] = is
        /\ store' \in [Id -> Nat]
    BY <1>1, <1>2, <1>3 DEF RecoveryInv, RecoveryTypeOK, WorldOK
  <1>5. \A id \in Id : store[id] > 0 => store'[id] > 0
    BY <1>1, <1>2, <1>4 DEF RecoveryInv, RecoveryTypeOK, WorldOK
  <1>6. mine' \in [Operation -> Int]
    BY <1>1, <1>2, <1>3 DEF RecoveryInv, RecoveryTypeOK, WorldOK
  <1>7. RecoveryTypeOK'
    BY <1>3, <1>4, <1>6
       DEF RecoveryInv, RecoveryTypeOK, WorldOK, ScanOK, ReadsOK
  <1>8. OwnNamespace'
    BY <1>3 DEF RecoveryInv, OwnNamespace, Registered
  <1>9. ReadsInTurn'
    BY <1>3 DEF RecoveryInv, ReadsInTurn
  <1>10. GrowthIsOurs'
    <2>1. before = Unread => mine' = mine
      BY <1>3 DEF WindowOpen
    <2>2. after = Unread
      BY <1>3 DEF RecoveryInv, ReadsInTurn
    <2>3. ASSUME before # Unread, NEW o \in Operation
          PROVE  mine'[o] = store'[Registered(o)] - before.store[Registered(o)]
      <3>1. /\ mine[o] = store[Registered(o)] - before.store[Registered(o)]
            /\ before.store[Registered(o)] \in Nat /\ Registered(o) \in Id
            /\ store[Registered(o)] \in Nat
        BY <1>3, <2>2, <2>3, IdsApart
           DEF RecoveryInv, GrowthIsOurs, RecoveryTypeOK, WorldOK, ReadsOK, Reading
      <3>2. CASE call.attempt > 0
        <4>1. mine' = [mine EXCEPT ![call.op] = @ + is - was]
          BY <1>3, <2>2, <2>3, <3>2 DEF WindowOpen
        <4>2. call.id = Registered(call.op)
          BY <3>2 DEF RecoveryInv, OwnNamespace
        <4>3. CASE o = call.op
          <5>1. mine'[o] = mine[o] + is - was /\ store'[Registered(o)] = is
                  /\ was = store[Registered(o)]
            BY <1>4, <4>1, <4>2, <4>3
               DEF RecoveryInv, RecoveryTypeOK, WorldOK, was
          <5> QED
            BY <1>2, <3>1, <5>1
        <4>4. CASE o # call.op
          <5>1. Registered(o) # call.id
            BY <1>1, <4>2, <4>4, IdsApart
          <5>2. mine'[o] = mine[o]
            BY <4>1, <4>4 DEF RecoveryInv, RecoveryTypeOK, WorldOK
          <5> QED
            BY <1>4, <3>1, <5>1, <5>2
        <4> QED
          BY <4>3, <4>4
      <3>3. CASE ~(call.attempt > 0)
        <4>1. Registered(o) # call.id
          BY <1>1, <3>3, IdsApart DEF RecoveryInv, OwnNamespace
        <4> QED
          BY <1>3, <1>4, <3>1, <3>3, <4>1
      <3> QED
        BY <3>2, <3>3
    <2> QED
      BY <1>3, <2>1, <2>3 DEF RecoveryInv, GrowthIsOurs, Registered
  <1>11. SentOrApplied'
    <2>1. SUFFICES ASSUME phase = "upstream"
                   PROVE  Call \in flying' \/ store'[Registered(op)] > 0
      BY <1>3 DEF SentOrApplied, Call, Attempts, Registered, SentId
    <2>2. Call \in flying \/ store[Registered(op)] > 0
      BY <2>1 DEF RecoveryInv, SentOrApplied
    <2>3. op \in Operation /\ Registered(op) \in Id
      BY IdsApart DEF RecoveryInv, RecoveryTypeOK, ScanOK
    <2>4. CASE Call = call
      <3>1. call.id = Registered(op)
        BY <2>3, <2>4, IdsApart DEF Call
      <3> QED
        BY <1>2, <1>4, <3>1
    <2> QED
      BY <1>3, <1>5, <2>2, <2>3, <2>4
  <1>12. OkWasApplied'
    BY <1>3, <1>5, IdsApart DEF RecoveryInv, OkWasApplied, Registered
  <1>13. NothingShrinks'
    <2> SUFFICES ASSUME before # Unread, NEW id \in Id
                 PROVE  before.store[id] <= store'[id]
      BY <1>3 DEF RecoveryInv, NothingShrinks
    <2>1. before.store[id] \in Nat /\ store[id] \in Nat /\ before.store[id] <= store[id]
      BY DEF RecoveryInv, RecoveryTypeOK, WorldOK, ReadsOK, Reading, NothingShrinks
    <2> QED
      BY <1>2, <1>4, <2>1 DEF was
  <1> QED
    BY <1>7, <1>8, <1>9, <1>10, <1>11, <1>12, <1>13 DEF RecoveryInv

(* A step that leaves the target alone and the calls it has. *)
LEMMA OtherWriterKeeps ==
  ASSUME RecoveryInv, OtherWriter
  PROVE  RecoveryInv'
  <1>1. /\ foreign' = foreign + 1 /\ phase # "done"
        /\ UNCHANGED <<idempotent, oracle, phase, op, current, last, traj,
                       backoff, before, after, flying, store, mine>>
    BY DEF OtherWriter, fixed, scan, reads, Over
  <1>2. RecoveryTypeOK'
    BY <1>1 DEF RecoveryInv, RecoveryTypeOK, WorldOK, ScanOK, ReadsOK
  <1>3. NothingShrinks'
    <2>1. before # Unread => before.foreign \in Nat
      BY DEF RecoveryInv, RecoveryTypeOK, ReadsOK, Reading
    <2>2. foreign \in Nat
      BY DEF RecoveryInv, RecoveryTypeOK, WorldOK
    <2> QED
      BY <1>1, <2>1, <2>2 DEF RecoveryInv, NothingShrinks
  <1>4. SentOrApplied'
    BY <1>1 DEF RecoveryInv, SentOrApplied, Call, Attempts, Registered, SentId
  <1> QED
    BY <1>1, <1>2, <1>3, <1>4
       DEF RecoveryInv, OwnNamespace, ReadsInTurn, GrowthIsOurs, OkWasApplied, Registered

-----------------------------------------------------------------------------
(* The scan's own steps. *)

(* The setup, or its refusal of stale state, keeps the invariant.          *)
LEMMA SetupKeeps ==
  ASSUME RecoveryInv, NEW answered \in BOOLEAN, Setup(answered)
  PROVE  RecoveryInv'
  <1>1. /\ phase = "setup" /\ phase' \in {"refused", "earlier"}
        /\ UNCHANGED <<idempotent, oracle, op, current, last, traj, backoff,
                       before, after, flying, store, foreign, mine>>
    BY DEF Setup, fixed, reads, world
  <1>2. RecoveryTypeOK'
    BY <1>1 DEF RecoveryInv, RecoveryTypeOK, WorldOK, ScanOK, ReadsOK, Phase
  <1>3. /\ OwnNamespace' /\ ReadsInTurn' /\ GrowthIsOurs'
    BY <1>1 DEF RecoveryInv, OwnNamespace, ReadsInTurn, GrowthIsOurs, Registered
  <1> QED
    BY <1>1, <1>2, <1>3 DEF RecoveryInv, NothingShrinks, SentOrApplied, OkWasApplied, Registered

(* The earlier phases send under ids of their own, which keeps the         *)
(* invariant.                                                              *)
LEMMA EarlierPhasesKeeps ==
  ASSUME RecoveryPassAssumption, RecoveryInv, EarlierPhases
  PROVE  RecoveryInv'
  <1>1. PICK late \in SUBSET EarlierOps :
          flying' = {[id |-> <<"earlier", o>>, op |-> o, attempt |-> 0] : o \in late}
    BY DEF EarlierPhases
  <1>2. /\ phase = "earlier" /\ phase' = "before"
        /\ UNCHANGED <<idempotent, oracle, op, current, last, traj, backoff,
                       before, after, store, foreign, mine>>
    BY DEF EarlierPhases, fixed, reads
  <1>3. \A call \in flying' : /\ call \in InFlight /\ call.attempt = 0
                              /\ call.id = <<"earlier", call.op>>
    BY <1>1 DEF RecoveryPassAssumption, Operation, InFlight, Id
  <1>4. RecoveryTypeOK'
    BY <1>2, <1>3 DEF RecoveryInv, RecoveryTypeOK, WorldOK, ScanOK, ReadsOK, Phase
  <1>5. OwnNamespace'
    BY <1>3 DEF OwnNamespace
  <1> QED
    BY <1>2, <1>4, <1>5
       DEF RecoveryInv, ReadsInTurn, GrowthIsOurs, NothingShrinks, SentOrApplied, OkWasApplied,
           Registered

(* The window opens on what is there, with nothing of the pass's counted.   *)
LEMMA ReadBeforeKeeps ==
  ASSUME RecoveryInv, NEW answered \in BOOLEAN, ReadBefore(answered)
  PROVE  RecoveryInv'
  <1>1. /\ phase = "before" /\ phase' = "send"
        /\ before' = IF answered THEN Snapshot ELSE Unread
        /\ UNCHANGED <<idempotent, oracle, op, current, last, traj, backoff,
                       after, flying, store, foreign, mine>>
    BY DEF ReadBefore, fixed, world
  <1>2. /\ Snapshot \in Reading /\ Snapshot # Unread
        /\ Snapshot.store = store /\ Snapshot.foreign = foreign
    BY SnapshotIsReading DEF RecoveryInv, RecoveryTypeOK
  <1>3. before' \in Reading \cup {Unread}
    BY <1>1, <1>2
  <1>4. RecoveryTypeOK'
    BY <1>1, <1>3 DEF RecoveryInv, RecoveryTypeOK, WorldOK, ScanOK, ReadsOK, Phase
  <1>5. ReadsInTurn'
    BY <1>1 DEF RecoveryInv, ReadsInTurn
  <1>6. GrowthIsOurs'
    <2>1. \A o \in Operation : mine'[o] = 0
      BY <1>1 DEF RecoveryInv, ReadsInTurn, GrowthIsOurs
    <2>2. ASSUME before' # Unread, NEW o \in Operation
          PROVE  mine'[o] = store'[Registered(o)] - before'.store[Registered(o)]
      <3>1. before'.store = store' /\ store[Registered(o)] \in Nat
        BY <1>1, <1>2, <2>2, IdsApart DEF RecoveryInv, RecoveryTypeOK, WorldOK
      <3> QED
        BY <1>1, <2>1, <3>1
    <2> QED
      BY <1>1, <2>1, <2>2 DEF GrowthIsOurs, Registered
  <1>7. NothingShrinks'
    BY <1>1, <1>2 DEF RecoveryInv, RecoveryTypeOK, WorldOK, NothingShrinks
  <1> QED
    BY <1>1, <1>4, <1>5, <1>6, <1>7
       DEF RecoveryInv, OwnNamespace, SentOrApplied, OkWasApplied, Registered

(* The window closes on what is there; nothing is followed after it.        *)
LEMMA ReadAfterKeeps ==
  ASSUME RecoveryInv, NEW answered \in BOOLEAN, ReadAfter(answered)
  PROVE  RecoveryInv'
  <1>1. /\ phase = "after" /\ phase' = "done"
        /\ after' = IF answered THEN Snapshot ELSE Unread
        /\ UNCHANGED <<idempotent, oracle, op, current, last, traj, backoff,
                       before, flying, store, foreign, mine>>
    BY DEF ReadAfter, fixed, world
  <1>2. /\ Snapshot \in Reading /\ Snapshot # Unread
        /\ Snapshot.store = store /\ Snapshot.foreign = foreign
    BY SnapshotIsReading DEF RecoveryInv, RecoveryTypeOK
  <1>3. after' \in Reading \cup {Unread}
    BY <1>1, <1>2
  <1>4. RecoveryTypeOK'
    BY <1>1, <1>3 DEF RecoveryInv, RecoveryTypeOK, WorldOK, ScanOK, ReadsOK, Phase
  <1>5. ReadsInTurn'
    BY <1>1, <1>2 DEF RecoveryInv, ReadsInTurn
  <1>6. GrowthIsOurs'
    BY <1>1 DEF RecoveryInv, GrowthIsOurs, Registered
  <1> QED
    BY <1>1, <1>4, <1>5, <1>6
       DEF RecoveryInv, OwnNamespace, NothingShrinks, SentOrApplied, OkWasApplied,
           Registered

(* One more attempt in the trajectory of the operation being sent.          *)
LEMMA ObserveKeepsRecord ==
  ASSUME ScanOK, NEW fault \in FaultKind \cup {NoFault}, NEW inner \in InnerReply,
         Observe(fault, inner)
  PROVE  /\ traj' \in [Operation -> Seq(Attempt)]
         /\ \A o \in Operation : \A i \in DOMAIN traj'[o] :
               traj'[o][i].ok =>
                  \/ \E j \in DOMAIN traj[o] : traj[o][j].ok
                  \/ o = op /\ inner = "ok" /\ Forwards(fault)
  <1> DEFINE new == [ok       |-> ResponseTo(fault, inner).ok,
                     executed |-> Executed(fault, inner),
                     args     |-> op]
  <1>1. op \in Operation /\ traj \in [Operation -> Seq(Attempt)]
    BY DEF ScanOK
  <1>2. new \in Attempt
    BY <1>1, OkComesFromTarget, ExecutedIsKnown DEF Attempt
  <1>3. new.ok => inner = "ok" /\ Forwards(fault)
    BY OkComesFromTarget
  <1>4. traj' = [traj EXCEPT ![op] = Append(@, new)]
    BY DEF Observe
  <1> HIDE DEF new
  <1>5. /\ traj'[op] = Append(traj[op], new)
        /\ \A o \in Operation : o # op => traj'[o] = traj[o]
    BY <1>1, <1>4
  <1>6. /\ Append(traj[op], new) \in Seq(Attempt)
        /\ Len(Append(traj[op], new)) = Len(traj[op]) + 1
        /\ \A i \in 1..Len(traj[op]) : Append(traj[op], new)[i] = traj[op][i]
        /\ Append(traj[op], new)[Len(traj[op]) + 1] = new
    BY <1>1, <1>2, AppendProperties
  <1>7. traj' \in [Operation -> Seq(Attempt)]
    BY <1>1, <1>4, <1>6
  <1>8. ASSUME NEW o \in Operation, NEW i \in DOMAIN traj'[o], traj'[o][i].ok
        PROVE  \/ \E j \in DOMAIN traj[o] : traj[o][j].ok
               \/ o = op /\ inner = "ok" /\ Forwards(fault)
    <2>1. CASE o # op
      BY <1>5, <1>8, <2>1
    <2>2. CASE o = op /\ i \in 1..Len(traj[op])
      <3>1. traj[o][i].ok /\ i \in DOMAIN traj[o]
        BY <1>1, <1>5, <1>6, <1>8, <2>2
      <3> QED
        BY <3>1
    <2>3. CASE o = op /\ i \notin 1..Len(traj[op])
      <3>1. Len(traj[op]) \in Nat /\ DOMAIN traj'[o] = 1..(Len(traj[op]) + 1)
        BY <1>1, <1>5, <1>6, <2>3
      <3>2. i = Len(traj[op]) + 1
        BY <1>8, <2>3, <3>1
      <3> QED
        BY <1>3, <1>5, <1>6, <1>8, <2>3, <3>2
    <2> QED
      BY <2>1, <2>2, <2>3
  <1> QED
    BY <1>7, <1>8

(* A call that is rejected reaches nobody, which keeps the invariant.      *)
LEMMA Reject1Keeps ==
  ASSUME RecoveryPassAssumption, RecoveryInv,
         NEW fault \in Kinds \cup {NoFault}, Reject1(fault)
  PROVE  RecoveryInv'
  <1>0. fault \in FaultKind \cup {NoFault} /\ "ok" \in InnerReply
    BY DEF RecoveryPassAssumption, InnerReply
  <1>1. /\ phase = "send" /\ ~Forwards(fault) /\ phase' = "settle"
        /\ Observe(fault, "ok") /\ last' = Seen(fault, "ok", FALSE, NoHint)
        /\ UNCHANGED <<idempotent, oracle, op, current, backoff,
                       before, after, flying, store, foreign, mine>>
    BY DEF Reject1, fixed, reads, world
  <1>2. /\ traj' \in [Operation -> Seq(Attempt)]
        /\ \A o \in Operation : \A i \in DOMAIN traj'[o] :
              traj'[o][i].ok => \E j \in DOMAIN traj[o] : traj[o][j].ok
    BY <1>0, <1>1, ObserveKeepsRecord DEF RecoveryInv, RecoveryTypeOK
  <1>3. last'.ok \in BOOLEAN
    BY <1>0, <1>1, OkComesFromTarget DEF Seen
  <1>4. RecoveryTypeOK'
    BY <1>1, <1>2, <1>3 DEF RecoveryInv, RecoveryTypeOK, WorldOK, ScanOK, ReadsOK, Phase
  <1>5. OkWasApplied'
    BY <1>1, <1>2 DEF RecoveryInv, OkWasApplied, Registered
  <1> QED
    BY <1>1, <1>4, <1>5
       DEF RecoveryInv, OwnNamespace, ReadsInTurn, GrowthIsOurs, NothingShrinks, SentOrApplied, Registered

(* A call is forwarded under its salted id, which keeps the invariant.     *)
LEMMA ForwardKeeps ==
  ASSUME RecoveryPassAssumption, RecoveryInv,
         NEW fault \in Kinds \cup {NoFault}, Forward(fault)
  PROVE  RecoveryInv'
  <1>0. fault \in FaultKind \cup {NoFault} /\ op \in Operation
    BY DEF RecoveryPassAssumption, RecoveryInv, RecoveryTypeOK, ScanOK
  <1>1. /\ phase = "send" /\ phase' = "upstream" /\ current' = fault
        /\ flying' = flying \cup {Call}
        /\ UNCHANGED <<idempotent, oracle, op, last, traj, backoff,
                       before, after, store, foreign, mine>>
    BY DEF Forward, fixed, reads
  <1>2. Len(traj[op]) \in Nat
    BY <1>0 DEF RecoveryInv, RecoveryTypeOK, ScanOK
  <1>3. Call \in InFlight /\ Call.attempt > 0 /\ Call.id = Registered(op) /\ Call.op = op
    BY <1>0, <1>2, IdsApart DEF Call, InFlight, Attempts
  <1>4. RecoveryTypeOK'
    BY <1>0, <1>1, <1>3 DEF RecoveryInv, RecoveryTypeOK, WorldOK, ScanOK, ReadsOK, Phase
  <1>5. OwnNamespace'
    <2> SUFFICES ASSUME NEW call \in flying'
                 PROVE  call.id = IF call.attempt > 0 THEN Registered(call.op)
                                  ELSE <<"earlier", call.op>>
      BY DEF OwnNamespace, Registered
    <2>1. CASE call \in flying
      BY <2>1 DEF RecoveryInv, OwnNamespace
    <2>2. CASE call = Call
      BY <1>3, <2>2
    <2> QED
      BY <1>1, <2>1, <2>2
  <1>6. Call' = Call
    BY <1>1 DEF Call, Attempts, SentId
  <1>7. SentOrApplied'
    BY <1>1, <1>6 DEF SentOrApplied
  <1> QED
    BY <1>1, <1>4, <1>5, <1>7
       DEF RecoveryInv, ReadsInTurn, GrowthIsOurs, NothingShrinks, OkWasApplied, Registered

(* A success comes back only for a call the target has acted on.            *)
LEMMA ReturnKeeps ==
  ASSUME RecoveryPassAssumption, RecoveryInv,
         NEW inner \in InnerReply, NEW limited \in BOOLEAN,
         NEW hint \in Hints \cup {NoHint}, Return(inner, limited, hint)
  PROVE  RecoveryInv'
  <1>1. /\ phase = "upstream" /\ phase' = "settle" /\ current' = NoFault
        /\ inner = "ok" => Call \notin flying
        /\ Observe(current, inner) /\ last' = Seen(current, inner, limited, hint)
        /\ UNCHANGED <<idempotent, oracle, op, backoff,
                       before, after, flying, store, foreign, mine>>
    BY DEF Return, fixed, reads, world
  <1>2. current \in FaultKind \cup {NoFault}
    BY DEF RecoveryInv, RecoveryTypeOK, ScanOK
  <1>3. /\ traj' \in [Operation -> Seq(Attempt)]
        /\ \A o \in Operation : \A i \in DOMAIN traj'[o] :
              traj'[o][i].ok =>
                 \/ \E j \in DOMAIN traj[o] : traj[o][j].ok
                 \/ o = op /\ inner = "ok"
    BY <1>1, <1>2, ObserveKeepsRecord DEF RecoveryInv, RecoveryTypeOK
  <1>4. last'.ok \in BOOLEAN
    BY <1>1, <1>2, OkComesFromTarget DEF Seen
  <1>5. RecoveryTypeOK'
    BY <1>1, <1>3, <1>4 DEF RecoveryInv, RecoveryTypeOK, WorldOK, ScanOK, ReadsOK, Phase
  <1>6. inner = "ok" => store[Registered(op)] > 0
    BY <1>1 DEF RecoveryInv, SentOrApplied
  <1>7. OkWasApplied'
    BY <1>1, <1>3, <1>6 DEF RecoveryInv, OkWasApplied, Registered
  <1> QED
    BY <1>1, <1>5, <1>7
       DEF RecoveryInv, OwnNamespace, ReadsInTurn, GrowthIsOurs, NothingShrinks, SentOrApplied, Registered

(* The bottom of the retry loop, its wait and its budget, keeps the        *)
(* invariant.                                                              *)
LEMMA SettleKeeps ==
  ASSUME RecoveryPassAssumption, RecoveryInv, Settle
  PROVE  RecoveryInv'
  <1>1. /\ phase = "settle" /\ phase' \in {"after", "send"}
        /\ op' = IF Leaves /\ op < Ops THEN op + 1 ELSE op
        /\ last' = NoResponse
        /\ UNCHANGED <<idempotent, oracle, current, traj,
                       before, after, flying, store, foreign, mine>>
    BY DEF Settle, fixed, reads, world
  <1>2. op' \in Operation
    BY <1>1 DEF RecoveryInv, RecoveryTypeOK, ScanOK, Operation, RecoveryPassAssumption
  <1>3. RecoveryTypeOK'
    BY <1>1, <1>2 DEF RecoveryInv, RecoveryTypeOK, WorldOK, ScanOK, ReadsOK, Phase, NoResponse
  <1> QED
    BY <1>1, <1>3
       DEF RecoveryInv, OwnNamespace, ReadsInTurn, GrowthIsOurs, NothingShrinks, SentOrApplied,
           OkWasApplied, Registered

(* The invariant survives every step of the pass, the target and other     *)
(* writers.                                                                *)
LEMMA RecoveryStep ==
  ASSUME RecoveryPassAssumption, RecoveryInv, [Next]_vars
  PROVE  RecoveryInv'
  <1>1. CASE ScanStep
    BY <1>1, SetupKeeps, EarlierPhasesKeeps, ReadBeforeKeeps, ReadAfterKeeps,
       Reject1Keeps, ForwardKeeps, ReturnKeeps, SettleKeeps
       DEF ScanStep
  <1>2. CASE \E call \in flying : Land(call)
    BY <1>2, LandKeeps
  <1>3. CASE OtherWriter
    BY <1>3, OtherWriterKeeps
  <1>4. CASE UNCHANGED vars
    BY <1>4 DEF vars, fixed, scan, reads, world, RecoveryInv, RecoveryTypeOK,
         WorldOK, ScanOK, ReadsOK, OwnNamespace, ReadsInTurn, GrowthIsOurs,
         NothingShrinks, SentOrApplied, OkWasApplied, Call, Attempts, Registered, SentId
  <1> QED
    BY <1>1, <1>2, <1>3, <1>4 DEF Next

-----------------------------------------------------------------------------
(* The invariant holds of every behaviour: the reads are made in their turn, *)
(* an operation's entries grow by what this pass's calls added, and success  *)
(* is reported for what was applied (fault.FaultInjector._recovery_pass).   *)
THEOREM RecoveryInvCorrect ==
  ASSUME RecoveryPassAssumption
  PROVE  Spec => []RecoveryInv
  <1>1. Init => RecoveryInv
    BY RecoveryInit
  <1>2. RecoveryInv /\ [Next]_vars => RecoveryInv'
    BY RecoveryStep
  <1> QED
    BY <1>1, <1>2, PTL DEF Spec

(* The effects counted for an operation are those of this pass's attempts at *)
(* it that landed in the window, and nobody else's.                         *)
THEOREM DuplicatesAreOursAlways ==
  ASSUME RecoveryPassAssumption
  PROVE  Spec => []DuplicatesAreOurs
  <1>1. ASSUME RecoveryInv PROVE DuplicatesAreOurs
    <2> SUFFICES ASSUME Scored, NEW o \in Operation
                 PROVE  EffectsByOp[o] = mine[o]
      BY DEF DuplicatesAreOurs
    <2>1. before # Unread /\ after # Unread
      BY DEF Scored, Status
    <2> QED
      BY <1>1, <2>1 DEF EffectsByOp, RecoveryInv, ReadsInTurn, GrowthIsOurs
  <1> QED
    BY <1>1, RecoveryInvCorrect, PTL

(* An operation the caller was told succeeded is never counted as lost: a   *)
(* success is of a call that was applied, and a window that is scored       *)
(* opened on none of the pass's entries.                                    *)
THEOREM NoFalseLossAlways ==
  ASSUME RecoveryPassAssumption
  PROVE  Spec => []NoFalseLoss
  <1>1. ASSUME RecoveryInv PROVE NoFalseLoss
    <2> SUFFICES ASSUME Scored PROVE LostEffects = 0
      BY DEF NoFalseLoss
    <2>1. /\ before # Unread /\ after # Unread /\ phase = "done"
          /\ ~StaleIn(before.store)
      BY DEF Scored, Status
    <2>2. ASSUME NEW o \in Operation, EffectsByOp[o] = 0,
                 NEW i \in DOMAIN traj[o], traj[o][i].ok
          PROVE  FALSE
      <3>1. store[Registered(o)] > 0 /\ after.store = store
        BY <1>1, <2>1, <2>2 DEF RecoveryInv, OkWasApplied, ReadsInTurn
      <3>2. /\ before.store[Registered(o)] \in Nat /\ store[Registered(o)] \in Nat
            /\ ~(before.store[Registered(o)] > 0)
        BY <1>1, <2>1, IdsApart
           DEF RecoveryInv, RecoveryTypeOK, ReadsOK, Reading, WorldOK, StaleIn
      <3> QED
        BY <2>2, <3>1, <3>2 DEF EffectsByOp
    <2>3. {o \in Operation :
             EffectsByOp[o] = 0 /\ \E i \in DOMAIN traj[o] : traj[o][i].ok} = {}
      BY <2>2
    <2> QED
      BY <2>3, FS_EmptySet DEF LostEffects
  <1> QED
    BY <1>1, RecoveryInvCorrect, PTL
-----------------------------------------------------------------------------
(* The accounts of a window. *)

RegisteredIds == {Registered(o) : o \in Operation}

OperationsAreFinite ==
    IsFiniteSet(Operation) /\ IsFiniteSet(Id) /\ IsFiniteSet(RegisteredIds)

(* There are finitely many operations, so their effects can be added up.   *)
LEMMA IdsFinite ==
  ASSUME RecoveryPassAssumption
  PROVE  OperationsAreFinite
  <1>1. IsFiniteSet(Operation)
    BY FS_Interval DEF RecoveryPassAssumption, Operation
  <1>2. IsFiniteSet({"earlier", "recovery"})
    <2>1. /\ IsFiniteSet({"earlier"}) /\ IsFiniteSet({"recovery"})
      BY FS_Singleton
    <2>2. {"earlier", "recovery"} = {"earlier"} \cup {"recovery"}
      OBVIOUS
    <2>3. IsFiniteSet({"earlier"} \cup {"recovery"})
      BY <2>1, FS_Union
    <2> QED
      BY <2>2, <2>3
  <1>3. IsFiniteSet(Id)
    BY <1>1, <1>2, FS_Product DEF Id
  <1>4. RegisteredIds \in SUBSET Id
    BY IdsApart DEF RegisteredIds
  <1>5. IsFiniteSet(RegisteredIds)
    BY <1>3, <1>4, FS_Subset
  <1> QED
    BY <1>1, <1>3, <1>5 DEF OperationsAreFinite

(* What a read holds: other writers' entries, the registered ids', the rest's. *)
LEMMA ReadingSplits ==
  ASSUME OperationsAreFinite, NEW read \in Reading
  PROVE  /\ SumOf(read.store, RegisteredIds) \in Int
         /\ SumOf(read.store, Id \ RegisteredIds) \in Int
         /\ NotRegistered(read) = read.foreign + SumOf(read.store, Id \ RegisteredIds)
         /\ Entries(read) = read.foreign + SumOf(read.store, Id)
         /\ SumOf(read.store, Id) = SumOf(read.store, RegisteredIds)
                                      + SumOf(read.store, Id \ RegisteredIds)
  <1>1. \A id \in Id : read.store[id] \in Int
    BY DEF Reading
  <1>2. RegisteredIds \in SUBSET Id
    BY IdsApart DEF RegisteredIds
  <1>3. /\ IsFiniteSet(RegisteredIds) /\ IsFiniteSet(Id \ RegisteredIds)
    BY FS_Subset DEF OperationsAreFinite
  <1>4. /\ RegisteredIds \cap (Id \ RegisteredIds) = {}
        /\ RegisteredIds \cup (Id \ RegisteredIds) = Id
    BY <1>2
  <1>5. /\ SumOf(read.store, RegisteredIds) \in Int
        /\ SumOf(read.store, Id \ RegisteredIds) \in Int
    <2>1. /\ \A id \in RegisteredIds : read.store[id] \in Int
          /\ \A id \in Id \ RegisteredIds : read.store[id] \in Int
      BY <1>1, <1>2
    <2> QED
      BY <1>3, <2>1, SumIsInt
  <1>6. SumOf(read.store, Id) = SumOf(read.store, RegisteredIds)
                                  + SumOf(read.store, Id \ RegisteredIds)
    <2>1. \A id \in RegisteredIds \cup (Id \ RegisteredIds) : read.store[id] \in Int
      BY <1>1, <1>4
    <2>2. SumOf(read.store, RegisteredIds \cup (Id \ RegisteredIds))
            = SumOf(read.store, RegisteredIds) + SumOf(read.store, Id \ RegisteredIds)
      BY <1>3, <1>4, <2>1, SumDisjoint
    <2> QED
      BY <1>4, <2>2
  <1>7. NotRegistered(read) = read.foreign + SumOf(read.store, Id \ RegisteredIds)
    BY DEF NotRegistered, SumOf, RegisteredIds
  <1>8. Entries(read) = read.foreign + SumOf(read.store, Id)
    BY DEF Entries, SumOf
  <1> QED
    BY <1>5, <1>6, <1>7, <1>8

(* The growth of the registered ids is the sum of the effects by operation. *)
LEMMA EffectsAddUp ==
  ASSUME OperationsAreFinite, before \in Reading, after \in Reading
  PROVE  SumOf(EffectsByOp, Operation)
           = SumOf(after.store, RegisteredIds) - SumOf(before.store, RegisteredIds)
  <1> DEFINE h == [o \in Operation |-> Registered(o)]
             a == [o \in Operation |-> after.store[Registered(o)]]
             b == [o \in Operation |-> before.store[Registered(o)]]
  <1>1. /\ IsFiniteSet(Operation) /\ IsFiniteSet(RegisteredIds)
        /\ h \in [Operation -> RegisteredIds]
        /\ \A o, p \in Operation : h[o] = h[p] => o = p
        /\ \A id \in RegisteredIds : \E o \in Operation : h[o] = id
    BY IdsApart DEF OperationsAreFinite, RegisteredIds
  <1>2. \A id \in RegisteredIds : after.store[id] \in Int /\ before.store[id] \in Int
    BY IdsApart DEF RegisteredIds, Reading
  <1>3. /\ \A o \in Operation : a[o] = after.store[h[o]]
        /\ \A o \in Operation : b[o] = before.store[h[o]]
    OBVIOUS
  <1>4. \A o \in Operation : /\ a[o] \in Int /\ b[o] \in Int
                             /\ EffectsByOp[o] = a[o] - b[o]
    BY <1>1, <1>2, <1>3 DEF EffectsByOp
  <1> HIDE DEF h, a, b
  <1>5. SumOf(a, Operation) = SumOf(after.store, RegisteredIds)
    BY <1>1, <1>2, <1>3, SumRenamed
  <1>6. SumOf(b, Operation) = SumOf(before.store, RegisteredIds)
    BY <1>1, <1>2, <1>3, SumRenamed
  <1>7. SumOf(EffectsByOp, Operation) = SumOf(a, Operation) - SumOf(b, Operation)
    BY <1>1, <1>4, SumMinus
  <1> QED
    BY <1>5, <1>6, <1>7
(* Every entry of a scored window is counted once: as an effect of one       *)
(* registered operation, or as unattributed (fault._EffectOracle.metrics).  *)
THEOREM AccountsBalanceAlways ==
  ASSUME RecoveryPassAssumption
  PROVE  Spec => []AccountsBalance
  <1>1. ASSUME RecoveryInv PROVE AccountsBalance
    <2> SUFFICES ASSUME Scored
                 PROVE  SumOf(EffectsByOp, Operation) + Unattributed
                          = Entries(after) - Entries(before)
      BY DEF AccountsBalance, SumOf
    <2>1. /\ before \in Reading /\ after \in Reading
          /\ before.foreign <= after.foreign
          /\ \A id \in Id : before.store[id] <= after.store[id]
      BY <1>1, AnsweredIsRead
         DEF Scored, Status, RecoveryInv, RecoveryTypeOK, ReadsOK, ReadsInTurn, NothingShrinks
    <2>2. OperationsAreFinite
      BY IdsFinite
    <2> DEFINE Rest == Id \ RegisteredIds
               aReg == SumOf(after.store, RegisteredIds)
               bReg == SumOf(before.store, RegisteredIds)
               aRest == SumOf(after.store, Rest)
               bRest == SumOf(before.store, Rest)
    <2>3. /\ aReg \in Int /\ aRest \in Int
          /\ NotRegistered(after) = after.foreign + aRest
          /\ Entries(after) = after.foreign + (aReg + aRest)
      BY <2>1, <2>2, ReadingSplits
    <2>4. /\ bReg \in Int /\ bRest \in Int
          /\ NotRegistered(before) = before.foreign + bRest
          /\ Entries(before) = before.foreign + (bReg + bRest)
      BY <2>1, <2>2, ReadingSplits
    <2>5. SumOf(EffectsByOp, Operation) = aReg - bReg
      BY <2>1, <2>2, EffectsAddUp
    <2>6. bRest <= aRest
      <3>1. IsFiniteSet(Rest)
        BY <2>2, FS_Subset DEF OperationsAreFinite
      <3>2. \A id \in Rest : /\ before.store[id] \in Int /\ after.store[id] \in Int
                             /\ before.store[id] <= after.store[id]
        BY <2>1 DEF Reading
      <3> HIDE DEF Rest
      <3> QED
        BY <3>1, <3>2, SumMonotone
    <2>7. before.foreign \in Int /\ after.foreign \in Int
      BY <2>1 DEF Reading
    <2> HIDE DEF Rest, aReg, bReg, aRest, bRest
    <2>8. /\ NotRegistered(after) - NotRegistered(before) \in Int
          /\ NotRegistered(after) - NotRegistered(before) >= 0
      BY <2>1, <2>3, <2>4, <2>6, <2>7
    <2>9. Unattributed = NotRegistered(after) - NotRegistered(before)
      BY <2>8 DEF Unattributed, Max
    <2> QED
      BY <2>3, <2>4, <2>5, <2>7, <2>9
  <1> QED
    BY <1>1, RecoveryInvCorrect, PTL

-----------------------------------------------------------------------------
(* How much the pass still has to do: three steps for each attempt that is *)
(* left to this operation and to the ones after it.                        *)
NotBegun == {"setup", "refused", "earlier", "before"}

AttemptsTaken ==
    /\ phase \in NotBegun => op = 1
    /\ \A o \in Operation :
          /\ Len(traj[o]) <= MaxRetries + 1
          /\ o > op \/ phase \in NotBegun => Len(traj[o]) = 0
    /\ phase \in {"send", "upstream"} => Len(traj[op]) <= MaxRetries

Loops(o, taken) == 3 * (MaxRetries + 1) * (Ops - o) + 3 * (MaxRetries + 1 - taken)

StepsAt(at, o, taken) ==
    CASE at \in {"done", "refused"} -> 0
      [] at = "after"    -> 1
      [] at = "settle"   -> Loops(o, taken) + 3
      [] at = "send"     -> Loops(o, taken) + 2
      [] at = "upstream" -> Loops(o, taken) + 1
      [] at = "before"   -> Loops(1, 0) + 3
      [] at = "earlier"  -> Loops(1, 0) + 4
      [] at = "setup"    -> Loops(1, 0) + 5

StepsLeft == StepsAt(phase, op, Len(traj[op]))

(* An attempt more is three steps less, and the next operation starts with *)
(* no more than the last one's end.                                        *)
LEMMA LoopsFall ==
  ASSUME RecoveryPassAssumption, NEW o \in Operation, NEW taken \in 0..(MaxRetries + 1)
  PROVE  /\ Loops(o, taken) \in Nat
         /\ taken <= MaxRetries => Loops(o, taken + 1) = Loops(o, taken) - 3
         /\ o < Ops => Loops(o + 1, 0) <= Loops(o, taken)
  <1> DEFINE c == 3 * (MaxRetries + 1)
             m == Ops - o
  <1>1. c \in Nat /\ m \in Nat /\ MaxRetries \in Nat /\ (o < Ops => m - 1 \in Nat)
    BY DEF RecoveryPassAssumption, Operation
  <1>2. \A a, b \in Nat : b * a \in Nat /\ b * (a - 1) = b * a - b
    OBVIOUS
  <1>3. Loops(o, taken) = c * m + 3 * (MaxRetries + 1 - taken)
    BY DEF Loops
  <1>4. Loops(o, taken + 1) = c * m + 3 * (MaxRetries + 1 - (taken + 1))
    BY DEF Loops
  <1>5. o < Ops => Loops(o + 1, 0) = c * (m - 1) + c
    <2>1. Ops - (o + 1) = m - 1 /\ 3 * (MaxRetries + 1 - 0) = c
      BY <1>1 DEF RecoveryPassAssumption, Operation
    <2>2. Loops(o + 1, 0) = c * (Ops - (o + 1)) + 3 * (MaxRetries + 1 - 0)
      BY DEF Loops
    <2> HIDE DEF c, m
    <2> QED BY <2>1, <2>2
  <1> HIDE DEF c, m
  <1>6. c * m \in Nat /\ c * (m - 1) = c * m - c
    BY <1>1, <1>2
  <1>7. /\ 3 * (MaxRetries + 1 - taken) \in Nat
        /\ taken <= MaxRetries => 3 * (MaxRetries + 1 - (taken + 1)) = 3 * (MaxRetries + 1 - taken) - 3
    BY <1>1
  <1> DEFINE rest == c * m
             next == c * (m - 1)
  <1>8. rest \in Nat /\ next = rest - c
    BY <1>6
  <1> HIDE DEF rest, next
  <1>9. o < Ops => next + c <= rest + 3 * (MaxRetries + 1 - taken)
    BY <1>1, <1>7, <1>8
  <1> QED
    BY <1>3, <1>4, <1>5, <1>7, <1>8, <1>9 DEF rest, next

(* An attempt that was observed is one more of its operation.              *)
LEMMA ObserveCounts ==
  ASSUME ScanOK, NEW fault \in FaultKind \cup {NoFault}, NEW inner \in InnerReply,
         Observe(fault, inner)
  PROVE  /\ Len(traj'[op]) = Len(traj[op]) + 1
         /\ \A o \in Operation : o # op => traj'[o] = traj[o]
  <1> DEFINE new == [ok       |-> ResponseTo(fault, inner).ok,
                     executed |-> Executed(fault, inner),
                     args     |-> op]
  <1>1. op \in Operation /\ traj \in [Operation -> Seq(Attempt)]
    BY DEF ScanOK
  <1>2. new \in Attempt
    BY <1>1, OkComesFromTarget, ExecutedIsKnown DEF Attempt
  <1>3. traj' = [traj EXCEPT ![op] = Append(@, new)]
    BY DEF Observe
  <1> HIDE DEF new
  <1>4. /\ traj'[op] = Append(traj[op], new)
        /\ \A o \in Operation : o # op => traj'[o] = traj[o]
    BY <1>1, <1>3
  <1>5. Len(Append(traj[op], new)) = Len(traj[op]) + 1
    BY <1>1, <1>2, AppendProperties
  <1> QED
    BY <1>4, <1>5

(* An attempt made is counted, and leaves no more than are allowed.        *)
LEMMA AttemptCounted ==
  ASSUME RecoveryPassAssumption, RecoveryTypeOK, AttemptsTaken,
         NEW fault \in FaultKind \cup {NoFault}, NEW inner \in InnerReply,
         Observe(fault, inner), phase \in {"send", "upstream"}, phase' = "settle", op' = op
  PROVE  AttemptsTaken' /\ StepsLeft' \in Nat /\ StepsLeft' < StepsLeft
  <1> DEFINE n == Len(traj[op])
  <1>1. /\ Len(traj'[op]) = n + 1
        /\ \A o \in Operation : o # op => traj'[o] = traj[o]
    BY ObserveCounts DEF RecoveryTypeOK
  <1>2. op \in Operation /\ n \in Nat /\ n <= MaxRetries /\ MaxRetries \in Nat /\ Operation \subseteq Nat
    BY LenProperties DEF RecoveryTypeOK, ScanOK, AttemptsTaken, RecoveryPassAssumption, Operation
  <1>3. AttemptsTaken'
    <2>1. \A o \in Operation : /\ Len(traj'[o]) <= MaxRetries + 1
                               /\ o > op => Len(traj'[o]) = 0
      BY <1>1, <1>2 DEF AttemptsTaken
    <2> QED BY <2>1 DEF AttemptsTaken, NotBegun
  <1>4. n \in 0..(MaxRetries + 1)
    BY <1>2
  <1> HIDE DEF n
  <1>5. Loops(op, n) \in Nat /\ Loops(op, n + 1) = Loops(op, n) - 3 /\ Loops(op, n + 1) \in Nat
    <2>1. n + 1 \in 0..(MaxRetries + 1)
      BY <1>2
    <2> QED BY <1>2, <1>4, <2>1, LoopsFall
  <1>6. StepsLeft' = Loops(op, n + 1) + 3
    BY <1>1 DEF StepsLeft, StepsAt, Loops
  <1>7. StepsLeft \in {Loops(op, n) + 2, Loops(op, n) + 1}
    BY DEF StepsLeft, StepsAt, n
  <1> QED
    BY <1>3, <1>5, <1>6, <1>7

(* Every step of the scan uses up some of what it has left, and nothing    *)
(* else touches it.                                                        *)
LEMMA PassStep ==
  ASSUME RecoveryPassAssumption, RecoveryTypeOK, AttemptsTaken, Next
  PROVE  /\ AttemptsTaken' /\ StepsLeft' \in Nat
         /\ IF ScanStep THEN StepsLeft' < StepsLeft ELSE StepsLeft' = StepsLeft
  <1> DEFINE n == Len(traj[op])
  <1>1. /\ op \in Operation /\ phase \in Phase /\ MaxRetries \in Nat /\ Ops \in Nat /\ Ops >= 1
        /\ Operation = 1..Ops /\ \A o \in Operation : Len(traj[o]) \in Nat
    BY LenProperties DEF RecoveryTypeOK, ScanOK, RecoveryPassAssumption, Operation
  <1>2. n \in 0..(MaxRetries + 1) /\ 0 \in 0..(MaxRetries + 1) /\ 1 \in Operation
    BY <1>1 DEF AttemptsTaken
  <1> HIDE DEF n
  <1>3. Loops(op, n) \in Nat /\ Loops(1, 0) \in Nat /\ Loops(op, 0) \in Nat
    BY <1>1, <1>2, LoopsFall
  <1>4. StepsLeft \in Nat
    <2> DEFINE here == Loops(op, n)
               begin == Loops(1, 0)
    <2>1. StepsLeft = StepsAt(phase, op, n)
      BY DEF StepsLeft, n
    <2>2. begin \in Nat /\ here \in Nat
      BY <1>3
    <2>3. StepsAt(phase, op, n) \in {0, 1, here + 3, here + 2, here + 1, begin + 3, begin + 4, begin + 5}
      <3> HIDE DEF here, begin
      <3>1. CASE phase = "setup"
        BY <3>1 DEF StepsAt, begin
      <3>2. CASE phase = "earlier"
        BY <3>2 DEF StepsAt, begin
      <3>3. CASE phase = "before"
        BY <3>3 DEF StepsAt, begin
      <3>4. CASE phase \in {"send", "upstream", "settle"}
        BY <3>4 DEF StepsAt, here
      <3>5. CASE phase \in {"after", "done", "refused"}
        BY <3>5 DEF StepsAt
      <3> QED BY <1>1, <3>1, <3>2, <3>3, <3>4, <3>5 DEF Phase
    <2> HIDE DEF here, begin
    <2> QED BY <2>1, <2>2, <2>3
  <1>5. ASSUME ScanStep
        PROVE  AttemptsTaken' /\ StepsLeft' \in Nat /\ StepsLeft' < StepsLeft
    <2>1. ASSUME NEW fault \in Kinds \cup {NoFault}, Reject1(fault)
          PROVE  AttemptsTaken' /\ StepsLeft' \in Nat /\ StepsLeft' < StepsLeft
      <3>1. /\ Observe(fault, "ok") /\ phase = "send" /\ phase' = "settle" /\ op' = op
            /\ fault \in FaultKind \cup {NoFault} /\ "ok" \in InnerReply
        BY <2>1 DEF Reject1, RecoveryPassAssumption, InnerReply
      <3> QED BY <3>1, AttemptCounted
    <2>2. ASSUME NEW inner \in InnerReply, NEW limited \in BOOLEAN, NEW hint \in Hints \cup {NoHint},
                 Return(inner, limited, hint)
          PROVE  AttemptsTaken' /\ StepsLeft' \in Nat /\ StepsLeft' < StepsLeft
      <3>1. /\ Observe(current, inner) /\ phase = "upstream" /\ phase' = "settle" /\ op' = op
            /\ current \in FaultKind \cup {NoFault}
        BY <2>2 DEF Return, RecoveryTypeOK, ScanOK
      <3> QED BY <3>1, AttemptCounted
    <2>3. ASSUME NEW fault \in Kinds \cup {NoFault}, Forward(fault)
          PROVE  AttemptsTaken' /\ StepsLeft' \in Nat /\ StepsLeft' < StepsLeft
      <3>1. phase = "send" /\ phase' = "upstream" /\ op' = op /\ traj' = traj
        BY <2>3 DEF Forward
      <3>2. StepsLeft = Loops(op, n) + 2 /\ StepsLeft' = Loops(op, n) + 1
        BY <3>1 DEF StepsLeft, StepsAt, n, Loops
      <3>3. AttemptsTaken'
        BY <3>1 DEF AttemptsTaken, NotBegun
      <3> QED BY <1>3, <3>2, <3>3
    <2>4. CASE Settle
      <3>1. /\ phase = "settle" /\ traj' = traj
            /\ phase' = IF Leaves /\ op = Ops THEN "after" ELSE "send"
            /\ op' = IF Leaves /\ op < Ops THEN op + 1 ELSE op
        BY <2>4 DEF Settle
      <3>2. StepsLeft = Loops(op, n) + 3
        BY <3>1 DEF StepsLeft, StepsAt, n
      <3>3. CASE Leaves /\ op = Ops
        <4>1. phase' = "after" /\ op' = op
          BY <1>1, <3>1, <3>3
        <4>2. StepsLeft' = 1
          BY <4>1 DEF StepsLeft, StepsAt
        <4>3. AttemptsTaken'
          BY <3>1, <4>1 DEF AttemptsTaken, NotBegun
        <4> QED BY <1>3, <3>2, <4>2, <4>3
      <3>4. CASE Leaves /\ op < Ops
        <4>1. /\ phase' = "send" /\ op' = op + 1 /\ op + 1 \in Operation /\ op + 1 > op
              /\ \A o \in Operation : o > op + 1 => o > op
          BY <1>1, <3>1, <3>4
        <4>2. Len(traj[op + 1]) = 0
          BY <4>1 DEF AttemptsTaken
        <4>3. StepsLeft' = Loops(op + 1, 0) + 2
          BY <3>1, <4>1, <4>2 DEF StepsLeft, StepsAt, Loops
        <4>4. Loops(op + 1, 0) <= Loops(op, n) /\ Loops(op + 1, 0) \in Nat
          BY <1>1, <1>2, <3>4, <4>1, LoopsFall
        <4>5. AttemptsTaken'
          BY <1>1, <3>1, <4>1, <4>2 DEF AttemptsTaken, NotBegun
        <4> QED BY <1>3, <3>2, <4>3, <4>4, <4>5
      <3>5. CASE ~Leaves
        <4>1. phase' = "send" /\ op' = op
          BY <3>1, <3>5
        <4>2. StepsLeft' = Loops(op, n) + 2
          BY <3>1, <4>1 DEF StepsLeft, StepsAt, n, Loops
        <4>3. n <= MaxRetries
          BY <1>1, <1>2, <3>5 DEF Leaves, Attempts, n
        <4>4. AttemptsTaken'
          BY <3>1, <4>1, <4>3 DEF AttemptsTaken, NotBegun, n
        <4> QED BY <1>3, <3>2, <4>2, <4>4
      <3> QED BY <1>1, <3>3, <3>4, <3>5
    <2>5. ASSUME NEW answered \in BOOLEAN, Setup(answered) \/ ReadBefore(answered) \/ EarlierPhases
          PROVE  AttemptsTaken' /\ StepsLeft' \in Nat /\ StepsLeft' < StepsLeft
      <3>1. /\ op' = op /\ traj' = traj
            /\ \/ phase = "setup" /\ phase' \in {"refused", "earlier"}
               \/ phase = "earlier" /\ phase' = "before"
               \/ phase = "before" /\ phase' = "send"
        BY <2>5 DEF Setup, ReadBefore, EarlierPhases
      <3>2. op = 1 /\ \A o \in Operation : Len(traj[o]) = 0
        BY <3>1 DEF AttemptsTaken, NotBegun
      <3>3. n = 0
        BY <1>1, <3>2 DEF n
      <3>4. StepsLeft = StepsAt(phase, 1, 0) /\ StepsLeft' = StepsAt(phase', 1, 0)
        BY <3>1, <3>2, <3>3 DEF StepsLeft, n
      <3>5. StepsLeft' \in Nat /\ StepsLeft' < StepsLeft
        BY <1>3, <3>1, <3>4 DEF StepsAt
      <3>6. AttemptsTaken'
        BY <1>1, <3>1, <3>2 DEF AttemptsTaken, NotBegun
      <3> QED BY <3>5, <3>6
    <2>6. ASSUME NEW answered \in BOOLEAN, ReadAfter(answered)
          PROVE  AttemptsTaken' /\ StepsLeft' \in Nat /\ StepsLeft' < StepsLeft
      <3>1. op' = op /\ traj' = traj /\ phase = "after" /\ phase' = "done"
        BY <2>6 DEF ReadAfter
      <3>2. StepsLeft = 1 /\ StepsLeft' = 0
        BY <3>1 DEF StepsLeft, StepsAt
      <3>3. AttemptsTaken'
        BY <3>1 DEF AttemptsTaken, NotBegun
      <3> QED BY <3>2, <3>3
    <2> QED
      BY <1>5, <2>1, <2>2, <2>3, <2>4, <2>5, <2>6 DEF ScanStep
  <1>6. ASSUME ~ScanStep PROVE AttemptsTaken' /\ StepsLeft' = StepsLeft
    <2>1. phase' = phase /\ op' = op /\ traj' = traj
      BY <1>6 DEF Next, Land, OtherWriter, scan
    <2> QED BY <2>1 DEF AttemptsTaken, StepsLeft
  <1> QED
    BY <1>4, <1>5, <1>6

(* The attempts taken stay within what an operation is allowed.            *)
LEMMA AttemptsTakenAlways ==
  ASSUME RecoveryPassAssumption
  PROVE  Spec => []AttemptsTaken
  <1>1. Init => AttemptsTaken
    <2> SUFFICES ASSUME Init PROVE AttemptsTaken
      OBVIOUS
    <2>1. phase = "setup" /\ op = 1 /\ \A o \in Operation : traj[o] = << >>
      BY DEF Init
    <2> QED BY <2>1 DEF AttemptsTaken, NotBegun, RecoveryPassAssumption
  <1>2. RecoveryInv /\ AttemptsTaken /\ [Next]_vars => AttemptsTaken'
    <2> SUFFICES ASSUME RecoveryInv, AttemptsTaken, [Next]_vars PROVE AttemptsTaken'
      OBVIOUS
    <2>1. CASE Next
      BY <2>1, PassStep DEF RecoveryInv
    <2>2. CASE UNCHANGED vars
      BY <2>2 DEF vars, scan, AttemptsTaken
    <2> QED BY <2>1, <2>2
  <1> QED
    BY <1>1, <1>2, RecoveryInvCorrect, PTL DEF Spec

(* No operation is sent more often than its retries allow, and every step  *)
(* of the scan uses up one of a number of steps fixed when it starts: no   *)
(* late call, rate limit or other writer can make the retry loop go on     *)
(* (FaultInjector._recovery_pass, _BackoffBudget.wait_for).                *)
THEOREM PassWorkBounded ==
  ASSUME RecoveryPassAssumption
  PROVE  Spec => /\ [](\A o \in Operation : Attempts(traj[o]) <= MaxRetries + 1)
                 /\ [][/\ StepsLeft' \in Nat
                       /\ IF ScanStep THEN StepsLeft' < StepsLeft
                          ELSE StepsLeft' = StepsLeft]_vars
  <1>1. AttemptsTaken => \A o \in Operation : Attempts(traj[o]) <= MaxRetries + 1
    BY DEF AttemptsTaken, Attempts
  <1>2. RecoveryInv /\ AttemptsTaken /\ [Next]_vars
          => [/\ StepsLeft' \in Nat
              /\ IF ScanStep THEN StepsLeft' < StepsLeft ELSE StepsLeft' = StepsLeft]_vars
    BY PassStep DEF RecoveryInv
  <1> QED
    BY <1>1, <1>2, AttemptsTakenAlways, RecoveryInvCorrect, PTL DEF Spec
=============================================================================
