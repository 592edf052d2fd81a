------------------------- MODULE DeadlineProbeProofs -------------------------
(***************************************************************************)
(* Theorems checked by TLAPS: about ServeLoop, for every schedule's times, *)
(* every bound on the upstream and every client; then about DeadlineProbe, *)
(* the probe that measures an agent through that loop, for every hold,     *)
(* every read timeout and task deadline.  The probe's agent makes no call  *)
(* beside the one it waits for and its schedule has no fault.              *)
(***************************************************************************)
EXTENDS DeadlineProbe, TLAPS, SequenceTheorems, FiniteSetTheorems

-----------------------------------------------------------------------------
(* The inductive invariant of the serve loop.                               *)

Line == [kind : MessageKind, at : Nat]
Id == Nat \ {0}
Upstream == [id : Id, received : Nat]
Held1 == [id : Id, due : Nat]
Reply == [id : Id, at : Nat]
NoteRow == [id : Id, kind : {"note"}, received : Nat]
CallRow == [id : Id, kind : {"call"}, received : Nat, replied : SUBSET Nat, held : BOOLEAN]

ServeTypeOK ==
    /\ now \in Nat /\ sent \in Seq(Line) /\ eof \in BOOLEAN /\ inbox \in Seq(Id)
    /\ status \in {"reading", "serving", "closed", "ended"}
    /\ current \in {NoCall} \cup Upstream
    /\ status = "serving" => current \in Upstream
    /\ holding \in BOOLEAN /\ closeAt \subseteq Nat
    /\ pending \subseteq Held1 /\ out \subseteq Reply /\ returned \subseteq Nat
    /\ rows \in Seq(NoteRow \cup CallRow)

(* The client's lines are numbered in order, and the queue holds the last  *)
(* of them in order: what was taken is every line up to Taken.             *)
Taken == Len(sent) - Len(inbox)

QueueInOrder ==
    /\ Len(inbox) <= Len(sent)
    /\ \A i \in 1..Len(inbox) : inbox[i] = Taken + i

(* Nothing is recorded, held or answered of a line not yet taken, nor of   *)
(* the call upstream: its id is new to all three.                          *)
Known(n) ==
    /\ \A i \in DOMAIN rows : rows[i].id <= n
    /\ \A reply \in pending : reply.id <= n
    /\ \A reply \in out : reply.id <= n

OnlyTaken ==
    /\ Known(Taken)
    /\ status = "serving" => current.id <= Taken /\ Known(current.id - 1)

(* A call upstream arrived before every deadline the loop has, and is back *)
(* within UpstreamTimeout; while the loop reads, no held reply is overdue, *)
(* and the close by no more than that call.                                *)
OnTime ==
    /\ status = "serving" =>
          /\ current.received <= now /\ now <= current.received + UpstreamTimeout
          /\ \A at \in Deadlines : current.received <= at
    /\ status = "reading" =>
          /\ \A reply \in pending : now <= reply.due
          /\ \A at \in closeAt : now <= at + UpstreamTimeout

(* What is still held is due at the stamp of its row.                      *)
StampIsDue ==
    \A i \in DOMAIN rows : rows[i].kind = "call" =>
        \A reply \in pending : reply.id = rows[i].id => reply.due \in rows[i].replied

(* While the loop reads, what it has not taken came just now, or came in   *)
(* while the call that has just returned was being served.                 *)
NothingWaits ==
    status = "reading" =>
        \A i \in DOMAIN inbox : sent[inbox[i]].at >= now \/ now \in returned

(* One close deadline, and a session closed by it is past it; what is in   *)
(* the queue then was sent no earlier.                                     *)
OneClose ==
    /\ \A at, other \in closeAt : at = other
    /\ status = "closed" => \A at \in closeAt : at <= now

ServeInv ==
    /\ ServeTypeOK /\ QueueInOrder /\ OnlyTaken /\ OnTime
    /\ StampIsDue /\ StampNeverLate
    /\ NothingWaits /\ OneClose /\ HoldIsUsable

-----------------------------------------------------------------------------
(* The steps.                                                              *)

(* The line the loop takes is the first not yet taken, the rest stay in    *)
(* order.                                                                  *)
LEMMA HeadOfQueue ==
    ASSUME ServeTypeOK, QueueInOrder, inbox # << >>
    PROVE  /\ Head1 = Taken + 1 /\ Head1 \in Id /\ Head1 \in 1..Len(sent)
           /\ Tail(inbox) \in Seq(Id) /\ Len(Tail(inbox)) = Len(inbox) - 1
           /\ \A i \in 1..Len(Tail(inbox)) : Tail(inbox)[i] = inbox[i + 1]
<1>1. /\ Len(inbox) \in Nat /\ Len(inbox) > 0 /\ Len(sent) \in Nat
      /\ Head(inbox) = inbox[1]
  BY EmptySeq, LenProperties DEF ServeTypeOK
<1>2. /\ Tail(inbox) \in Seq(Id) /\ Len(Tail(inbox)) = Len(inbox) - 1
      /\ \A i \in 1..Len(Tail(inbox)) : Tail(inbox)[i] = inbox[i + 1]
  BY HeadTailProperties DEF ServeTypeOK
<1>3. Head1 = Taken + 1 /\ Head1 \in 1..Len(sent)
  BY <1>1 DEF QueueInOrder, Head1, Taken
<1>4. Head1 \in Id
  BY <1>1, <1>3 DEF Id
<1> QED BY <1>2, <1>3, <1>4

(* What release_due leaves held and what it writes.                        *)
LEMMA Released ==
    ASSUME ServeTypeOK, NEW written \in SUBSET Id, NEW held \in SUBSET Held1,
           Release(written, held)
    PROVE  /\ pending' \subseteq held
           /\ \A reply \in pending' : reply.due > now
           /\ out \subseteq out' /\ out' \subseteq Reply
           /\ \A reply \in out' \ out :
                 /\ reply.at = now
                 /\ \/ reply.id \in written
                    \/ \E due \in held : due.id = reply.id /\ due.due <= now
<1>1. pending' = {reply \in held : reply.due > now}
  BY DEF Release
<1>2. held \ pending' = {reply \in held : reply.due <= now}
  BY <1>1 DEF Held1, ServeTypeOK
<1>3. out' = out \cup {[id |-> id, at |-> now] :
                          id \in written \cup {reply.id : reply \in held \ pending'}}
  BY DEF Release
<1>4. \A id \in written \cup {reply.id : reply \in held \ pending'} : id \in Id
  BY <1>2 DEF Held1
<1>5. out' \subseteq Reply
  BY <1>3, <1>4 DEF ServeTypeOK, Reply
<1>6. ASSUME NEW reply \in out' \ out
      PROVE  /\ reply.at = now
             /\ \/ reply.id \in written
                \/ \E due \in held : due.id = reply.id /\ due.due <= now
  BY <1>2, <1>3
<1> QED BY <1>1, <1>3, <1>5, <1>6

(* The same when nothing is written at once.                               *)
LEMMA ReleasedOnly ==
    ASSUME ServeTypeOK, Release({}, pending)
    PROVE  /\ \A reply \in pending' : reply \in pending /\ reply.due > now
           /\ out \subseteq out' /\ out' \subseteq Reply
           /\ \A reply \in out' :
                 \/ reply \in out
                 \/ /\ reply.at = now
                    /\ \E due \in pending : due.id = reply.id /\ due.due <= now
<1>1. {} \in SUBSET Id /\ pending \in SUBSET Held1
  BY DEF ServeTypeOK
<1>2. /\ pending' \subseteq pending
      /\ \A reply \in pending' : reply.due > now
      /\ out \subseteq out' /\ out' \subseteq Reply
      /\ \A reply \in out' \ out :
            reply.at = now /\ \E due \in pending : due.id = reply.id /\ due.due <= now
  BY <1>1, Released
<1> QED BY <1>2

(* A session that has just started satisfies the invariant.                *)
LEMMA InitServe == ASSUME ServeLoopAssumption, Init PROVE ServeInv
<1>1. ServeTypeOK
  <2>1. /\ sent \in Seq(Line) /\ inbox \in Seq(Id) /\ rows \in Seq(NoteRow \cup CallRow)
    BY EmptySeq DEF Init
  <2>2. holding \in BOOLEAN
    BY DEF Init
  <2> QED BY <2>1, <2>2 DEF Init, ServeTypeOK
<1>2. QueueInOrder /\ OnlyTaken /\ OnTime /\ StampIsDue /\ StampNeverLate
  BY DEF Init, QueueInOrder, OnlyTaken, Known, OnTime, Deadlines, StampIsDue, StampNeverLate,
     Taken
<1>3. NothingWaits /\ OneClose /\ HoldIsUsable
  BY DEF Init, NothingWaits, OneClose, HoldIsUsable
<1> QED BY <1>1, <1>2, <1>3 DEF ServeInv

(* Every step of the loop, the client or the clock keeps the types.        *)
LEMMA NextServeTypes ==
    ASSUME ServeLoopAssumption, ServeTypeOK, QueueInOrder, [Next]_vars
    PROVE  ServeTypeOK'
<1> USE DEF ServeTypeOK
<1>1. ASSUME NEW kind \in MessageKind, Send(kind) PROVE ServeTypeOK'
  <2>1. [kind |-> kind, at |-> now] \in Line /\ Len(sent) + 1 \in Id
    BY <1>1 DEF Send, Line, Id
  <2>2. sent' \in Seq(Line) /\ inbox' \in Seq(Id)
    BY <1>1, <2>1 DEF Send
  <2> QED BY <1>1, <2>2 DEF Send, loop
<1>2. CASE CloseInput
  BY <1>2 DEF CloseInput, loop
<1>3. CASE TakeNote
  <2>1. inbox' \in Seq(Id) /\ [id |-> Head1, kind |-> "note", received |-> now] \in NoteRow
    BY <1>3, HeadOfQueue DEF TakeNote, Take, NoteRow
  <2>2. rows' \in Seq(NoteRow \cup CallRow)
    BY <1>3, <2>1 DEF TakeNote
  <2>3. pending' \subseteq Held1 /\ out' \subseteq Reply
    BY <1>3, Released DEF TakeNote
  <2> QED BY <1>3, <2>1, <2>2, <2>3 DEF TakeNote, client, loop
<1>4. CASE TakeRequest
  <2>1. inbox' \in Seq(Id) /\ {Head1} \in SUBSET Id
    BY <1>4, HeadOfQueue DEF TakeRequest, Take
  <2>2. pending' \subseteq Held1 /\ out' \subseteq Reply
    BY <1>4, <2>1, Released DEF TakeRequest
  <2> QED BY <1>4, <2>1, <2>2 DEF TakeRequest, client, loop
<1>5. CASE TakeCall
  <2>1. inbox' \in Seq(Id) /\ current' \in Upstream
    BY <1>5, HeadOfQueue DEF TakeCall, Take, Upstream
  <2> QED BY <1>5, <2>1 DEF TakeCall, client
<1>6. ASSUME NEW fate \in Fates, Finish(fate) PROVE ServeTypeOK'
  <2> DEFINE held == fate = "answer" /\ holding
             stamp == IF fate # "answer" THEN {} ELSE {IF held THEN now + HoldFor ELSE now}
             row == [id |-> current.id, kind |-> "call", received |-> current.received,
                     replied |-> stamp, held |-> held]
             due == [id |-> current.id, due |-> DueAt]
             written == IF fate = "answer" THEN {current.id} ELSE {}
  <2>1. current \in Upstream /\ held \in BOOLEAN /\ stamp \in SUBSET Nat
    BY <1>6 DEF Finish, ServeLoopAssumption
  <2>2. row \in CallRow /\ due \in Held1 /\ written \in SUBSET Id
    BY <2>1 DEF CallRow, Held1, Upstream, DueAt, ServeLoopAssumption
  <2>3. rows' = Append(rows, row)
    BY <1>6 DEF Finish
  <2>4. rows' \in Seq(NoteRow \cup CallRow)
    BY <2>2, <2>3
  <2>5. Release({}, pending \cup {due}) \/ Release(written, pending)
    BY <1>6 DEF Finish
  <2>6. pending \cup {due} \in SUBSET Held1 /\ {} \in SUBSET Id /\ pending \in SUBSET Held1
    BY <2>2
  <2> HIDE DEF due, written
  <2>7. pending' \subseteq Held1 /\ out' \subseteq Reply
    BY <2>2, <2>5, <2>6, Released
  <2>8. holding' \in BOOLEAN /\ closeAt' \subseteq Nat
    BY <1>6 DEF Finish, StillHolding, ArmClose, ServeLoopAssumption
  <2> QED BY <1>6, <2>4, <2>7, <2>8 DEF Finish, client
<1>7. CASE Wake
  <2>1. pending' \subseteq Held1 /\ out' \subseteq Reply
    BY <1>7, Released DEF Wake
  <2> QED BY <1>7, <2>1 DEF Wake, Wakes, EndSession, client
<1>8. CASE TakeEof
  BY <1>8 DEF TakeEof, client
<1>9. CASE Tick
  BY <1>9 DEF Tick, client, loop
<1>10. CASE UNCHANGED vars
  BY <1>10 DEF vars, client, loop
<1> QED BY <1>1, <1>2, <1>3, <1>4, <1>5, <1>6, <1>7, <1>8, <1>9, <1>10 DEF Next, LoopStep

(* What a call's return does: a row for it, and of the replies, those due  *)
(* go out, its own at its stamp, and its own may be held until its stamp.  *)
LEMMA Finished ==
    ASSUME ServeLoopAssumption, ServeTypeOK, NEW fate \in Fates, Finish(fate)
    PROVE  \E row \in CallRow :
              /\ row.id = current.id /\ rows' = Append(rows, row)
              /\ row.received = current.received
              /\ row.held <=> fate = "answer" /\ holding
              /\ row.replied = IF fate # "answer" THEN {}
                               ELSE {IF row.held THEN now + HoldFor ELSE now}
              /\ \A reply \in pending' :
                    /\ reply.due > now
                    /\ \/ reply \in pending
                       \/ reply.id = current.id /\ reply.due \in row.replied
              /\ out \subseteq out'
              /\ \A reply \in out' \ out :
                    /\ reply.at = now
                    /\ \/ reply.id = current.id /\ now \in row.replied
                       \/ \E due \in pending : due.id = reply.id /\ due.due <= now
<1> DEFINE held == fate = "answer" /\ holding
           stamp == IF fate # "answer" THEN {} ELSE {IF held THEN now + HoldFor ELSE now}
           row == [id |-> current.id, kind |-> "call", received |-> current.received,
                   replied |-> stamp, held |-> held]
           due == [id |-> current.id, due |-> DueAt]
           written == IF fate = "answer" THEN {current.id} ELSE {}
<1>1. current \in Upstream /\ held \in BOOLEAN /\ stamp \in SUBSET Nat
  BY DEF Finish, ServeTypeOK, ServeLoopAssumption
<1>2. row \in CallRow
  BY <1>1 DEF CallRow, Upstream
<1>3. /\ rows' = Append(rows, row) /\ row.id = current.id
      /\ row.received = current.received
      /\ row.held <=> fate = "answer" /\ holding
      /\ row.replied = IF fate # "answer" THEN {}
                       ELSE {IF row.held THEN now + HoldFor ELSE now}
  BY DEF Finish
<1>4. CASE held
  <2>1. Release({}, pending \cup {due})
    BY <1>4 DEF Finish
  <2>2. due \in Held1
    BY <1>1 DEF Held1, Upstream, DueAt, ServeTypeOK, ServeLoopAssumption
  <2>3. due.id = current.id /\ due.due = now + HoldFor /\ row.replied = {now + HoldFor}
    BY <1>4 DEF DueAt
  <2>4. {} \in SUBSET Id /\ pending \cup {due} \in SUBSET Held1
    BY <2>2 DEF ServeTypeOK
  <2>5. now + HoldFor <= now => now + HoldFor = now
    BY DEF ServeTypeOK, ServeLoopAssumption
  <2>6. /\ pending' \subseteq pending \cup {due}
        /\ \A reply \in pending' : reply.due > now
        /\ out \subseteq out'
        /\ \A reply \in out' \ out :
              /\ reply.at = now
              /\ \E old \in pending \cup {due} : old.id = reply.id /\ old.due <= now
    <3> DEFINE all == pending \cup {due}
    <3>1. all \in SUBSET Held1 /\ Release({}, all)
      BY <2>1, <2>4
    <3> HIDE DEF all
    <3>2. /\ pending' \subseteq all
          /\ \A reply \in pending' : reply.due > now
          /\ out \subseteq out'
          /\ \A reply \in out' \ out :
                /\ reply.at = now
                /\ \/ reply.id \in {}
                   \/ \E old \in all : old.id = reply.id /\ old.due <= now
      BY <2>4, <3>1, Released
    <3> QED BY <3>2 DEF all
  <2> HIDE DEF due, row, stamp, held
  <2>7. \A reply \in pending' : \/ reply \in pending
                                \/ reply.id = current.id /\ reply.due \in row.replied
    BY <2>3, <2>6
  <2>8. \A reply \in out' \ out :
            \/ reply.id = current.id /\ now \in row.replied
            \/ \E old \in pending : old.id = reply.id /\ old.due <= now
    BY <2>3, <2>5, <2>6
  <2> WITNESS row \in CallRow
  <2> QED BY <1>3, <2>6, <2>7, <2>8
<1>5. CASE ~held
  <2>1. Release(written, pending)
    BY <1>5 DEF Finish
  <2>2. written \in SUBSET Id /\ pending \in SUBSET Held1
    BY <1>1 DEF Upstream, ServeTypeOK
  <2>3. \A id \in written : id = current.id /\ now \in row.replied
    BY <1>5
  <2>4. /\ pending' \subseteq pending
        /\ \A reply \in pending' : reply.due > now
        /\ out \subseteq out'
        /\ \A reply \in out' \ out :
              /\ reply.at = now
              /\ \/ reply.id \in written
                 \/ \E old \in pending : old.id = reply.id /\ old.due <= now
    BY <2>1, <2>2, Released
  <2> HIDE DEF row, stamp, held, written
  <2> WITNESS row \in CallRow
  <2> QED BY <1>3, <2>3, <2>4
<1> QED BY <1>4, <1>5

(* Which steps move the queue, and how.                                    *)
LEMMA StepQueue ==
    ASSUME [Next]_vars
    PROVE  \/ UNCHANGED <<sent, inbox>>
           \/ \E kind \in MessageKind : Send(kind)
           \/ /\ \E kind : Take(kind)
              /\ UNCHANGED sent
BY DEF Next, LoopStep, vars, client, CloseInput, TakeNote, TakeRequest, TakeCall, Finish, Wake,
   EndSession, TakeEof, Tick

(* The reader thread's queue stays in order, and what was taken only       *)
(* grows.                                                                  *)
LEMMA NextQueue ==
    ASSUME ServeTypeOK, QueueInOrder, [Next]_vars
    PROVE  /\ QueueInOrder'
           /\ Taken \in Nat /\ Taken' >= Taken
           /\ (\E kind : Take(kind)) => Taken' = Taken + 1
<1>1. Len(sent) \in Nat /\ Len(inbox) \in Nat /\ Taken \in Nat
  BY LenProperties DEF ServeTypeOK, QueueInOrder, Taken
<1>2. CASE UNCHANGED <<sent, inbox>>
  <2>1. ~(\E kind : Take(kind))
    <3> SUFFICES ASSUME inbox # << >>, inbox = Tail(inbox) PROVE FALSE
      BY <1>2 DEF Take
    <3> QED BY <1>1, HeadOfQueue
  <2> QED BY <1>1, <1>2, <2>1 DEF QueueInOrder, Taken
<1>3. ASSUME NEW kind \in MessageKind, Send(kind)
      PROVE  QueueInOrder' /\ Taken' = Taken /\ ~(\E k : Take(k))
  <2>1. /\ Len(sent') = Len(sent) + 1 /\ Len(inbox') = Len(inbox) + 1
        /\ \A i \in 1..Len(inbox) : inbox'[i] = inbox[i]
        /\ inbox'[Len(inbox) + 1] = Len(sent) + 1
    BY <1>3, AppendProperties DEF Send, ServeTypeOK
  <2>2. QueueInOrder' /\ Taken' = Taken
    BY <1>1, <2>1 DEF QueueInOrder, Taken
  <2>3. ~(\E k : Take(k))
    <3> SUFFICES ASSUME inbox # << >>, inbox' = Tail(inbox) PROVE FALSE
      BY DEF Take
    <3> QED BY <1>1, <2>1, HeadOfQueue
  <2> QED BY <2>2, <2>3
<1>4. ASSUME NEW kind, Take(kind), UNCHANGED sent
      PROVE  QueueInOrder' /\ Taken' = Taken + 1
  <2>1. inbox # << >> /\ inbox' = Tail(inbox)
    BY <1>4 DEF Take
  <2> QED BY <1>1, <1>4, <2>1, HeadOfQueue DEF QueueInOrder, Taken
<1> QED BY <1>1, <1>2, <1>3, <1>4, StepQueue

(* Rows and replies are of lines taken; the call upstream is new to them.  *)
LEMMA NextTaken ==
    ASSUME ServeLoopAssumption, ServeTypeOK, QueueInOrder, OnlyTaken, [Next]_vars
    PROVE  OnlyTaken'
<1>1. /\ Taken \in Nat /\ Taken' \in Nat /\ Taken' >= Taken
      /\ (\E kind : Take(kind)) => Taken' = Taken + 1
  BY NextQueue DEF Taken
<1>2. /\ \A i \in DOMAIN rows : rows[i].id \in Nat
      /\ \A reply \in pending : reply.id \in Nat
      /\ \A reply \in out : reply.id \in Nat
      /\ Len(rows) \in Nat /\ DOMAIN rows = 1..Len(rows)
  BY DEF ServeTypeOK, Held1, Reply, Id, NoteRow, CallRow
<1>3. CASE UNCHANGED <<rows, pending, out>> /\ (status' = "serving" => UNCHANGED <<status, current>>)
  BY <1>1, <1>2, <1>3 DEF OnlyTaken, Known, ServeTypeOK, Upstream, Id
<1>4. CASE TakeCall
  <2>1. current'.id = Taken + 1 /\ UNCHANGED <<rows, pending, out>> /\ Taken' = Taken + 1
    BY <1>1, <1>4, HeadOfQueue DEF TakeCall, Take
  <2> QED BY <1>1, <1>2, <2>1 DEF OnlyTaken, Known
<1>5. CASE TakeNote
  <2> DEFINE row == [id |-> Head1, kind |-> "note", received |-> now]
  <2>1. Taken' = Taken + 1 /\ row.id = Taken' /\ row \in NoteRow /\ status' = "reading"
    BY <1>1, <1>5, HeadOfQueue DEF TakeNote, Take, loop, NoteRow, ServeTypeOK
  <2>2. rows' = Append(rows, row)
    BY <1>5 DEF TakeNote
  <2> HIDE DEF row
  <2>3. \A i \in DOMAIN rows' : rows'[i].id <= Taken'
    BY <1>1, <1>2, <2>1, <2>2, AppendProperties DEF ServeTypeOK, OnlyTaken, Known
  <2>4. /\ \A reply \in pending' : reply \in pending
        /\ \A reply \in out' : reply \in out \/ \E due \in pending : due.id = reply.id
    BY <1>5, ReleasedOnly DEF TakeNote
  <2> QED BY <1>1, <1>2, <2>1, <2>3, <2>4 DEF OnlyTaken, Known
<1>6. CASE TakeRequest
  <2>1. Taken' = Taken + 1 /\ Head1 = Taken' /\ {Head1} \in SUBSET Id /\ status' = "reading"
    BY <1>1, <1>6, HeadOfQueue DEF TakeRequest, Take, loop
  <2>2. /\ \A reply \in pending' : reply \in pending
        /\ \A reply \in out' : reply \in out \/ reply.id = Taken'
                                 \/ \E due \in pending : due.id = reply.id
    BY <1>6, <2>1, Released DEF TakeRequest, ServeTypeOK
  <2>3. rows' = rows
    BY <1>6 DEF TakeRequest
  <2> QED BY <1>1, <1>2, <2>1, <2>2, <2>3 DEF OnlyTaken, Known
<1>7. ASSUME NEW fate \in Fates, Finish(fate) PROVE OnlyTaken'
  <2>1. PICK row \in CallRow :
          /\ row.id = current.id /\ rows' = Append(rows, row)
          /\ \A reply \in pending' : reply \in pending \/ reply.id = current.id
          /\ \A reply \in out' : \/ reply \in out \/ reply.id = current.id
                                 \/ \E due \in pending : due.id = reply.id
    BY <1>7, Finished
  <2>2. current.id <= Taken /\ status' = "reading" /\ current.id \in Nat /\ Known(Taken)
    BY <1>7 DEF Finish, OnlyTaken, ServeTypeOK, Upstream, Id
  <2>3. \A i \in DOMAIN rows' : rows'[i].id <= Taken'
    BY <1>1, <1>2, <2>1, <2>2, AppendProperties DEF ServeTypeOK, Known
  <2>4. \A reply \in pending : reply.id <= Taken'
    BY <1>1, <1>2, <2>2 DEF Known
  <2>5. \A reply \in out : reply.id <= Taken'
    BY <1>1, <1>2, <2>2 DEF Known
  <2>6. current.id <= Taken'
    BY <1>1, <2>2
  <2>7. Known(Taken)'
    BY <2>1, <2>3, <2>4, <2>5, <2>6 DEF Known
  <2>8. status' # "serving"
    BY <2>2
  <2> QED BY <2>7, <2>8 DEF OnlyTaken
<1>8. CASE Wake
  <2>1. /\ \A reply \in pending' : reply \in pending
        /\ \A reply \in out' : reply \in out \/ \E due \in pending : due.id = reply.id
    BY <1>8, ReleasedOnly DEF Wake
  <2>2. status' # "serving" /\ rows' = rows
    BY <1>8 DEF Wake, EndSession
  <2> QED BY <1>1, <1>2, <2>1, <2>2 DEF OnlyTaken, Known
<1>9. ASSUME (\E kind \in MessageKind : Send(kind)) \/ CloseInput \/ TakeEof \/ Tick
             \/ UNCHANGED vars
      PROVE  UNCHANGED <<rows, pending, out>> /\ (status' = "serving" => UNCHANGED <<status, current>>)
  BY <1>9 DEF Send, CloseInput, TakeEof, Tick, vars, loop
<1> QED BY <1>3, <1>4, <1>5, <1>6, <1>7, <1>8, <1>9 DEF Next, LoopStep

(* The loop is on time: a deadline behind it is behind by no more than the *)
(* call that was upstream when it came.                                    *)
LEMMA NextOnTime ==
    ASSUME ServeLoopAssumption, ServeTypeOK, QueueInOrder, OnTime, [Next]_vars
    PROVE  OnTime'
<1>1. /\ now \in Nat /\ UpstreamTimeout \in Nat /\ CloseAfter \in Nat
      /\ \A reply \in pending : reply.due \in Nat /\ reply.due \in Deadlines
      /\ \A at \in closeAt : at \in Nat /\ at \in Deadlines
      /\ \A at \in Deadlines : at \in closeAt \/ \E reply \in pending : at = reply.due
      /\ status = "serving" => current.received \in Nat
  BY DEF ServeLoopAssumption, ServeTypeOK, Held1, Upstream, Deadlines
<1>2. ASSUME UNCHANGED <<now, closeAt, pending>>,
             status' \in {"closed", "ended"} \/ UNCHANGED <<status, current>>
      PROVE  OnTime'
  BY <1>2 DEF OnTime, Deadlines
<1>3. ASSUME TakeNote \/ TakeRequest PROVE OnTime'
  <2>1. \A reply \in pending' : reply.due > now /\ reply \in pending
    <3>1. CASE TakeNote
      BY <3>1, ReleasedOnly DEF TakeNote
    <3>2. CASE TakeRequest
      BY <3>2 DEF TakeRequest, Release
    <3> QED BY <1>3, <3>1, <3>2
  <2> QED BY <1>1, <1>3, <2>1 DEF OnTime, TakeNote, TakeRequest, Take, loop
<1>4. CASE TakeCall
  <2>1. /\ current'.received = now /\ status' = "serving" /\ now' = now
        /\ Deadlines' = Deadlines /\ \A at \in Deadlines : now <= at
    BY <1>4 DEF TakeCall, Take, MayTake, Deadlines
  <2> QED BY <1>1, <2>1 DEF OnTime
<1>5. ASSUME NEW fate \in Fates, Finish(fate) PROVE OnTime'
  <2>1. \A reply \in pending' : reply.due > now /\ reply.due \in Nat
    <3>1. \A reply \in pending' : reply.due > now
      BY <1>5, Finished
    <3>2. pending' \subseteq Held1
      BY NextServeTypes DEF ServeTypeOK
    <3> QED BY <3>1, <3>2 DEF Held1
  <2>2. status = "serving" /\ status' = "reading" /\ now' = now
    BY <1>5 DEF Finish
  <2>3. \A at \in closeAt' : at \in closeAt \/ at = now + CloseAfter
    BY <1>5 DEF Finish, ArmClose
  <2> QED BY <1>1, <2>1, <2>2, <2>3 DEF OnTime
<1>6. CASE Wake
  <2>1. \A reply \in pending' : reply \in pending
    BY <1>6, ReleasedOnly DEF Wake
  <2> QED BY <1>1, <1>6, <2>1 DEF Wake, Wakes, EndSession, OnTime
<1>7. CASE Tick
  <2>1. now' = now + 1 /\ UNCHANGED <<status, current, closeAt, pending>>
    BY <1>7 DEF Tick, loop
  <2>2. CASE status = "serving"
    <3>1. now < current.received + UpstreamTimeout
      BY <1>7, <2>2 DEF Tick
    <3> QED BY <1>1, <2>1, <2>2, <3>1 DEF OnTime, Deadlines
  <2>3. CASE status = "reading"
    <3>1. \A at \in Deadlines : ~(at <= now)
      BY <1>7, <2>3 DEF Tick, LoopReady, WakeDue
    <3> QED BY <1>1, <2>1, <2>3, <3>1 DEF OnTime, Deadlines
  <2> QED BY <2>1, <2>2, <2>3 DEF OnTime
<1>8. CASE Tick \/ Wake \/ TakeCall \/ TakeNote \/ TakeRequest \/ \E fate \in Fates : Finish(fate)
  BY <1>3, <1>4, <1>5, <1>6, <1>7, <1>8
<1>9. ASSUME (\E kind \in MessageKind : Send(kind)) \/ CloseInput \/ TakeEof \/ UNCHANGED vars
      PROVE  OnTime'
  BY <1>2, <1>9 DEF Send, CloseInput, TakeEof, vars, loop
<1> QED BY <1>8, <1>9 DEF Next, LoopStep

(* A reply goes out at its row's stamp or after it, within one call.       *)
LEMMA NextStamps ==
    ASSUME ServeLoopAssumption, ServeTypeOK, QueueInOrder, OnlyTaken, OnTime, StampIsDue,
           StampNeverLate, [Next]_vars
    PROVE  StampIsDue' /\ StampNeverLate'
<1>1. /\ now \in Nat /\ UpstreamTimeout \in Nat /\ Taken \in Nat
      /\ \A reply \in pending : reply.due \in Nat
      /\ Len(rows) \in Nat /\ DOMAIN rows = 1..Len(rows)
  BY DEF ServeLoopAssumption, ServeTypeOK, Held1, QueueInOrder, Taken
<1>2. \A due \in pending : /\ status = "reading" => now <= due.due
                           /\ status = "serving" => now <= due.due + UpstreamTimeout
  <2>1. status = "serving" => current.received \in Nat
    BY DEF ServeTypeOK, Upstream
  <2>2. \A due \in pending : due.due \in Deadlines
    BY DEF Deadlines
  <2> QED BY <1>1, <2>1, <2>2 DEF OnTime
<1>3. ASSUME UNCHANGED <<rows, pending, out>> PROVE StampIsDue' /\ StampNeverLate'
  BY <1>3 DEF StampIsDue, StampNeverLate
(* What is released now, of a row that is there already, is on time.       *)
<1>4. ASSUME status \in {"reading", "serving"}, NEW i \in DOMAIN rows, rows[i].kind = "call",
             NEW due \in pending, due.id = rows[i].id, due.due <= now
      PROVE  \E stamp \in rows[i].replied : stamp <= now /\ now <= stamp + UpstreamTimeout
  BY <1>1, <1>2, <1>4 DEF StampIsDue
<1>5. ASSUME status \in {"reading", "serving"},
             \A reply \in pending' : reply \in pending,
             \A reply \in out' :
                 \/ reply \in out
                 \/ \A i \in DOMAIN rows : rows[i].id # reply.id
                 \/ reply.at = now /\ \E due \in pending : due.id = reply.id /\ due.due <= now,
             rows' = rows
      PROVE  StampIsDue' /\ StampNeverLate'
  <2>1. StampIsDue'
    BY <1>5 DEF StampIsDue
  <2>2. ASSUME NEW i \in DOMAIN rows, rows[i].kind = "call",
               NEW reply \in out', reply.id = rows[i].id
        PROVE  \E stamp \in rows[i].replied :
                   stamp <= reply.at /\ reply.at <= stamp + UpstreamTimeout
    <3>1. CASE reply \in out
      BY <2>2, <3>1 DEF StampNeverLate
    <3>2. CASE reply.at = now /\ \E due \in pending : due.id = reply.id /\ due.due <= now
      BY <1>4, <1>5, <2>2, <3>2
    <3> QED BY <1>5, <2>2, <3>1, <3>2
  <2> QED BY <1>5, <2>1, <2>2 DEF StampNeverLate
<1>6. CASE Wake
  BY <1>5, <1>6, ReleasedOnly DEF Wake, Wakes, EndSession
<1>7. CASE TakeRequest
  <2>1. Head1 = Taken + 1 /\ {Head1} \in SUBSET Id /\ pending \in SUBSET Held1
    BY <1>7, HeadOfQueue DEF TakeRequest, Take, ServeTypeOK
  <2>2. /\ pending' \subseteq pending
        /\ \A reply \in out' \ out :
              /\ reply.at = now
              /\ reply.id \in {Head1} \/ \E due \in pending : due.id = reply.id /\ due.due <= now
    BY <1>7, <2>1, Released DEF TakeRequest
  <2>3. \A i \in DOMAIN rows : rows[i].id # Head1
    BY <1>1, <2>1 DEF OnlyTaken, Known
  <2> QED BY <1>5, <1>7, <2>2, <2>3 DEF TakeRequest, Take
<1>8. CASE TakeNote
  <2> DEFINE row == [id |-> Head1, kind |-> "note", received |-> now]
  <2>1. /\ row.kind # "call" /\ row \in NoteRow \cup CallRow
        /\ \A i \in DOMAIN rows : rows[i].id <= Taken
    BY <1>1, <1>8, HeadOfQueue DEF OnlyTaken, Known, NoteRow, TakeNote, Take, ServeTypeOK
  <2>2. rows' = Append(rows, row)
    BY <1>8 DEF TakeNote
  <2> HIDE DEF row
  <2>3. /\ \A i \in DOMAIN rows : i \in DOMAIN rows' /\ rows'[i] = rows[i]
        /\ \A i \in DOMAIN rows' : i \in DOMAIN rows \/ rows'[i].kind # "call"
    BY <1>1, <2>1, <2>2, AppendProperties DEF ServeTypeOK
  <2>4. /\ \A reply \in pending' : reply \in pending
        /\ \A reply \in out' :
               \/ reply \in out
               \/ reply.at = now /\ \E due \in pending : due.id = reply.id /\ due.due <= now
    BY <1>8, ReleasedOnly DEF TakeNote
  <2>5. status = "reading"
    BY <1>8 DEF TakeNote, Take
  <2> QED BY <1>4, <2>3, <2>4, <2>5 DEF StampIsDue, StampNeverLate
<1>9. ASSUME NEW fate \in Fates, Finish(fate) PROVE StampIsDue' /\ StampNeverLate'
  <2>1. PICK row \in CallRow :
          /\ row.id = current.id /\ rows' = Append(rows, row)
          /\ \A reply \in pending' :
                \/ reply \in pending
                \/ reply.id = current.id /\ reply.due \in row.replied
          /\ \A reply \in out' \ out :
                /\ reply.at = now
                /\ \/ reply.id = current.id /\ now \in row.replied
                   \/ \E due \in pending : due.id = reply.id /\ due.due <= now
    BY <1>9, Finished
  <2>2. /\ status = "serving" /\ current.id \in Nat
        /\ \A i \in DOMAIN rows : rows[i].id \in Nat
        /\ \A reply \in pending \cup out : reply.id \in Nat
    BY <1>9 DEF Finish, ServeTypeOK, Upstream, Id, Held1, Reply, NoteRow, CallRow
  <2>3. /\ \A i \in DOMAIN rows : rows[i].id # current.id
        /\ \A reply \in pending \cup out : reply.id # current.id
    BY <2>2 DEF OnlyTaken, Known
  <2>4. /\ \A i \in DOMAIN rows : i \in DOMAIN rows' /\ rows'[i] = rows[i]
        /\ \A i \in DOMAIN rows' : i \in DOMAIN rows \/ rows'[i] = row
    BY <1>1, <2>1, AppendProperties DEF ServeTypeOK
  <2>5. StampIsDue'
    BY <2>1, <2>3, <2>4 DEF StampIsDue
  <2>6. ASSUME NEW i \in DOMAIN rows', rows'[i].kind = "call",
               NEW reply \in out', reply.id = rows'[i].id
        PROVE  \E stamp \in rows'[i].replied :
                   stamp <= reply.at /\ reply.at <= stamp + UpstreamTimeout
    <3>1. CASE rows'[i] = row
      <4>1. reply.at = now /\ now \in row.replied
        BY <2>1, <2>3, <2>6, <3>1
      <4> QED BY <1>1, <3>1, <4>1
    <3>2. CASE i \in DOMAIN rows
      <4>1. CASE reply \in out
        BY <2>4, <2>6, <3>2, <4>1 DEF StampNeverLate
      <4>2. CASE reply \notin out
        BY <1>4, <2>1, <2>2, <2>3, <2>4, <2>6, <3>2, <4>2
      <4> QED BY <4>1, <4>2
    <3> QED BY <2>4, <2>6, <3>1, <3>2
  <2> QED BY <2>5, <2>6 DEF StampNeverLate
<1>10. ASSUME (\E kind \in MessageKind : Send(kind)) \/ CloseInput \/ TakeCall \/ TakeEof \/ Tick
              \/ UNCHANGED vars
       PROVE  UNCHANGED <<rows, pending, out>>
  BY <1>10 DEF Send, CloseInput, TakeCall, TakeEof, Tick, vars
<1> QED BY <1>3, <1>6, <1>7, <1>8, <1>9, <1>10 DEF Next, LoopStep

(* The reader never lets time pass over a line it has queued.              *)
LEMMA NextNothingWaits ==
    ASSUME ServeLoopAssumption, ServeTypeOK, QueueInOrder, NothingWaits, [Next]_vars
    PROVE  NothingWaits'
<1>1. /\ now \in Nat /\ Len(inbox) \in Nat /\ Len(sent) \in Nat
      /\ DOMAIN inbox = 1..Len(inbox) /\ DOMAIN inbox' = 1..Len(inbox')
  BY NextServeTypes DEF ServeTypeOK
<1>2. ASSUME status' = "reading" => status = "reading", UNCHANGED <<now, sent, inbox>>,
             returned \subseteq returned'
      PROVE  NothingWaits'
  BY <1>2 DEF NothingWaits
<1>3. ASSUME NEW kind \in MessageKind, Send(kind) PROVE NothingWaits'
  <2> DEFINE line == [kind |-> kind, at |-> now]
  <2>1. /\ sent' = Append(sent, line) /\ inbox' = Append(inbox, Len(sent) + 1)
        /\ line \in Line /\ Len(sent) + 1 \in Id /\ line.at = now
    BY <1>1, <1>3 DEF Send, Line, Id
  <2> HIDE DEF line
  <2>2. /\ Len(inbox') = Len(inbox) + 1 /\ inbox'[Len(inbox) + 1] = Len(sent) + 1
        /\ \A i \in 1..Len(inbox) : inbox'[i] = inbox[i]
        /\ \A i \in 1..Len(sent) : sent'[i] = sent[i]
        /\ sent'[Len(sent) + 1] = line
    BY <2>1, AppendProperties DEF ServeTypeOK
  <2>3. \A i \in 1..Len(inbox) : inbox[i] \in 1..Len(sent)
    BY <1>1 DEF QueueInOrder, Taken
  <2>4. now' = now /\ status' = status /\ returned' = returned
    BY <1>3 DEF Send, loop
  <2>5. ASSUME NEW i \in DOMAIN inbox', status = "reading"
        PROVE  sent'[inbox'[i]].at >= now \/ now \in returned
    <3>1. CASE i \in 1..Len(inbox)
      BY <1>1, <2>2, <2>3, <2>5, <3>1 DEF NothingWaits
    <3>2. CASE i = Len(inbox) + 1
      BY <1>1, <2>1, <2>2, <3>2
    <3> QED BY <1>1, <2>2, <2>5, <3>1, <3>2
  <2> QED BY <2>4, <2>5 DEF NothingWaits
<1>4. ASSUME TakeNote \/ TakeRequest PROVE NothingWaits'
  <2>1. /\ inbox # << >> /\ inbox' = Tail(inbox) /\ status = "reading"
        /\ UNCHANGED <<now, sent, returned>>
    BY <1>4 DEF TakeNote, TakeRequest, Take, client
  <2>2. /\ Len(inbox') = Len(inbox) - 1
        /\ \A i \in 1..Len(inbox') : inbox'[i] = inbox[i + 1]
    BY <2>1, HeadOfQueue
  <2>3. \A i \in DOMAIN inbox' : i + 1 \in DOMAIN inbox
    BY <1>1, <2>2
  <2> QED BY <1>1, <2>1, <2>2, <2>3 DEF NothingWaits
<1>5. ASSUME NEW fate \in Fates, Finish(fate) PROVE NothingWaits'
  BY <1>5 DEF Finish, NothingWaits
<1>6. CASE Tick
  <2>1. CASE status = "reading"
    <3>1. ~WakeDue /\ ~(MayTake /\ inbox # << >>)
      BY <1>6, <2>1 DEF Tick, LoopReady
    <3>2. MayTake
      <4>1. \A at \in Deadlines : at \in Nat
        BY DEF Deadlines, ServeTypeOK, Held1
      <4> QED BY <1>1, <3>1, <4>1 DEF WakeDue, MayTake
    <3>3. inbox' = << >>
      BY <1>6, <3>1, <3>2 DEF Tick
    <3> QED BY <3>3 DEF NothingWaits
  <2>2. CASE status # "reading"
    BY <1>6, <2>2 DEF Tick, loop, NothingWaits
  <2> QED BY <2>1, <2>2
<1>7. ASSUME CloseInput \/ Wake \/ TakeEof \/ UNCHANGED vars PROVE NothingWaits'
  BY <1>2, <1>7 DEF CloseInput, Wake, Wakes, EndSession, TakeEof, vars, client, loop
<1>8. CASE TakeCall
  BY <1>8 DEF TakeCall, NothingWaits
<1> QED BY <1>3, <1>4, <1>5, <1>6, <1>7, <1>8 DEF Next, LoopStep

(* One close deadline; what a closed session left unread came at it or     *)
(* later, or while a call ran into it.                                     *)
LEMMA NextUsable ==
    ASSUME ServeLoopAssumption, ServeTypeOK, QueueInOrder, NothingWaits, OneClose, HoldIsUsable,
           [Next]_vars
    PROVE  OneClose' /\ HoldIsUsable'
<1>1. /\ now \in Nat /\ closeAt \subseteq Nat
      /\ Len(inbox) \in Nat /\ Len(sent) \in Nat /\ DOMAIN inbox = 1..Len(inbox)
  BY DEF ServeTypeOK
<1>2. CASE Wake
  <2>1. UNCHANGED <<now, sent, inbox, closeAt, returned>> /\ status = "reading"
    BY <1>2 DEF Wake, Wakes, EndSession, client
  <2>2. ASSUME status' = "closed" PROVE \A at \in closeAt : at <= now
    BY <1>2, <2>2 DEF Wake, EndSession, CloseDue, OneClose
  <2>3. ASSUME status' = "closed", NEW i \in DOMAIN inbox, NEW at \in closeAt
        PROVE  sent[inbox[i]].at >= at \/ \E t \in returned : t >= at
    <3>1. at <= now
      BY <2>2, <2>3
    <3>2. CASE now \in returned
      BY <1>1, <3>1, <3>2
    <3>3. CASE sent[inbox[i]].at >= now
      <4>1. inbox[i] \in 1..Len(sent)
        BY <1>1 DEF QueueInOrder, Taken
      <4>2. sent[inbox[i]] \in Line
        BY <4>1, ElementOfSeq DEF ServeTypeOK
      <4>3. sent[inbox[i]].at \in Nat
        BY <4>2 DEF Line
      <4>4. at \in Nat
        BY <1>1
      <4> QED BY <1>1, <3>1, <3>3, <4>3, <4>4
    <3> QED BY <2>1, <3>2, <3>3 DEF NothingWaits
  <2> QED BY <2>1, <2>2, <2>3 DEF OneClose, HoldIsUsable
<1>3. ASSUME NEW kind \in MessageKind, Send(kind) PROVE OneClose' /\ HoldIsUsable'
  <2> DEFINE line == [kind |-> kind, at |-> now]
  <2>1. /\ sent' = Append(sent, line) /\ inbox' = Append(inbox, Len(sent) + 1)
        /\ line \in Line /\ Len(sent) + 1 \in Id /\ line.at = now
    BY <1>1, <1>3 DEF Send, Line, Id
  <2> HIDE DEF line
  <2>2. /\ Len(inbox') = Len(inbox) + 1 /\ inbox'[Len(inbox) + 1] = Len(sent) + 1
        /\ \A i \in 1..Len(inbox) : inbox'[i] = inbox[i]
        /\ \A i \in 1..Len(sent) : sent'[i] = sent[i]
        /\ sent'[Len(sent) + 1] = line /\ DOMAIN inbox' = 1..(Len(inbox) + 1)
    BY <2>1, AppendProperties DEF ServeTypeOK
  <2>3. \A i \in 1..Len(inbox) : inbox[i] \in 1..Len(sent)
    BY <1>1 DEF QueueInOrder, Taken
  <2>4. UNCHANGED <<now, status, closeAt, returned>>
    BY <1>3 DEF Send, loop
  <2>5. ASSUME NEW i \in DOMAIN inbox', NEW at \in closeAt, status = "closed"
        PROVE  sent'[inbox'[i]].at >= at \/ \E t \in returned : t >= at
    <3>1. CASE i \in 1..Len(inbox)
      BY <1>1, <2>2, <2>3, <2>5, <3>1 DEF HoldIsUsable
    <3>2. CASE i = Len(inbox) + 1
      <4>1. sent'[inbox'[i]].at = now /\ at <= now
        BY <1>1, <2>1, <2>2, <2>5, <3>2 DEF OneClose
      <4> QED BY <1>1, <4>1
    <3> QED BY <1>1, <2>2, <2>5, <3>1, <3>2
  <2> QED BY <2>4, <2>5 DEF OneClose, HoldIsUsable
<1>4. ASSUME NEW fate \in Fates, Finish(fate) PROVE OneClose' /\ HoldIsUsable'
  BY <1>4 DEF Finish, ArmClose, OneClose, HoldIsUsable
<1>5. CASE Tick
  BY <1>1, <1>5 DEF Tick, client, loop, OneClose, HoldIsUsable
<1>6. ASSUME TakeNote \/ TakeRequest \/ TakeCall PROVE OneClose' /\ HoldIsUsable'
  BY <1>6 DEF TakeNote, TakeRequest, TakeCall, Take, loop, OneClose, HoldIsUsable
<1>7. ASSUME CloseInput \/ TakeEof \/ UNCHANGED vars PROVE OneClose' /\ HoldIsUsable'
  BY <1>7 DEF CloseInput, TakeEof, vars, client, loop, OneClose, HoldIsUsable
<1> QED BY <1>2, <1>3, <1>4, <1>5, <1>6, <1>7 DEF Next, LoopStep

-----------------------------------------------------------------------------
(* The invariant, and what follows from it.                                *)

(* The invariant survives every step of the loop, the client and the       *)
(* clock.                                                                  *)
LEMMA NextServe ==
    ASSUME ServeLoopAssumption, ServeInv, [Next]_vars
    PROVE  ServeInv'
BY NextServeTypes, NextQueue, NextTaken, NextOnTime, NextStamps, NextNothingWaits, NextUsable
DEF ServeInv

(* Types, the order of the queue, the ids of rows and replies, the times   *)
(* and the close, in every state of every session.                         *)
THEOREM ServeInvCorrect ==
    ASSUME ServeLoopAssumption
    PROVE  Spec => []ServeInv
<1>1. Init => ServeInv
  BY InitServe
<1>2. ServeInv /\ [Next]_vars => ServeInv'
  BY NextServe
<1> QED BY <1>1, <1>2, PTL DEF Spec

(* The stamp a row gives its reply is early by at most one call upstream   *)
(* and never late, and a row with no stamp is a reply that never goes out: *)
(* for every hold, close and bound, and whatever the client sends          *)
(* (release_due after every wait, ProxyServer._call).                      *)
THEOREM StampNeverLateAlways ==
    ASSUME ServeLoopAssumption
    PROVE  Spec => []StampNeverLate
<1>1. ServeInv => StampNeverLate
  BY DEF ServeInv
<1> QED BY <1>1, ServeInvCorrect, PTL

(* The session is gone at most one call upstream after the deadline of the *)
(* first closing fault: a client that keeps sending cannot put it off      *)
(* (serve's wait for a line has the earliest deadline as its timeout).     *)
THEOREM ClosedInTimeAlways ==
    ASSUME ServeLoopAssumption
    PROVE  Spec => []ClosedInTime
<1>1. ServeInv => ClosedInTime
  <2>1. ASSUME ServeInv, status = "serving", NEW at \in closeAt
        PROVE  now <= at + UpstreamTimeout
    <3>1. current.received \in Nat /\ now \in Nat /\ at \in Nat
      BY <2>1 DEF ServeInv, ServeTypeOK, Upstream
    <3>2. current.received <= at /\ now <= current.received + UpstreamTimeout
      BY <2>1 DEF ServeInv, OnTime, Deadlines
    <3> QED BY <3>1, <3>2 DEF ServeLoopAssumption
  <2> QED BY <2>1 DEF ServeInv, OnTime, ClosedInTime
<1> QED BY <1>1, ServeInvCorrect, PTL

(* The hold before a close is time the client can use: what a closed       *)
(* session left unread was sent at the deadline or later, or while a call  *)
(* that ran into the deadline was being served.                            *)
THEOREM HoldIsUsableAlways ==
    ASSUME ServeLoopAssumption
    PROVE  Spec => []HoldIsUsable
<1>1. ServeInv => HoldIsUsable
  BY DEF ServeInv
<1> QED BY <1>1, ServeInvCorrect, PTL

-----------------------------------------------------------------------------

(* The probe's agent, as _measure_client_timeout sets it up.               *)
OneAtATime == ~Parallel /\ Fates = {"answer"}

(* The inductive invariant of the probe.                                    *)

(* The session: calls and notifications, the first a call, nothing closes  *)
(* it, and nothing goes out before the first call has its row.             *)
SessionQuiet ==
    /\ closeAt = {} /\ status # "closed"
    /\ status = "ended" => inbox = << >> /\ eof
    /\ \A i \in 1..Len(sent) :
          /\ sent[i].kind \in {"call", "note"}
          /\ sent[1].at <= sent[i].at /\ sent[i].at <= now
    /\ sent # << >> => sent[1].kind = "call"
    /\ \A reply \in out : reply.at <= now
    /\ rows = << >> => pending = {} /\ out = {} /\ returned = {}

(* The call upstream came before it was taken; the first at once.          *)
ArrivalKept ==
    /\ status = "serving" => sent[current.id].at <= current.received
    /\ status = "serving" /\ current.id = 1 => current.received = sent[1].at

(* The first row is the first call's, it alone is held, until HoldFor after*)
(* the call at the least; every other row is of a later line, and no       *)
(* earlier than it.                                                        *)
FirstRow ==
    /\ rows = << >> =>
          /\ holding = (HoldFor > 0) /\ Taken <= 1
          /\ Taken = 1 => status = "serving" /\ current.id = 1
    /\ rows # << >> =>
          /\ ~holding
          /\ rows[1].id = 1 /\ rows[1].kind = "call" /\ rows[1].held = (HoldFor > 0)
          /\ rows[1].received = sent[1].at
          /\ \A stamp \in rows[1].replied : sent[1].at + HoldFor <= stamp
    /\ \A i \in 2..Len(rows) :
          /\ rows[i].id >= 2 /\ sent[rows[i].id].at <= rows[i].received
          /\ rows[i].kind = "call" => ~rows[i].held

(* The line after the first waits for one call at most, and is in the      *)
(* record unless it is a call that is not back.                            *)
SecondSoon ==
    Len(sent) >= 2 =>
        \/ Taken <= 1 /\ now <= sent[2].at + UpstreamTimeout
        \/ status = "serving" /\ current.id = 2
             /\ current.received <= sent[2].at + UpstreamTimeout
        \/ \E i \in 1..Len(rows) :
               rows[i].id = 2 /\ rows[i].received <= sent[2].at + UpstreamTimeout

RecordInv == ServeInv /\ SessionQuiet /\ ArrivalKept /\ FirstRow /\ SecondSoon

(* The agent: one line until it stops waiting or has the reply, its end    *)
(* closes its side, and it ends of itself only after one or the other.     *)
AgentOK ==
    /\ patience \in Nat \ {0} /\ deadline \in Nat
    /\ agent \in {"starting", "waiting", "working", "ended"}
    /\ eof <=> agent = "ended"
    /\ outcome \in {"running", "completed", "failed", "abandoned"}
    /\ agent = "starting" => sent = << >> /\ gaveUp = {} /\ ~accepted
    /\ agent = "waiting" => Len(sent) = 1 /\ gaveUp = {} /\ ~accepted
    /\ agent = "working" => Len(sent) >= 1 /\ (accepted \/ gaveUp # {})
    /\ IF agent = "ended"
       THEN \E f \in Nat : finished = {f} /\ f <= now
       ELSE finished = {}
    /\ agent = "ended" /\ outcome # "abandoned" => accepted \/ gaveUp # {}

(* It stops waiting at one time, a read timeout after its call, with a line*)
(* or with its end; whatever else it does is later.                        *)
GaveUpOnce ==
    gaveUp # {} =>
        \E g \in Nat :
            /\ gaveUp = {g} /\ g <= now
            /\ Len(sent) >= 1 /\ sent[1].at < g
            /\ \A i \in 2..Len(sent) : g <= sent[i].at
            /\ \A f \in finished : g <= f
            /\ finished = {g} \/ (Len(sent) >= 2 /\ sent[2].at = g)

(* It has the reply only after the hold, and whatever it does is later.    *)
AcceptedLate ==
    accepted =>
        /\ Len(sent) >= 1 /\ sent[1].at + HoldFor <= now
        /\ \A i \in 2..Len(sent) : sent[1].at + HoldFor <= sent[i].at
        /\ \A f \in finished : sent[1].at + HoldFor <= f

(* What was measured was read off an agent that had ended.                 *)
MeasuredOnce ==
    /\ measured # NotRead => agent = "ended"
    /\ ActedIsPatience /\ WaitedOutIsLowerBound

ProbeInv == RecordInv /\ AgentOK /\ GaveUpOnce /\ AcceptedLate /\ MeasuredOnce

-----------------------------------------------------------------------------
(* The session, as the probe's agent drives it.                            *)

(* The steps of ServeLoop that an agent with calls and notifications only, *)
(* and a call first, lets it take.                                         *)
QuietNext ==
    \/ \E kind \in {"call", "note"} : Send(kind) /\ (sent = << >> => kind = "call")
    \/ CloseInput
    \/ LoopStep
    \/ Tick
    \/ UNCHANGED vars

(* What the probe's agent does to the session is one of the steps listed.  *)
LEMMA ProbeStepIsQuiet ==
    ASSUME AgentOK, [ProbeNext]_probeVars
    PROVE  QuietNext
<1>1. agent \in {"waiting", "working"} => sent # << >>
  BY EmptySeq DEF AgentOK
<1>2. ASSUME NEW kind \in MessageKind, GiveUp(kind) PROVE QuietNext
  BY <1>1, <1>2 DEF GiveUp, Impatient, QuietNext
<1>3. CASE MakeCall
  BY <1>3 DEF MakeCall, QuietNext
<1>4. CASE Work
  BY <1>1, <1>4 DEF Work, QuietNext
<1>5. CASE Return \/ KillAgent
  BY <1>5 DEF Return, KillAgent, QuietNext
<1>6. CASE AcceptReply \/ ReadRecord \/ UNCHANGED probeVars
  BY <1>6 DEF AcceptReply, ReadRecord, probeVars, QuietNext
<1>7. CASE LoopStep \/ ProbeTick
  BY <1>7 DEF ProbeTick, QuietNext
<1> QED BY <1>2, <1>3, <1>4, <1>5, <1>6, <1>7 DEF ProbeNext

(* Those steps are steps of ServeLoop: its invariant holds here too.       *)
LEMMA QuietIsServe ==
    ASSUME QuietNext
    PROVE  [Next]_vars
BY DEF QuietNext, Next, MessageKind

(* The types and bounds that the steps below compute with.                 *)
LEMMA Numbers ==
    ASSUME ServeLoopAssumption, ServeInv
    PROVE  /\ now \in Nat /\ UpstreamTimeout \in Nat /\ HoldFor \in Nat
           /\ Len(sent) \in Nat /\ Len(inbox) \in Nat /\ Len(rows) \in Nat
           /\ Taken \in Nat /\ Taken <= Len(sent)
           /\ \A i \in 1..Len(sent) : sent[i].at \in Nat
           /\ \A i \in 1..Len(rows) :
                 /\ rows[i].id \in 1..Taken /\ rows[i].received \in Nat
                 /\ rows[i].kind = "call" => rows[i].replied \subseteq Nat
           /\ status = "serving" => current.id \in 1..Taken /\ current.received \in Nat
<1> USE DEF ServeInv, ServeTypeOK
<1>1. /\ Len(sent) \in Nat /\ Len(inbox) \in Nat /\ Len(rows) \in Nat
      /\ Taken \in Nat /\ Taken <= Len(sent)
  BY DEF QueueInOrder, Taken
<1>2. \A i \in 1..Len(sent) : sent[i].at \in Nat
  <2> SUFFICES ASSUME NEW i \in 1..Len(sent) PROVE sent[i].at \in Nat
    OBVIOUS
  <2>1. sent[i] \in Line
    BY ElementOfSeq
  <2> QED BY <2>1 DEF Line
<1>3. ASSUME NEW i \in 1..Len(rows)
      PROVE  /\ rows[i].id \in 1..Taken /\ rows[i].received \in Nat
             /\ rows[i].kind = "call" => rows[i].replied \subseteq Nat
  <2>1. rows[i] \in NoteRow \cup CallRow
    BY ElementOfSeq
  <2>2. rows[i].id \in Nat \ {0} /\ rows[i].received \in Nat
    BY <2>1 DEF NoteRow, CallRow, Id
  <2>3. rows[i].kind = "call" => rows[i].replied \subseteq Nat
    BY <2>1 DEF NoteRow, CallRow
  <2>4. rows[i].id <= Taken
    BY DEF OnlyTaken, Known
  <2> QED BY <1>1, <2>2, <2>3, <2>4
<1>4. status = "serving" => current.id \in 1..Taken /\ current.received \in Nat
  BY <1>1 DEF Upstream, Id, OnlyTaken
<1> QED BY <1>1, <1>2, <1>3, <1>4 DEF ServeLoopAssumption

(* What a line does to the session.                                        *)
LEMMA LineSent ==
    ASSUME ServeLoopAssumption, ServeInv, NEW kind \in MessageKind, Send(kind)
    PROVE  /\ Len(sent') = Len(sent) + 1
           /\ \A i \in 1..Len(sent) : sent'[i] = sent[i]
           /\ sent'[Len(sent) + 1].kind = kind /\ sent'[Len(sent) + 1].at = now
           /\ Taken' = Taken
           /\ UNCHANGED <<now, eof, loop, pending, rows, out, returned>>
<1> DEFINE line == [kind |-> kind, at |-> now]
<1>1. /\ sent' = Append(sent, line) /\ inbox' = Append(inbox, Len(sent) + 1)
      /\ line \in Line /\ line.at = now /\ line.kind = kind
      /\ Len(sent) + 1 \in Id
  BY Numbers DEF Send, Line, Id
<1> HIDE DEF line
<1>2. /\ Len(sent') = Len(sent) + 1 /\ Len(inbox') = Len(inbox) + 1
      /\ \A i \in 1..Len(sent) : sent'[i] = sent[i]
      /\ sent'[Len(sent) + 1] = line
  BY <1>1, AppendProperties DEF ServeInv, ServeTypeOK
<1>3. Taken' = Taken
  BY <1>2, Numbers DEF Taken
<1> QED BY <1>1, <1>2, <1>3 DEF Send

(* The session's part survives a line from the agent.                      *)
LEMMA RecordSend ==
    ASSUME ServeLoopAssumption, RecordInv, NEW kind \in {"call", "note"}, Send(kind),
           sent = << >> => kind = "call"
    PROVE  SessionQuiet' /\ ArrivalKept' /\ FirstRow' /\ SecondSoon'
<1>1. /\ Len(sent') = Len(sent) + 1
      /\ \A i \in 1..Len(sent) : sent'[i] = sent[i]
      /\ sent'[Len(sent) + 1].kind = kind /\ sent'[Len(sent) + 1].at = now
      /\ Taken' = Taken
      /\ UNCHANGED <<now, eof, status, current, holding, closeAt, pending, rows, out, returned>>
  BY LineSent DEF RecordInv, MessageKind, loop
<1>2. ServeInv /\ Len(sent) \in Nat /\ Taken \in Nat /\ Taken <= Len(sent) /\ now \in Nat
  BY Numbers DEF RecordInv
<1>3. ~eof /\ (sent # << >> => Len(sent) >= 1) /\ (Len(sent) = 0 => sent = << >>)
  BY <1>2, EmptySeq DEF Send, ServeInv, ServeTypeOK
<1>4. SessionQuiet'
  <2>1. \A i \in 1..Len(sent') : /\ sent'[i].kind \in {"call", "note"}
                                 /\ sent'[1].at <= sent'[i].at /\ sent'[i].at <= now
    <3> SUFFICES ASSUME NEW i \in 1..Len(sent')
                 PROVE  /\ sent'[i].kind \in {"call", "note"}
                        /\ sent'[1].at <= sent'[i].at /\ sent'[i].at <= now
      OBVIOUS
    <3>1. CASE i \in 1..Len(sent)
      BY <1>1, <1>2, <3>1 DEF RecordInv, SessionQuiet
    <3>2. CASE i = Len(sent) + 1 /\ Len(sent) >= 1
      BY <1>1, <1>2, <3>2 DEF RecordInv, SessionQuiet
    <3>3. CASE i = Len(sent) + 1 /\ Len(sent) = 0
      BY <1>1, <1>2, <3>3
    <3> QED BY <1>1, <1>2, <3>1, <3>2, <3>3
  <2>2. sent'[1].kind = "call"
    BY <1>1, <1>2, <1>3 DEF RecordInv, SessionQuiet
  <2> QED BY <1>1, <1>3, <2>1, <2>2 DEF RecordInv, SessionQuiet
<1>5. ArrivalKept'
  <2>1. status = "serving" => current.id \in 1..Len(sent) /\ 1 \in 1..Len(sent)
    BY <1>2, Numbers
  <2> QED BY <1>1, <2>1 DEF RecordInv, ArrivalKept
<1>6. FirstRow'
  <2>1. \A i \in 1..Len(rows) : rows[i].id \in 1..Len(sent) /\ 1 \in 1..Len(sent)
    BY <1>2, Numbers
  <2>2. rows # << >> => 1 \in 1..Len(rows)
    BY <1>2, EmptySeq DEF ServeInv, ServeTypeOK
  <2>3. rows # << >> => sent'[1] = sent[1]
    BY <1>1, <2>1, <2>2
  <2>4. \A i \in 2..Len(rows) : sent'[rows[i].id] = sent[rows[i].id]
    BY <1>1, <2>1, Numbers, <1>2
  <2> QED BY <1>1, <2>3, <2>4 DEF RecordInv, FirstRow
<1>7. SecondSoon'
  <2>1. CASE Len(sent) >= 2
    <3>1. sent'[2] = sent[2]
      BY <1>1, <1>2, <2>1
    <3> QED BY <1>1, <2>1, <3>1 DEF RecordInv, SecondSoon
  <2>2. CASE Len(sent) = 1
    BY <1>1, <1>2, <2>2, Numbers DEF SecondSoon
  <2> QED BY <1>1, <1>2, <2>1, <2>2 DEF SecondSoon
<1> QED BY <1>4, <1>5, <1>6, <1>7

(* It survives the passing of time.                                        *)
LEMMA RecordTick ==
    ASSUME ServeLoopAssumption, RecordInv, Tick
    PROVE  SessionQuiet' /\ ArrivalKept' /\ FirstRow' /\ SecondSoon'
<1>1. /\ now' = now + 1 /\ UNCHANGED <<sent, eof, inbox, status, current, holding, closeAt>>
      /\ UNCHANGED <<pending, rows, out, returned>> /\ Taken' = Taken
  BY DEF Tick, client, loop, Taken
<1>2. ServeInv /\ Len(sent) \in Nat /\ Taken \in Nat /\ Taken <= Len(sent) /\ now \in Nat
  BY Numbers DEF RecordInv
<1>3. SessionQuiet'
  <2>1. \A reply \in out : reply.at \in Nat
    BY <1>2 DEF ServeInv, ServeTypeOK, Reply
  <2>2. \A i \in 1..Len(sent) : sent[i].at <= now + 1
    BY <1>2, Numbers DEF RecordInv, SessionQuiet
  <2> QED BY <1>1, <1>2, <2>1, <2>2 DEF RecordInv, SessionQuiet
<1>4. ArrivalKept' /\ FirstRow'
  BY <1>1 DEF RecordInv, ArrivalKept, FirstRow
<1>5. SecondSoon'
  <2>1. CASE Len(sent) >= 2 /\ Taken <= 1
    <3>1. Len(inbox) >= 1 /\ inbox # << >>
      BY <1>2, <2>1, Numbers, EmptySeq DEF Taken
    <3>2. status = "serving"
      <4>1. status # "reading"
        <5>1. \A at \in Deadlines : at \in Nat
          BY <1>2 DEF Deadlines, ServeInv, ServeTypeOK, Held1
        <5>2. WakeDue \/ MayTake
          BY <1>2, <5>1 DEF WakeDue, MayTake
        <5> QED BY <3>1, <5>2 DEF Tick, LoopReady
      <4> QED BY <1>2, <3>1, <4>1 DEF RecordInv, SessionQuiet, ServeInv, ServeTypeOK
    <3>3. current.id = 1 /\ now < current.received + UpstreamTimeout
      BY <1>2, <2>1, <3>2, Numbers DEF Tick
    <3>4. current.received = sent[1].at /\ sent[1].at <= sent[2].at
      BY <1>2, <2>1, <3>2, <3>3 DEF RecordInv, ArrivalKept, SessionQuiet
    <3>5. sent[1].at \in Nat /\ sent[2].at \in Nat /\ UpstreamTimeout \in Nat
      BY <1>2, <2>1, Numbers
    <3> QED BY <1>1, <1>2, <2>1, <3>3, <3>4, <3>5 DEF SecondSoon
  <2>2. CASE ~(Len(sent) >= 2 /\ Taken <= 1)
    BY <1>1, <2>2 DEF RecordInv, SecondSoon
  <2> QED BY <2>1, <2>2
<1> QED BY <1>3, <1>4, <1>5

(* The first line taken leaves nothing before it, and is a call.           *)
LEMMA LineTaken ==
    ASSUME ServeLoopAssumption, RecordInv, NEW kind, Take(kind)
    PROVE  /\ Head1 = Taken + 1 /\ Head1 \in 1..Len(sent) /\ status = "reading"
           /\ sent[Head1].kind = kind /\ kind \in {"call", "note"}
           /\ sent[Head1].at <= now
           /\ rows = << >> <=> Taken = 0
           /\ Taken = 0 => kind = "call" /\ sent[1].at = now
<1>1. /\ ServeInv /\ Taken \in Nat /\ now \in Nat /\ inbox # << >>
      /\ sent[Head1].kind = kind /\ status = "reading"
  BY Numbers DEF RecordInv, Take
<1>2. Head1 = Taken + 1 /\ Head1 \in 1..Len(sent)
  BY <1>1, HeadOfQueue DEF ServeInv
<1>3. sent[Head1].kind \in {"call", "note"} /\ sent[Head1].at <= now
  BY <1>2 DEF RecordInv, SessionQuiet
<1>4. rows = << >> <=> Taken = 0
  <2>1. rows = << >> => Taken = 0
    BY <1>1 DEF RecordInv, FirstRow
  <2>2. rows # << >> => 1 \in 1..Len(rows)
    BY <1>1, EmptySeq DEF ServeInv, ServeTypeOK
  <2>3. rows # << >> => Taken # 0
    BY <1>1, <2>2, Numbers
  <2> QED BY <2>1, <2>3
<1>5. ASSUME Taken = 0 PROVE kind = "call" /\ sent[1].at = now
  <2>1. Head1 = 1 /\ sent # << >>
    BY <1>1, <1>2, <1>5, EmptySeq
  <2>2. kind = "call"
    BY <1>1, <2>1 DEF RecordInv, SessionQuiet
  <2>3. 1 \in DOMAIN inbox /\ inbox[1] = 1
    BY <1>1, <2>1, EmptySeq, Numbers DEF ServeInv, ServeTypeOK, Head1
  <2>4. now \notin returned
    BY <1>4, <1>5 DEF RecordInv, SessionQuiet
  <2>5. sent[1].at >= now
    BY <1>1, <2>3, <2>4 DEF ServeInv, NothingWaits
  <2>6. sent[1].at \in Nat
    BY <1>1, <1>2, <2>1, Numbers
  <2> QED BY <1>1, <1>3, <2>1, <2>2, <2>5, <2>6
<1> QED BY <1>1, <1>2, <1>3, <1>4, <1>5

(* It survives the loop taking a call.                                     *)
LEMMA RecordCall ==
    ASSUME ServeLoopAssumption, RecordInv, TakeCall
    PROVE  SessionQuiet' /\ ArrivalKept' /\ FirstRow' /\ SecondSoon'
<1>1. /\ Head1 = Taken + 1 /\ Head1 \in 1..Len(sent) /\ status = "reading"
      /\ sent[Head1].at <= now
      /\ rows = << >> <=> Taken = 0
      /\ Taken = 0 => sent[1].at = now
  BY LineTaken DEF TakeCall
<1>2. /\ status' = "serving" /\ current' = [id |-> Head1, received |-> now]
      /\ UNCHANGED <<now, sent, eof, holding, closeAt, pending, rows, out, returned>>
  BY DEF TakeCall, client
<1>3. /\ ServeInv /\ Taken \in Nat /\ now \in Nat /\ Len(sent) \in Nat /\ UpstreamTimeout \in Nat
      /\ Taken' = Taken + 1
  BY NextQueue, Numbers DEF RecordInv, ServeInv, TakeCall, Next, LoopStep
<1>4. SessionQuiet'
  BY <1>2 DEF RecordInv, SessionQuiet
<1>5. ArrivalKept'
  BY <1>1, <1>2, <1>3 DEF ArrivalKept
<1>6. FirstRow'
  BY <1>1, <1>2, <1>3 DEF RecordInv, FirstRow
<1>7. SecondSoon'
  <2> SUFFICES ASSUME Len(sent) >= 2 PROVE SecondSoon'
    BY <1>2 DEF SecondSoon
  <2>1. CASE Taken = 0
    BY <1>1, <1>2, <1>3, <2>1 DEF RecordInv, SecondSoon
  <2>2. CASE Taken = 1
    <3>1. sent[2].at <= now /\ sent[2].at \in Nat
      BY <1>1, <1>3, <2>2, Numbers
    <3>2. now <= sent[2].at + UpstreamTimeout
      BY <1>1, <1>3, <2>2, Numbers DEF RecordInv, SecondSoon
    <3> QED BY <1>1, <1>2, <1>3, <2>2, <3>1, <3>2 DEF SecondSoon
  <2>3. CASE Taken >= 2
    BY <1>1, <1>2, <1>3, <2>3 DEF RecordInv, SecondSoon
  <2> QED BY <1>3, <2>1, <2>2, <2>3
<1> QED BY <1>4, <1>5, <1>6, <1>7

(* It survives the loop taking a notification.                             *)
LEMMA RecordNote ==
    ASSUME ServeLoopAssumption, RecordInv, TakeNote
    PROVE  SessionQuiet' /\ ArrivalKept' /\ FirstRow' /\ SecondSoon'
<1> DEFINE row == [id |-> Head1, kind |-> "note", received |-> now]
<1>1. /\ Head1 = Taken + 1 /\ Head1 \in 1..Len(sent) /\ status = "reading"
      /\ sent[Head1].at <= now /\ rows # << >> /\ Taken # 0
  BY LineTaken DEF TakeNote
<1>2. /\ status' = "reading" /\ rows' = Append(rows, row)
      /\ UNCHANGED <<now, sent, eof, current, holding, closeAt, returned>>
  BY <1>1 DEF TakeNote, client, loop
<1>3. /\ ServeInv /\ Taken \in Nat /\ now \in Nat /\ Len(sent) \in Nat /\ UpstreamTimeout \in Nat
      /\ Taken' = Taken + 1 /\ Len(rows) \in Nat
  BY NextQueue, Numbers DEF RecordInv, ServeInv, TakeNote, Next, LoopStep
<1>4. /\ row.id = Taken + 1 /\ row.kind = "note" /\ row.received = now
      /\ row \in NoteRow \cup CallRow
  BY <1>1, <1>3 DEF NoteRow, Id
<1> HIDE DEF row
<1>5. /\ Len(rows') = Len(rows) + 1 /\ Len(rows) >= 1 /\ rows' # << >>
      /\ \A i \in 1..Len(rows) : rows'[i] = rows[i]
      /\ rows'[Len(rows) + 1] = row
  <2>1. rows \in Seq(NoteRow \cup CallRow)
    BY <1>3 DEF ServeInv, ServeTypeOK
  <2>2. Len(rows) >= 1
    BY <1>1, <1>3, <2>1, EmptySeq
  <2>3. rows' = Append(rows, row)
    BY <1>2
  <2>4. /\ Len(rows') = Len(rows) + 1 /\ rows' # << >>
        /\ \A i \in 1..Len(rows) : rows'[i] = rows[i]
        /\ rows'[Len(rows) + 1] = row
    BY <1>4, <2>1, <2>3, AppendProperties
  <2> QED BY <2>2, <2>4
<1>6. SessionQuiet'
  <2>1. \A reply \in out' : reply \in out \/ reply.at = now
    BY <1>3, ReleasedOnly DEF TakeNote, ServeInv
  <2> QED BY <1>2, <1>3, <1>5, <2>1 DEF RecordInv, SessionQuiet
<1>7. ArrivalKept'
  BY <1>2 DEF ArrivalKept
<1>8. FirstRow'
  <2>1. rows'[1] = rows[1]
    BY <1>3, <1>5
  <2>2. \A i \in 2..Len(rows') : /\ rows'[i].id >= 2
                                 /\ sent[rows'[i].id].at <= rows'[i].received
                                 /\ rows'[i].kind = "call" => ~rows'[i].held
    <3> SUFFICES ASSUME NEW i \in 2..Len(rows')
                 PROVE  /\ rows'[i].id >= 2
                        /\ sent[rows'[i].id].at <= rows'[i].received
                        /\ rows'[i].kind = "call" => ~rows'[i].held
      OBVIOUS
    <3>1. CASE i \in 2..Len(rows)
      BY <1>3, <1>5, <3>1 DEF RecordInv, FirstRow
    <3>2. CASE i = Len(rows) + 1
      BY <1>1, <1>3, <1>4, <1>5, <3>2
    <3> QED BY <1>3, <1>5, <3>1, <3>2
  <2> QED BY <1>1, <1>2, <1>5, <2>1, <2>2 DEF RecordInv, FirstRow
<1>9. SecondSoon'
  <2> SUFFICES ASSUME Len(sent) >= 2 PROVE SecondSoon'
    BY <1>2 DEF SecondSoon
  <2>1. CASE Taken = 1
    <3>1. now <= sent[2].at + UpstreamTimeout
      BY <1>1, <1>3, <2>1, Numbers DEF RecordInv, SecondSoon
    <3>2. Len(rows) + 1 \in 1..Len(rows') /\ rows'[Len(rows) + 1] = row
      BY <1>3, <1>5
    <3> QED BY <1>2, <1>3, <1>4, <2>1, <3>1, <3>2 DEF SecondSoon
  <2>2. CASE Taken >= 2
    <3>1. PICK i \in 1..Len(rows) :
            rows[i].id = 2 /\ rows[i].received <= sent[2].at + UpstreamTimeout
      BY <1>1, <1>3, <2>2 DEF RecordInv, SecondSoon
    <3>2. i \in 1..Len(rows') /\ rows'[i] = rows[i]
      BY <1>3, <1>5
    <3> QED BY <1>2, <3>1, <3>2 DEF SecondSoon
  <2> QED BY <1>1, <1>3, <2>1, <2>2
<1> QED BY <1>6, <1>7, <1>8, <1>9

(* It survives a call coming back: the first is held, a later one          *)
(* answered.                                                               *)
LEMMA RecordFinish ==
    ASSUME ServeLoopAssumption, RecordInv, Finish("answer"), "answer" \in Fates
    PROVE  SessionQuiet' /\ ArrivalKept' /\ FirstRow' /\ SecondSoon'
<1>1. ServeInv /\ ServeTypeOK
  BY DEF RecordInv, ServeInv
<1>2. PICK row \in CallRow :
        /\ row.id = current.id /\ rows' = Append(rows, row)
        /\ row.received = current.received
        /\ row.held <=> holding
        /\ row.replied = {IF row.held THEN now + HoldFor ELSE now}
        /\ out \subseteq out' /\ \A reply \in out' \ out : reply.at = now
  BY <1>1, Finished
<1>3. /\ status = "serving" /\ status' = "reading" /\ holding' = (holding /\ ~holding)
      /\ closeAt' = {}
      /\ UNCHANGED <<now, sent, eof, inbox>>
  BY DEF Finish, StillHolding, ArmClose, client, RecordInv, SessionQuiet
<1>4. /\ current.id \in 1..Taken /\ current.received \in Nat /\ Taken \in Nat /\ now \in Nat
      /\ Taken <= Len(sent) /\ Len(sent) \in Nat /\ Len(rows) \in Nat /\ HoldFor \in Nat
      /\ UpstreamTimeout \in Nat /\ Taken' = Taken /\ row.kind = "call"
  BY <1>1, <1>3, Numbers DEF Taken, CallRow
<1>5. /\ Len(rows') = Len(rows) + 1 /\ rows' # << >>
      /\ \A i \in 1..Len(rows) : rows'[i] = rows[i]
      /\ rows'[Len(rows) + 1] = row
      /\ rows = << >> <=> Len(rows) = 0
  <2>1. rows \in Seq(NoteRow \cup CallRow) /\ row \in NoteRow \cup CallRow
    BY <1>1 DEF ServeTypeOK
  <2>2. /\ Len(rows') = Len(rows) + 1
        /\ \A i \in 1..Len(rows) : rows'[i] = rows[i]
        /\ rows'[Len(rows) + 1] = row
    BY <1>2, <2>1, AppendProperties
  <2>3. rows' # << >>
    BY <1>4, <2>2, EmptySeq
  <2>4. rows = << >> <=> Len(rows) = 0
    BY <2>1, EmptySeq
  <2> QED BY <2>2, <2>3, <2>4
<1>6. SessionQuiet'
  <2>1. \A reply \in out' : reply.at <= now
    <3> SUFFICES ASSUME NEW reply \in out' PROVE reply.at <= now
      OBVIOUS
    <3>1. CASE reply \in out
      BY <3>1 DEF RecordInv, SessionQuiet
    <3>2. CASE reply \notin out
      BY <1>2, <1>4, <3>2
    <3> QED BY <3>1, <3>2
  <2>2. /\ \A i \in 1..Len(sent) :
            /\ sent[i].kind \in {"call", "note"}
            /\ sent[1].at <= sent[i].at /\ sent[i].at <= now
        /\ sent # << >> => sent[1].kind = "call"
    BY DEF RecordInv, SessionQuiet
  <2>3. \A reply \in out' : reply.at <= now'
    BY <1>3, <2>1
  <2> QED BY <1>3, <1>5, <2>2, <2>3 DEF SessionQuiet
<1>7. ArrivalKept'
  BY <1>3 DEF ArrivalKept
<1>8. sent[current.id].at <= current.received /\ current.received <= now
  BY <1>1, <1>3 DEF RecordInv, ArrivalKept, ServeInv, OnTime
<1>9. FirstRow'
  <2>1. CASE rows = << >>
    <3>1. current.id = 1 /\ holding = (HoldFor > 0) /\ row.received = sent[1].at
      BY <1>2, <1>3, <1>4, <2>1 DEF RecordInv, FirstRow, ArrivalKept
    <3>2. rows'[1] = row /\ Len(rows') = 1
      BY <1>4, <1>5, <2>1
    <3>3. 1 \in 1..Len(sent) /\ sent[1].at \in Nat
      BY <1>1, <1>4, <3>1, Numbers
    <3>4. row.held \in BOOLEAN /\ holding \in BOOLEAN
      BY <1>1 DEF CallRow, ServeTypeOK
    <3>5. row.held = holding
      BY <1>2, <3>4, Zenon
    <3>6. row.held = (HoldFor > 0)
      BY <3>1, <3>5, Zenon
    <3>7. ASSUME NEW stamp \in row.replied PROVE sent[1].at + HoldFor <= stamp
      <4>1. sent[1].at <= now
        BY <1>4, <1>8, <3>1, <3>3
      <4>2. CASE row.held
        BY <1>2, <1>4, <3>3, <4>1, <4>2
      <4>3. CASE ~row.held
        <5>1. ~(HoldFor > 0)
          BY <3>6, <4>3, Zenon
        <5>2. stamp = now
          BY <1>2, <4>3
        <5> QED BY <1>2, <1>4, <3>3, <4>1, <5>1, <5>2
      <4> QED BY <4>2, <4>3
    <3>8. ~holding'
      BY <1>3
    <3>9. \A i \in 2..Len(rows') : FALSE
      BY <3>2
    <3> QED BY <1>2, <1>3, <1>4, <1>5, <3>1, <3>2, <3>6, <3>7, <3>8, <3>9 DEF FirstRow
  <2>2. CASE rows # << >>
    <3>1. rows'[1] = rows[1] /\ 1 \in 1..Len(rows) /\ ~holding /\ rows[1].id = 1
      BY <1>4, <1>5, <2>2 DEF RecordInv, FirstRow
    <3>2. current.id >= 2
      BY <1>1, <1>3, <1>4, <3>1 DEF ServeInv, OnlyTaken, Known
    <3>3. \A i \in 2..Len(rows') : /\ rows'[i].id >= 2
                                   /\ sent[rows'[i].id].at <= rows'[i].received
                                   /\ rows'[i].kind = "call" => ~rows'[i].held
      <4> SUFFICES ASSUME NEW i \in 2..Len(rows')
                   PROVE  /\ rows'[i].id >= 2
                          /\ sent[rows'[i].id].at <= rows'[i].received
                          /\ rows'[i].kind = "call" => ~rows'[i].held
        OBVIOUS
      <4>1. CASE i \in 2..Len(rows)
        BY <1>4, <1>5, <4>1 DEF RecordInv, FirstRow
      <4>2. CASE i = Len(rows) + 1
        BY <1>2, <1>5, <1>8, <3>1, <3>2, <4>2
      <4> QED BY <1>4, <1>5, <4>1, <4>2
    <3> QED BY <1>3, <1>5, <2>2, <3>1, <3>3 DEF RecordInv, FirstRow
  <2> QED BY <2>1, <2>2
<1>10. SecondSoon'
  <2> SUFFICES ASSUME Len(sent) >= 2 PROVE SecondSoon'
    BY <1>3 DEF SecondSoon
  <2>1. CASE Taken <= 1 /\ now <= sent[2].at + UpstreamTimeout
    BY <1>3, <1>4, <2>1 DEF SecondSoon
  <2>2. CASE current.id = 2 /\ current.received <= sent[2].at + UpstreamTimeout
    <3>1. Len(rows) + 1 \in 1..Len(rows')
      BY <1>4, <1>5
    <3> QED BY <1>2, <1>3, <1>5, <2>2, <3>1 DEF SecondSoon
  <2>3. CASE \E i \in 1..Len(rows) :
                 rows[i].id = 2 /\ rows[i].received <= sent[2].at + UpstreamTimeout
    <3>1. \A i \in 1..Len(rows) : i \in 1..Len(rows') /\ rows'[i] = rows[i]
      BY <1>4, <1>5
    <3> QED BY <1>3, <2>3, <3>1 DEF SecondSoon
  <2> QED BY <2>1, <2>2, <2>3 DEF RecordInv, SecondSoon
<1> QED BY <1>6, <1>7, <1>9, <1>10

(* It survives the release of the held reply and the end of input.         *)
LEMMA RecordRest ==
    ASSUME ServeLoopAssumption, RecordInv,
           Wake \/ CloseInput \/ TakeEof \/ UNCHANGED vars
    PROVE  SessionQuiet' /\ ArrivalKept' /\ FirstRow' /\ SecondSoon'
<1>1. /\ UNCHANGED <<now, sent, inbox, current, holding, closeAt, rows, returned>>
      /\ status' = "serving" <=> status = "serving"
      /\ Taken' = Taken
      /\ status' # status => status = "reading"
  BY DEF Wake, Wakes, EndSession, CloseInput, TakeEof, vars, client, loop, Taken
<1>2. ArrivalKept' /\ FirstRow' /\ SecondSoon'
  BY <1>1 DEF RecordInv, ArrivalKept, FirstRow, SecondSoon
<1>3. CASE Wake
  <2>1. /\ \A reply \in pending' : reply \in pending
        /\ \A reply \in out' : \/ reply \in out
                               \/ reply.at = now /\ pending # {}
    <3>1. ServeTypeOK /\ Release({}, pending)
      BY <1>3 DEF Wake, RecordInv, ServeInv
    <3>2. \A reply \in pending' : reply \in pending
      BY <3>1, ReleasedOnly
    <3>3. ASSUME NEW reply \in out', reply \notin out
          PROVE  reply.at = now /\ \E due \in pending : due.id = reply.id
      BY <3>1, <3>3, ReleasedOnly
    <3>4. ASSUME NEW reply \in out', reply \notin out
          PROVE  reply.at = now /\ pending # {}
      BY <3>3, <3>4
    <3> QED BY <3>2, <3>4
  <2>2. status' = "reading" /\ eof' = eof
    BY <1>3 DEF Wake, EndSession, CloseDue, client, RecordInv, SessionQuiet
  <2>3. closeAt' = {} /\ status' # "closed" /\ status' # "ended"
    BY <1>1, <2>2 DEF RecordInv, SessionQuiet
  <2>4. \A i \in 1..Len(sent) :
           /\ sent'[i].kind \in {"call", "note"}
           /\ sent'[1].at <= sent'[i].at /\ sent'[i].at <= now'
    BY <1>1 DEF RecordInv, SessionQuiet
  <2>5. now <= now
    BY Numbers DEF RecordInv
  <2>6. \A reply \in out' : reply.at <= now'
    BY <1>1, <2>1, <2>5 DEF RecordInv, SessionQuiet
  <2>7. rows = << >> => pending' = {} /\ out' = {} /\ returned' = {}
    <3> SUFFICES ASSUME rows = << >> PROVE pending' = {} /\ out' = {} /\ returned' = {}
      OBVIOUS
    <3>1. pending = {} /\ out = {} /\ returned = {}
      BY DEF RecordInv, SessionQuiet
    <3> QED BY <1>1, <2>1, <3>1
  <2>8. sent' # << >> => sent'[1].kind = "call"
    BY <1>1 DEF RecordInv, SessionQuiet
  <2>9. sent' = sent /\ rows' = rows
    BY <1>1
  <2>10. SessionQuiet'
    BY <2>3, <2>4, <2>6, <2>7, <2>8, <2>9 DEF SessionQuiet
  <2> QED BY <1>2, <2>10
<1>4. CASE CloseInput \/ TakeEof \/ UNCHANGED vars
  <2>1. UNCHANGED <<pending, out>> /\ (eof => eof') /\ status' # "closed"
    BY <1>4 DEF CloseInput, TakeEof, vars, client, loop, RecordInv, SessionQuiet
  <2>2. status' = "ended" => inbox' = << >> /\ eof'
    BY <1>1, <1>4 DEF CloseInput, TakeEof, vars, client, loop, RecordInv, SessionQuiet
  <2> QED BY <1>1, <1>2, <2>1, <2>2 DEF RecordInv, SessionQuiet
<1> QED BY <1>3, <1>4

(* So it survives every step the agent lets the session take.              *)
LEMMA NextRecord ==
    ASSUME ServeLoopAssumption, OneAtATime, RecordInv, QuietNext
    PROVE  RecordInv'
<1>1. ServeInv'
  BY QuietIsServe, NextServe DEF RecordInv
<1>2. ~TakeRequest
  BY LineTaken DEF TakeRequest
<1>3. SessionQuiet' /\ ArrivalKept' /\ FirstRow' /\ SecondSoon'
  BY <1>2, RecordSend, RecordTick, RecordCall, RecordNote, RecordFinish, RecordRest
  DEF QuietNext, LoopStep, OneAtATime
<1> QED BY <1>1, <1>3 DEF RecordInv

-----------------------------------------------------------------------------
(* The agent.                                                              *)

(* A task that has just been started satisfies the invariant.              *)
LEMMA InitProbe ==
    ASSUME ServeLoopAssumption, DeadlineProbeAssumption, ProbeInit
    PROVE  ProbeInv
<1>1. ServeInv
  BY InitServe DEF ProbeInit
<1>2. /\ sent = << >> /\ inbox = << >> /\ rows = << >> /\ eof = FALSE
      /\ Len(sent) = 0 /\ Len(inbox) = 0 /\ Len(rows) = 0 /\ Taken = 0
      /\ status = "reading" /\ closeAt = {} /\ pending = {} /\ out = {} /\ returned = {}
      /\ holding = (HoldFor > 0)
  BY EmptySeq DEF ProbeInit, Init, Taken
<1>3. SessionQuiet /\ ArrivalKept /\ FirstRow /\ SecondSoon
  BY <1>2 DEF SessionQuiet, ArrivalKept, FirstRow, SecondSoon
<1>4. AgentOK /\ GaveUpOnce /\ AcceptedLate
  BY <1>2 DEF ProbeInit, DeadlineProbeAssumption, AgentOK, GaveUpOnce, AcceptedLate
<1>5. MeasuredOnce
  BY DEF ProbeInit, NotRead, MeasuredOnce, ActedIsPatience, WaitedOutIsLowerBound
<1> QED BY <1>1, <1>3, <1>4, <1>5 DEF ProbeInv, RecordInv

(* What the agent sees of a step that is not its own.                      *)
LEMMA OthersStep ==
    ASSUME \/ LoopStep /\ UNCHANGED agentVars
           \/ AcceptReply \/ ReadRecord \/ UNCHANGED probeVars
    PROVE  UNCHANGED <<now, sent, eof, params, gaveUp, finished, outcome>>
BY DEF LoopStep, TakeNote, TakeRequest, TakeCall, Finish, Wake, EndSession, TakeEof,
       AcceptReply, ReadRecord, probeVars, agentVars, vars, client, params

(* The agent's part survives every step, the kill at the task deadline     *)
(* included.                                                               *)
LEMMA NextAgent ==
    ASSUME ServeLoopAssumption, OneAtATime, RecordInv, AgentOK, [ProbeNext]_probeVars
    PROVE  AgentOK'
<1>1. ServeInv /\ now \in Nat /\ Len(sent) \in Nat
  BY Numbers DEF RecordInv
<1>2. sent = << >> => Len(sent) = 0
  BY EmptySeq
<1>3. ASSUME NEW kind \in MessageKind, Send(kind)
      PROVE  Len(sent') = Len(sent) + 1 /\ now' = now /\ eof' = eof /\ sent # sent'
  <2>1. Len(sent') = Len(sent) + 1 /\ now' = now /\ eof' = eof
    BY <1>1, <1>3, LineSent
  <2> QED BY <1>1, <2>1
<1>4. CASE MakeCall
  BY <1>1, <1>2, <1>3, <1>4 DEF MakeCall, MessageKind, AgentOK, params
<1>5. ASSUME NEW kind \in MessageKind, GiveUp(kind) PROVE AgentOK'
  BY <1>1, <1>3, <1>5 DEF GiveUp, Impatient, AgentOK, params
<1>6. CASE Work
  BY <1>1, <1>3, <1>6 DEF Work, OneAtATime, MessageKind, AgentOK, agentVars, params
<1>7. CASE Return
  BY <1>1, <1>7 DEF Return, Impatient, CloseInput, AgentOK, params
<1>8. CASE KillAgent
  BY <1>1, <1>8 DEF KillAgent, DeadlineReached, CloseInput, AgentOK, params
<1>9. CASE AcceptReply
  BY <1>9, OthersStep DEF AcceptReply, AgentOK, params
<1>10. CASE ReadRecord \/ (LoopStep /\ UNCHANGED agentVars) \/ UNCHANGED probeVars
  BY <1>10, OthersStep DEF ReadRecord, AgentOK, params, agentVars, probeVars
<1>11. CASE ProbeTick
  <2>1. UNCHANGED <<sent, eof, agentVars>> /\ now' = now + 1
    BY <1>11 DEF ProbeTick, Tick, client
  <2> QED BY <1>1, <2>1 DEF AgentOK, agentVars, params
<1> QED BY <1>4, <1>5, <1>6, <1>7, <1>8, <1>9, <1>10, <1>11 DEF ProbeNext

(* An agent that has had enough has waited since before now.               *)
LEMMA ImpatientIsLate ==
    ASSUME ServeLoopAssumption, RecordInv, AgentOK, Impatient
    PROVE  /\ Len(sent) = 1 /\ sent[1].at \in Nat /\ sent[1].at < now
           /\ finished = {} /\ gaveUp = {} /\ ~accepted
<1>1. ServeInv /\ now \in Nat
  BY Numbers DEF RecordInv
<1>2. Len(sent) = 1 /\ finished = {} /\ gaveUp = {} /\ ~accepted
  BY DEF Impatient, AgentOK
<1>3. sent[1].at \in Nat
  BY <1>1, <1>2, Numbers
<1>4. patience \in Nat /\ patience # 0 /\ now >= sent[1].at + patience
  BY DEF AgentOK, Impatient
<1> QED BY <1>1, <1>2, <1>3, <1>4

(* An agent stops waiting once, and a read timeout after its call, after   *)
(* every step.                                                             *)
LEMMA NextGaveUp ==
    ASSUME ServeLoopAssumption, OneAtATime, RecordInv, AgentOK, GaveUpOnce,
           [ProbeNext]_probeVars
    PROVE  GaveUpOnce'
<1>1. ServeInv /\ now \in Nat /\ Len(sent) \in Nat
  BY Numbers DEF RecordInv
<1>2. \A i \in 1..Len(sent) : sent[i].at \in Nat /\ sent[i].at <= now
  BY <1>1, Numbers DEF RecordInv, SessionQuiet
<1>3. ASSUME NEW kind \in MessageKind, Send(kind)
      PROVE  /\ Len(sent') = Len(sent) + 1 /\ now' = now
             /\ \A i \in 1..Len(sent) : sent'[i] = sent[i]
             /\ sent'[Len(sent) + 1].at = now
  BY <1>1, <1>3, LineSent
<1>4. CASE MakeCall
  BY <1>4 DEF MakeCall, AgentOK, GaveUpOnce
<1>5. ASSUME NEW kind \in MessageKind, GiveUp(kind) PROVE GaveUpOnce'
  <2>1. Len(sent) = 1 /\ sent[1].at < now /\ finished = {}
    BY <1>5, ImpatientIsLate DEF GiveUp
  <2>2. Send(kind) /\ gaveUp' = {now} /\ finished' = finished
    BY <1>5 DEF GiveUp
  <2>3. now' = now /\ Len(sent') = 2 /\ sent'[1] = sent[1] /\ sent'[2].at = now
    BY <1>3, <2>1, <2>2
  <2> QED BY <1>1, <2>1, <2>2, <2>3 DEF GaveUpOnce
<1>6. CASE Work
  <2>1. /\ Len(sent') = Len(sent) + 1 /\ now' = now
        /\ \A i \in 1..Len(sent) : sent'[i] = sent[i]
        /\ sent'[Len(sent) + 1].at = now
        /\ gaveUp' = gaveUp /\ finished' = finished
    BY <1>3, <1>6 DEF Work, MessageKind, agentVars
  <2> SUFFICES ASSUME gaveUp # {} PROVE GaveUpOnce'
    BY <2>1 DEF GaveUpOnce
  <2>2. PICK g \in Nat :
          /\ gaveUp = {g} /\ g <= now
          /\ Len(sent) >= 1 /\ sent[1].at < g
          /\ \A i \in 2..Len(sent) : g <= sent[i].at
          /\ \A f \in finished : g <= f
          /\ finished = {g} \/ (Len(sent) >= 2 /\ sent[2].at = g)
    BY DEF GaveUpOnce
  <2>3. \A i \in 2..Len(sent') : g <= sent'[i].at
    <3> SUFFICES ASSUME NEW i \in 2..Len(sent') PROVE g <= sent'[i].at
      OBVIOUS
    <3>1. CASE i \in 2..Len(sent)
      BY <1>1, <2>1, <2>2, <3>1
    <3>2. CASE i = Len(sent) + 1
      BY <2>1, <2>2, <3>2
    <3> QED BY <1>1, <2>1, <3>1, <3>2
  <2>4. sent'[1] = sent[1] /\ (Len(sent) >= 2 => sent'[2] = sent[2])
    BY <1>1, <2>1, <2>2
  <2> QED BY <1>1, <2>1, <2>2, <2>3, <2>4 DEF GaveUpOnce
<1>7. CASE Return \/ KillAgent
  <2>1. /\ UNCHANGED <<now, sent>> /\ finished' = {now} /\ finished = {}
        /\ agent # "ended"
    BY <1>7 DEF Return, KillAgent, Impatient, DeadlineReached, CloseInput, AgentOK
  <2>2. CASE Return /\ agent = "waiting"
    <3>1. Len(sent) = 1 /\ sent[1].at < now
      BY <2>2, ImpatientIsLate DEF Return
    <3>2. gaveUp' = {now}
      BY <2>2 DEF Return
    <3> QED BY <1>1, <2>1, <3>1, <3>2 DEF GaveUpOnce
  <2>3. CASE ~(Return /\ agent = "waiting")
    <3>1. gaveUp' = gaveUp
      BY <1>7, <2>3 DEF Return, KillAgent
    <3> QED BY <1>1, <2>1, <3>1 DEF GaveUpOnce
  <2> QED BY <2>2, <2>3
<1>8. CASE AcceptReply \/ ReadRecord \/ (LoopStep /\ UNCHANGED agentVars) \/ UNCHANGED probeVars
  BY <1>8, OthersStep DEF GaveUpOnce
<1>9. CASE ProbeTick
  <2>1. UNCHANGED <<sent, gaveUp, finished>> /\ now' = now + 1
    BY <1>9 DEF ProbeTick, Tick, client, agentVars
  <2> QED BY <1>1, <2>1 DEF GaveUpOnce
<1> QED BY <1>4, <1>5, <1>6, <1>7, <1>8, <1>9 DEF ProbeNext

(* A reply taken by the agent is the one its first row stamped.            *)
LEMMA ReplyIsLate ==
    ASSUME ServeLoopAssumption, RecordInv, ReplyHere
    PROVE  Len(sent) >= 1 /\ sent[1].at + HoldFor <= now
<1>1. /\ ServeInv /\ now \in Nat /\ HoldFor \in Nat /\ Len(rows) \in Nat
      /\ Taken \in Nat /\ Taken <= Len(sent) /\ Len(sent) \in Nat
  BY Numbers DEF RecordInv
<1>2. PICK reply \in out : reply.id = 1 /\ reply.at <= now /\ reply.at \in Nat
  BY DEF ReplyHere, RecordInv, SessionQuiet, ServeInv, ServeTypeOK, Reply
<1>3. rows # << >> /\ 1 \in 1..Len(rows) /\ 1 \in DOMAIN rows
  BY <1>1, <1>2, EmptySeq DEF RecordInv, SessionQuiet, ServeInv, ServeTypeOK
<1>4. /\ rows[1].id = 1 /\ rows[1].kind = "call"
      /\ \A stamp \in rows[1].replied : sent[1].at + HoldFor <= stamp
  BY <1>3 DEF RecordInv, FirstRow
<1>5. PICK stamp \in rows[1].replied : stamp <= reply.at
  BY <1>1, <1>2, <1>3, <1>4 DEF ServeInv, StampNeverLate
<1>6. stamp \in Nat /\ 1 \in 1..Len(sent) /\ sent[1].at \in Nat
  BY <1>1, <1>3, <1>4, Numbers
<1> QED BY <1>1, <1>2, <1>4, <1>5, <1>6

(* An agent has the late reply only after the hold, after every step.      *)
LEMMA NextAccepted ==
    ASSUME ServeLoopAssumption, OneAtATime, RecordInv, AgentOK, AcceptedLate,
           [ProbeNext]_probeVars
    PROVE  AcceptedLate'
<1>1. ServeInv /\ now \in Nat /\ Len(sent) \in Nat /\ HoldFor \in Nat
  BY Numbers DEF RecordInv
<1>2. \A i \in 1..Len(sent) : sent[i].at \in Nat
  BY <1>1, Numbers
<1>3. ASSUME NEW kind \in MessageKind, Send(kind)
      PROVE  /\ Len(sent') = Len(sent) + 1 /\ now' = now
             /\ \A i \in 1..Len(sent) : sent'[i] = sent[i]
             /\ sent'[Len(sent) + 1].at = now
  BY <1>1, <1>3, LineSent
<1>4. CASE MakeCall
  BY <1>4 DEF MakeCall, AgentOK, AcceptedLate
<1>5. ASSUME NEW kind \in MessageKind, GiveUp(kind) PROVE AcceptedLate'
  BY <1>5 DEF GiveUp, Impatient, AgentOK, AcceptedLate
<1>6. CASE Work
  <2>1. /\ Len(sent') = Len(sent) + 1 /\ now' = now
        /\ \A i \in 1..Len(sent) : sent'[i] = sent[i]
        /\ sent'[Len(sent) + 1].at = now
        /\ accepted' = accepted /\ finished' = finished
    BY <1>3, <1>6 DEF Work, MessageKind, agentVars
  <2> SUFFICES ASSUME accepted PROVE AcceptedLate'
    BY <2>1 DEF AcceptedLate
  <2>2. /\ Len(sent) >= 1 /\ sent[1].at + HoldFor <= now
        /\ \A i \in 2..Len(sent) : sent[1].at + HoldFor <= sent[i].at
        /\ \A f \in finished : sent[1].at + HoldFor <= f
    BY DEF AcceptedLate
  <2>3. sent'[1] = sent[1]
    BY <1>1, <2>1, <2>2
  <2>4. \A i \in 2..Len(sent') : sent[1].at + HoldFor <= sent'[i].at
    <3> SUFFICES ASSUME NEW i \in 2..Len(sent') PROVE sent[1].at + HoldFor <= sent'[i].at
      OBVIOUS
    <3>1. CASE i \in 2..Len(sent)
      BY <1>1, <2>1, <2>2, <3>1
    <3>2. CASE i = Len(sent) + 1
      BY <2>1, <2>2, <3>2
    <3> QED BY <1>1, <2>1, <3>1, <3>2
  <2> QED BY <1>1, <2>1, <2>2, <2>3, <2>4 DEF AcceptedLate
<1>7. CASE Return \/ KillAgent
  <2>1. UNCHANGED <<now, sent, accepted>> /\ finished' = {now}
    BY <1>7 DEF Return, KillAgent, CloseInput
  <2> QED BY <2>1 DEF AcceptedLate
<1>8. CASE AcceptReply
  <2>1. /\ UNCHANGED <<now, sent, finished>> /\ Len(sent) = 1 /\ finished = {}
    BY <1>8 DEF AcceptReply, vars, client, AgentOK
  <2>2. sent[1].at + HoldFor <= now
    BY <1>8, ReplyIsLate DEF AcceptReply
  <2> QED BY <2>1, <2>2 DEF AcceptedLate
<1>9. CASE ReadRecord \/ (LoopStep /\ UNCHANGED agentVars) \/ UNCHANGED probeVars
  <2>1. accepted' = accepted
    BY <1>9 DEF ReadRecord, agentVars, probeVars
  <2> QED BY <1>9, <2>1, OthersStep DEF AcceptedLate
<1>10. CASE ProbeTick
  <2>1. UNCHANGED <<sent, accepted, finished>> /\ now' = now + 1
    BY <1>10 DEF ProbeTick, Tick, client, agentVars
  <2>2. accepted => sent[1].at \in Nat
    BY <1>1, <1>2 DEF AcceptedLate
  <2> QED BY <1>1, <2>1, <2>2 DEF AcceptedLate
<1> QED BY <1>4, <1>5, <1>6, <1>7, <1>8, <1>9, <1>10 DEF ProbeNext

-----------------------------------------------------------------------------
(* The reading.                                                            *)

(* Smallest names the least of any times there are: the initial segments   *)
(* of the naturals are well-founded by inclusion.                          *)
LEMMA SmallestIsLeast ==
    ASSUME NEW times \in SUBSET Nat, times # {}
    PROVE  Smallest(times) \in times /\ \A u \in times : Smallest(times) <= u
<1> DEFINE Segments == {0..t : t \in times}
<1>1. Segments \subseteq FiniteSubsetsOf(Nat) /\ Segments # {}
  <2>1. \A t \in times : 0..t \in SUBSET Nat /\ IsFiniteSet(0..t)
    BY FS_Interval
  <2> QED BY <2>1 DEF FiniteSubsetsOf
<1>2. IsWellFoundedOn(StrictSubsetOrdering(Nat), FiniteSubsetsOf(Nat))
  BY FS_StrictSubsetOrderingWellFounded
<1> HIDE DEF Segments
<1>3. PICK seg \in Segments :
        \A other \in Segments : <<other, seg>> \notin StrictSubsetOrdering(Nat)
  BY <1>1, <1>2, WFMin, Zenon
<1>4. PICK t \in times : seg = 0..t
  BY <1>3 DEF Segments
<1>5. ASSUME NEW u \in times PROVE t <= u
  <2> SUFFICES ASSUME u < t PROVE FALSE
    BY DEF Segments
  <2>1. 0..u \in Segments /\ 0..u \in SUBSET Nat /\ 0..t \in SUBSET Nat
    BY DEF Segments
  <2>2. 0..u \subseteq 0..t /\ 0..u # 0..t
    OBVIOUS
  <2>3. <<0..u, seg>> \in StrictSubsetOrdering(Nat)
    BY <1>4, <2>1, <2>2 DEF StrictSubsetOrdering
  <2> QED BY <1>3, <2>1, <2>3
<1> QED BY <1>5 DEF Smallest

(* The record of a task that ended: the first row alone is held, its       *)
(* arrival is when the agent made the call, and the agent's end and every  *)
(* later row are times.                                                    *)
LEMMA RecordRead ==
    ASSUME ServeLoopAssumption, RecordInv, Held # {}
    PROVE  /\ Held = {1} /\ Len(rows) >= 1 /\ Len(sent) >= 1
           /\ Smallest(Held) = 1 /\ rows[1].received = sent[1].at
<1>1. ServeInv /\ Len(rows) \in Nat /\ Taken <= Len(sent) /\ Len(sent) \in Nat /\ Taken \in Nat
  BY Numbers DEF RecordInv
<1>2. DOMAIN rows = 1..Len(rows)
  BY <1>1 DEF ServeInv, ServeTypeOK
<1>3. Held \subseteq {1}
  BY <1>1, <1>2 DEF Held, RecordInv, FirstRow
<1>4. Held = {1} /\ 1 \in 1..Len(rows)
  BY <1>2, <1>3 DEF Held
<1>5. Smallest(Held) = 1
  BY <1>4, SmallestIsLeast
<1>6. rows # << >>
  BY <1>1, <1>4
<1>7. rows[1].id \in 1..Taken
  BY <1>1, <1>4, Numbers
<1> QED BY <1>1, <1>4, <1>5, <1>6, <1>7 DEF RecordInv, FirstRow

(* Every move the record shows is the agent's end or a line it sent after  *)
(* its first; and the end is one.                                          *)
LEMMA MovesAreTheAgents ==
    ASSUME ServeLoopAssumption, RecordInv, AgentOK, Held # {}, agent = "ended"
    PROVE  /\ Moves(sent[1].at) \in SUBSET Nat /\ finished # {}
           /\ finished \subseteq Moves(sent[1].at)
           /\ \A f \in finished : f <= now
           /\ \A move \in Moves(sent[1].at) :
                 \/ move \in finished
                 \/ \E i \in 2..Len(sent) : sent[i].at <= move
<1> DEFINE arrived == sent[1].at
<1>1. /\ ServeInv /\ Len(rows) \in Nat /\ Taken <= Len(sent) /\ Len(sent) \in Nat
      /\ Taken \in Nat /\ DOMAIN rows = 1..Len(rows)
  BY Numbers DEF RecordInv, ServeInv, ServeTypeOK
<1>2. PICK f \in Nat : finished = {f} /\ f <= now
  BY DEF AgentOK
<1>3. ASSUME NEW i \in DOMAIN rows, i \notin Held
      PROVE  /\ rows[i].received \in Nat
             /\ rows[i].id \in 2..Len(sent) /\ sent[rows[i].id].at <= rows[i].received
  <2>1. i \in 1..Len(rows) /\ i # 1
    BY <1>1, <1>3, RecordRead
  <2>2. i \in 2..Len(rows)
    BY <1>1, <2>1
  <2>3. rows[i].received \in Nat /\ rows[i].id \in 1..Taken
    BY <1>1, <2>1, Numbers
  <2> QED BY <1>1, <2>2, <2>3 DEF RecordInv, FirstRow
<1>4. ASSUME NEW move \in Moves(arrived), move \notin finished
      PROVE  move \in Nat /\ \E i \in 2..Len(sent) : sent[i].at <= move
  <2>1. PICK i \in DOMAIN rows : i \notin Held /\ move = rows[i].received
    BY <1>4 DEF Moves
  <2> QED BY <1>3, <2>1
<1>5. finished \subseteq Moves(arrived)
  BY DEF Moves
<1> QED BY <1>2, <1>4, <1>5

(* Of an agent that gave up at g: its moves are no earlier, and one of them*)
(* is late by two calls upstream at the most.                              *)
LEMMA FirstMove ==
    ASSUME ServeLoopAssumption, ProbeInv, Held # {}, agent = "ended",
           NEW g \in Nat, gaveUp = {g}
    PROVE  /\ \A move \in Moves(sent[1].at) : g <= move
           /\ \E move \in Moves(sent[1].at) : move <= g + 2 * UpstreamTimeout
<1>1. /\ RecordInv /\ AgentOK /\ ServeInv
      /\ Len(rows) \in Nat /\ Len(sent) \in Nat /\ now \in Nat /\ UpstreamTimeout \in Nat
      /\ DOMAIN rows = 1..Len(rows)
  BY Numbers DEF ProbeInv, RecordInv, ServeInv, ServeTypeOK
<1>2. /\ g <= now /\ Len(sent) >= 1 /\ sent[1].at < g
      /\ \A i \in 2..Len(sent) : g <= sent[i].at
      /\ \A f \in finished : g <= f
      /\ finished = {g} \/ (Len(sent) >= 2 /\ sent[2].at = g)
  BY DEF ProbeInv, GaveUpOnce
<1>3. /\ Moves(sent[1].at) \in SUBSET Nat /\ finished # {}
      /\ finished \subseteq Moves(sent[1].at)
      /\ \A f \in finished : f <= now
      /\ \A move \in Moves(sent[1].at) :
            \/ move \in finished
            \/ \E i \in 2..Len(sent) : sent[i].at <= move
  BY <1>1, MovesAreTheAgents
<1>4. \A i \in 1..Len(sent) : sent[i].at \in Nat
  BY <1>1, Numbers
<1>5. \A move \in Moves(sent[1].at) : g <= move
  <2> SUFFICES ASSUME NEW move \in Moves(sent[1].at), move \notin finished
               PROVE  g <= move
    BY <1>2
  <2>1. PICK i \in 2..Len(sent) : sent[i].at <= move
    BY <1>3
  <2>2. g <= sent[i].at /\ sent[i].at \in Nat /\ move \in Nat
    BY <1>1, <1>2, <1>3, <1>4, <2>1
  <2> QED BY <2>1, <2>2
<1>6. \E move \in Moves(sent[1].at) : move <= g + 2 * UpstreamTimeout
  <2>1. PICK f \in finished : f \in Moves(sent[1].at) /\ f \in Nat /\ f <= now
    BY <1>3
  <2>2. CASE now <= g + 2 * UpstreamTimeout
    BY <1>1, <2>1, <2>2
  <2>3. CASE finished = {g}
    BY <1>1, <2>1, <2>3
  <2>4. CASE now > g + 2 * UpstreamTimeout /\ Len(sent) >= 2 /\ sent[2].at = g
    <3>1. \/ now <= g + UpstreamTimeout
          \/ status = "serving" /\ current.received <= g + UpstreamTimeout
          \/ \E i \in 1..Len(rows) :
                 rows[i].id = 2 /\ rows[i].received <= g + UpstreamTimeout
      BY <1>1, <2>4 DEF RecordInv, SecondSoon
    <3>2. ~(now <= g + UpstreamTimeout)
      BY <1>1, <2>4
    <3>3. ~(status = "serving" /\ current.received <= g + UpstreamTimeout)
      <4> SUFFICES ASSUME status = "serving", current.received <= g + UpstreamTimeout
                   PROVE  FALSE
        OBVIOUS
      <4>1. current.received \in Nat /\ now <= current.received + UpstreamTimeout
        BY <1>1, Numbers DEF ServeInv, OnTime
      <4> QED BY <1>1, <2>4, <4>1
    <3>4. PICK i \in 1..Len(rows) :
            rows[i].id = 2 /\ rows[i].received <= g + UpstreamTimeout
      BY <3>1, <3>2, <3>3
    <3>5. i # 1 /\ rows # << >>
      BY <1>1, <3>4, RecordRead DEF RecordInv, FirstRow
    <3>6. i \notin Held /\ i \in 2..Len(rows)
      BY <1>1, <3>4, <3>5, RecordRead
    <3>7. rows[i].received \in Nat /\ rows[i].received >= g
      BY <1>1, <2>4, <3>4, <3>6, Numbers DEF RecordInv, FirstRow
    <3>8. rows[i].received > sent[1].at
      BY <1>1, <1>2, <1>4, <3>7
    <3>9. rows[i].received \in Moves(sent[1].at)
      BY <1>1, <3>4, <3>6, <3>8 DEF Moves
    <3> QED BY <1>1, <3>4, <3>7, <3>9
  <2> QED BY <1>1, <1>2, <2>2, <2>3, <2>4
<1> QED BY <1>5, <1>6

(* An agent that waited for its reply moves at the release or after it.    *)
LEMMA PatientMove ==
    ASSUME ServeLoopAssumption, ProbeInv, Held # {}, agent = "ended",
           accepted, NEW move \in Moves(sent[1].at)
    PROVE  move >= sent[1].at + HoldFor
<1>1. RecordInv /\ AgentOK /\ ServeInv /\ HoldFor \in Nat /\ Len(sent) \in Nat
  BY Numbers DEF ProbeInv, RecordInv
<1>2. /\ Len(sent) >= 1
      /\ \A i \in 2..Len(sent) : sent[1].at + HoldFor <= sent[i].at
      /\ \A f \in finished : sent[1].at + HoldFor <= f
  BY DEF ProbeInv, AcceptedLate
<1>3. \A i \in 1..Len(sent) : sent[i].at \in Nat
  BY <1>1, Numbers
<1>4. /\ Moves(sent[1].at) \in SUBSET Nat
      /\ move \in finished \/ \E i \in 2..Len(sent) : sent[i].at <= move
  BY <1>1, MovesAreTheAgents
<1>5. CASE move \in finished
  BY <1>1, <1>2, <1>3, <1>4, <1>5
<1>6. CASE \E i \in 2..Len(sent) : sent[i].at <= move
  <2>1. PICK i \in 2..Len(sent) : sent[i].at <= move
    BY <1>6
  <2>2. sent[i].at \in Nat /\ sent[1].at \in Nat /\ move \in Nat
    BY <1>1, <1>2, <1>3, <1>4, <2>1
  <2> QED BY <1>1, <1>2, <2>1, <2>2
<1> QED BY <1>4, <1>5, <1>6

(* What measure() makes of the record of an agent that ended.              *)
LEMMA ReadingIsRight ==
    ASSUME ServeLoopAssumption, ProbeInv, Held # {}, agent = "ended"
    PROVE  LET reading == Reading(sent[1].at) IN
           /\ reading.result = "acted" =>
                 /\ gaveUp # {}
                 /\ Waited <= reading.value
                 /\ reading.value <= Waited + 2 * UpstreamTimeout
           /\ reading.result = "waited_out" =>
                 gaveUp = {} \/ Waited + 2 * UpstreamTimeout >= HoldFor
<1> DEFINE arrived == sent[1].at
           first == Smallest(Moves(arrived))
<1>1. /\ RecordInv /\ AgentOK /\ ServeInv
      /\ HoldFor \in Nat /\ UpstreamTimeout \in Nat /\ Len(sent) \in Nat
  BY Numbers DEF ProbeInv, RecordInv
<1>2. arrived \in Nat
  BY <1>1, RecordRead, Numbers
<1>3. Moves(arrived) \in SUBSET Nat /\ Moves(arrived) # {}
  BY <1>1, MovesAreTheAgents
<1>4. first \in Moves(arrived) /\ first \in Nat /\ \A move \in Moves(arrived) : first <= move
  BY <1>3, SmallestIsLeast
<1>5. ASSUME gaveUp # {}
      PROVE  /\ Waited \in Int /\ Waited + arrived <= first
             /\ first <= Waited + arrived + 2 * UpstreamTimeout
  <2>1. PICK g \in Nat : gaveUp = {g}
    BY <1>5 DEF ProbeInv, GaveUpOnce
  <2>2. Smallest(gaveUp) = g
    BY <2>1, SmallestIsLeast
  <2>3. /\ \A move \in Moves(arrived) : g <= move
        /\ \E move \in Moves(arrived) : move <= g + 2 * UpstreamTimeout
    BY <2>1, FirstMove
  <2>4. PICK move \in Moves(arrived) : move <= g + 2 * UpstreamTimeout
    BY <2>3
  <2>5. g <= first /\ first <= move /\ move \in Nat
    BY <1>3, <1>4, <2>3
  <2>6. Waited = g - arrived
    BY <2>2 DEF Waited
  <2> HIDE DEF arrived, first
  <2> QED BY <1>1, <1>2, <1>4, <2>4, <2>5, <2>6
<1>6. CASE outcome = "abandoned"
  BY <1>6 DEF Reading, NoDeadline
<1>7. CASE outcome # "abandoned" /\ Moved(arrived, arrived + HoldFor)
  <2>1. Reading(arrived) = [result |-> "acted", value |-> first - arrived]
    BY <1>7 DEF Reading, Acted
  <2>2. gaveUp # {}
    <3>1. PICK move \in Moves(arrived) : move < arrived + HoldFor
      BY <1>7 DEF Moved
    <3>2. ~accepted
      <4> SUFFICES ASSUME accepted PROVE FALSE
        OBVIOUS
      <4>1. move >= arrived + HoldFor /\ move \in Nat
        BY <1>3, PatientMove
      <4> HIDE DEF arrived
      <4> QED BY <1>1, <1>2, <3>1, <4>1
    <3> QED BY <1>1, <1>7, <3>2 DEF AgentOK
  <2>3. /\ Waited \in Int /\ Waited <= first - arrived
        /\ first - arrived <= Waited + 2 * UpstreamTimeout
    <3> HIDE DEF arrived, first
    <3> QED BY <1>1, <1>2, <1>4, <1>5, <2>2
  <2> QED BY <2>1, <2>2, <2>3
<1>8. CASE outcome # "abandoned" /\ ~Moved(arrived, arrived + HoldFor)
  <2>1. Reading(arrived) = [result |-> "waited_out", value |-> HoldFor]
    BY <1>8 DEF Reading, WaitedOut
  <2>2. ~(first < arrived + HoldFor)
    BY <1>4, <1>8 DEF Moved
  <2>3. gaveUp = {} \/ Waited + 2 * UpstreamTimeout >= HoldFor
    <3> HIDE DEF arrived, first
    <3> QED BY <1>1, <1>2, <1>4, <1>5, <2>2
  <2> QED BY <2>1, <2>3
<1> QED BY <1>6, <1>7, <1>8

(* What measure() makes of the record meets both bounds.                   *)
LEMMA NextMeasured ==
    ASSUME ServeLoopAssumption, OneAtATime, ProbeInv, [ProbeNext]_probeVars
    PROVE  MeasuredOnce'
<1>1. CASE ReadRecord
  <2>1. /\ agent = "ended" /\ agent' = agent /\ measured' = Measure
        /\ UNCHANGED <<sent, gaveUp>>
    BY <1>1 DEF ReadRecord, vars, client
  <2>2. Waited' = Waited
    BY <2>1 DEF Waited
  <2>3. CASE Held = {}
    BY <2>1, <2>3
    DEF Measure, Unmeasured, MeasuredOnce, ActedIsPatience, WaitedOutIsLowerBound
  <2>4. CASE Held # {}
    <3>1. measured' = Reading(sent[1].at)
      BY <2>1, <2>4, RecordRead DEF Measure, ProbeInv
    <3>2. ActedIsPatience' /\ WaitedOutIsLowerBound'
      BY <2>1, <2>2, <2>4, <3>1, ReadingIsRight DEF ActedIsPatience, WaitedOutIsLowerBound
    <3> QED BY <2>1, <3>2 DEF MeasuredOnce
  <2> QED BY <2>3, <2>4
<1>2. CASE ~ReadRecord
  <2>1. measured' = measured
    BY <1>2 DEF ProbeNext, MakeCall, GiveUp, AcceptReply, Work, Return, KillAgent,
                ProbeTick, agentVars, probeVars
  <2>2. CASE measured = NotRead
    BY <2>1, <2>2 DEF NotRead, MeasuredOnce, ActedIsPatience, WaitedOutIsLowerBound
  <2>3. CASE measured # NotRead
    <3>1. agent = "ended"
      BY <2>3 DEF ProbeInv, MeasuredOnce
    <3>2. ~MakeCall /\ ~Work /\ ~Return /\ ~KillAgent /\ ~AcceptReply
      BY <3>1 DEF MakeCall, Work, Return, KillAgent, AcceptReply, Impatient, DeadlineReached
    <3>3. \A kind \in MessageKind : ~GiveUp(kind)
      BY <3>1 DEF GiveUp, Impatient
    <3>4. (LoopStep /\ UNCHANGED agentVars) \/ ProbeTick \/ UNCHANGED probeVars
      BY <1>2, <3>2, <3>3 DEF ProbeNext
    <3>5. UNCHANGED <<sent, gaveUp, agent>>
      BY <3>4, OthersStep DEF ProbeTick, Tick, client, agentVars, probeVars
    <3>6. Waited' = Waited
      BY <3>5 DEF Waited
    <3> QED BY <2>1, <3>5, <3>6
            DEF ProbeInv, MeasuredOnce, ActedIsPatience, WaitedOutIsLowerBound
  <2> QED BY <2>2, <2>3
<1> QED BY <1>1, <1>2

(* The invariant survives every step of the held task.                     *)
LEMMA NextProbe ==
    ASSUME ServeLoopAssumption, OneAtATime, ProbeInv, [ProbeNext]_probeVars
    PROVE  ProbeInv'
<1>1. RecordInv'
  BY ProbeStepIsQuiet, NextRecord DEF ProbeInv
<1>2. AgentOK' /\ GaveUpOnce' /\ AcceptedLate'
  BY NextAgent, NextGaveUp, NextAccepted DEF ProbeInv
<1>3. MeasuredOnce'
  BY NextMeasured
<1> QED BY <1>1, <1>2, <1>3 DEF ProbeInv

-----------------------------------------------------------------------------
(* The theorems. *)

(* The session the probe's agent drives is one of serve()'s: every         *)
(* behaviour of the probe is one of ServeLoop, whatever the agent does, so *)
(* what is proved of the session's safety holds of the probe's.            *)
THEOREM ProbeIsServe ==
    ASSUME DeadlineProbeAssumption
    PROVE  ProbeSpec => Init /\ [][Next]_vars
<1>1. ProbeInit => Init
  BY DEF ProbeInit
<1>2. [ProbeNext]_probeVars => [Next]_vars
  BY DEF ProbeNext, MakeCall, GiveUp, AcceptReply, Work, Return, KillAgent, ReadRecord,
         ProbeTick, probeVars, Next, MessageKind
<1> QED BY <1>1, <1>2, PTL DEF ProbeSpec

(* The probe's inductive invariant.                                        *)
THEOREM ProbeInvCorrect ==
    ASSUME ServeLoopAssumption, DeadlineProbeAssumption, OneAtATime
    PROVE  ProbeSpec => []ProbeInv
<1>1. ProbeInit => ProbeInv
  BY InitProbe
<1>2. ProbeInv /\ [ProbeNext]_probeVars => ProbeInv'
  BY NextProbe
<1> QED BY <1>1, <1>2, PTL DEF ProbeSpec

(* `acted` is the agent's own read timeout, late by two calls upstream at  *)
(* the most, and never the scan's kill (measure()).                        *)
THEOREM ActedIsPatienceAlways ==
    ASSUME ServeLoopAssumption, DeadlineProbeAssumption, OneAtATime
    PROVE  ProbeSpec => []ActedIsPatience
<1>1. ProbeInv => ActedIsPatience
  BY DEF ProbeInv, MeasuredOnce
<1> QED BY <1>1, ProbeInvCorrect, PTL

(* `waited_out` is a lower bound on the agent's patience (measure()).      *)
THEOREM WaitedOutIsLowerBoundAlways ==
    ASSUME ServeLoopAssumption, DeadlineProbeAssumption, OneAtATime
    PROVE  ProbeSpec => []WaitedOutIsLowerBound
<1>1. ProbeInv => WaitedOutIsLowerBound
  BY DEF ProbeInv, MeasuredOnce
<1> QED BY <1>1, ProbeInvCorrect, PTL
=============================================================================
