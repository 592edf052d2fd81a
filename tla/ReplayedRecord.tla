--------------------------- MODULE ReplayedRecord ---------------------------
(***************************************************************************)
(* The proxy's record read back as trajectories (proxy.replay): what the    *)
(* behaviour and recovery numbers of an agent scan are computed from.       *)
(*                                                                         *)
(* The agent of this instance always calls a tool with the same arguments,  *)
(* so a tool is one trajectory: rows are grouped by task and fingerprint.   *)
(***************************************************************************)
EXTENDS ProxyRecord, Trajectory

(* Invocation.ok of a row: the proxy's response was a success.              *)
RowOk(row) == row.payload = "result"

(* invocation_from_row *)
InvocationOf(row) ==
    [ok |-> RowOk(row), executed |-> row.executed, args |-> row.tool]

(* The rows are put in sequence order; equal numbers keep the file's order. *)
InSequence(i, j) ==
    file[i].seq < file[j].seq \/ (file[i].seq = file[j].seq /\ i < j)

Earlier(t, i) == {j \in CallRows(t) : InSequence(j, i)}

ReplayedRows(t) ==
    [k \in 1..Cardinality(CallRows(t)) |->
        CHOOSE i \in CallRows(t) : Cardinality(Earlier(t, i)) = k - 1]

Replayed(t) ==
    LET order == ReplayedRows(t)
    IN  [k \in DOMAIN order |-> InvocationOf(file[order[k]])]

-----------------------------------------------------------------------------

CallsOf(t) == {file[i].call : i \in CallRows(t)}

(***************************************************************************)
(* A duplicate delivery is work the upstream did again, not a row seen      *)
(* twice or a call it never ran: k of them stand for k + 1 calls it has     *)
(* acted on, across any reconnects.                                        *)
(***************************************************************************)
DuplicatesWereRun ==
    \A t \in Tools :
        LET again == Duplicates(Replayed(t))
        IN  again > 0 => Cardinality(CallsOf(t) \cap ran) > again

(***************************************************************************)
(* A recovery in the report is one the agent saw: a failure, and a later    *)
(* result that was written to it.  The row is down before the reply, so a   *)
(* kill between the two leaves a recovery nobody saw: there are no more of  *)
(* these than kills, but for a tool one of whose replies was held, which    *)
(* the end of its session may have dropped.                                *)
(***************************************************************************)
ResultsSeen(t) ==
    {k \in DOMAIN wire : wire[k].reply = "result" /\ wire[k].call \in CallsOf(t)}

UnseenRecoveries ==
    {t \in Tools : /\ Recovered(Replayed(t)) /\ ResultsSeen(t) = {}
                   /\ \A i \in CallRows(t) : ~file[i].held}

RecoveryWasSeen == pc # "reply" => Cardinality(UnseenRecoveries) <= kills

=============================================================================
