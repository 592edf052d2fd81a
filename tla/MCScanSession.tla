---------------------------- MODULE MCScanSession ----------------------------
(***************************************************************************)
(* Two scans of a server with a tool that writes and one that reads.  Of   *)
(* the commands one repeats the other, one overlaps it in a single id, one *)
(* has another seed; one has no oracle, one no pass, one cannot be scanned.*)
(***************************************************************************)
EXTENDS ScanSession

Tool(name, hint) ==
    [name |-> name, hint |-> hint, words |-> {}, fields |-> <<>>, required |-> {},
     closed |-> FALSE]

MCTools == <<Tool("put", "write"), Tool("list", "read")>>

Base ==
    [seed |-> 1, requests |-> 2, warmup |-> 1, probes |-> {"fault", "behavior"}, token |-> TRUE,
     tool |-> "put", verify |-> "list", allow_mutating |-> TRUE, tool_args |-> TRUE]

Small == [Base EXCEPT !.requests = 1, !.warmup = 2]

MCCommands ==
    {Base, Small, [Small EXCEPT !.seed = 2],
     [Small EXCEPT !.token = FALSE, !.tool_args = FALSE], [Small EXCEPT !.verify = ""],
     [Small EXCEPT !.probes = {"contract"}], [Small EXCEPT !.allow_mutating = FALSE]}
=============================================================================
