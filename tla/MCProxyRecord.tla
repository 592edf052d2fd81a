---------------------------- MODULE MCProxyRecord ----------------------------
(***************************************************************************)
(* ProxyRecord, and its record read back, on small instances.  In a        *)
(* schedule no two positions of a tool hold the same fault, so a session   *)
(* that lost its place would meet another fault than the one it should.    *)
(***************************************************************************)
EXTENDS ReplayedRecord

CONSTANTS a, b   \* two tools

MCTools == {a, b}

Place(first, second, other, last) ==
    [p \in {a, b} \X (1..2) |->
        CASE p = <<a, 1>> -> first
          [] p = <<a, 2>> -> second
          [] p = <<b, 1>> -> other
          [] p = <<b, 2>> -> last]

(* Between them, every kind of fault and no fault at all. *)
EveryFault ==
    {Place("response_lost_then_closed", "timeout", "connection_refused", "malformed"),
     Place(NoFault, "response_lost", "rate_limit", "server_error")}
=============================================================================
