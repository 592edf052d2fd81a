----------------------------- MODULE MCServeLoop -----------------------------
(* ServeLoop with a horizon far enough away that every deadline falls       *)
(* inside it, calls waiting one behind the other included.                 *)
EXTENDS ServeLoop

ASSUME Horizon ==
    LastSend + (MaxMessages * UpstreamTimeout) + HoldFor + CloseAfter <= MaxTime
=============================================================================
