---------------------------- MODULE MCTaskWindow ----------------------------
(* TaskWindow on small instances; the constants are all in the .cfg.        *)
EXTENDS TaskWindow
=============================================================================
