--------------------------- MODULE MCRecoveryPass ---------------------------
(* RecoveryPass on small instances; the constants are all in the .cfg.      *)
EXTENDS RecoveryPass
=============================================================================
