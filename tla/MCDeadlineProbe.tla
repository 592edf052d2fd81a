--------------------------- MODULE MCDeadlineProbe ---------------------------
(* DeadlineProbe with a horizon past every deadline of the probe.           *)
EXTENDS DeadlineProbe

ASSUME ProbeHorizon ==
    \A t \in TaskDeadlines : t <= MaxTime
=============================================================================
