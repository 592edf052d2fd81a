SPECIFICATION Spec
CONSTANTS
    Shapes <- MCShapes
    Grading <- MCGrading
INVARIANTS
    AppliedTwiceNeverPasses
    DuplicatesNeverOverstated
    PlainPassDelivered
    RetriesAllCounted
    AbsorbedIsSpokenFor
    BackoffIsTheAgents
CHECK_DEADLOCK FALSE
