SPECIFICATION Spec
CONSTANTS
    a = a
    b = b
    Tools <- MCTools
    Schedules <- EveryFault
    MaxDepth = 2
    MaxSessions = 2
    MaxCalls = 3
    MaxNotes = 1
    HoldFirst = FALSE
    Tears = TRUE
INVARIANTS
    UnrecordedWorkBounded
    RecoveryWasSeen
CHECK_DEADLOCK FALSE
