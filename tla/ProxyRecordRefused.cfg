SPECIFICATION Spec
CONSTANTS
    a = a
    b = b
    Tools <- MCTools
    Schedules <- EveryFault
    MaxDepth = 2
    MaxSessions = 1
    MaxCalls = 1
    MaxNotes = 0
    HoldFirst = FALSE
    Tears = FALSE
INVARIANTS
    RefusedMeansNotRun
CHECK_DEADLOCK FALSE
