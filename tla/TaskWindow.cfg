SPECIFICATION Spec
CONSTANTS
    NTasks = 2
    Repeats = 2
    HoldReply = TRUE
    MaxCalls = 1
    Kinds = {}
    Expected = 1
    Inherits = {TRUE, FALSE}
    MaxLost = 1
    MaxLostApart = 0
INVARIANTS
    WindowsExact
    RecordsExact
PROPERTIES
    ScanEnds
CHECK_DEADLOCK FALSE
