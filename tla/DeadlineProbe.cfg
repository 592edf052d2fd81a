SPECIFICATION ProbeSpec
CONSTANTS
    HoldFor = 6
    CloseAfter = 0
    Fates = {"answer"}
    UpstreamTimeout = 2
    MaxMessages = 4
    LastSend = 9
    MaxTime = 9
    Patiences = {1, 3, 7, 99}
    Forever = 99
    TaskDeadlines = {2, 5, 9}
    Parallel = FALSE
INVARIANTS
    ActedIsPatience
    WaitedOutIsLowerBound
CHECK_DEADLOCK FALSE
