SPECIFICATION Spec
CONSTANTS
    HoldFor = 2
    CloseAfter = 2
    Fates = {"answer", "drop", "close"}
    UpstreamTimeout = 2
    MaxMessages = 3
    LastSend = 3
    MaxTime = 13
INVARIANTS
    StampNeverLate
    ClosedInTime
    HoldIsUsable
PROPERTIES
    HeldReplyGoesOut
CHECK_DEADLOCK FALSE
