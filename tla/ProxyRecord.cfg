SPECIFICATION Spec
CONSTANTS
    a = a
    b = b
    Tools <- MCTools
    Schedules <- EveryFault
    MaxDepth = 2
    MaxSessions = 2
    MaxCalls = 3
    MaxNotes = 0
    HoldFirst = TRUE
    Tears = FALSE
INVARIANTS
    TypeOK
    DuplicatesWereRun
    RealizedScheduleFaithful
    AnsweredIsRecorded
    UnrecordedWorkBounded
    ExecutedIsAFact
    LostReplyNeverAnswered
    HeldOncePerRecord
PROPERTIES
    ImplementsForcedSchedule
CHECK_DEADLOCK FALSE
