SPECIFICATION Spec
CONSTANTS
    Ops = 2
    Kinds = {"rate_limit", "response_lost"}
    MaxRetries = 1
    WaitMax = 2
    Budget = 3
    Hints = {1}
    InjectedHint = 2
    Idempotents = {TRUE, FALSE}
    Oracles = {"perOp"}
    EarlierOps = {1}
    DirtyOps = {1}
    MaxForeign = 1
INVARIANTS
    DuplicatesAreOurs
    AccountsBalance
    NoFalseLoss
PROPERTIES
    PassEnds
CHECK_DEADLOCK FALSE
