SPECIFICATION Spec
CONSTANTS
    Options <- MCOptions
    Servers <- MCServers
    AgentReadings <- MCAgentReadings
    Policies <- MCPolicies
INVARIANTS
    WorseNeverHelps
    ExitAgreesWithHeadline
    UnreadDuplicatesNeverPass
    HonestToolNotBlamed
    NothingAcceptedNeverPasses
    GuideNeverBare
CHECK_DEADLOCK FALSE
