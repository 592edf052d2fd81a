SPECIFICATION Spec
CONSTANTS
    Commands <- MCCommands
    Tools <- MCTools
    MaxScans = 2
INVARIANTS
    RefusedCostsNothing
    RerunNeverCounted
PROPERTIES
    
    ConnectedScanEnds
CHECK_DEADLOCK FALSE
