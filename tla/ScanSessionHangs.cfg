SPECIFICATION Spec
CONSTANTS
    Commands <- MCCommands
    Tools <- MCTools
    MaxScans = 2
PROPERTIES
    EveryScanEnds
CHECK_DEADLOCK FALSE
