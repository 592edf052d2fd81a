SPECIFICATION Spec
CONSTANTS
    Shapes <- MCShapes
    Grading <- MCGrading
INVARIANTS
    DuplicateInOneRunCounts
CHECK_DEADLOCK FALSE
