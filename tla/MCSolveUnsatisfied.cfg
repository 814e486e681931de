SPECIFICATION Spec
CONSTANTS
    N = 2
    Worst = 2
    MaxSolves = 1
CHECK_DEADLOCK FALSE
INVARIANTS
    KeptIsSolution
