SPECIFICATION Spec
CONSTANTS
    N = 3
    Worst = 2
    MaxSolves = 2
CHECK_DEADLOCK FALSE
INVARIANTS
    TypeOK
    FoundIffSatisfied
    TimeoutsMatchUnits
    NoRaceOnModel
    BestIsKept
    PricedIsKept
PROPERTIES
    SolveReturns
