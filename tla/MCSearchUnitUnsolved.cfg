SPECIFICATION Spec
CONSTANTS
    Vars <- MCVars
    Domain <- MCDomain
    Constraints <- MCConstraints
    Scope <- MCScope
    Error <- MCError
    Cost <- MCCost
    StartingPoint <- MCStartingPoint
    Worst = 20
    TabuLocalMin = 2
    TabuSelected = 0
    ResetThreshold = 2
    RestartThreshold = 2
    PercentToReset = 2
    MaxIterations = 8
CHECK_DEADLOCK FALSE
INVARIANT TrueMeansSolved
