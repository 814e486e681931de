SPECIFICATION Spec
CONSTANTS
    Price <- MCPrice
    Duration <- MCDuration
    OldOrders <- MCOldOrders
    HeavyCosts <- MCHeavyCosts
    MaxFrame = 1
    MaxStock = 13
    MaxBases = 2
    MaxBarracks = 2
    MaxWorkers = 2
    MaxPatches = 2
    Outcomes = {"answer", "zeros", "failure"}
    Feasible = FALSE
CHECK_DEADLOCK FALSE
INVARIANTS
    BarracksIsCovered
    OrderIsFollowed
    HeavyIsOwed
PROPERTIES
    BalanceIsKept
