SPECIFICATION Spec
CONSTANTS
    Price <- MCPrice
    Duration <- MCDuration
    OldOrders <- MCOldOrders
    HeavyCosts <- MCHeavyCosts
    MaxFrame = 1
    MaxBases = 1
    MaxStock = 4
    MaxBarracks = 1
    MaxWorkers = 1
    MaxPatches = 0
    Outcomes = {"answer"}
    Feasible = TRUE
CHECK_DEADLOCK FALSE
INVARIANTS
    OrderIsPaid
