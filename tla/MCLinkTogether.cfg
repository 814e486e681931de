SPECIFICATION Spec
CONSTANTS
    bot1 = bot1
    bot2 = bot2
    Bots <- TwoBots
    JvmOf <- Together
    MaxFrame = 2
    Faults = {"exec", "recv", "solve"}
CHECK_DEADLOCK FALSE
INVARIANTS
    UnboundOnlyAfterFailure
    NoOrphan
PROPERTIES
    DecideReturns
    KeepsPromise
