SPECIFICATION Spec
CONSTANTS
    bot1 = bot1
    bot2 = bot2
    Bots <- OneBot
    JvmOf <- Alone
    MaxFrame = 1
    Faults = {"connect"}
CHECK_DEADLOCK FALSE

PROPERTIES
    DecideReturns
