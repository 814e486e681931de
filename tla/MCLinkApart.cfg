SPECIFICATION Spec
CONSTANTS
    bot1 = bot1
    bot2 = bot2
    Bots <- TwoBots
    JvmOf <- Apart
    MaxFrame = 2
    Faults = {"exec", "connect", "recv", "solve"}
CHECK_DEADLOCK FALSE
PROPERTIES
    PromisedSteps
