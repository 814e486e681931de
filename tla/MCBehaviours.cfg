SPECIFICATION MCSpec
CONSTANTS
    light1 = light1
    light2 = light2
    light3 = light3
    worker1 = worker1
    Width = 5
    Height = 5
    MaxTarget = 9
    Cost <- MCCost
    Near = 9
    Frames <- MCFrames
    Fights <- MCFights
    Messages <- MCMessages
    Rules <- MCRules
    Garbled <- MCGarbled
    Estimates <- MCEstimates
    MaxFree = 2
    Problems <- MCProblems
    Phi <- MCPhi
    MaxUnits = 3
    Army <- MCArmy
    Searchers = {worker1}
    Sight = 1
    EarlyFog = 4
    RandomPlaces <- MCRandomPlaces
    Situations <- MCSituations
CHECK_DEADLOCK FALSE
INVARIANTS
    NoneIsNearer
    JobsAreDealt
    HarvestIsNearest
    CommandIsSound
    FieldsArrive
    SampleIsSpent
    UnitsFightOnce
    RiskFollowsLosses
    UtilityIsOfDistribution
PROPERTIES
    FrameEnds
    SamplingEnds
    MoreUnitsNeverHurt
    PatrolGoesWhereLeastKnown
    SearchSettles
