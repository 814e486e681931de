SPECIFICATION Spec
CONSTANTS
    base = base
    heavy = heavy
    eworker = eworker
    elight1 = elight1
    elight2 = elight2
    patch = patch
    Units <- MCUnits
    PlayerOf <- MCPlayerOf
    TypeOf <- MCTypeOf
    Cost <- MCCost
    Starters <- MCStarters
INVARIANTS
    TypeOK
    CountsMatchTracking
    LossesMatchDeaths
PROPERTIES
    ScanIsExact
    DeathIsNoticed
