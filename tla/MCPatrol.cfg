SPECIFICATION Spec
CONSTANTS
    light1 = light1
    light2 = light2
    light3 = light3
    Army <- MCArmy
    Searchers = {}
    Width = 7
    Height = 4
    Sight = 2
    EarlyFog = 12
    RandomPlaces = {}
    Situations <- MCSituations
CHECK_DEADLOCK FALSE
PROPERTIES
    PatrolSeesAll
