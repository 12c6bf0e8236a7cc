\* Two tabs, a request that dies and a write that fails.
CONSTANTS
    t1 = t1
    t2 = t2
    Tabs = {t1, t2}
    NodeCount = 3
    MaxMaps = 4
    MaxDays = 3
    MaxRequests = 4
    MaxDeaths = 1
    MaxFaults = 1
SPECIFICATION Spec
SYMMETRY TabSymmetry
INVARIANTS
    TypeOK
    CrossedAreClaimed
    OneActiveMap
    EndedIsReplaced
PROPERTIES
    WalksTreasure
    RequestsRunOut
CHECK_DEADLOCK FALSE
