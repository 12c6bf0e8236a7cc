\* Two tabs whose requests run to their end.
CONSTANTS
    t1 = t1
    t2 = t2
    Tabs = {t1, t2}
    NodeCount = 3
    MaxMaps = 6
    MaxDays = 3
    MaxRequests = 4
    MaxDeaths = 0
    MaxFaults = 0
SPECIFICATION FairSpec
PROPERTIES
    MapReturns
    RequestEnds
    AloneClaimsExactly
    AloneMapsInOrder
CHECK_DEADLOCK FALSE
