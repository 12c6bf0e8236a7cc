\* Overlapping clicks that run to their end.
CONSTANTS
    c1 = c1
    c2 = c2
    Calls = {c1, c2}
    TabCount = 1
    PhaseCount = 2
    TaskCount <- TwoOne
    MaxToggles = 3
    MaxUnmarks = 1
    MaxUnlocks = 0
    MaxDeaths = 0
    MaxClosings = 0
    MaxFaults = 0
SPECIFICATION FairSpec
INVARIANTS
    TypeOK
    DoneOpensNext
PROPERTIES
    CallsEnd
    DoneLeadsToOpen
CHECK_DEADLOCK FALSE
