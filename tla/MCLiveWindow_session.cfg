\* A session's calls overlap and one of their statements fails.
CONSTANTS
    e1 = e1
    e2 = e2
    k1 = k1
    k2 = k2
    w1 = w1
    w2 = w2
    Exchanges = {e1, e2}
    Readers = {k1, k2}
    WrapUps = {w1, w2}
    WindowSize = 1
    Threshold = 2
    KeyCount = 1
    MaxOpen = 2
    MaxDeaths = 0
    MaxFaults = 1
SPECIFICATION Spec
SYMMETRY AnyCall
INVARIANTS
    TypeOK
    MessagesInOrder
PROPERTY SummaryHandedOn
CHECK_DEADLOCK FALSE
