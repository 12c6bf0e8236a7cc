\* Wrap-ups that overlap with everything else; a call may stop half way.
CONSTANTS
    e1 = e1
    e2 = e2
    k1 = k1
    k2 = k2
    w1 = w1
    w2 = w2
    Exchanges = {e1, e2}
    Readers = {k1}
    WrapUps = {w1, w2}
    WindowSize = 1
    Threshold = 2
    KeyCount = 2
    MaxOpen = 2
    MaxDeaths = 1
    MaxFaults = 0
SPECIFICATION FairSpec
INVARIANT EmptiedWasKept
PROPERTIES
    WrapUpEmpties
    WrapUpGoesOn
CHECK_DEADLOCK FALSE
