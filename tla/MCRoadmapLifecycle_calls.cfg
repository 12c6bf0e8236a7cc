\* Up to five calls of any kind, two at a time, one of them cut short.
CONSTANTS
    g1 = g1
    g2 = g2
    g3 = g3
    n1 = n1
    d1 = d1
    x1 = x1
    q1 = q1
    c1 = c1
    c2 = c2
    Generates = {g1, g2, g3}
    Creates = {n1}
    Deletes = {d1}
    Drops = {x1}
    Requests = {q1}
    Confirms = {c1, c2}
    PaidLimit = 1
    FreeMods = 1
    Updates = 1
    MaxOpen = 2
    MaxCalls = 5
    MaxCycles = 1
    MaxFailures = 1
SPECIFICATION Spec
SYMMETRY AnyCall
INVARIANTS
    TypeOK
    OvershootBounded
    FreeOnce
    LockedHasNone
    KeepsOneActive
    AppliedAndCounted
PROPERTY FollowsOne
CHECK_DEADLOCK FALSE
