\* Overlapping calls, an early unlock, and one failure of each kind.
CONSTANTS
    c1 = c1
    c2 = c2
    Calls = {c1, c2}
    TabCount = 1
    PhaseCount = 3
    TaskCount <- OneOneNone
    MaxToggles = 2
    MaxUnmarks = 1
    MaxUnlocks = 1
    MaxDeaths = 1
    MaxClosings = 1
    MaxFaults = 1
SPECIFICATION Spec
SYMMETRY AnyCall
INVARIANT PaidIfMissed
PROPERTIES
    ClimbsLadder
    CallsRunOut
CHECK_DEADLOCK FALSE
