\* One task completed.
CONSTANTS
    c1 = c1
    Calls = {c1}
    TabCount = 1
    PhaseCount = 2
    TaskCount <- TwoOne
    MaxToggles = 2
    MaxUnmarks = 0
    MaxUnlocks = 0
    MaxDeaths = 0
    MaxClosings = 0
    MaxFaults = 0
SPECIFICATION Spec
INVARIANT CompleteIsPaid
CHECK_DEADLOCK FALSE
