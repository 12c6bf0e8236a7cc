\* One page that clicks one task at a time; the last phase got no tasks.
CONSTANTS
    c1 = c1
    Calls = {c1}
    TabCount = 1
    PhaseCount = 3
    TaskCount <- LastIsEmpty
    MaxToggles = 8
    MaxUnmarks = 1
    MaxUnlocks = 1
    MaxDeaths = 0
    MaxClosings = 0
    MaxFaults = 0
SPECIFICATION Spec
INVARIANT OpenedByWork
PROPERTY CompletedStays
CHECK_DEADLOCK FALSE
