\* Two earn calls and a charge race through two billing cycles.
CONSTANTS
    c1 = c1
    c2 = c2
    e1 = e1
    e2 = e2
    Charges = {c1}
    Earns = {e1, e2}
    Estimate <- OneEstimate
    MaxEstimate = 2
    ReturnsAmount = {c1}
    Costs = {2}
    Rewards = {2}
    TopUps = {1}
    GrindCap = 3
    Quarters = 2
    SignupXp = 3
    MaxXp = 3
    MaxCycles = 1
    MaxRollovers = 0
    MaxFaults = 0
SPECIFICATION Spec
INVARIANTS
    GrindLockExact
    CycleAwardsBounded
CHECK_DEADLOCK FALSE
