\* A finalize that does not send reservedAmount back.
CONSTANTS
    c1 = c1
    c2 = c2
    e1 = e1
    e2 = e2
    Charges = {c1}
    Earns = {}
    Estimate <- OneEstimate
    MaxEstimate = 2
    ReturnsAmount = {}
    Costs = {2}
    Rewards = {2}
    TopUps = {1}
    GrindCap = 3
    Quarters = 2
    SignupXp = 3
    MaxXp = 3
    MaxCycles = 0
    MaxRollovers = 0
    MaxFaults = 0
SPECIFICATION Spec
INVARIANT FinalizedHoldsNothing
CHECK_DEADLOCK FALSE
