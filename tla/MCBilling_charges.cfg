\* Two charges of which one withholds reservedAmount, credits, a rollover
\* and one release that fails; what has started goes on unless it dies.
CONSTANTS
    c1 = c1
    c2 = c2
    e1 = e1
    e2 = e2
    Charges = {c1, c2}
    Earns = {}
    Estimate <- MCEstimate
    MaxEstimate = 2
    ReturnsAmount = {c1}
    Costs = {0, 2}
    Rewards = {2}
    TopUps = {1}
    GrindCap = 3
    Quarters = 2
    SignupXp = 2
    MaxXp = 3
    MaxCycles = 0
    MaxRollovers = 1
    MaxFaults = 1
SPECIFICATION FairSpec
INVARIANTS
    TypeOK
    ReservationLedger
    ReservationHasOwner
    UndisturbedBalance
PROPERTIES
    KeepsPromise
    ReservationReturned
CHECK_DEADLOCK FALSE
