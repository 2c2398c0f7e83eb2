SPECIFICATION Spec
CONSTANTS
    p1 = p1
    p2 = p2
    p3 = p3
    NoRun = NoRun
    NoArtifact = NoArtifact
    Runs = {p1, p2, p3}
    Refreshers = {p3}
    Papers = {1, 2}
    FreeDrafts = TRUE
    Overrun = TRUE
    Funds = 2
    MaxFaults = 1
SYMMETRY Interchangeable
INVARIANTS
    RunsHoldTheirClaim
    PaidOnce
    PaidIsDelivered
PROPERTIES
    PaysForNew
CHECK_DEADLOCK FALSE
