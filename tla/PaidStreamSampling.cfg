SPECIFICATION Spec
CONSTANTS
    NoKey = NoKey
    Posts = {p1, p2, p3}
    Keys = {fit, gap}
    Sampling = TRUE
    Funds = 2
    MaxFaults = 1
SYMMETRY Interchangeable
INVARIANTS
    LaterPostsReplay
    DoubleChargesOverlap
    LaterPostsPay
CHECK_DEADLOCK FALSE
