SPECIFICATION FairSpec
CONSTANTS
    t1 = t1
    t2 = t2
    r1 = r1
    r2 = r2
    r3 = r3
    NoTab = NoTab
    Tabs = {t1, t2}
    Requests = {r1, r2, r3}
    Of <- MadeBy
    Guarded = {r3}
    MaxPairs = 3
    MaxMoves = 2
    MaxLapses = 1
INVARIANTS
    PresentedOnce
PROPERTIES
    NoFalseLogout
    RequestsEnd
CHECK_DEADLOCK FALSE
