SPECIFICATION Spec
CONSTANTS
    t1 = t1
    t2 = t2
    a = a
    b = b
    f = f
    g = g
    Tabs = {t1}
    Flows = {t1}
    Of <- OwnTab
    Accounts = {a}
    First = a
    Files = {f, g}
    MaxPicks = 2
    MaxKeys = 2
    MaxAttempts = 2
    Faults = {}
    MaxFaults = 0
    MaxEvents = 2
INVARIANTS
    OncePickedIsKept
CHECK_DEADLOCK FALSE
