SPECIFICATION Spec
CONSTANTS
    t1 = t1
    t2 = t2
    a = a
    b = b
    f = f
    g = g
    Tabs = {t1, t2}
    Flows = {t1, t2}
    Of <- OwnTab
    Accounts = {a, b}
    First = a
    Files = {f}
    MaxPicks = 2
    MaxKeys = 2
    MaxAttempts = 2
    Faults = {"radio", "busy", "auth", "logout", "finalize", "reload", "switch", "token"}
    MaxFaults = 2
    MaxEvents = 3
SYMMETRY TabsAlike
INVARIANTS
    TypeOK
    OneJobPerPick
    FilesStayWithOwner
    KeptUntilAnswered
    AcceptedIsWatched
CHECK_DEADLOCK FALSE
