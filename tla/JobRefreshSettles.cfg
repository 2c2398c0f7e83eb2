SPECIFICATION FairSpec
CONSTANTS
    t1 = t1
    t2 = t2
    a1 = a1
    a2 = a2
    NoTicket = NoTicket
    Tickets = {t1, t2}
    Apis = {a1}
    Faults = {"refund", "enqueue", "lost", "boot", "check", "cancel"}
    MaxFaults = 1
    MaxLeaves = 2
PROPERTIES
    ChargesSettle
    TicketsEnd
CHECK_DEADLOCK FALSE
