SPECIFICATION Spec
CONSTANTS
    t1 = t1
    t2 = t2
    a1 = a1
    a2 = a2
    NoTicket = NoTicket
    Tickets = {t1}
    Apis = {a1, a2}
    Faults = {"boot", "check", "kill", "write", "refund", "enqueue", "lost", "start", "cancel", "abandon"}
    MaxFaults = 4
    MaxLeaves = 2
SYMMETRY Interchangeable
INVARIANTS
    CreditsAreBounded
    NeverLandsRefunded
    SettledFairly
    TicketTellsTheRefund
PROPERTIES
    ImplementsContract
CHECK_DEADLOCK FALSE
