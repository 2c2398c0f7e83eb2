SPECIFICATION Spec
CONSTANTS
    k1 = k1
    r1 = r1
    r2 = r2
    w1 = w1
    w2 = w2
    p1 = p1
    p2 = p2
    Jobs = {k1}
    Requests = {r1, r2}
    Workers = {w1, w2}
    Pollers = {p1, p2}
    Price = 2
    RetryMax = 1
    MaxStalls = 1
    Durable = TRUE
    PromptIntake = FALSE
    CrashPoints <- AllSteps
    MaxFaults = 1
SYMMETRY Symmetric
INVARIANTS
    TypeOK
    DoneIsPaidFor
    StallBudgetHolds
    RefundWithinCharge
PROPERTIES
    ImplementsContract
CHECK_DEADLOCK FALSE
