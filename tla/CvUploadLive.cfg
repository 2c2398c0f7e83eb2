SPECIFICATION FairSpec
CONSTANTS
    k1 = k1
    r1 = r1
    r2 = r2
    w1 = w1
    w2 = w2
    p1 = p1
    p2 = p2
    Jobs = {k1}
    Requests = {r1}
    Workers = {w1, w2}
    Pollers = {p1}
    Price = 2
    RetryMax = 1
    MaxStalls = 1
    Durable = TRUE
    PromptIntake = TRUE
    CrashPoints <- AllButRefund
    MaxFaults = 2
INVARIANTS
    RefundFlagIsTrue
PROPERTIES
    ChargeReconciled
    JobSettles
CHECK_DEADLOCK FALSE
