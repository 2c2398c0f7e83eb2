CONSTANTS
    Orders = {o1, o2}
    Handlers = {h1, h2}
    MaxCharges = 2
    MaxRenewals = 1
    MaxMonths = 2
    MaxOpenAudits = 1
    MaxFaults = 1
    NoOrder = NoOrder
SPECIFICATION Spec
SYMMETRY Alike
INVARIANTS
    ChargesServeOnce
    AnsweredIsServed
    StopSticks
    OnePassAMonth
    CoinsAddUp
CHECK_DEADLOCK FALSE
