SPECIFICATION Spec
CONSTANTS
    u1 = u1
    u2 = u2
    c1 = c1
    c2 = c2
    upload = upload
    signup = signup
    cleared = cleared
    pack = pack
    NoRef = NoRef
    Users = {u1, u2}
    Callers = {c1, c2}
    Calls <- AllCalls
    Welcome = 3
    MaxCalls = 5
SYMMETRY Symmetric
INVARIANTS
    LedgerExplainsBalance
    NeverOverdrawn
    RefundedOnce
    ReferralPaidOnce
PROPERTIES
    ImplementsContract
CHECK_DEADLOCK FALSE
