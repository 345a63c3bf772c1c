SPECIFICATION Spec
CONSTANTS
    c1 = c1
    c2 = c2
    c3 = c3
    k1 = k1
    k2 = k2
    x1 = x1
    Caller <- Callers
    Key <- Keys
    Extra <- Extras
    want <- Wants
    Indexed <- IndexedKeys
    Flaws <- FlawsOf
    ChanCap = 1
    BatchMax = 2
    Backoff = 2
    Limit = 1
CHECK_DEADLOCK FALSE
INVARIANTS AbsenceProved HoldReturned
PROPERTIES GetReturns CloseEndsAll
