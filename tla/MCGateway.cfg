SPECIFICATION Spec
CONSTANTS
    Requests = {q1, q2, q3, q4}
    Keys = {k1, k2}
    NoKey = NoKey
    MaxExpiries = 1
    MaxCrashes = 1
    StoresFail = TRUE
SYMMETRY Symmetry
INVARIANTS OneEventPerKeyPeriod AcceptedIsDurable RejectionKeepsKeyFree
CHECK_DEADLOCK FALSE
