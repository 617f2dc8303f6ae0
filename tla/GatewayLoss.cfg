SPECIFICATION Spec
CONSTANTS
    Requests = {q1, q2}
    Keys = {k1}
    NoKey = NoKey
    MaxExpiries = 1
    MaxCrashes = 1
    StoresFail = FALSE
INVARIANTS NoDataLoss
CHECK_DEADLOCK FALSE
