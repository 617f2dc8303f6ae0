SPECIFICATION Spec
CONSTANTS
    Callers = {c1, c2}
    Limits = {0, 2}
    MaxLimit = 2
    WINDOW = 3
    KEY_TTL = 3
    MaxDelay = 1
    MaxTime = 6
    MaxCalls = 5
INVARIANTS WindowRespected NoSpuriousDenial
CHECK_DEADLOCK FALSE
