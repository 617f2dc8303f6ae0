SPECIFICATION FairSpec
CONSTANTS
    Deliveries = {d1, d2}
    THRESHOLD = 2
    COOLDOWN = 2
    FAILURE_TTL = 2
    MaxDelay = 1
    MayAbandon = TRUE
    MaxLosses = 2
INVARIANTS OpenIsStamped OneTestPerHalfOpen
PROPERTIES OpenEnds
