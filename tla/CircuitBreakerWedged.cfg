SPECIFICATION FairSpec
CONSTANTS
    Deliveries = {d1}
    THRESHOLD = 3
    COOLDOWN = 1
    FAILURE_TTL = 2
    MaxDelay = 0
    MayAbandon = FALSE
    MaxLosses = 0
PROPERTIES NotBlockedForever
