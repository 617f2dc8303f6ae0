SPECIFICATION FairSpec
CONSTANTS
    Relays = {r1, r2}
    Events = {1, 2}
    BATCH_SIZE = 1
    MAX_ATTEMPTS = 2
    MaxCrashes = 1
    MaxTimeouts = 0
    MaxOutages = 1
    MaxStops = 1
PROPERTIES EventuallySettled
