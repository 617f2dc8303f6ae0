SPECIFICATION Spec
CONSTANTS
    Relays = {r1, r2}
    Events = {1, 2, 3}
    BATCH_SIZE = 2
    MAX_ATTEMPTS = 2
    MaxCrashes = 1
    MaxTimeouts = 1
    MaxOutages = 1
    MaxStops = 1
SYMMETRY Symmetry
INVARIANTS QueuedIsPublished CopiesBoundedByFaults
PROPERTIES SettledForGood OutboxImplemented
