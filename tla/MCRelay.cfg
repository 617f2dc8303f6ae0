SPECIFICATION RelayFairSpec
CONSTANTS
    a = a
    b = b
    RawN = 4
    RawMalformed = {1}
    RawUnknown = {3}
    Routes = {a, b}
    Passes <- MCPasses
    MaxFaults = 1
    N = 5
    Malformed = {}
    SEMAPHORE = 2
    MaxCrashes = 1
    MaxStops = 1
    MaxErrors = 1
INVARIANTS RelayTypeOK TasksBounded LostOnlyByFaults DispatchedBeforeCommit CopiesBoundedByFaults
PROPERTIES OffsetMonotone EventuallyForwarded ForwardingImplemented
CHECK_DEADLOCK FALSE
