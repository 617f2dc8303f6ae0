SPECIFICATION Spec
CONSTANTS
    Deliveries = {d1}
    RetrySettings = {2}
    MAX_RATE_LIMIT_WAITS = 5
    HasProducer = FALSE
INVARIANTS ExhaustedLandInDLQ
CHECK_DEADLOCK FALSE
