SPECIFICATION FairSpec
CONSTANTS
    Deliveries = {d1}
    RetrySettings = {0, 1, 3}
    MAX_RATE_LIMIT_WAITS = 5
    HasProducer = TRUE
INVARIANTS TypeOK RequestsWithinRetries AttemptLogComplete DeadLettersAreExhausted
PROPERTIES Terminates
CHECK_DEADLOCK FALSE
