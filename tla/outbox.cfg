SPECIFICATION FairSpec
CONSTANTS
    Messages = {m1, m2}
    Workers = {w1, w2}
    Late = Late
    Lease = 2
    RunTimeout = 1
    BatchSize = 2
    MaxAttempts = 2
    BaseDelay = 1
    MaxDelay = 1
    MaxExponent = 10
    Retention = 1
    MaxFaults = 1
INVARIANTS OneSenderUnlessStruck DuplicatesNeedFaults OutcomeIsTrue AttemptsBounded
PROPERTIES EmailsEnd
CHECK_DEADLOCK FALSE
