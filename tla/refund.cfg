SPECIFICATION FairSpec
CONSTANTS
    Payments = {p1, p2}
    Workers = {w1, w2}
    Late = Late
    Lease = 2
    RunTimeout = 1
    BatchSize = 2
    BaseDelay = 2
    MaxDelay = 3
    MaxExponent = 2
    MaxFaults = 2
INVARIANTS TypeOK OneWorkerPerPayment AttemptsAreNumbered RefundIsTrue
PROPERTIES RefundStepsAreAtomic RefundsEnd
CHECK_DEADLOCK FALSE
