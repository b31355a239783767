SPECIFICATION Spec
CONSTANTS
    c1 = c1
    c2 = c2
    Clients = {c1, c2}
    Requests <- PolicyRequests
    Window <- PolicyWindows
    CleanupInterval = 2
    MaxEntries = 1
    Skew = 1
    Workers = {w1, w2}
    Grace = 1
    MaxHandlers = 1
SYMMETRY Symmetry
INVARIANTS RateIsLimited RefusedWhenInUse PoolClosesLast
CHECK_DEADLOCK FALSE
