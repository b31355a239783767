SPECIFICATION Spec
CONSTANTS
    b1 = b1
    b2 = b2
    Procs = {p1, p2, p3}
    Bookings = {b1, b2}
    Nights = {1, 2}
    Stay <- TwoStays
    BatchSize = 2
    None = None
SYMMETRY Symmetry
INVARIANTS OnlyUnorderedLocksDeadlock SuccessAndExpirationNeverDeadlock
CHECK_DEADLOCK FALSE
