SPECIFICATION Spec
CONSTANTS
    Bookings = {b0, b1, b2}
    Legacy = {b0}
    LegacyStay <- ShortStay
    Keys = {k1, k2}
    Dates = {1, 2}
    MaxRooms = 2
    Stays <- TwoStays
    InitialRooms = 3
    NewTotals = {2, 4}
    BlockCounts = {0, 1}
    TTL = 1
    DayLength = 1
    MaxTime = 3
    TxLag = 1
    LocalSkew = {0}
    BatchSize = 2
    Outcomes = {"captured"}
    Subscribed = {"payment.succeeded"}
SYMMETRY Symmetry
INVARIANTS InventoryConserved NeverOversold KeysNameOneBooking
PROPERTIES ImplementsContract
CHECK_DEADLOCK FALSE
CONSTANTS
    MaxRequests = 1
    MaxLookups = 0
