SPECIFICATION FairSpec
CONSTANTS
    Bookings = {b1, b2}
    Legacy = {}
    LegacyStay <- ShortStay
    Keys = {k1, k2}
    Dates = {1, 2}
    MaxRooms = 2
    Stays <- TwoStays
    InitialRooms = 3
    NewTotals = {}
    BlockCounts = {}
    TTL = 1
    DayLength = 1
    MaxTime = 3
    TxLag = 1
    LocalSkew = {0}
    BatchSize = 2
    Outcomes = {"captured", "canceled"}
    Subscribed = {"payment.succeeded", "payment.canceled"}
    MaxRequests = 2
    MaxLookups = 0
PROPERTIES ImplementsContract HoldsEnd
CHECK_DEADLOCK FALSE
