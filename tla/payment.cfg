SPECIFICATION FairSpec
CONSTANTS
    Bookings = {b1}
    Legacy = {}
    LegacyStay <- ShortStay
    Keys = {k1}
    Dates = {1, 2}
    MaxRooms = 2
    Stays <- OneStay
    InitialRooms = 1
    NewTotals = {}
    BlockCounts = {}
    TTL = 2
    DayLength = 2
    MaxTime = 6
    TxLag = 1
    LocalSkew = {0}
    BatchSize = 2
    Outcomes <- AllOutcomes
    Subscribed <- EventTypes
    MaxRequests = 2
    MaxLookups = 1
INVARIANTS BookingPaymentAgree HistoryTellsStatus ConfirmedIsPaid PaidChargeIsKnown ClaimedSuccessApplied FailureFitsPayment EmailsTellTheState
PROPERTIES MoneyComesBack PaidIsSettled
CHECK_DEADLOCK FALSE
