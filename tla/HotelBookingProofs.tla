-------------------------- MODULE HotelBookingProofs --------------------------
(***************************************************************************)
(* What holds of the booking core for any number of bookings, rooms,       *)
(* nights, keys and events: its types, the conservation of the rooms, that *)
(* no night is oversold, and that a booking and its payment agree.         *)
(***************************************************************************)
EXTENDS HotelBooking, TLAPS, FiniteSetTheorems

-----------------------------------------------------------------------------
\* How the rooms of a night, counted from the bookings, change when bookings
\* come and go.  These facts hold for any set of bookings and any stays.

\* The units of finitely many bookings are finitely many, so that counting
\* them makes sense.
LEMMA RoomUnitsFinite ==
    ASSUME NEW S, IsFiniteSet(S), NEW f, NEW d
    PROVE  IsFiniteSet(RoomUnits(S, f, d)) /\ RoomsTaken(S, f, d) \in Nat
<1>1. MaxRooms \in Int
  BY InventoryAssumption
<1>2. IsFiniteSet(1..MaxRooms)
  BY <1>1, FS_Interval
<1>3. IsFiniteSet(S \X (1..MaxRooms))
  BY <1>2, FS_Product
<1>4. RoomUnits(S, f, d) \in SUBSET (S \X (1..MaxRooms))
  BY DEF RoomUnits
<1>5. IsFiniteSet(RoomUnits(S, f, d))
  BY <1>3, <1>4, FS_Subset
<1> QED
  BY <1>5, FS_CardinalityType DEF RoomsTaken

\* Only the stays of the counted bookings matter.
LEMMA RoomsTakenSameStays ==
    ASSUME NEW S, NEW f, NEW g, NEW d, \A b \in S : f[b] = g[b]
    PROVE  RoomsTaken(S, f, d) = RoomsTaken(S, g, d)
<1>1. RoomUnits(S, f, d) = RoomUnits(S, g, d)
  BY DEF RoomUnits
<1> QED
  BY <1>1 DEF RoomsTaken

\* Bookings that leave take their own rooms with them and no others.
LEMMA RoomsTakenWithout ==
    ASSUME NEW S, IsFiniteSet(S), NEW T \in SUBSET S, NEW f, NEW d
    PROVE  RoomsTaken(S \ T, f, d) = RoomsTaken(S, f, d) - RoomsTaken(T, f, d)
<1>1. RoomUnits(S \ T, f, d) = RoomUnits(S, f, d) \ RoomUnits(T, f, d)
  BY DEF RoomUnits
<1>2. RoomUnits(S, f, d) \cap RoomUnits(T, f, d) = RoomUnits(T, f, d)
  BY DEF RoomUnits
<1>3. IsFiniteSet(RoomUnits(S, f, d))
  BY RoomUnitsFinite
<1>4. Cardinality(RoomUnits(S, f, d) \ RoomUnits(T, f, d)) =
         Cardinality(RoomUnits(S, f, d))
            - Cardinality(RoomUnits(S, f, d) \cap RoomUnits(T, f, d))
  BY <1>3, FS_Difference
<1> QED
  BY <1>1, <1>2, <1>4 DEF RoomsTaken

\* The rooms of one booking on one night.
LEMMA RoomsTakenByOne ==
    ASSUME NEW b, NEW f, f[b] \in Stays, NEW d
    PROVE  RoomsTaken({b}, f, d) = IF d \in Nights(f[b]) THEN f[b].rooms ELSE 0
<1> DEFINE n == f[b].rooms
<1>1. n \in 1..MaxRooms /\ MaxRooms \in Nat
  BY InventoryAssumption
<1>2. CASE d \in Nights(f[b])
  <2>1. RoomUnits({b}, f, d) = {b} \X (1..n)
    <3>1. ASSUME NEW u \in RoomUnits({b}, f, d)
          PROVE  u \in {b} \X (1..n)
      BY <1>1, <3>1 DEF RoomUnits
    <3>2. ASSUME NEW u \in {b} \X (1..n)
          PROVE  u \in RoomUnits({b}, f, d)
      BY <1>1, <1>2 DEF RoomUnits
    <3> QED
      BY <3>1, <3>2
  <2>2. IsFiniteSet(1..n) /\ Cardinality(1..n) = n
    <3>1. 1 \in Int /\ n \in Int /\ n >= 1
      BY <1>1
    <3>2. IsFiniteSet(1..n) /\ Cardinality(1..n) = IF 1 > n THEN 0 ELSE n - 1 + 1
      BY <3>1, FS_Interval
    <3> QED
      BY <3>1, <3>2
  <2>3. IsFiniteSet({b}) /\ Cardinality({b}) = 1
    BY FS_Singleton
  <2>4. Cardinality({b} \X (1..n)) = Cardinality({b}) * Cardinality(1..n)
    BY <2>2, <2>3, FS_Product
  <2>5. Cardinality({b} \X (1..n)) = n
    BY <1>1, <2>2, <2>3, <2>4
  <2> QED
    BY <1>2, <2>1, <2>5 DEF RoomsTaken
<1>3. CASE d \notin Nights(f[b])
  <2>1. RoomUnits({b}, f, d) = {}
    BY <1>3 DEF RoomUnits
  <2> QED
    BY <1>3, <2>1, FS_EmptySet DEF RoomsTaken
<1> QED
  BY <1>2, <1>3

\* A booking that comes adds its rooms to its nights.
LEMMA RoomsTakenWith ==
    ASSUME NEW S, IsFiniteSet(S), NEW b, b \notin S,
           NEW f, f[b] \in Stays, NEW d
    PROVE  RoomsTaken(S \cup {b}, f, d) =
              RoomsTaken(S, f, d) + (IF d \in Nights(f[b]) THEN f[b].rooms ELSE 0)
<1> DEFINE T == S \cup {b}
<1>1. IsFiniteSet(T)
  BY FS_AddElement
<1>2. S = T \ {b}
  OBVIOUS
<1>3. RoomsTaken(T \ {b}, f, d) = RoomsTaken(T, f, d) - RoomsTaken({b}, f, d)
  BY <1>1, RoomsTakenWithout
<1>4. RoomsTaken(T, f, d) \in Nat /\ RoomsTaken({b}, f, d) \in Nat
  BY <1>1, RoomUnitsFinite, FS_Singleton
<1>5. RoomsTaken({b}, f, d) = IF d \in Nights(f[b]) THEN f[b].rooms ELSE 0
  BY RoomsTakenByOne
<1>6. RoomsTaken(S, f, d) = RoomsTaken(T, f, d) - RoomsTaken({b}, f, d)
  BY <1>2, <1>3
<1>7. RoomsTaken(T, f, d) = RoomsTaken(S, f, d) + RoomsTaken({b}, f, d)
  <2> HIDE DEF T
  <2> QED
    BY <1>4, <1>6
<1> QED
  BY <1>5, <1>7

\* The rooms that some of the bookings take are a number.
LEMMA RoomsOfBookings ==
    ASSUME NEW S \in SUBSET Bookings, NEW f, NEW d
    PROVE  IsFiniteSet(S) /\ RoomsTaken(S, f, d) \in Nat
<1>1. IsFiniteSet(S)
  BY StoreAssumption, FS_Subset
<1> QED
  BY <1>1, RoomUnitsFinite

-----------------------------------------------------------------------------
\* Type correctness

LEMMA InitTypeOK == Init => TypeOK
<1> SUFFICES ASSUME Init PROVE TypeOK
  OBVIOUS
<1>1. InventoryTypeOK
  <2>1. \A d \in Dates : RoomsTaken(Legacy, stay, d) \in Nat
    BY StoreAssumption, RoomsOfBookings
  <2> QED
    BY <2>1, HotelBookingAssumption DEF Init, InventoryTypeOK
<1>2. ProviderTypeOK
  BY DEF Init, ProviderInit, ProviderTypeOK, ChargeStates
<1>3. StoreTypeOK
  <2>1. history \in [Bookings -> Seq(BookingStates \X BookingStates)]
    <3>1. << >> \in Seq(BookingStates \X BookingStates)
      OBVIOUS
    <3>2. <<"none", "confirmed">> \in BookingStates \X BookingStates
      BY DEF BookingStates
    <3>3. << <<"none", "confirmed">> >> \in Seq(BookingStates \X BookingStates)
      BY <3>2
    <3> QED
      BY <3>1, <3>3 DEF Init
  <2>2. now \in 0..MaxTime
    BY StoreAssumption DEF Init
  <2> QED
    BY <2>1, <2>2, HotelBookingAssumption
    DEF Init, StoreTypeOK, BookingStates, PaymentStates, Failures
<1>4. PaymentServiceTypeOK
  BY DEF Init, PaymentServiceTypeOK
<1> QED
  BY <1>1, <1>2, <1>3, <1>4 DEF TypeOK


\* A history row of booking states keeps the type of the table.
LEMMA HistoryType ==
    ASSUME history \in [Bookings -> Seq(BookingStates \X BookingStates)],
           NEW S, NEW from \in BookingStates, NEW to \in BookingStates,
           CreateBookingStatusHistory(S, from, to)
    PROVE  history' \in [Bookings -> Seq(BookingStates \X BookingStates)]
<1>1. <<from, to>> \in BookingStates \X BookingStates
  OBVIOUS
<1>2. ASSUME NEW b \in Bookings
      PROVE  Append(history[b], <<from, to>>) \in Seq(BookingStates \X BookingStates)
  BY <1>1
<1> QED
  BY <1>2 DEF CreateBookingStatusHistory

\* Giving rooms back leaves natural numbers: the WHERE clause sees to it.
LEMMA DecrementType ==
    ASSUME InventoryTypeOK, NEW S \in SUBSET Bookings, NEW f,
           DecrementAvailability(S, f)
    PROVE  InventoryTypeOK'
<1>1. \A d \in Dates : RoomsTaken(S, f, d) \in Nat
  BY RoomsOfBookings
<1>2. \A d \in Dates : booked[d] - RoomsTaken(S, f, d) \in Nat
  BY <1>1 DEF InventoryTypeOK, DecrementAvailability
<1> QED
  BY <1>2 DEF InventoryTypeOK, DecrementAvailability

LEMMA CreateBookingType ==
    ASSUME TypeOK, NEW b \in Bookings, NEW k \in Keys, NEW s \in Stays,
           CreateBooking(b, k, s), UNCHANGED flightVars
    PROVE  TypeOK'
<1>1. InventoryTypeOK'
  <2>1. \A d \in Dates : d \in Nights(s) => booked[d] + s.rooms \in Nat
    BY InventoryAssumption DEF TypeOK, InventoryTypeOK
  <2> QED
    BY <2>1 DEF TypeOK, InventoryTypeOK, CreateBooking, IncrementAvailability
<1>2. ProviderTypeOK'
  BY DEF TypeOK, ProviderTypeOK, CreateBooking, providerVars
<1>3. StoreTypeOK'
  <2>1. PICK t \in TxTimes : CreatePendingBooking(b, s, t)
    BY DEF CreateBooking
  <2>2. t + TTL \in Nat
    BY StoreAssumption DEF TxTimes, TypeOK, StoreTypeOK
  <2>3. /\ status' \in [Bookings -> BookingStates]
        /\ stay' \in [Bookings -> Stays]
        /\ expires' \in [Bookings -> Nat]
    BY <2>1, <2>2
    DEF TypeOK, StoreTypeOK, CreatePendingBooking, Assign, BookingStates
  <2>4. history' \in [Bookings -> Seq(BookingStates \X BookingStates)]
    BY HistoryType DEF TypeOK, StoreTypeOK, CreateBooking, BookingStates
  <2>5. pay' \in [Bookings -> PaymentStates] /\ UNCHANGED <<pid, failure>>
    BY DEF TypeOK, StoreTypeOK, CreateBooking, CreatePaymentForBooking,
           Assign, PaymentStates
  <2> QED
    BY <2>3, <2>4, <2>5
    DEF TypeOK, StoreTypeOK, CreateBooking, AttachBookingToIdempotencyKey
<1>4. PaymentServiceTypeOK'
  BY DEF TypeOK, PaymentServiceTypeOK, flightVars
<1> QED
  BY <1>1, <1>2, <1>3, <1>4 DEF TypeOK

LEMMA CancelBookingType ==
    ASSUME TypeOK, NEW b \in Bookings, CancelBooking(b), UNCHANGED flightVars
    PROVE  TypeOK'
<1>1. InventoryTypeOK'
  BY DecrementType DEF TypeOK, CancelBooking
<1>2. ProviderTypeOK'
  BY DEF TypeOK, ProviderTypeOK, CancelBooking, providerVars
<1>3. StoreTypeOK'
  <2>1. history' \in [Bookings -> Seq(BookingStates \X BookingStates)]
    BY HistoryType DEF TypeOK, StoreTypeOK, CancelBooking, BookingStates
  <2>2. status' \in [Bookings -> BookingStates] /\ UNCHANGED <<stay, expires>>
    BY DEF TypeOK, StoreTypeOK, CancelBooking, CancelConfirmedBooking,
           Assign, BookingStates
  <2>3. pay' \in [Bookings -> PaymentStates] /\ UNCHANGED <<pid, failure>>
    BY DEF TypeOK, StoreTypeOK, CancelBooking, MarkPaymentRefundPending,
           Assign, PaymentStates, paymentVars
  <2> QED
    BY <2>1, <2>2, <2>3
    DEF TypeOK, StoreTypeOK, CancelBooking, EnqueueBookingEmail, EmailTypes
<1>4. PaymentServiceTypeOK'
  BY DEF TypeOK, PaymentServiceTypeOK, flightVars
<1> QED
  BY <1>1, <1>2, <1>3, <1>4 DEF TypeOK


\* What an expiration run and a provider cancellation do alike.
LEMMA CancelPendingType ==
    ASSUME TypeOK, NEW S \in SUBSET Bookings, CancelPendingBookingAndPayment(S)
    PROVE  /\ InventoryTypeOK'
           /\ status' \in [Bookings -> BookingStates]
           /\ history' \in [Bookings -> Seq(BookingStates \X BookingStates)]
           /\ pay' \in [Bookings -> PaymentStates]
           /\ outbox' \subseteq Bookings \X EmailTypes
           /\ UNCHANGED <<stay, expires, keys, pid, failure>>
<1>1. InventoryTypeOK'
  BY DecrementType DEF TypeOK, CancelPendingBookingAndPayment
<1>2. history' \in [Bookings -> Seq(BookingStates \X BookingStates)]
  BY HistoryType DEF TypeOK, StoreTypeOK, CancelPendingBookingAndPayment, BookingStates
<1>3. status' \in [Bookings -> BookingStates] /\ UNCHANGED <<stay, expires>>
  BY DEF TypeOK, StoreTypeOK, CancelPendingBookingAndPayment, ExpirePendingBooking,
         Assign, BookingStates
<1>4. pay' \in [Bookings -> PaymentStates] /\ UNCHANGED <<pid, failure>>
  BY DEF TypeOK, StoreTypeOK, CancelPendingBookingAndPayment, MarkPaymentExpired,
         Assign, PaymentStates
<1>5. outbox' \subseteq Bookings \X EmailTypes /\ UNCHANGED keys
  BY DEF TypeOK, StoreTypeOK, CancelPendingBookingAndPayment, EnqueueBookingEmail,
         EmailTypes
<1> QED
  BY <1>1, <1>2, <1>3, <1>4, <1>5

LEMMA ExpireType ==
    ASSUME TypeOK, NEW S \in SUBSET Bookings, ExpirePendingPayments(S)
    PROVE  TypeOK'
<1>1. CancelPendingBookingAndPayment(S) /\ UNCHANGED <<claimed, providerVars, flightVars, now>>
  BY DEF ExpirePendingPayments
<1> QED
  BY <1>1, CancelPendingType
  DEF TypeOK, StoreTypeOK, ProviderTypeOK, PaymentServiceTypeOK, providerVars, flightVars

LEMMA ProcessWebhookType ==
    ASSUME TypeOK, NEW e \in events, ProcessWebhook(e)
    PROVE  TypeOK'
<1>1. /\ e \in Event /\ e.of \in Bookings
      /\ claimed' \subseteq Event
      /\ UNCHANGED <<providerVars, flightVars, now>>
  BY DEF TypeOK, StoreTypeOK, ProviderTypeOK, Event, ProcessWebhook, ClaimPaymentWebhookEvent
<1>2. ProviderTypeOK' /\ PaymentServiceTypeOK' /\ now' \in 0..MaxTime
  BY <1>1 DEF TypeOK, StoreTypeOK, ProviderTypeOK, PaymentServiceTypeOK, providerVars, flightVars
<1>3. CASE SkipWebhook(e)
  BY <1>1, <1>2, <1>3
  DEF TypeOK, StoreTypeOK, InventoryTypeOK, SkipWebhook, bookingVars, paymentVars, inventoryVars
<1>4. CASE PaymentCanceled(e)
  <2>1. {e.of} \in SUBSET Bookings /\ CancelPendingBookingAndPayment({e.of})
    BY <1>1, <1>4 DEF PaymentCanceled
  <2> QED
    BY <1>1, <1>2, <2>1, CancelPendingType DEF TypeOK, StoreTypeOK
<1>5. CASE PaymentFailed(e)
  <2>1. failure' \in [Bookings -> Failures] /\ UNCHANGED <<pay, pid>>
    BY <1>5 DEF TypeOK, StoreTypeOK, PaymentFailed, RecordPaymentFailure, Assign, Failures
  <2> QED
    BY <1>1, <1>2, <1>5, <2>1
    DEF TypeOK, StoreTypeOK, InventoryTypeOK, PaymentFailed, bookingVars, inventoryVars
<1>6. CASE PaymentSucceeded(e)
  <2>1. status' \in [Bookings -> BookingStates] /\ UNCHANGED <<stay, expires>>
    BY <1>6 DEF TypeOK, StoreTypeOK, PaymentSucceeded, ConfirmPendingBooking,
                Assign, BookingStates
  <2>2. /\ pay' \in [Bookings -> PaymentStates]
        /\ failure' \in [Bookings -> Failures]
        /\ UNCHANGED pid
    BY <1>6 DEF TypeOK, StoreTypeOK, PaymentSucceeded, MarkPaymentSucceeded,
                Assign, PaymentStates, Failures
  <2>3. history' \in [Bookings -> Seq(BookingStates \X BookingStates)]
    BY <1>6, HistoryType DEF TypeOK, StoreTypeOK, PaymentSucceeded, BookingStates
  <2> QED
    BY <1>1, <1>2, <1>6, <2>1, <2>2, <2>3
    DEF TypeOK, StoreTypeOK, InventoryTypeOK, PaymentSucceeded, inventoryVars
<1>7. CASE LatePaymentSucceeded(e)
  <2>1. /\ pay' \in [Bookings -> PaymentStates]
        /\ failure' \in [Bookings -> Failures]
        /\ UNCHANGED pid
    BY <1>7 DEF TypeOK, StoreTypeOK, LatePaymentSucceeded,
                MarkExpiredPaymentRefundPending, Assign, PaymentStates, Failures
  <2> QED
    BY <1>1, <1>2, <1>7, <2>1
    DEF TypeOK, StoreTypeOK, InventoryTypeOK, LatePaymentSucceeded, bookingVars, inventoryVars
<1> QED
  BY <1>3, <1>4, <1>5, <1>6, <1>7 DEF ProcessWebhook


LEMMA PaymentStepType ==
    ASSUME TypeOK, NEW b \in Bookings, PaymentStep(b)
    PROVE  TypeOK'
<1>1. CASE BeginInitiatePayment(b)
  <2>1. ProviderTypeOK'
    BY <1>1 DEF TypeOK, ProviderTypeOK, BeginInitiatePayment, CreatePayment, Notify,
                ChargeStates, Event
  <2>2. inits' \subseteq Bookings \X BOOLEAN
    <3> DEFINE known == b \in pid
    <3>1. known \in BOOLEAN
      OBVIOUS
    <3>2. inits' = inits \cup {<<b, known>>}
      BY <1>1 DEF BeginInitiatePayment
    <3> HIDE DEF known
    <3> QED
      BY <3>1, <3>2 DEF TypeOK, PaymentServiceTypeOK
  <2> QED
    BY <1>1, <2>1, <2>2
    DEF TypeOK, StoreTypeOK, InventoryTypeOK, PaymentServiceTypeOK, BeginInitiatePayment,
        storeVars, bookingVars, paymentVars, inventoryVars
<1>2. CASE \E known \in BOOLEAN : FinishInitiatePayment(b, known)
  <2>1. PICK known \in BOOLEAN : FinishInitiatePayment(b, known)
    BY <1>2
  <2>2. pid' \subseteq Bookings /\ UNCHANGED <<pay, failure>>
    BY <2>1 DEF TypeOK, StoreTypeOK, FinishInitiatePayment, SetPaymentProviderID, paymentVars
  <2>3. checkout' \subseteq Bookings
    BY <2>1 DEF TypeOK, ProviderTypeOK, FinishInitiatePayment
  <2> QED
    BY <2>1, <2>2, <2>3
    DEF TypeOK, StoreTypeOK, InventoryTypeOK, PaymentServiceTypeOK, ProviderTypeOK,
        FinishInitiatePayment, bookingVars, inventoryVars, flightVars
<1>3. CASE BeginReconcile(b)
  BY <1>3
  DEF TypeOK, StoreTypeOK, InventoryTypeOK, PaymentServiceTypeOK, ProviderTypeOK,
      BeginReconcile, storeVars, bookingVars, paymentVars, inventoryVars, providerVars
<1>4. CASE FinishReconcile(b)
  <2>1. events' \subseteq Event
    BY <1>4 DEF TypeOK, ProviderTypeOK, FinishReconcile, LookupEvents
  <2> QED
    BY <1>4, <2>1
    DEF TypeOK, StoreTypeOK, InventoryTypeOK, PaymentServiceTypeOK, ProviderTypeOK,
        FinishReconcile, storeVars, bookingVars, paymentVars, inventoryVars, flightVars
<1>5. ASSUME Refund(b) \/ UNCHANGED providerVars
      PROVE  ProviderTypeOK'
  BY <1>5 DEF TypeOK, ProviderTypeOK, Refund, ChargeStates, providerVars
<1>6. ASSUME UNCHANGED UnchangedByRefund,
             pay' \in [Bookings -> PaymentStates], failure' \in [Bookings -> Failures],
             outbox' \subseteq Bookings \X EmailTypes, UNCHANGED pid
      PROVE  StoreTypeOK' /\ InventoryTypeOK' /\ PaymentServiceTypeOK'
  BY <1>6
  DEF TypeOK, StoreTypeOK, InventoryTypeOK, PaymentServiceTypeOK, UnchangedByRefund,
      bookingVars, inventoryVars, flightVars
<1>7. CASE RefundPayment(b)
  <2>1. /\ pay' \in [Bookings -> PaymentStates] /\ failure' \in [Bookings -> Failures]
        /\ outbox' \subseteq Bookings \X EmailTypes /\ UNCHANGED pid
    BY <1>7 DEF TypeOK, StoreTypeOK, RefundPayment, MarkPaymentRefunded, Assign,
                EnqueueBookingEmail, EmailTypes, PaymentStates, Failures
  <2> QED
    BY <1>5, <1>6, <1>7, <2>1 DEF TypeOK, RefundPayment
<1>8. CASE RefundInterrupted(b)
  <2>1. UNCHANGED <<pay, pid, failure, outbox, UnchangedByRefund>>
    BY <1>8 DEF RefundInterrupted, paymentVars
  <2> QED
    BY <1>5, <1>6, <1>8, <2>1 DEF TypeOK, StoreTypeOK, RefundInterrupted
<1>9. CASE RefundFailed(b)
  <2>1. /\ failure' \in [Bookings -> Failures]
        /\ UNCHANGED <<pay, pid, outbox, UnchangedByRefund>>
    BY <1>9 DEF TypeOK, StoreTypeOK, RefundFailed, SchedulePaymentRefundRetry, Assign, Failures
  <2> QED
    BY <1>5, <1>6, <1>9, <2>1 DEF TypeOK, StoreTypeOK, RefundFailed
<1>10. CASE RetryPaymentRefund(b)
  <2>1. /\ failure' \in [Bookings -> Failures]
        /\ UNCHANGED <<pay, pid, outbox, UnchangedByRefund, providerVars>>
    BY <1>10 DEF TypeOK, StoreTypeOK, RetryPaymentRefund, RetryFailedPaymentRefundForAdmin,
                 Assign, Failures
  <2> QED
    BY <1>5, <1>6, <2>1 DEF TypeOK, StoreTypeOK
<1> QED
  BY <1>1, <1>2, <1>3, <1>4, <1>7, <1>8, <1>9, <1>10 DEF PaymentStep

LEMMA CompleteType ==
    ASSUME TypeOK, Complete
    PROVE  TypeOK'
<1>1. /\ UNCHANGED <<keys, paymentVars, claimed, outbox, inventoryVars, providerVars,
                     now, flightVars>>
      /\ \E today \in {DayOf(t) : t \in TxTimes} : CompleteBookings(today)
  BY DEF Complete, CompletePastBookings
<1>2. PICK today : CompleteBookings(today)
  BY <1>1
<1> DEFINE past == {b \in Bookings : status[b] = "confirmed" /\ stay[b].out <= today}
<1>3. /\ status' = Assign(status, past, "completed")
      /\ CreateBookingStatusHistory(past, "confirmed", "completed")
      /\ UNCHANGED <<stay, expires>>
  BY <1>2 DEF CompleteBookings
<1>4. status' \in [Bookings -> BookingStates]
  BY <1>3 DEF TypeOK, StoreTypeOK, Assign, BookingStates
<1>5. history' \in [Bookings -> Seq(BookingStates \X BookingStates)]
  BY <1>3, HistoryType DEF TypeOK, StoreTypeOK, BookingStates
<1> QED
  BY <1>1, <1>3, <1>4, <1>5
  DEF TypeOK, StoreTypeOK, InventoryTypeOK, ProviderTypeOK, PaymentServiceTypeOK,
      paymentVars, inventoryVars, providerVars, flightVars

LEMMA AdminInventoryType ==
    ASSUME TypeOK, AdminInventory
    PROVE  TypeOK'
<1>1. InventoryTypeOK'
  BY HotelBookingAssumption
  DEF TypeOK, InventoryTypeOK, AdminInventory, SetBlockedInventory, UpdateRoomType, Deactivate
<1> QED
  BY <1>1
  DEF TypeOK, StoreTypeOK, ProviderTypeOK, PaymentServiceTypeOK, AdminInventory,
      storeVars, bookingVars, paymentVars, providerVars, flightVars

LEMMA ProviderStepType ==
    ASSUME TypeOK, NEW b \in Bookings, ProviderStep(b)
    PROVE  TypeOK'
<1>1. ProviderTypeOK'
  BY DEF TypeOK, ProviderTypeOK, ProviderStep, Pay, Decline, Cancel, Notify, ChargeStates
<1> QED
  BY <1>1
  DEF TypeOK, StoreTypeOK, InventoryTypeOK, PaymentServiceTypeOK, ProviderStep,
      storeVars, bookingVars, paymentVars, inventoryVars, flightVars

\* TypeOK is inductive.
LEMMA NextTypeOK == TypeOK /\ [Next]_vars => TypeOK'
<1> SUFFICES ASSUME TypeOK, [Next]_vars PROVE TypeOK'
  OBVIOUS
<1>1. CASE Tick
  <2>1. now' \in 0..MaxTime
    BY <1>1, StoreAssumption DEF Tick, TypeOK, StoreTypeOK
  <2> QED
    BY <1>1, <2>1
    DEF Tick, TypeOK, StoreTypeOK, InventoryTypeOK, ProviderTypeOK, PaymentServiceTypeOK,
        storeVars, bookingVars, paymentVars, inventoryVars, providerVars, flightVars
<1>2. CASE Expire
  BY <1>2, ExpireType DEF Expire
<1>3. ASSUME NEW b \in Bookings, BookingStep(b)
      PROVE  TypeOK'
  BY <1>3, CreateBookingType, CancelBookingType DEF BookingStep
<1>4. CASE UNCHANGED vars
  BY <1>4
  DEF vars, TypeOK, StoreTypeOK, InventoryTypeOK, ProviderTypeOK, PaymentServiceTypeOK,
      storeVars, bookingVars, paymentVars, inventoryVars, providerVars, flightVars
<1> QED
  BY <1>1, <1>2, <1>3, <1>4, AdminInventoryType, CompleteType, ProcessWebhookType,
     PaymentStepType, ProviderStepType
  DEF Next

\* Every reachable state is well typed.
THEOREM TypeCorrect == Spec => []TypeOK
BY InitTypeOK, NextTypeOK, PTL DEF Spec

-----------------------------------------------------------------------------
\* Conservation of the rooms.  A step either leaves the bookings that take
\* rooms and the counters alone, or adds one booking and its rooms, or takes
\* some bookings and their rooms away.

LEMMA LiveBookings == Live \in SUBSET Bookings /\ IsFiniteSet(Live)
BY StoreAssumption, FS_Subset DEF Live

LEMMA ConservedWhenSame ==
    ASSUME InventoryConserved, Live' = Live, UNCHANGED <<stay, booked>>
    PROVE  InventoryConserved'
BY DEF InventoryConserved

LEMMA ConservedWhenGiven ==
    ASSUME TypeOK, InventoryConserved, NEW S \in SUBSET Live,
           Live' = Live \ S, UNCHANGED stay, DecrementAvailability(S, stay)
    PROVE  InventoryConserved'
<1>1. ASSUME NEW d \in Dates
      PROVE  booked'[d] = RoomsTaken(Live', stay', d)
  <2>1. booked'[d] = booked[d] - RoomsTaken(S, stay, d)
    BY DEF DecrementAvailability
  <2>2. booked[d] = RoomsTaken(Live, stay, d)
    BY DEF InventoryConserved
  <2>3. RoomsTaken(Live \ S, stay, d) = RoomsTaken(Live, stay, d) - RoomsTaken(S, stay, d)
    BY LiveBookings, RoomsTakenWithout
  <2> QED
    BY <2>1, <2>2, <2>3
<1> QED
  BY <1>1 DEF InventoryConserved

LEMMA ConservedWhenTaken ==
    ASSUME TypeOK, InventoryConserved, NEW b \in Bookings, NEW s \in Stays,
           b \notin Live, Live' = Live \cup {b}, stay' = Assign(stay, {b}, s),
           IncrementAvailability(s)
    PROVE  InventoryConserved'
<1>1. stay'[b] = s /\ \A c \in Live : stay'[c] = stay[c]
  BY LiveBookings DEF TypeOK, StoreTypeOK, Assign
<1>2. ASSUME NEW d \in Dates
      PROVE  booked'[d] = RoomsTaken(Live', stay', d)
  <2>1. booked'[d] = IF d \in Nights(s) THEN booked[d] + s.rooms ELSE booked[d]
    BY DEF IncrementAvailability
  <2>2. booked[d] = RoomsTaken(Live, stay, d)
    BY DEF InventoryConserved
  <2>3. RoomsTaken(Live, stay, d) = RoomsTaken(Live, stay', d)
    BY <1>1, RoomsTakenSameStays
  <2>4. RoomsTaken(Live \cup {b}, stay', d) = RoomsTaken(Live, stay', d)
            + (IF d \in Nights(stay'[b]) THEN stay'[b].rooms ELSE 0)
    <3> DEFINE f == stay'
               S == Live
    <3>1. IsFiniteSet(S) /\ b \notin S /\ f[b] \in Stays
      BY <1>1, LiveBookings
    <3> HIDE DEF f, S
    <3>2. RoomsTaken(S \cup {b}, f, d) = RoomsTaken(S, f, d)
              + (IF d \in Nights(f[b]) THEN f[b].rooms ELSE 0)
      BY ONLY SMTT(20), <3>1, RoomsTakenWith
    <3> QED
      BY <3>2 DEF f, S
  <2>5. booked[d] \in Nat
    BY DEF TypeOK, InventoryTypeOK
  <2> QED
    BY <1>1, <2>1, <2>2, <2>3, <2>4, <2>5
<1> QED
  BY <1>2 DEF InventoryConserved

\* Expiration and provider cancellation take the rooms of held bookings away.
LEMMA ConservedByCancelPending ==
    ASSUME TypeOK, InventoryConserved, NEW S \in SUBSET Bookings,
           CancelPendingBookingAndPayment(S)
    PROVE  InventoryConserved'
<1>1. S \in SUBSET Live
  BY DEF CancelPendingBookingAndPayment, ExpirePendingBooking, Live
<1>2. Live' = Live \ S
  BY DEF CancelPendingBookingAndPayment, ExpirePendingBooking, Live, Assign,
         TypeOK, StoreTypeOK
<1>3. UNCHANGED stay /\ DecrementAvailability(S, stay)
  BY DEF CancelPendingBookingAndPayment, ExpirePendingBooking
<1> QED
  BY <1>1, <1>2, <1>3, ConservedWhenGiven

LEMMA ConservedByBookingStep ==
    ASSUME TypeOK, InventoryConserved, NEW b \in Bookings, BookingStep(b)
    PROVE  InventoryConserved'
<1>1. ASSUME NEW k \in Keys, NEW s \in Stays, CreateBooking(b, k, s)
      PROVE  InventoryConserved'
  <2>1. PICK t \in TxTimes : CreatePendingBooking(b, s, t)
    BY <1>1 DEF CreateBooking
  <2>2. b \notin Live /\ Live' = Live \cup {b} /\ stay' = Assign(stay, {b}, s)
    BY <2>1 DEF CreatePendingBooking, Live, Assign, TypeOK, StoreTypeOK
  <2> QED
    BY <1>1, <2>2, ConservedWhenTaken DEF CreateBooking
<1>2. CASE CancelBooking(b)
  <2>1. {b} \in SUBSET Live /\ Live' = Live \ {b}
    BY <1>2 DEF CancelBooking, CancelConfirmedBooking, Live, Assign, TypeOK, StoreTypeOK
  <2>2. UNCHANGED stay /\ DecrementAvailability({b}, stay)
    BY <1>2 DEF CancelBooking, CancelConfirmedBooking
  <2> QED
    BY <2>1, <2>2, ConservedWhenGiven
<1> QED
  BY <1>1, <1>2 DEF BookingStep

LEMMA ConservedByProcessWebhook ==
    ASSUME TypeOK, InventoryConserved, NEW e \in events, ProcessWebhook(e)
    PROVE  InventoryConserved'
<1>1. e.of \in Bookings
  BY DEF TypeOK, ProviderTypeOK, Event
<1>2. CASE PaymentCanceled(e)
  <2>1. {e.of} \in SUBSET Bookings /\ CancelPendingBookingAndPayment({e.of})
    BY <1>1, <1>2 DEF PaymentCanceled
  <2> QED
    BY <2>1, ConservedByCancelPending
<1>3. CASE PaymentSucceeded(e)
  <2>1. Live' = Live
    BY <1>1, <1>3 DEF PaymentSucceeded, ConfirmPendingBooking, Live, Assign,
                      TypeOK, StoreTypeOK
  <2> QED
    BY <1>3, <2>1, ConservedWhenSame
    DEF PaymentSucceeded, ConfirmPendingBooking, inventoryVars
<1>4. CASE SkipWebhook(e) \/ PaymentFailed(e) \/ LatePaymentSucceeded(e)
  <2>1. UNCHANGED <<status, stay, booked>>
    BY <1>4 DEF SkipWebhook, PaymentFailed, LatePaymentSucceeded, bookingVars, inventoryVars
  <2> QED
    BY <2>1, ConservedWhenSame DEF Live
<1> QED
  BY <1>2, <1>3, <1>4 DEF ProcessWebhook

LEMMA ConservedByNext ==
    ASSUME TypeOK, InventoryConserved, [Next]_vars
    PROVE  InventoryConserved'
<1>1. CASE Expire
  <2>1. PICK S \in SUBSET Bookings : CancelPendingBookingAndPayment(S)
    BY <1>1 DEF Expire, ExpirePendingPayments
  <2> QED
    BY <2>1, ConservedByCancelPending
<1>2. CASE Complete
  <2>1. PICK today : CompleteBookings(today)
    BY <1>2 DEF Complete, CompletePastBookings
  <2>2. Live' = Live /\ UNCHANGED stay
    BY <2>1 DEF CompleteBookings, Live, Assign, TypeOK, StoreTypeOK
  <2> QED
    BY <1>2, <2>2, ConservedWhenSame DEF Complete, CompletePastBookings, inventoryVars
<1>3. CASE AdminInventory
  <2>1. UNCHANGED <<status, stay, booked>>
    BY <1>3 DEF AdminInventory, SetBlockedInventory, UpdateRoomType, Deactivate,
                storeVars, bookingVars
  <2> QED
    BY <2>1, ConservedWhenSame DEF Live
<1>4. ASSUME NEW b \in Bookings, PaymentStep(b) \/ ProviderStep(b)
      PROVE  InventoryConserved'
  <2>1. UNCHANGED <<status, stay, booked>>
    BY <1>4
    DEF PaymentStep, BeginInitiatePayment, FinishInitiatePayment, BeginReconcile,
        FinishReconcile, RefundPayment, RefundInterrupted, RefundFailed, RetryPaymentRefund,
        UnchangedByRefund, ProviderStep, storeVars, bookingVars, inventoryVars
  <2> QED
    BY <2>1, ConservedWhenSame DEF Live
<1>5. CASE Tick \/ UNCHANGED vars
  <2>1. UNCHANGED <<status, stay, booked>>
    BY <1>5 DEF Tick, vars, storeVars, bookingVars, inventoryVars
  <2> QED
    BY <2>1, ConservedWhenSame DEF Live
<1> QED
  BY <1>1, <1>2, <1>3, <1>4, <1>5, ConservedByBookingStep, ConservedByProcessWebhook DEF Next

LEMMA InitConserved == Init => InventoryConserved
<1> SUFFICES ASSUME Init PROVE InventoryConserved
  OBVIOUS
<1>1. Live = Legacy
  BY StoreAssumption DEF Init, Live
<1> QED
  BY <1>1 DEF Init, InventoryConserved

\* The counter of every night is the rooms of the bookings that take it, in
\* every reachable state, for any number of bookings, rooms and nights.
THEOREM RoomsConserved == Spec => []InventoryConserved
<1>1. Init => TypeOK /\ InventoryConserved
  BY InitTypeOK, InitConserved
<1>2. TypeOK /\ InventoryConserved /\ [Next]_vars => TypeOK' /\ InventoryConserved'
  BY NextTypeOK, ConservedByNext
<1> QED
  BY <1>1, <1>2, PTL DEF Spec

-----------------------------------------------------------------------------
\* Overselling.  The UPDATEs that raise a counter, a block or the total look
\* at the other two of the same row or lock them; giving rooms back helps.

LEMMA NotOversoldWhenSame ==
    ASSUME NeverOversold, UNCHANGED <<booked, blocked, total>>
    PROVE  NeverOversold'
BY DEF NeverOversold

LEMMA NotOversoldWhenGiven ==
    ASSUME TypeOK, NeverOversold, NEW S \in SUBSET Bookings,
           DecrementAvailability(S, stay)
    PROVE  NeverOversold'
<1>1. ASSUME NEW d \in Dates
      PROVE  booked'[d] + blocked'[d] <= total'
  <2>1. booked'[d] = booked[d] - RoomsTaken(S, stay, d)
        /\ blocked' = blocked /\ total' = total
    BY DEF DecrementAvailability
  <2>2. IsFiniteSet(S)
    BY StoreAssumption, FS_Subset
  <2>3. RoomsTaken(S, stay, d) \in Nat
    BY <2>2, RoomUnitsFinite
  <2>4. booked[d] \in Nat /\ blocked[d] \in Nat /\ total \in Nat
    BY DEF TypeOK, InventoryTypeOK
  <2>5. booked[d] + blocked[d] <= total
    BY DEF NeverOversold
  <2> QED
    BY <2>1, <2>3, <2>4, <2>5
<1> QED
  BY <1>1 DEF NeverOversold

LEMMA NotOversoldByAdmin ==
    ASSUME TypeOK, NeverOversold, AdminInventory
    PROVE  NeverOversold'
<1>1. ASSUME NEW from \in Dates, NEW last \in Dates, NEW n \in BlockCounts,
             NEW today \in LocalDates, SetBlockedInventory(from, last + 1, n, today)
      PROVE  NeverOversold'
  BY <1>1 DEF SetBlockedInventory, NeverOversold, TypeOK, InventoryTypeOK
<1>2. ASSUME NEW n \in NewTotals, UpdateRoomType(n)
      PROVE  NeverOversold'
  BY <1>2 DEF UpdateRoomType, NeverOversold
<1>3. CASE Deactivate
  BY <1>3, NotOversoldWhenSame DEF Deactivate
<1> QED
  BY <1>1, <1>2, <1>3 DEF AdminInventory

LEMMA NotOversoldByNext ==
    ASSUME TypeOK, NeverOversold, [Next]_vars
    PROVE  NeverOversold'
<1>1. CASE Expire
  BY <1>1, NotOversoldWhenGiven
  DEF Expire, ExpirePendingPayments, CancelPendingBookingAndPayment
<1>2. ASSUME NEW b \in Bookings, BookingStep(b)
      PROVE  NeverOversold'
  <2>1. ASSUME NEW s \in Stays, IncrementAvailability(s)
        PROVE  NeverOversold'
    <3>1. s.rooms \in Int
      BY InventoryAssumption
    <3> QED
      BY <2>1, <3>1 DEF IncrementAvailability, NeverOversold, TypeOK, InventoryTypeOK
  <2>2. CASE CancelBooking(b)
    BY <2>2, NotOversoldWhenGiven DEF CancelBooking
  <2> QED
    BY <1>2, <2>1, <2>2 DEF BookingStep, CreateBooking
<1>3. ASSUME NEW e \in events, ProcessWebhook(e)
      PROVE  NeverOversold'
  <2>1. {e.of} \in SUBSET Bookings
    BY DEF TypeOK, ProviderTypeOK, Event
  <2>2. CASE PaymentCanceled(e)
    BY <2>1, <2>2, NotOversoldWhenGiven DEF PaymentCanceled, CancelPendingBookingAndPayment
  <2>3. CASE ~PaymentCanceled(e)
    BY <1>3, <2>3, NotOversoldWhenSame
    DEF ProcessWebhook, SkipWebhook, PaymentFailed, PaymentSucceeded, LatePaymentSucceeded,
        inventoryVars
  <2> QED
    BY <2>2, <2>3
<1>4. ASSUME NEW b \in Bookings, PaymentStep(b) \/ ProviderStep(b)
      PROVE  NeverOversold'
  BY <1>4, NotOversoldWhenSame
  DEF PaymentStep, BeginInitiatePayment, FinishInitiatePayment, BeginReconcile,
      FinishReconcile, RefundPayment, RefundInterrupted, RefundFailed, RetryPaymentRefund,
      UnchangedByRefund, ProviderStep, inventoryVars
<1>5. CASE Complete \/ Tick \/ UNCHANGED vars
  BY <1>5, NotOversoldWhenSame
  DEF Complete, CompletePastBookings, Tick, vars, inventoryVars
<1> QED
  BY <1>1, <1>2, <1>3, <1>4, <1>5, NotOversoldByAdmin DEF Next

LEMMA InitNotOversold == Init => NeverOversold
<1> SUFFICES ASSUME Init, NEW d \in Dates
             PROVE  booked[d] + blocked[d] <= total
  BY DEF NeverOversold
<1>1. blocked[d] = 0 /\ booked[d] <= total
  BY DEF Init
<1>2. booked[d] \in Nat
  BY InitTypeOK DEF TypeOK, InventoryTypeOK
<1> QED
  BY <1>1, <1>2

\* No night is ever sold or blocked beyond the rooms of the hotel, for any
\* number of guests, admins and nights.
THEOREM RoomsNeverOversold == Spec => []NeverOversold
<1>1. Init => TypeOK /\ NeverOversold
  BY InitTypeOK, InitNotOversold
<1>2. TypeOK /\ NeverOversold /\ [Next]_vars => TypeOK' /\ NeverOversold'
  BY NextTypeOK, NotOversoldByNext
<1> QED
  BY <1>1, <1>2, PTL DEF Spec

-----------------------------------------------------------------------------
\* The two rows of a booking.  Their agreement is not inductive by itself: a
\* legacy booking that could be held again would be confirmed with a payment.

LegacyIsOld == \A b \in Legacy : status[b] \notin {"none", "pending_payment"}

Coupled == BookingPaymentAgree /\ LegacyIsOld

LEMMA CoupledWhenSame ==
    ASSUME Coupled, UNCHANGED <<status, pay>>
    PROVE  Coupled'
BY DEF Coupled, BookingPaymentAgree, LegacyIsOld

\* A held booking leaves with its pending payment.
LEMMA CoupledByCancelPending ==
    ASSUME TypeOK, Coupled, NEW S \in SUBSET Bookings,
           CancelPendingBookingAndPayment(S)
    PROVE  Coupled'
<1>1. \A b \in S : status[b] = "pending_payment" /\ b \notin Legacy
  BY DEF CancelPendingBookingAndPayment, ExpirePendingBooking, Coupled, LegacyIsOld
<1>2. \A b \in Bookings : status'[b] = IF b \in S THEN "cancelled" ELSE status[b]
  BY DEF CancelPendingBookingAndPayment, ExpirePendingBooking, Assign, TypeOK, StoreTypeOK
<1>3. \A b \in Bookings : pay'[b] = IF b \in S THEN "expired" ELSE pay[b]
  BY DEF CancelPendingBookingAndPayment, MarkPaymentExpired, Assign, TypeOK, StoreTypeOK
<1>4. BookingPaymentAgree'
  BY <1>1, <1>2, <1>3 DEF Coupled, BookingPaymentAgree
<1>5. LegacyIsOld'
  BY <1>1, <1>2, StoreAssumption DEF Coupled, LegacyIsOld
<1> QED
  BY <1>4, <1>5 DEF Coupled

\* A step of one booking's two rows keeps the others' agreement.
LEMMA CoupledByOne ==
    ASSUME TypeOK, Coupled, NEW b \in Bookings, NEW st, NEW p,
           status' = Assign(status, {b}, st), pay' = Assign(pay, {b}, p),
           \/ st = "pending_payment" /\ p = "pending" /\ b \notin Legacy
           \/ st = "confirmed" /\ p = "succeeded" /\ b \notin Legacy
           \/ st = "cancelled" /\ p = "none" /\ b \in Legacy
           \/ st = "cancelled" /\ p \in {"refund_pending", "refunded"} /\ b \notin Legacy
    PROVE  Coupled'
<1>1. \A c \in Bookings : /\ status'[c] = IF c = b THEN st ELSE status[c]
                          /\ pay'[c] = IF c = b THEN p ELSE pay[c]
  BY DEF Assign, TypeOK, StoreTypeOK
<1>2. BookingPaymentAgree'
  BY <1>1 DEF Coupled, BookingPaymentAgree
<1>3. LegacyIsOld'
  BY <1>1, StoreAssumption DEF Coupled, LegacyIsOld
<1> QED
  BY <1>2, <1>3 DEF Coupled

\* A row that is written with the value it has is not changed.
LEMMA AssignSame ==
    ASSUME NEW f, NEW T, f \in [Bookings -> T], NEW b \in Bookings
    PROVE  f = Assign(f, {b}, f[b])
BY DEF Assign

LEMMA CoupledByBookingStep ==
    ASSUME TypeOK, Coupled, NEW b \in Bookings, BookingStep(b)
    PROVE  Coupled'
<1>1. status \in [Bookings -> BookingStates] /\ pay \in [Bookings -> PaymentStates]
  BY DEF TypeOK, StoreTypeOK
<1>2. ASSUME NEW k \in Keys, NEW s \in Stays, CreateBooking(b, k, s)
      PROVE  Coupled'
  <2>1. status[b] = "none" /\ status' = Assign(status, {b}, "pending_payment")
    BY <1>2 DEF CreateBooking, CreatePendingBooking
  <2>2. pay' = Assign(pay, {b}, "pending")
    BY <1>2 DEF CreateBooking, CreatePaymentForBooking
  <2>3. b \notin Legacy
    BY <2>1 DEF Coupled, LegacyIsOld
  <2> QED
    BY <2>1, <2>2, <2>3, CoupledByOne
<1>3. CASE CancelBooking(b)
  <2>1. status[b] = "confirmed" /\ status' = Assign(status, {b}, "cancelled")
    BY <1>3 DEF CancelBooking, CancelConfirmedBooking
  <2>2. pay[b] = IF b \in Legacy THEN "none" ELSE "succeeded"
    BY <2>1 DEF Coupled, BookingPaymentAgree
  <2>3. CASE b \in Legacy
    <3>1. pay' = Assign(pay, {b}, "none")
      BY <1>1, <1>3, <2>2, <2>3, AssignSame DEF CancelBooking, paymentVars
    <3> QED
      BY <2>1, <2>3, <3>1, CoupledByOne
  <2>4. CASE b \notin Legacy
    <3>1. pay' = Assign(pay, {b}, "refund_pending")
      BY <1>3, <2>2, <2>4 DEF CancelBooking, MarkPaymentRefundPending
    <3> QED
      BY <2>1, <2>4, <3>1, CoupledByOne
  <2> QED
    BY <2>3, <2>4
<1> QED
  BY <1>2, <1>3 DEF BookingStep

LEMMA CoupledByProcessWebhook ==
    ASSUME TypeOK, Coupled, NEW e \in events, ProcessWebhook(e)
    PROVE  Coupled'
<1>1. e.of \in Bookings /\ status \in [Bookings -> BookingStates]
  BY DEF TypeOK, ProviderTypeOK, StoreTypeOK, Event
<1>2. CASE PaymentCanceled(e)
  BY <1>1, <1>2, CoupledByCancelPending DEF PaymentCanceled
<1>3. CASE PaymentSucceeded(e)
  <2>1. status[e.of] = "pending_payment" /\ status' = Assign(status, {e.of}, "confirmed")
        /\ pay' = Assign(pay, {e.of}, "succeeded")
    BY <1>3 DEF PaymentSucceeded, ConfirmPendingBooking, MarkPaymentSucceeded
  <2>2. e.of \notin Legacy
    BY <2>1 DEF Coupled, LegacyIsOld
  <2> QED
    BY <1>1, <2>1, <2>2, CoupledByOne
<1>4. CASE LatePaymentSucceeded(e)
  <2>1. status[e.of] = "cancelled" /\ status' = status /\ pay[e.of] = "expired"
        /\ pay' = Assign(pay, {e.of}, "refund_pending")
    BY <1>4 DEF LatePaymentSucceeded, MarkExpiredPaymentRefundPending, bookingVars
  <2>2. e.of \notin Legacy
    BY <1>1, <2>1 DEF Coupled, BookingPaymentAgree
  <2>3. status' = Assign(status, {e.of}, "cancelled")
    BY <1>1, <2>1, AssignSame
  <2> QED
    BY <1>1, <2>1, <2>2, <2>3, CoupledByOne
<1>5. CASE SkipWebhook(e) \/ PaymentFailed(e)
  BY <1>5, CoupledWhenSame
  DEF SkipWebhook, PaymentFailed, RecordPaymentFailure, bookingVars, paymentVars
<1> QED
  BY <1>2, <1>3, <1>4, <1>5 DEF ProcessWebhook

LEMMA CoupledByPaymentStep ==
    ASSUME TypeOK, Coupled, NEW b \in Bookings, PaymentStep(b)
    PROVE  Coupled'
<1>1. CASE RefundPayment(b)
  <2>1. pay[b] = "refund_pending" /\ pay' = Assign(pay, {b}, "refunded") /\ status' = status
    BY <1>1 DEF RefundPayment, MarkPaymentRefunded, UnchangedByRefund, bookingVars
  <2>2. status[b] = "cancelled" /\ b \notin Legacy
    BY <2>1 DEF Coupled, BookingPaymentAgree, TypeOK, StoreTypeOK, BookingStates
  <2>3. status' = Assign(status, {b}, "cancelled")
    BY <2>1, <2>2, AssignSame DEF TypeOK, StoreTypeOK
  <2> QED
    BY <2>1, <2>2, <2>3, CoupledByOne
<1>2. CASE ~RefundPayment(b)
  BY <1>2, CoupledWhenSame
  DEF PaymentStep, BeginInitiatePayment, FinishInitiatePayment, SetPaymentProviderID,
      BeginReconcile, FinishReconcile, RefundInterrupted, RefundFailed,
      SchedulePaymentRefundRetry, RetryPaymentRefund, RetryFailedPaymentRefundForAdmin,
      UnchangedByRefund, storeVars, bookingVars, paymentVars
<1> QED
  BY <1>1, <1>2

LEMMA CoupledByNext ==
    ASSUME TypeOK, Coupled, [Next]_vars
    PROVE  Coupled'
<1>1. CASE Expire
  BY <1>1, CoupledByCancelPending DEF Expire, ExpirePendingPayments
<1>2. CASE Complete
  <2>1. PICK past \in SUBSET Bookings :
            /\ \A b \in past : status[b] = "confirmed"
            /\ status' = Assign(status, past, "completed")
    BY <1>2 DEF Complete, CompletePastBookings, CompleteBookings
  <2>2. \A b \in Bookings : status'[b] = IF b \in past THEN "completed" ELSE status[b]
    BY <2>1 DEF Assign, TypeOK, StoreTypeOK
  <2>3. pay' = pay
    BY <1>2 DEF Complete, CompletePastBookings, paymentVars
  <2>4. BookingPaymentAgree'
    BY <2>1, <2>2, <2>3 DEF Coupled, BookingPaymentAgree
  <2>5. LegacyIsOld'
    BY <2>2, StoreAssumption DEF Coupled, LegacyIsOld
  <2> QED
    BY <2>4, <2>5 DEF Coupled
<1>3. CASE AdminInventory \/ Tick \/ UNCHANGED vars
  BY <1>3, CoupledWhenSame
  DEF AdminInventory, Tick, vars, storeVars, bookingVars, paymentVars
<1>4. ASSUME NEW b \in Bookings, ProviderStep(b)
      PROVE  Coupled'
  BY <1>4, CoupledWhenSame DEF ProviderStep, storeVars, bookingVars, paymentVars
<1> QED
  BY <1>1, <1>2, <1>3, <1>4, CoupledByBookingStep, CoupledByPaymentStep,
     CoupledByProcessWebhook
  DEF Next

LEMMA InitCoupled == Init => Coupled
BY StoreAssumption DEF Init, Coupled, BookingPaymentAgree, LegacyIsOld

\* A booking and its payment never contradict each other, so that no worker
\* meets the disagreement it would stop at.
THEOREM BookingAgreesWithPayment == Spec => []BookingPaymentAgree
<1>1. Init => TypeOK /\ Coupled
  BY InitTypeOK, InitCoupled
<1>2. TypeOK /\ Coupled /\ [Next]_vars => TypeOK' /\ Coupled'
  BY NextTypeOK, CoupledByNext
<1>3. Coupled => BookingPaymentAgree
  BY DEF Coupled
<1> QED
  BY <1>1, <1>2, <1>3, PTL DEF Spec

=============================================================================
