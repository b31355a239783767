----------------------------- MODULE ContractProofs -----------------------------
(***************************************************************************)
(* What the booking core owes the guest, for any number of bookings, keys, *)
(* events and requests: a history that tells the status, one booking for a *)
(* key, emails that tell the state, money that is known, taken for booked  *)
(* rooms only and given back for released rooms only, and, from these and  *)
(* from the rooms, that every step is one the contract allows.             *)
(***************************************************************************)
EXTENDS HotelBookingProofs

\* What a sequence becomes when an element is appended.
LEMMA AppendElement ==
    ASSUME NEW T, NEW h \in Seq(T), NEW x \in T
    PROVE  /\ DOMAIN h = 1..Len(h) /\ Len(h) \in Nat /\ (h = << >> <=> Len(h) = 0)
           /\ DOMAIN Append(h, x) = 1..(Len(h) + 1) /\ Len(Append(h, x)) = Len(h) + 1
           /\ \A i \in 1..Len(h) : Append(h, x)[i] = h[i]
           /\ Append(h, x)[Len(h) + 1] = x
           /\ Append(h, x) # << >>
<1>1. /\ DOMAIN h = 1..Len(h) /\ Len(h) \in Nat /\ Append(h, x) \in Seq(T)
      /\ Len(Append(h, x)) = Len(h) + 1
  OBVIOUS
<1>2. DOMAIN Append(h, x) = 1..(Len(h) + 1)
  BY <1>1
<1>3. /\ \A i \in 1..Len(h) : Append(h, x)[i] = h[i]
      /\ Append(h, x)[Len(h) + 1] = x
  BY <1>1
<1>4. h = << >> <=> Len(h) = 0
  OBVIOUS
<1>5. Append(h, x) # << >>
  BY <1>1
<1> QED
  BY <1>1, <1>2, <1>3, <1>4, <1>5

-----------------------------------------------------------------------------
\* The status of bookings and its history.  Every step moves some bookings
\* from one status to another, and appends just this to their histories.

Moves(S, from, to) ==
    /\ \A b \in S : status[b] = from
    /\ \A b \in Bookings : status'[b] = IF b \in S THEN to ELSE status[b]
    /\ \A b \in Bookings : history'[b] = IF b \in S THEN Append(history[b], <<from, to>>)
                                                    ELSE history[b]

MovesSome == \E S \in SUBSET Bookings, from \in BookingStates, to \in BookingStates \ {"none"} :
                Moves(S, from, to)

LEMMA MovesNothing ==
    ASSUME UNCHANGED <<status, history>>
    PROVE  MovesSome
<1>1. Moves({}, "none", "confirmed")
  BY DEF Moves
<1> QED
  BY <1>1 DEF MovesSome, BookingStates

\* The statements that change a status are followed by their history row.
LEMMA MovesWithHistory ==
    ASSUME TypeOK, NEW S \in SUBSET Bookings,
           NEW from \in BookingStates, NEW to \in BookingStates \ {"none"},
           \A b \in S : status[b] = from,
           status' = Assign(status, S, to), CreateBookingStatusHistory(S, from, to)
    PROVE  MovesSome
<1>1. \A b \in Bookings : status'[b] = IF b \in S THEN to ELSE status[b]
  BY DEF Assign, TypeOK, StoreTypeOK
<1>2. Moves(S, from, to)
  BY <1>1 DEF Moves, CreateBookingStatusHistory
<1> QED
  BY <1>2 DEF MovesSome

LEMMA MovesByNext ==
    ASSUME TypeOK, [Next]_vars
    PROVE  MovesSome
<1> USE DEF BookingStates
<1>1. ASSUME NEW S \in SUBSET Bookings, CancelPendingBookingAndPayment(S)
      PROVE  MovesSome
  BY <1>1, MovesWithHistory DEF CancelPendingBookingAndPayment, ExpirePendingBooking
<1>2. CASE Expire
  BY <1>1, <1>2 DEF Expire, ExpirePendingPayments
<1>3. CASE Complete
  BY <1>3, MovesWithHistory DEF Complete, CompletePastBookings, CompleteBookings
<1>4. ASSUME NEW b \in Bookings, BookingStep(b)
      PROVE  MovesSome
  BY <1>4, MovesWithHistory
  DEF BookingStep, CreateBooking, CreatePendingBooking, CancelBooking, CancelConfirmedBooking
<1>5. ASSUME NEW e \in events, ProcessWebhook(e)
      PROVE  MovesSome
  <2>1. {e.of} \in SUBSET Bookings
    BY DEF TypeOK, ProviderTypeOK, Event
  <2>2. CASE PaymentCanceled(e)
    BY <1>1, <2>1, <2>2 DEF PaymentCanceled
  <2>3. CASE PaymentSucceeded(e)
    BY <2>1, <2>3, MovesWithHistory DEF PaymentSucceeded, ConfirmPendingBooking
  <2>4. CASE SkipWebhook(e) \/ PaymentFailed(e) \/ LatePaymentSucceeded(e)
    BY <2>4, MovesNothing DEF SkipWebhook, PaymentFailed, LatePaymentSucceeded, bookingVars
  <2> QED
    BY <1>5, <2>2, <2>3, <2>4 DEF ProcessWebhook
<1>6. ASSUME NEW b \in Bookings, PaymentStep(b) \/ ProviderStep(b)
      PROVE  MovesSome
  BY <1>6, MovesNothing
  DEF PaymentStep, BeginInitiatePayment, FinishInitiatePayment, BeginReconcile,
      FinishReconcile, RefundPayment, RefundInterrupted, RefundFailed, RetryPaymentRefund,
      UnchangedByRefund, ProviderStep, storeVars, bookingVars
<1>7. CASE AdminInventory \/ Tick \/ UNCHANGED vars
  BY <1>7, MovesNothing DEF AdminInventory, Tick, vars, storeVars, bookingVars
<1> QED
  BY <1>2, <1>3, <1>4, <1>5, <1>6, <1>7 DEF Next

LEMMA InitHistory == Init => HistoryTellsStatus
BY StoreAssumption DEF Init, HistoryTellsStatus

\* A chain that ends in `from` goes on to `to`.
LEMMA HistoryByMove ==
    ASSUME TypeOK, HistoryTellsStatus, MovesSome
    PROVE  HistoryTellsStatus'
<1>1. PICK S \in SUBSET Bookings, from \in BookingStates, to \in BookingStates \ {"none"} :
          Moves(S, from, to)
  BY DEF MovesSome
<1> SUFFICES ASSUME NEW b \in Bookings
             PROVE  LET h == history'[b]
                        last(i) == IF i = 1 THEN "none" ELSE h[i - 1][2]
                    IN  /\ \A i \in DOMAIN h : h[i][1] = last(i)
                        /\ status'[b] = IF h = << >> THEN "none" ELSE h[Len(h)][2]
  BY DEF HistoryTellsStatus
<1>2. CASE b \notin S
  BY <1>1, <1>2 DEF Moves, HistoryTellsStatus
<1>3. CASE b \in S
  <2> DEFINE T == BookingStates \X BookingStates
             x == <<from, to>>
             h == history[b]
             g == Append(h, x)
  <2>1. h \in Seq(T) /\ x \in T /\ x[1] = from /\ x[2] = to
    BY DEF TypeOK, StoreTypeOK
  <2>2. /\ \A i \in DOMAIN h : h[i][1] = IF i = 1 THEN "none" ELSE h[i - 1][2]
        /\ from = IF h = << >> THEN "none" ELSE h[Len(h)][2]
    BY <1>1, <1>3 DEF Moves, HistoryTellsStatus
  <2>3. history'[b] = g /\ status'[b] = to
    BY <1>1, <1>3 DEF Moves
  <2> HIDE DEF T, x, h
  <2>4. /\ DOMAIN h = 1..Len(h) /\ Len(h) \in Nat /\ (h = << >> <=> Len(h) = 0)
        /\ DOMAIN g = 1..(Len(h) + 1) /\ Len(g) = Len(h) + 1
        /\ \A i \in 1..Len(h) : g[i] = h[i]
        /\ g[Len(h) + 1] = x /\ g # << >>
    BY <2>1, AppendElement
  <2> HIDE DEF g
  <2>5. \A i \in DOMAIN g : g[i][1] = IF i = 1 THEN "none" ELSE g[i - 1][2]
    <3> SUFFICES ASSUME NEW i \in DOMAIN g PROVE g[i][1] = IF i = 1 THEN "none" ELSE g[i - 1][2]
      OBVIOUS
    <3>1. CASE i = Len(h) + 1
      BY <2>1, <2>2, <2>4, <3>1
    <3>2. CASE i # Len(h) + 1
      <4>1. i \in DOMAIN h /\ (i = 1 \/ i - 1 \in DOMAIN h)
        BY <2>4, <3>2
      <4> QED
        BY <2>2, <2>4, <4>1
    <3> QED
      BY <3>1, <3>2
  <2>6. g[Len(g)][2] = to
    BY <2>1, <2>4
  <2> QED
    BY <2>3, <2>4, <2>5, <2>6
<1> QED
  BY <1>2, <1>3

\* The history of a booking is a chain from nothing to its present status.
THEOREM HistoryIsTrue == Spec => []HistoryTellsStatus
<1>1. TypeOK /\ HistoryTellsStatus /\ [Next]_vars => TypeOK' /\ HistoryTellsStatus'
  BY NextTypeOK, MovesByNext, HistoryByMove
<1> QED
  BY InitTypeOK, InitHistory, <1>1, PTL DEF Spec

-----------------------------------------------------------------------------
\* Idempotency keys.  Only CreateBooking makes a booking, with its key.

SameBookings ==
    /\ UNCHANGED <<keys, stay>>
    /\ \A b \in Bookings : status'[b] = "none" <=> status[b] = "none"

LEMMA SameBookingsByNext ==
    ASSUME TypeOK, [Next]_vars,
           ~ \E b \in Bookings, k \in Keys, s \in Stays : CreateBooking(b, k, s)
    PROVE  SameBookings
<1>1. ASSUME NEW S \in SUBSET Bookings, CancelPendingBookingAndPayment(S)
      PROVE  SameBookings
  BY <1>1
  DEF CancelPendingBookingAndPayment, ExpirePendingBooking, SameBookings, Assign,
      TypeOK, StoreTypeOK
<1>2. CASE Expire
  BY <1>1, <1>2 DEF Expire, ExpirePendingPayments
<1>3. CASE Complete
  <2>1. PICK past \in SUBSET Bookings :
            /\ \A b \in past : status[b] = "confirmed"
            /\ status' = Assign(status, past, "completed")
            /\ UNCHANGED stay
    BY <1>3 DEF Complete, CompletePastBookings, CompleteBookings
  <2> QED
    BY <1>3, <2>1
    DEF Complete, CompletePastBookings, SameBookings, Assign, TypeOK, StoreTypeOK
<1>4. ASSUME NEW b \in Bookings, CancelBooking(b)
      PROVE  SameBookings
  BY <1>4
  DEF CancelBooking, CancelConfirmedBooking, SameBookings, Assign, TypeOK, StoreTypeOK
<1>5. ASSUME NEW e \in events, ProcessWebhook(e)
      PROVE  SameBookings
  <2>1. e.of \in Bookings
    BY DEF TypeOK, ProviderTypeOK, Event
  <2>2. CASE PaymentCanceled(e)
    BY <1>1, <2>1, <2>2 DEF PaymentCanceled
  <2>3. CASE PaymentSucceeded(e)
    BY <2>1, <2>3
    DEF PaymentSucceeded, ConfirmPendingBooking, SameBookings, Assign, TypeOK, StoreTypeOK
  <2>4. CASE SkipWebhook(e) \/ PaymentFailed(e) \/ LatePaymentSucceeded(e)
    BY <2>4
    DEF SkipWebhook, PaymentFailed, LatePaymentSucceeded, SameBookings, bookingVars
  <2> QED
    BY <1>5, <2>2, <2>3, <2>4 DEF ProcessWebhook
<1>6. ASSUME NEW b \in Bookings, PaymentStep(b) \/ ProviderStep(b)
      PROVE  SameBookings
  BY <1>6
  DEF PaymentStep, BeginInitiatePayment, FinishInitiatePayment, BeginReconcile,
      FinishReconcile, RefundPayment, RefundInterrupted, RefundFailed, RetryPaymentRefund,
      UnchangedByRefund, ProviderStep, SameBookings, storeVars, bookingVars
<1>7. CASE AdminInventory \/ Tick \/ UNCHANGED vars
  BY <1>7 DEF AdminInventory, Tick, SameBookings, vars, storeVars, bookingVars
<1> QED
  BY <1>2, <1>3, <1>4, <1>5, <1>6, <1>7 DEF Next, BookingStep

LEMMA KeysByNext ==
    ASSUME TypeOK, Coupled, KeysNameOneBooking, [Next]_vars
    PROVE  KeysNameOneBooking'
<1>1. ASSUME NEW b \in Bookings, NEW k \in Keys, NEW s \in Stays, CreateBooking(b, k, s)
      PROVE  KeysNameOneBooking'
  <2> DEFINE new == [key |-> k, hash |-> s, booking |-> b]
  <2>1. /\ \A r \in keys : r.key # k
        /\ keys' = keys \cup {new}
        /\ status[b] = "none" /\ status' = Assign(status, {b}, "pending_payment")
        /\ stay' = Assign(stay, {b}, s)
    BY <1>1 DEF CreateBooking, ClaimBookingIdempotencyKey, CreatePendingBooking,
                AttachBookingToIdempotencyKey
  <2>2. /\ \A c \in Bookings : status'[c] = IF c = b THEN "pending_payment" ELSE status[c]
        /\ \A c \in Bookings : stay'[c] = IF c = b THEN s ELSE stay[c]
    BY <2>1 DEF Assign, TypeOK, StoreTypeOK
  <2>3. b \notin Legacy
    BY <2>1 DEF Coupled, LegacyIsOld
  <2>4. \A r \in keys : r.booking \in Bookings /\ r.booking # b
    BY <2>1 DEF KeysNameOneBooking
  <2>5. new.key = k /\ new.hash = s /\ new.booking = b
    OBVIOUS
  <2> HIDE DEF new
  <2>6. \A r, q \in keys' : (r.key = q.key \/ r.booking = q.booking) => r = q
    BY <2>1, <2>4, <2>5 DEF KeysNameOneBooking
  <2>7. \A r \in keys' : stay'[r.booking] = r.hash
    BY ZenonT(40), <2>1, <2>2, <2>4, <2>5 DEF KeysNameOneBooking
  <2>8. {r.booking : r \in keys'} = {c \in Bookings \ Legacy : status'[c] # "none"}
    <3>1. {r.booking : r \in keys'} = {r.booking : r \in keys} \cup {b}
      BY <2>1, <2>5
    <3>2. {c \in Bookings \ Legacy : status'[c] # "none"} =
             {c \in Bookings \ Legacy : status[c] # "none"} \cup {b}
      BY <2>2, <2>3
    <3> QED
      BY <3>1, <3>2 DEF KeysNameOneBooking
  <2> QED
    BY <2>6, <2>7, <2>8 DEF KeysNameOneBooking
<1>2. CASE ~ \E b \in Bookings, k \in Keys, s \in Stays : CreateBooking(b, k, s)
  <2>1. SameBookings
    BY <1>2, SameBookingsByNext
  <2>2. {b \in Bookings \ Legacy : status'[b] # "none"} =
           {b \in Bookings \ Legacy : status[b] # "none"}
    BY <2>1 DEF SameBookings
  <2> QED
    BY <2>1, <2>2 DEF SameBookings, KeysNameOneBooking
<1> QED
  BY <1>1, <1>2

LEMMA InitKeys == Init => KeysNameOneBooking
BY DEF Init, KeysNameOneBooking

\* A client that repeats CreateBooking with its key never books twice.
THEOREM KeysAreUnique == Spec => []KeysNameOneBooking
<1>1. TypeOK /\ Coupled /\ KeysNameOneBooking /\ [Next]_vars
         => TypeOK' /\ Coupled' /\ KeysNameOneBooking'
  BY NextTypeOK, CoupledByNext, KeysByNext
<1> QED
  BY InitTypeOK, InitCoupled, InitKeys, <1>1, PTL DEF Spec

-----------------------------------------------------------------------------
\* Emails, failures and claimed events follow the rows of bookings and
\* payments.

RowsTrue == ClaimedSuccessApplied /\ FailureFitsPayment /\ EmailsTellTheState

\* One row of bookings and one of payments move, with what follows them.
LEMMA RowsWhenSame ==
    ASSUME RowsTrue, UNCHANGED <<status, pay, failure, claimed, outbox>>
    PROVE  RowsTrue'
BY DEF RowsTrue, ClaimedSuccessApplied, FailureFitsPayment, EmailsTellTheState

LEMMA RowsByCancelPending ==
    ASSUME TypeOK, RowsTrue, NEW S \in SUBSET Bookings, CancelPendingBookingAndPayment(S),
           \A e \in claimed' \ claimed : e.type # "payment.succeeded"
    PROVE  RowsTrue'
<1>1. /\ \A b \in S : status[b] = "pending_payment" /\ pay[b] = "pending"
      /\ \A b \in Bookings : status'[b] = IF b \in S THEN "cancelled" ELSE status[b]
      /\ \A b \in Bookings : pay'[b] = IF b \in S THEN "expired" ELSE pay[b]
      /\ outbox' = outbox \cup (S \X {"booking_cancelled"})
      /\ UNCHANGED failure
  BY DEF CancelPendingBookingAndPayment, ExpirePendingBooking, MarkPaymentExpired,
         EnqueueBookingEmail, Assign, TypeOK, StoreTypeOK
<1>2. ClaimedSuccessApplied'
  BY <1>1 DEF RowsTrue, ClaimedSuccessApplied, TypeOK, StoreTypeOK, Event
<1>3. FailureFitsPayment'
  BY <1>1 DEF RowsTrue, FailureFitsPayment
<1>4. EmailsTellTheState'
  BY <1>1 DEF RowsTrue, EmailsTellTheState
<1> QED
  BY <1>2, <1>3, <1>4 DEF RowsTrue

LEMMA RowsByBookingStep ==
    ASSUME TypeOK, Coupled, RowsTrue, NEW b \in Bookings, BookingStep(b)
    PROVE  RowsTrue'
<1>1. ASSUME NEW k \in Keys, NEW s \in Stays, CreateBooking(b, k, s)
      PROVE  RowsTrue'
  <2>1. /\ status[b] = "none" /\ pay[b] = "none"
        /\ \A c \in Bookings : status'[c] = IF c = b THEN "pending_payment" ELSE status[c]
        /\ \A c \in Bookings : pay'[c] = IF c = b THEN "pending" ELSE pay[c]
        /\ UNCHANGED <<failure, claimed, outbox>>
    BY <1>1 DEF CreateBooking, CreatePendingBooking, CreatePaymentForBooking, Assign,
                TypeOK, StoreTypeOK
  <2>2. ClaimedSuccessApplied'
    BY <2>1 DEF RowsTrue, ClaimedSuccessApplied, TypeOK, StoreTypeOK, Event
  <2>3. FailureFitsPayment'
    BY <2>1 DEF RowsTrue, FailureFitsPayment
  <2>4. EmailsTellTheState'
    BY <2>1 DEF RowsTrue, EmailsTellTheState
  <2> QED
    BY <2>2, <2>3, <2>4 DEF RowsTrue
<1>2. CASE CancelBooking(b)
  <2>1. /\ status[b] = "confirmed" /\ pay[b] \in {"none", "succeeded"}
        /\ \A c \in Bookings : status'[c] = IF c = b THEN "cancelled" ELSE status[c]
        /\ \A c \in Bookings \ {b} : pay'[c] = pay[c]
        /\ \/ pay[b] = "none" /\ pay'[b] = "none"
           \/ pay[b] = "succeeded" /\ pay'[b] = "refund_pending"
        /\ outbox' = outbox \cup ({b} \X {"booking_cancelled"})
        /\ UNCHANGED <<failure, claimed>>
    <3>1. pay[b] \in {"none", "succeeded"}
      BY <1>2 DEF CancelBooking, Coupled, BookingPaymentAgree
    <3> QED
      BY <1>2, <3>1 DEF CancelBooking, CancelConfirmedBooking, MarkPaymentRefundPending,
                        EnqueueBookingEmail, paymentVars, Assign, TypeOK, StoreTypeOK
  <2>2. ClaimedSuccessApplied'
    BY <2>1 DEF RowsTrue, ClaimedSuccessApplied, TypeOK, StoreTypeOK, Event
  <2>3. FailureFitsPayment'
    BY <2>1 DEF RowsTrue, FailureFitsPayment
  <2>4. EmailsTellTheState'
    BY <2>1 DEF RowsTrue, EmailsTellTheState
  <2> QED
    BY <2>2, <2>3, <2>4 DEF RowsTrue
<1> QED
  BY <1>1, <1>2 DEF BookingStep

LEMMA RowsByProcessWebhook ==
    ASSUME TypeOK, Coupled, RowsTrue, NEW e \in events, ProcessWebhook(e)
    PROVE  RowsTrue'
<1>1. e.of \in Bookings /\ claimed' = claimed \cup {e}
  BY DEF TypeOK, ProviderTypeOK, Event, ProcessWebhook, ClaimPaymentWebhookEvent
<1>2. CASE PaymentCanceled(e)
  BY <1>1, <1>2, RowsByCancelPending DEF PaymentCanceled
<1>3. ASSUME NEW st, NEW p, NEW f,
             \A c \in Bookings : status'[c] = IF c = e.of THEN st ELSE status[c],
             \A c \in Bookings : pay'[c] = IF c = e.of THEN p ELSE pay[c],
             \A c \in Bookings : failure'[c] = IF c = e.of THEN f ELSE failure[c],
             UNCHANGED outbox,
             st = "cancelled" <=> status[e.of] = "cancelled",
             p = "refunded" <=> pay[e.of] = "refunded",
             \/ p = pay[e.of] /\ f = failure[e.of]
             \/ p = "pending" /\ pay[e.of] = "pending" /\ f = "declined"
             \/ p \in {"succeeded", "refund_pending"} /\ pay[e.of] \in {"pending", "expired"}
                  /\ f = "none",
             e.type = "payment.succeeded" => p \in {"succeeded", "refund_pending", "refunded"}
      PROVE  RowsTrue'
  <2>1. ClaimedSuccessApplied'
    BY <1>1, <1>3 DEF RowsTrue, ClaimedSuccessApplied, TypeOK, StoreTypeOK, Event
  <2>2. FailureFitsPayment'
    BY <1>1, <1>3 DEF RowsTrue, FailureFitsPayment
  <2>3. EmailsTellTheState'
    BY <1>1, <1>3 DEF RowsTrue, EmailsTellTheState
  <2> QED
    BY <2>1, <2>2, <2>3 DEF RowsTrue
<1>4. CASE SkipWebhook(e)
  <2>1. UNCHANGED <<status, pay, failure, outbox>>
    BY <1>4 DEF SkipWebhook, bookingVars, paymentVars
  <2>2. e.type = "payment.succeeded" => pay[e.of] \in {"succeeded", "refund_pending", "refunded"}
    BY <1>4 DEF SkipWebhook, NothingToApply
  <2> QED
    BY <1>3, <2>1, <2>2
<1>5. CASE PaymentFailed(e)
  <2>1. /\ UNCHANGED <<status, pay, outbox>> /\ pay[e.of] = "pending"
        /\ e.type # "payment.succeeded"
        /\ \A c \in Bookings : failure'[c] = IF c = e.of THEN "declined" ELSE failure[c]
    BY <1>5 DEF PaymentFailed, RecordPaymentFailure, Assign, bookingVars, TypeOK, StoreTypeOK
  <2> QED
    BY <1>3, <2>1
<1>6. CASE PaymentSucceeded(e)
  <2>1. /\ status[e.of] = "pending_payment" /\ pay[e.of] = "pending" /\ UNCHANGED outbox
        /\ \A c \in Bookings : status'[c] = IF c = e.of THEN "confirmed" ELSE status[c]
        /\ \A c \in Bookings : pay'[c] = IF c = e.of THEN "succeeded" ELSE pay[c]
        /\ \A c \in Bookings : failure'[c] = IF c = e.of THEN "none" ELSE failure[c]
    BY <1>6 DEF PaymentSucceeded, ConfirmPendingBooking, MarkPaymentSucceeded, Assign,
                TypeOK, StoreTypeOK
  <2> QED
    BY <1>3, <2>1
<1>7. CASE LatePaymentSucceeded(e)
  <2>1. /\ pay[e.of] = "expired" /\ UNCHANGED <<status, outbox>>
        /\ \A c \in Bookings : pay'[c] = IF c = e.of THEN "refund_pending" ELSE pay[c]
        /\ \A c \in Bookings : failure'[c] = IF c = e.of THEN "none" ELSE failure[c]
    BY <1>7 DEF LatePaymentSucceeded, MarkExpiredPaymentRefundPending, Assign, bookingVars,
                TypeOK, StoreTypeOK
  <2> QED
    BY <1>3, <2>1
<1> QED
  BY <1>2, <1>4, <1>5, <1>6, <1>7 DEF ProcessWebhook

LEMMA RowsByPaymentStep ==
    ASSUME TypeOK, Coupled, RowsTrue, NEW b \in Bookings, PaymentStep(b)
    PROVE  RowsTrue'
<1>1. CASE RefundPayment(b)
  <2>1. /\ pay[b] = "refund_pending" /\ UNCHANGED <<status, claimed>>
        /\ \A c \in Bookings : pay'[c] = IF c = b THEN "refunded" ELSE pay[c]
        /\ \A c \in Bookings : failure'[c] = IF c = b THEN "none" ELSE failure[c]
        /\ outbox' = outbox \cup ({b} \X {"payment_refunded"})
    BY <1>1 DEF RefundPayment, MarkPaymentRefunded, EnqueueBookingEmail, UnchangedByRefund,
                Assign, bookingVars, TypeOK, StoreTypeOK
  <2>2. ClaimedSuccessApplied'
    BY <2>1 DEF RowsTrue, ClaimedSuccessApplied, TypeOK, StoreTypeOK, Event
  <2>3. FailureFitsPayment'
    BY <2>1 DEF RowsTrue, FailureFitsPayment
  <2>4. EmailsTellTheState'
    BY <2>1 DEF RowsTrue, EmailsTellTheState
  <2> QED
    BY <2>2, <2>3, <2>4 DEF RowsTrue
<1>2. CASE RefundFailed(b) \/ RetryPaymentRefund(b)
  <2>1. /\ pay[b] = "refund_pending" /\ UNCHANGED <<status, pay, claimed, outbox>>
        /\ \E f \in {"none", "refund_provider_error"} :
              \A c \in Bookings : failure'[c] = IF c = b THEN f ELSE failure[c]
    BY <1>2 DEF RefundFailed, SchedulePaymentRefundRetry, RetryPaymentRefund,
                RetryFailedPaymentRefundForAdmin, UnchangedByRefund, Assign, bookingVars,
                TypeOK, StoreTypeOK
  <2> QED
    BY <2>1
    DEF RowsTrue, ClaimedSuccessApplied, FailureFitsPayment, EmailsTellTheState
<1>3. CASE ~(RefundPayment(b) \/ RefundFailed(b) \/ RetryPaymentRefund(b))
  BY <1>3, RowsWhenSame
  DEF PaymentStep, BeginInitiatePayment, FinishInitiatePayment, SetPaymentProviderID,
      BeginReconcile, FinishReconcile, RefundInterrupted, UnchangedByRefund, storeVars,
      bookingVars, paymentVars
<1> QED
  BY <1>1, <1>2, <1>3

LEMMA RowsByNext ==
    ASSUME TypeOK, Coupled, RowsTrue, [Next]_vars
    PROVE  RowsTrue'
<1>1. CASE Expire
  BY <1>1, RowsByCancelPending DEF Expire, ExpirePendingPayments
<1>2. CASE Complete
  <2>1. PICK past \in SUBSET Bookings :
            /\ \A b \in past : status[b] = "confirmed"
            /\ status' = Assign(status, past, "completed")
    BY <1>2 DEF Complete, CompletePastBookings, CompleteBookings
  <2>2. \A b \in Bookings : status'[b] = "cancelled" <=> status[b] = "cancelled"
    BY <2>1 DEF Assign, TypeOK, StoreTypeOK
  <2>3. UNCHANGED <<pay, failure, claimed, outbox>>
    BY <1>2 DEF Complete, CompletePastBookings, paymentVars
  <2> QED
    BY <2>2, <2>3 DEF RowsTrue, ClaimedSuccessApplied, FailureFitsPayment, EmailsTellTheState
<1>3. CASE AdminInventory \/ Tick \/ UNCHANGED vars
  BY <1>3, RowsWhenSame
  DEF AdminInventory, Tick, vars, storeVars, bookingVars, paymentVars
<1>4. ASSUME NEW b \in Bookings, ProviderStep(b)
      PROVE  RowsTrue'
  BY <1>4, RowsWhenSame DEF ProviderStep, storeVars, bookingVars, paymentVars
<1> QED
  BY <1>1, <1>2, <1>3, <1>4, RowsByBookingStep, RowsByPaymentStep, RowsByProcessWebhook
  DEF Next

LEMMA InitRows == Init => RowsTrue
BY StoreAssumption
DEF Init, RowsTrue, ClaimedSuccessApplied, FailureFitsPayment, EmailsTellTheState

LEMMA RowsAlwaysTrue == Spec => []RowsTrue
<1>1. TypeOK /\ Coupled /\ RowsTrue /\ [Next]_vars => TypeOK' /\ Coupled' /\ RowsTrue'
  BY NextTypeOK, CoupledByNext, RowsByNext
<1> QED
  BY InitTypeOK, InitCoupled, InitRows, <1>1, PTL DEF Spec

\* A success that was claimed is in the payment's row.
THEOREM ClaimsApplied == Spec => []ClaimedSuccessApplied
<1>1. RowsTrue => ClaimedSuccessApplied
  BY DEF RowsTrue
<1> QED
  BY RowsAlwaysTrue, <1>1, PTL

\* failure_code is one of the payment's present state.
THEOREM FailuresFit == Spec => []FailureFitsPayment
<1>1. RowsTrue => FailureFitsPayment
  BY DEF RowsTrue
<1> QED
  BY RowsAlwaysTrue, <1>1, PTL

\* There is an email of a cancellation or a refund if and only if it is so.
THEOREM EmailsAreTrue == Spec => []EmailsTellTheState
<1>1. RowsTrue => EmailsTellTheState
  BY DEF RowsTrue
<1> QED
  BY RowsAlwaysTrue, <1>1, PTL

-----------------------------------------------------------------------------
\* Money.  That confirmed means paid and that a paid charge is known rest on
\* what travels between the database and the provider: events and readings.

\* A success, sent by the provider or found by a lookup, is about money taken.
SuccessesArePaid ==
    \A e \in events : e.type = "payment.succeeded" => charge[e.of] \in {"captured", "refunded"}

\* A request that read a provider id goes on with one that is stored.
ReadingsAreTrue == \A b \in Bookings : <<b, TRUE>> \in inits => b \in pid

KnownHavePayments == \A b \in pid : pay[b] # "none"

MoneyInv ==
    /\ ConfirmedIsPaid /\ PaidChargeIsKnown
    /\ SuccessesArePaid /\ ReadingsAreTrue /\ KnownHavePayments

\* Bookings that are not (or no longer) confirmed move, payments stay or go on.
LEMMA MoneyByRows ==
    ASSUME TypeOK, MoneyInv, UNCHANGED <<providerVars, inits, pid>>,
           \A b \in Bookings : \/ status'[b] = status[b]
                               \/ status'[b] = "confirmed" /\ charge[b] = "captured"
                               \/ status'[b] = "completed" /\ status[b] = "confirmed"
                               \/ status'[b] = "cancelled"
                               \/ status'[b] = "pending_payment" /\ status[b] = "none",
           \A b \in Bookings : pay[b] # "none" => pay'[b] # "none"
    PROVE  MoneyInv'
<1>1. UNCHANGED <<charge, checkout, events>>
  BY DEF providerVars
<1>2. ConfirmedIsPaid'
  BY <1>1 DEF MoneyInv, ConfirmedIsPaid
<1>3. /\ PaidChargeIsKnown' /\ SuccessesArePaid'
      /\ ReadingsAreTrue' /\ KnownHavePayments'
  BY <1>1
  DEF MoneyInv, PaidChargeIsKnown, SuccessesArePaid, ReadingsAreTrue, KnownHavePayments,
      TypeOK, StoreTypeOK
<1> QED
  BY <1>2, <1>3 DEF MoneyInv

LEMMA MoneyWhenSame ==
    ASSUME TypeOK, MoneyInv, UNCHANGED <<status, pay, providerVars, inits, pid>>
    PROVE  MoneyInv'
BY MoneyByRows

LEMMA MoneyByCancelPending ==
    ASSUME TypeOK, MoneyInv, NEW S \in SUBSET Bookings, CancelPendingBookingAndPayment(S),
           UNCHANGED <<providerVars, flightVars>>
    PROVE  MoneyInv'
<1>1. /\ \A b \in Bookings : status'[b] = IF b \in S THEN "cancelled" ELSE status[b]
      /\ \A b \in Bookings : pay'[b] = IF b \in S THEN "expired" ELSE pay[b]
      /\ UNCHANGED <<pid, inits>>
  BY DEF CancelPendingBookingAndPayment, ExpirePendingBooking, MarkPaymentExpired, Assign,
         flightVars, TypeOK, StoreTypeOK
<1> QED
  BY <1>1, MoneyByRows

LEMMA MoneyByBookingStep ==
    ASSUME TypeOK, MoneyInv, NEW b \in Bookings, BookingStep(b)
    PROVE  MoneyInv'
<1>1. UNCHANGED <<providerVars, inits, pid>>
  BY DEF BookingStep, CreateBooking, CreatePaymentForBooking, CancelBooking,
         MarkPaymentRefundPending, paymentVars, flightVars
<1>2. ASSUME NEW k \in Keys, NEW s \in Stays, CreateBooking(b, k, s)
      PROVE  MoneyInv'
  <2>1. /\ status[b] = "none"
        /\ \A c \in Bookings : status'[c] = IF c = b THEN "pending_payment" ELSE status[c]
        /\ \A c \in Bookings : pay'[c] = IF c = b THEN "pending" ELSE pay[c]
    BY <1>2 DEF CreateBooking, CreatePendingBooking, CreatePaymentForBooking, Assign,
                TypeOK, StoreTypeOK
  <2> QED
    BY <1>1, <2>1, MoneyByRows
<1>3. CASE CancelBooking(b)
  <2>1. /\ \A c \in Bookings : status'[c] = IF c = b THEN "cancelled" ELSE status[c]
        /\ \A c \in Bookings : pay[c] # "none" => pay'[c] # "none"
    BY <1>3 DEF CancelBooking, CancelConfirmedBooking, MarkPaymentRefundPending, Assign,
                paymentVars, TypeOK, StoreTypeOK
  <2> QED
    BY <1>1, <2>1, MoneyByRows
<1> QED
  BY <1>2, <1>3 DEF BookingStep

\* A success that finds its booking pending is about money that is there.
LEMMA SuccessIsCaptured ==
    ASSUME Coupled, MoneyInv, NEW e \in events, e.of \in Bookings,
           e.type = "payment.succeeded", status[e.of] = "pending_payment"
    PROVE  charge[e.of] = "captured"
<1>1. charge[e.of] \in {"captured", "refunded"}
  BY DEF MoneyInv, SuccessesArePaid
<1>2. e.of \notin Legacy
  BY DEF Coupled, LegacyIsOld
<1> QED
  BY <1>1, <1>2 DEF MoneyInv, ConfirmedIsPaid

LEMMA MoneyByProcessWebhook ==
    ASSUME TypeOK, Coupled, MoneyInv, NEW e \in events, ProcessWebhook(e)
    PROVE  MoneyInv'
<1>1. e.of \in Bookings /\ UNCHANGED <<providerVars, flightVars, inits>>
  BY DEF TypeOK, ProviderTypeOK, Event, ProcessWebhook, flightVars
<1>2. CASE PaymentCanceled(e)
  BY <1>1, <1>2, MoneyByCancelPending DEF PaymentCanceled
<1>3. CASE PaymentSucceeded(e)
  <2>1. /\ e.type = "payment.succeeded" /\ status[e.of] = "pending_payment"
        /\ \A c \in Bookings : status'[c] = IF c = e.of THEN "confirmed" ELSE status[c]
        /\ \A c \in Bookings : pay'[c] = IF c = e.of THEN "succeeded" ELSE pay[c]
        /\ UNCHANGED pid
    BY <1>3 DEF PaymentSucceeded, ConfirmPendingBooking, MarkPaymentSucceeded, Assign,
                TypeOK, StoreTypeOK
  <2>2. charge[e.of] = "captured"
    BY <1>1, <2>1, SuccessIsCaptured
  <2> QED
    BY <1>1, <2>1, <2>2, MoneyByRows
<1>4. CASE SkipWebhook(e) \/ PaymentFailed(e) \/ LatePaymentSucceeded(e)
  <2>1. /\ UNCHANGED <<status, pid>>
        /\ \A c \in Bookings : pay[c] # "none" => pay'[c] # "none"
    BY <1>4 DEF SkipWebhook, PaymentFailed, RecordPaymentFailure, LatePaymentSucceeded,
                MarkExpiredPaymentRefundPending, Assign, bookingVars, paymentVars,
                TypeOK, StoreTypeOK
  <2> QED
    BY <1>1, <2>1, MoneyByRows
<1> QED
  BY <1>2, <1>3, <1>4 DEF ProcessWebhook

\* InitiatePayment hands out a session only for an id that is stored.
LEMMA MoneyByInitiate ==
    ASSUME TypeOK, Coupled, MoneyInv, NEW b \in Bookings,
           BeginInitiatePayment(b) \/ \E known \in BOOLEAN : FinishInitiatePayment(b, known)
    PROVE  MoneyInv'
<1>1. CASE BeginInitiatePayment(b)
  <2>1. /\ UNCHANGED <<status, pay, pid, checkout>>
        /\ inits' = inits \cup {<<b, b \in pid>>}
        /\ CreatePayment(b)
    BY <1>1 DEF BeginInitiatePayment, storeVars, bookingVars, paymentVars
  <2>2. \A c \in Bookings : charge'[c] # charge[c] => charge[c] = "none" /\ charge'[c] = "open"
    BY <2>1 DEF CreatePayment, TypeOK, ProviderTypeOK
  <2>3. \A e \in events' \ events : e.type = "payment.created"
    BY <2>1 DEF CreatePayment, Notify
  <2>4. ReadingsAreTrue'
    <3> SUFFICES ASSUME NEW c \in Bookings, <<c, TRUE>> \in inits'
                 PROVE  c \in pid'
      BY DEF ReadingsAreTrue
    <3>1. CASE <<c, TRUE>> \in inits
      BY <2>1, <3>1 DEF MoneyInv, ReadingsAreTrue
    <3>2. CASE <<c, TRUE>> = <<b, b \in pid>>
      BY <2>1, <3>2
    <3> QED
      BY <2>1, <3>1, <3>2
  <2>5. ConfirmedIsPaid' /\ PaidChargeIsKnown' /\ KnownHavePayments'
    BY <2>1, <2>2
    DEF MoneyInv, ConfirmedIsPaid, PaidChargeIsKnown, KnownHavePayments
  <2>6. SuccessesArePaid'
    BY <2>2, <2>3 DEF MoneyInv, SuccessesArePaid, TypeOK, ProviderTypeOK, Event
  <2> QED
    BY <2>4, <2>5, <2>6 DEF MoneyInv
<1>2. CASE \E known \in BOOLEAN : FinishInitiatePayment(b, known)
  <2>1. PICK known \in BOOLEAN : FinishInitiatePayment(b, known)
    BY <1>2
  <2>2. /\ UNCHANGED <<status, pay, charge, events, inits>>
        /\ checkout' \in {checkout, checkout \cup {b}}
        /\ <<b, known>> \in inits
    BY <2>1 DEF FinishInitiatePayment, SetPaymentProviderID, bookingVars, paymentVars,
                flightVars
  <2>3. pid' = pid \cup {b} /\ pay[b] # "none"
    <3>1. CASE known \/ b \in pid
      <4>1. b \in pid
        BY <2>2, <3>1 DEF MoneyInv, ReadingsAreTrue
      <4> QED
        BY <2>1, <3>1, <4>1
        DEF FinishInitiatePayment, paymentVars, MoneyInv, KnownHavePayments
    <3>2. CASE ~(known \/ b \in pid)
      BY <2>1, <3>2 DEF FinishInitiatePayment, SetPaymentProviderID
    <3> QED
      BY <3>1, <3>2
  <2> QED
    BY <2>2, <2>3
    DEF MoneyInv, ConfirmedIsPaid, PaidChargeIsKnown, SuccessesArePaid, ReadingsAreTrue,
        KnownHavePayments
<1> QED
  BY <1>1, <1>2

\* A refund is made for a payment that is due for one: its booking is cancelled.
LEMMA MoneyByRefund ==
    ASSUME TypeOK, Coupled, MoneyInv, NEW b \in Bookings,
           \/ RefundPayment(b)
           \/ RefundInterrupted(b)
           \/ RefundFailed(b)
           \/ RetryPaymentRefund(b)
    PROVE  MoneyInv'
<1>1. /\ UNCHANGED <<status, pid, checkout, events, inits>>
      /\ pay[b] = "refund_pending"
      /\ \A c \in Bookings : pay[c] # "none" => pay'[c] # "none"
      /\ UNCHANGED charge \/ Refund(b)
  BY DEF RefundPayment, MarkPaymentRefunded, RefundInterrupted, RefundFailed, Refund,
         SchedulePaymentRefundRetry, RetryPaymentRefund, RetryFailedPaymentRefundForAdmin,
         UnchangedByRefund, Assign, bookingVars, paymentVars, flightVars, providerVars,
         TypeOK, StoreTypeOK
<1>2. status[b] = "cancelled"
  BY <1>1 DEF Coupled, BookingPaymentAgree, TypeOK, StoreTypeOK, BookingStates
<1>3. \A c \in Bookings : \/ charge'[c] = charge[c]
                          \/ /\ c = b /\ charge'[c] = "refunded"
                             /\ charge[c] \in {"captured", "refunded"}
  BY <1>1 DEF Refund, TypeOK, ProviderTypeOK
<1>4. ConfirmedIsPaid'
  BY <1>1, <1>2, <1>3 DEF MoneyInv, ConfirmedIsPaid
<1>5. PaidChargeIsKnown'
  BY <1>1, <1>3 DEF MoneyInv, PaidChargeIsKnown
<1>6. SuccessesArePaid'
  BY <1>1, <1>3 DEF MoneyInv, SuccessesArePaid, TypeOK, ProviderTypeOK, Event
<1>7. ReadingsAreTrue' /\ KnownHavePayments'
  BY <1>1 DEF MoneyInv, ReadingsAreTrue, KnownHavePayments, TypeOK, StoreTypeOK
<1> QED
  BY <1>4, <1>5, <1>6, <1>7 DEF MoneyInv

LEMMA MoneyByPaymentStep ==
    ASSUME TypeOK, Coupled, MoneyInv, NEW b \in Bookings, PaymentStep(b)
    PROVE  MoneyInv'
<1>1. CASE BeginReconcile(b)
  BY <1>1, MoneyWhenSame DEF BeginReconcile, storeVars, bookingVars, paymentVars
<1>2. CASE FinishReconcile(b)
  <2>1. /\ UNCHANGED <<status, pay, pid, charge, checkout, inits>>
        /\ events' = events \cup LookupEvents(b)
    BY <1>2 DEF FinishReconcile, storeVars, bookingVars, paymentVars, flightVars
  <2>2. SuccessesArePaid'
    BY <2>1 DEF LookupEvents, MoneyInv, SuccessesArePaid
  <2> QED
    BY <2>1, <2>2
    DEF MoneyInv, ConfirmedIsPaid, PaidChargeIsKnown, ReadingsAreTrue, KnownHavePayments
<1> QED
  BY <1>1, <1>2, MoneyByInitiate, MoneyByRefund DEF PaymentStep

\* The guest pays with a session; a booking that is not paid is not booked.
LEMMA MoneyByProviderStep ==
    ASSUME TypeOK, Coupled, MoneyInv, NEW b \in Bookings, ProviderStep(b)
    PROVE  MoneyInv'
<1>1. /\ UNCHANGED <<status, pay, pid, checkout, inits>>
      /\ charge[b] \in {"open", "declined"}
      /\ \/ /\ charge' = [charge EXCEPT ![b] = "captured"] /\ b \in checkout
         \/ /\ charge' = [charge EXCEPT ![b] = "declined"] /\ b \in checkout
         \/ charge' = [charge EXCEPT ![b] = "canceled"]
      /\ \A e \in events' \ events :
            e.of = b /\ (e.type = "payment.succeeded" => charge' = [charge EXCEPT ![b] = "captured"])
  BY DEF ProviderStep, Pay, Decline, Cancel, Notify, storeVars, bookingVars, paymentVars,
         flightVars
<1>2. \A c \in Bookings \ {b} : charge'[c] = charge[c]
  BY <1>1 DEF TypeOK, ProviderTypeOK
<1>3. charge'[b] \in {"captured", "declined"} => b \in pid
  BY <1>1 DEF MoneyInv, PaidChargeIsKnown, TypeOK, ProviderTypeOK
<1>4. charge'[b] # "refunded"
  BY <1>1 DEF TypeOK, ProviderTypeOK
<1>5. ConfirmedIsPaid'
  BY <1>1, <1>2, <1>4 DEF MoneyInv, ConfirmedIsPaid
<1>6. PaidChargeIsKnown'
  BY <1>1, <1>2, <1>3, <1>4 DEF MoneyInv, PaidChargeIsKnown
<1>7. SuccessesArePaid'
  BY <1>1, <1>2 DEF MoneyInv, SuccessesArePaid, TypeOK, ProviderTypeOK, Event
<1>8. ReadingsAreTrue' /\ KnownHavePayments'
  BY <1>1 DEF MoneyInv, ReadingsAreTrue, KnownHavePayments
<1> QED
  BY <1>5, <1>6, <1>7, <1>8 DEF MoneyInv

LEMMA MoneyByNext ==
    ASSUME TypeOK, Coupled, MoneyInv, [Next]_vars
    PROVE  MoneyInv'
<1>1. CASE Expire
  BY <1>1, MoneyByCancelPending DEF Expire, ExpirePendingPayments
<1>2. CASE Complete
  <2>1. PICK past \in SUBSET Bookings :
            /\ \A b \in past : status[b] = "confirmed"
            /\ status' = Assign(status, past, "completed")
    BY <1>2 DEF Complete, CompletePastBookings, CompleteBookings
  <2>2. \A b \in Bookings : status'[b] = IF b \in past THEN "completed" ELSE status[b]
    BY <2>1 DEF Assign, TypeOK, StoreTypeOK
  <2>3. UNCHANGED <<pay, pid, inits, providerVars>>
    BY <1>2 DEF Complete, CompletePastBookings, paymentVars, flightVars
  <2> QED
    BY <2>1, <2>2, <2>3, MoneyByRows
<1>3. CASE AdminInventory \/ Tick \/ UNCHANGED vars
  BY <1>3, MoneyWhenSame
  DEF AdminInventory, Tick, vars, storeVars, bookingVars, paymentVars, flightVars
<1> QED
  BY <1>1, <1>2, <1>3, MoneyByBookingStep, MoneyByPaymentStep, MoneyByProcessWebhook,
     MoneyByProviderStep
  DEF Next

LEMMA InitMoney == Init => MoneyInv
BY StoreAssumption
DEF Init, ProviderInit, MoneyInv, ConfirmedIsPaid, PaidChargeIsKnown, SuccessesArePaid,
    ReadingsAreTrue, KnownHavePayments

LEMMA MoneyAlways == Spec => []MoneyInv
<1>1. TypeOK /\ Coupled /\ MoneyInv /\ [Next]_vars => TypeOK' /\ Coupled' /\ MoneyInv'
  BY NextTypeOK, CoupledByNext, MoneyByNext
<1> QED
  BY InitTypeOK, InitCoupled, InitMoney, <1>1, PTL DEF Spec

\* Rooms are confirmed for money that was captured, and money goes back for
\* cancelled bookings only.
THEOREM ConfirmedBookingsArePaid == Spec => []ConfirmedIsPaid
<1>1. MoneyInv => ConfirmedIsPaid
  BY DEF MoneyInv
<1> QED
  BY MoneyAlways, <1>1, PTL

\* Every charge a guest can pay or has paid is known to the database.
THEOREM PaidChargesAreKnown == Spec => []PaidChargeIsKnown
<1>1. MoneyInv => PaidChargeIsKnown
  BY DEF MoneyInv
<1> QED
  BY MoneyAlways, <1>1, PTL

-----------------------------------------------------------------------------
\* Where captured money is.  PaidIsSettled says that it arrives somewhere;
\* this is why it cannot get lost on the way: until the database has taken
\* note of it, the event that tells of it is still to be claimed, and finds
\* booking and payment in states that ProcessWebhook or an expiration serves.

Success(b) == [of |-> b, type |-> "payment.succeeded", source |-> "provider"]

\* The provider tells of every capture, and is asked for a refund only when
\* one is due; a payment that says refunded has been.
SuccessesAreTold ==
    \A b \in Bookings : charge[b] \in {"captured", "refunded"} => Success(b) \in events
RefundsWereDue ==
    \A b \in Bookings : charge[b] = "refunded" => pay[b] \in {"refund_pending", "refunded"}
RefundsWereMade == \A b \in Bookings : pay[b] = "refunded" => charge[b] = "refunded"

Accounts == SuccessesAreTold /\ RefundsWereDue /\ RefundsWereMade

\* Captured money is that of a guest with a booking, or due for a refund, or
\* unknown to the database but with its event on the way; refunded money is
\* not a guest's who was not due for it.
MoneyIsAccountedFor ==
    /\ RefundsWereDue /\ RefundsWereMade
    /\ \A b \in Bookings : charge[b] = "captured" =>
          \/ status[b] \in {"confirmed", "completed"} /\ pay[b] = "succeeded"
          \/ status[b] = "cancelled" /\ pay[b] = "refund_pending"
          \/ /\ b \in pid /\ Success(b) \in events \ claimed
             /\ \/ status[b] = "pending_payment" /\ pay[b] = "pending"
                \/ status[b] = "cancelled" /\ pay[b] = "expired"

\* Payments move on, or stay; what was due for a refund stays due.
LEMMA AccountsByRows ==
    ASSUME Accounts, UNCHANGED providerVars,
           \A b \in Bookings : /\ pay'[b] = "refunded" => pay[b] = "refunded"
                               /\ pay[b] \in {"refund_pending", "refunded"} => pay'[b] = pay[b]
    PROVE  Accounts'
BY DEF Accounts, SuccessesAreTold, RefundsWereDue, RefundsWereMade, Success, providerVars

LEMMA AccountsByCancelPending ==
    ASSUME TypeOK, Accounts, NEW S \in SUBSET Bookings, CancelPendingBookingAndPayment(S),
           UNCHANGED providerVars
    PROVE  Accounts'
<1>1. \A b \in Bookings : /\ pay'[b] = IF b \in S THEN "expired" ELSE pay[b]
                          /\ b \in S => pay[b] = "pending"
  BY DEF CancelPendingBookingAndPayment, MarkPaymentExpired, Assign, TypeOK, StoreTypeOK
<1> QED
  BY <1>1, AccountsByRows

LEMMA AccountsByBookingStep ==
    ASSUME TypeOK, Accounts, NEW b \in Bookings, BookingStep(b)
    PROVE  Accounts'
<1>1. /\ UNCHANGED providerVars
      /\ \/ pay[b] = "none" /\ pay' = Assign(pay, {b}, "pending")
         \/ pay[b] = "succeeded" /\ pay' = Assign(pay, {b}, "refund_pending")
         \/ pay' = pay
  BY DEF BookingStep, CreateBooking, CreatePaymentForBooking, CancelBooking,
         MarkPaymentRefundPending, paymentVars
<1>2. \A c \in Bookings : /\ c # b => pay'[c] = pay[c]
                          /\ \/ pay'[b] = pay[b]
                             \/ pay[b] = "none" /\ pay'[b] = "pending"
                             \/ pay[b] = "succeeded" /\ pay'[b] = "refund_pending"
  BY <1>1 DEF Assign, TypeOK, StoreTypeOK
<1> QED
  BY <1>1, <1>2, AccountsByRows

LEMMA AccountsByProcessWebhook ==
    ASSUME TypeOK, Accounts, NEW e \in events, ProcessWebhook(e)
    PROVE  Accounts'
<1>1. e.of \in Bookings /\ UNCHANGED providerVars
  BY DEF TypeOK, ProviderTypeOK, Event, ProcessWebhook
<1>2. CASE PaymentCanceled(e)
  BY <1>1, <1>2, AccountsByCancelPending DEF PaymentCanceled
<1>3. CASE SkipWebhook(e) \/ PaymentFailed(e) \/ PaymentSucceeded(e) \/ LatePaymentSucceeded(e)
  <2>1. \/ pay' = pay
        \/ pay[e.of] = "pending" /\ pay' = Assign(pay, {e.of}, "succeeded")
        \/ pay[e.of] = "expired" /\ pay' = Assign(pay, {e.of}, "refund_pending")
    BY <1>3 DEF SkipWebhook, PaymentFailed, RecordPaymentFailure, PaymentSucceeded,
                MarkPaymentSucceeded, LatePaymentSucceeded, MarkExpiredPaymentRefundPending,
                paymentVars
  <2>2. \A c \in Bookings : \/ pay'[c] = pay[c]
                            \/ pay[c] = "pending" /\ pay'[c] = "succeeded"
                            \/ pay[c] = "expired" /\ pay'[c] = "refund_pending"
    BY <2>1 DEF Assign, TypeOK, StoreTypeOK
  <2> QED
    BY <1>1, <2>2, AccountsByRows
<1> QED
  BY <1>2, <1>3 DEF ProcessWebhook

\* The provider refunds, and the payment is marked, or not yet.
LEMMA AccountsByRefund ==
    ASSUME TypeOK, Accounts, NEW b \in Bookings,
           \/ RefundPayment(b)
           \/ RefundInterrupted(b)
           \/ RefundFailed(b)
           \/ RetryPaymentRefund(b)
    PROVE  Accounts'
<1>1. /\ UNCHANGED events /\ pay[b] = "refund_pending"
      /\ UNCHANGED charge \/ Refund(b)
      /\ pay' = pay \/ (Refund(b) /\ pay' = Assign(pay, {b}, "refunded"))
  BY DEF RefundPayment, MarkPaymentRefunded, RefundInterrupted, RefundFailed, Refund,
         SchedulePaymentRefundRetry, RetryPaymentRefund, RetryFailedPaymentRefundForAdmin,
         paymentVars, providerVars
<1>2. \A c \in Bookings : /\ c # b => charge'[c] = charge[c] /\ pay'[c] = pay[c]
                          /\ \/ charge'[b] = charge[b] /\ pay'[b] = pay[b]
                             \/ /\ charge[b] \in {"captured", "refunded"}
                                /\ charge'[b] = "refunded"
                                /\ pay'[b] \in {"refund_pending", "refunded"}
  BY <1>1 DEF Refund, Assign, TypeOK, StoreTypeOK, ProviderTypeOK
<1> QED
  BY <1>1, <1>2 DEF Accounts, SuccessesAreTold, RefundsWereDue, RefundsWereMade, Success

\* A charge is made, declined, cancelled or captured; a capture is told.
LEMMA AccountsByProvider ==
    ASSUME TypeOK, Accounts, "payment.succeeded" \in Subscribed, NEW b \in Bookings,
           BeginInitiatePayment(b) \/ ProviderStep(b)
    PROVE  Accounts'
<1>1. /\ UNCHANGED pay /\ events \subseteq events'
      /\ \/ charge' = charge
         \/ \E v \in {"open", "declined", "canceled"} :
               charge[b] \notin {"captured", "refunded"} /\ charge' = [charge EXCEPT ![b] = v]
         \/ /\ charge' = [charge EXCEPT ![b] = "captured"] /\ Notify(b, "payment.succeeded")
            /\ charge[b] \in {"open", "declined"}
  BY DEF BeginInitiatePayment, CreatePayment, ProviderStep, Pay, Decline, Cancel, Notify,
         storeVars, paymentVars
<1>2. Success(b) \in Event
  BY DEF Success, Event, EventTypes
<1>3. \A c \in Bookings : \/ charge'[c] = charge[c]
                          \/ charge'[c] \notin {"captured", "refunded"}
                             /\ charge[c] \notin {"captured", "refunded"}
                          \/ /\ charge'[c] = "captured" /\ charge[c] # "refunded"
                             /\ Success(c) \in events'
  BY <1>1, <1>2 DEF Notify, Success, TypeOK, ProviderTypeOK
<1>4. \A c \in Bookings : Success(c)' = Success(c)
  BY DEF Success
<1> QED
  BY <1>1, <1>3, <1>4 DEF Accounts, SuccessesAreTold, RefundsWereDue, RefundsWereMade

LEMMA AccountsByNext ==
    ASSUME TypeOK, Accounts, "payment.succeeded" \in Subscribed, [Next]_vars
    PROVE  Accounts'
<1>1. CASE Expire
  BY <1>1, AccountsByCancelPending DEF Expire, ExpirePendingPayments
<1>2. CASE Complete \/ AdminInventory \/ Tick \/ UNCHANGED vars
  <2>1. UNCHANGED <<pay, providerVars>>
    BY <1>2 DEF Complete, CompletePastBookings, AdminInventory, Tick, vars, storeVars, paymentVars
  <2> QED
    BY <2>1, AccountsByRows
<1>3. ASSUME NEW b \in Bookings, PaymentStep(b)
      PROVE  Accounts'
  <2>1. CASE BeginReconcile(b) \/ \E known \in BOOLEAN : FinishInitiatePayment(b, known)
    <3>1. UNCHANGED <<pay, charge, events>>
      BY <2>1 DEF BeginReconcile, FinishInitiatePayment, SetPaymentProviderID, storeVars,
                  paymentVars, providerVars
    <3> QED
      BY <3>1 DEF Accounts, SuccessesAreTold, RefundsWereDue, RefundsWereMade, Success
  <2>2. CASE FinishReconcile(b)
    <3>1. UNCHANGED <<pay, charge>> /\ events \subseteq events'
      BY <2>2 DEF FinishReconcile, storeVars, paymentVars
    <3> QED
      BY <3>1 DEF Accounts, SuccessesAreTold, RefundsWereDue, RefundsWereMade, Success
  <2> QED
    BY <1>3, <2>1, <2>2, AccountsByRefund, AccountsByProvider DEF PaymentStep
<1> QED
  BY <1>1, <1>2, <1>3, AccountsByBookingStep, AccountsByProcessWebhook, AccountsByProvider
  DEF Next

LEMMA InitAccounts == Init => Accounts
BY DEF Init, ProviderInit, Accounts, SuccessesAreTold, RefundsWereDue, RefundsWereMade

\* A success that is still to be claimed is one of a payment that waits for it.
LEMMA CapturedMoney ==
    ASSUME TypeOK, Coupled, MoneyInv, RowsTrue, Accounts
    PROVE  MoneyIsAccountedFor
<1> SUFFICES ASSUME NEW b \in Bookings, charge[b] = "captured"
             PROVE  \/ status[b] \in {"confirmed", "completed"} /\ pay[b] = "succeeded"
                    \/ status[b] = "cancelled" /\ pay[b] = "refund_pending"
                    \/ /\ b \in pid /\ Success(b) \in events \ claimed
                       /\ \/ status[b] = "pending_payment" /\ pay[b] = "pending"
                          \/ status[b] = "cancelled" /\ pay[b] = "expired"
  BY DEF Accounts, MoneyIsAccountedFor
<1>1. b \in pid /\ pay[b] # "none"
  BY DEF MoneyInv, PaidChargeIsKnown, KnownHavePayments
<1>2. Success(b) \in events /\ pay[b] # "refunded"
  BY DEF Accounts, SuccessesAreTold, RefundsWereMade
<1>3. Success(b) \in claimed => pay[b] \in {"succeeded", "refund_pending"}
  BY <1>2 DEF RowsTrue, ClaimedSuccessApplied, Success
<1>4. \/ status[b] = "pending_payment" /\ pay[b] = "pending"
      \/ status[b] \in {"confirmed", "completed"} /\ pay[b] = "succeeded"
      \/ status[b] = "cancelled" /\ pay[b] \in {"expired", "refund_pending"}
  BY <1>1, <1>2 DEF Coupled, BookingPaymentAgree, TypeOK, StoreTypeOK, BookingStates
<1> QED
  BY <1>1, <1>2, <1>3, <1>4

\* If the provider is asked to tell of successes, no captured money is ever
\* out of the program's sight: its owner has the booking, or a refund is due,
\* or the event that leads to one of these can still be claimed.
THEOREM CapturedMoneyIsNeverLost ==
    ASSUME "payment.succeeded" \in Subscribed
    PROVE  Spec => []MoneyIsAccountedFor
<1>1. Init => TypeOK /\ Coupled /\ MoneyInv /\ RowsTrue /\ Accounts
  BY InitTypeOK, InitCoupled, InitMoney, InitRows, InitAccounts
<1>2. TypeOK /\ Coupled /\ MoneyInv /\ RowsTrue /\ Accounts /\ [Next]_vars
      => TypeOK' /\ Coupled' /\ MoneyInv' /\ RowsTrue' /\ Accounts'
  BY NextTypeOK, CoupledByNext, MoneyByNext, RowsByNext, AccountsByNext
<1>3. TypeOK /\ Coupled /\ MoneyInv /\ RowsTrue /\ Accounts => MoneyIsAccountedFor
  BY CapturedMoney
<1> QED
  BY <1>1, <1>2, <1>3, PTL DEF Spec

-----------------------------------------------------------------------------
\* Refinement.  Each status is a stage of the contract, and the counters of
\* the nights stand for the bookings the contract counts.

StageOf(s) == CASE s = "none"            -> "none"
                [] s = "pending_payment" -> "held"
                [] s = "confirmed"       -> "booked"
                [] s = "completed"       -> "stayed"
                [] s = "cancelled"       -> "released"

RoomsInv == InventoryConserved /\ NeverOversold

LEMMA StagesAreOfStatus ==
    /\ Stage = [b \in Bookings |-> StageOf(status[b])]
    /\ Stage' = [b \in Bookings |-> StageOf(status'[b])]
BY DEF Stage, StageOf

LEMMA TakingBookings == TypeOK => Contract!TakesRooms(Stage) = Live
BY DEF TypeOK, StoreTypeOK, BookingStates, Stage, Live, Contract!TakesRooms

FitsNow == Contract!Fits(Stage, stay, total, blocked)

\* The contract counts from the bookings what the tables count in a column.
LEMMA RoomsFit == TypeOK /\ RoomsInv => FitsNow
<1> SUFFICES ASSUME TypeOK, RoomsInv, NEW d \in Dates
             PROVE  Contract!InUse(Contract!TakesRooms(Stage), stay, d) + blocked[d] <= total
  BY DEF FitsNow, Contract!Fits
<1>1. \A S : Contract!Cardinality(S) = Cardinality(S)
  BY DEF Contract!Cardinality, Cardinality
<1>2. Contract!InUse(Live, stay, d) = RoomsTaken(Live, stay, d)
  BY <1>1 DEF Contract!InUse, RoomsTaken, RoomUnits, Nights
<1> QED
  BY <1>2, TakingBookings DEF RoomsInv, InventoryConserved, NeverOversold

\* A set of bookings that changes its status makes a move of the contract.
LEMMA MoveByStatus ==
    ASSUME NEW S \in SUBSET Bookings, S # {},
           NEW from \in BookingStates, NEW to \in BookingStates,
           \A b \in S : status[b] = from,
           \A b \in Bookings : status'[b] = IF b \in S THEN to ELSE status[b]
    PROVE  Contract!Move(S, StageOf(from), StageOf(to))
<1>1. \A b \in S : Stage[b] = StageOf(from)
  BY StagesAreOfStatus
<1>2. Stage' = [b \in Bookings |-> IF b \in S THEN StageOf(to) ELSE Stage[b]]
  BY StagesAreOfStatus
<1> QED
  BY <1>1, <1>2 DEF Contract!Move

Simulates == Contract!Next \/ UNCHANGED Contract!contractVars

LEMMA StutterWhenSame ==
    ASSUME UNCHANGED <<status, stay, charge, total, blocked>>
    PROVE  Simulates
BY DEF Simulates, Contract!contractVars, Stage, Money

\* Expiration and provider cancellation release held rooms.
LEMMA ReleaseByCancelPending ==
    ASSUME TypeOK, NEW S \in SUBSET Bookings, S # {}, CancelPendingBookingAndPayment(S),
           UNCHANGED providerVars
    PROVE  Simulates
<1>1. /\ \A b \in S : status[b] = "pending_payment"
      /\ \A b \in Bookings : status'[b] = IF b \in S THEN "cancelled" ELSE status[b]
      /\ UNCHANGED <<stay, total, blocked, charge>>
  BY DEF CancelPendingBookingAndPayment, ExpirePendingBooking, DecrementAvailability, Assign,
         providerVars, TypeOK, StoreTypeOK
<1>2. Contract!Move(S, StageOf("pending_payment"), StageOf("cancelled"))
  BY <1>1, MoveByStatus DEF BookingStates
<1>3. Contract!Release(S, "held")
  BY <1>1, <1>2 DEF Contract!Release, StageOf, Money
<1> QED
  BY <1>3 DEF Simulates, Contract!Next

LEMMA SimulateBookingStep ==
    ASSUME TypeOK, FitsNow', NEW b \in Bookings, BookingStep(b)
    PROVE  Simulates
<1>1. ASSUME NEW k \in Keys, NEW s \in Stays, CreateBooking(b, k, s)
      PROVE  Simulates
  <2>1. /\ \A c \in {b} : status[c] = "none"
        /\ \A c \in Bookings : status'[c] = IF c \in {b} THEN "pending_payment" ELSE status[c]
        /\ stay' = [stay EXCEPT ![b] = s]
        /\ UNCHANGED <<total, blocked, charge>>
    BY <1>1 DEF CreateBooking, CreatePendingBooking, IncrementAvailability, Assign,
                providerVars, TypeOK, StoreTypeOK
  <2>2. Contract!Move({b}, StageOf("none"), StageOf("pending_payment"))
    BY <2>1, MoveByStatus DEF BookingStates
  <2>3. Contract!Fits(Stage', stay', total, blocked)
    BY <2>1 DEF FitsNow
  <2>4. Contract!Hold(b)
    BY <2>1, <2>2, <2>3 DEF Contract!Hold, StageOf, Money
  <2> QED
    BY <2>4 DEF Simulates, Contract!Next
<1>2. CASE CancelBooking(b)
  <2>1. /\ \A c \in {b} : status[c] = "confirmed"
        /\ \A c \in Bookings : status'[c] = IF c \in {b} THEN "cancelled" ELSE status[c]
        /\ UNCHANGED <<stay, total, blocked, charge>>
    BY <1>2 DEF CancelBooking, CancelConfirmedBooking, DecrementAvailability, Assign,
                providerVars, TypeOK, StoreTypeOK
  <2>2. Contract!Move({b}, StageOf("confirmed"), StageOf("cancelled"))
    BY <2>1, MoveByStatus DEF BookingStates
  <2>3. Contract!Release({b}, "booked")
    BY <2>1, <2>2 DEF Contract!Release, StageOf, Money
  <2> QED
    BY <2>3 DEF Simulates, Contract!Next
<1> QED
  BY <1>1, <1>2 DEF BookingStep

\* A success books rooms that are paid; one that comes too late books nothing.
LEMMA SimulateProcessWebhook ==
    ASSUME TypeOK, Coupled, MoneyInv, NEW e \in events, ProcessWebhook(e)
    PROVE  Simulates
<1>1. e.of \in Bookings /\ UNCHANGED providerVars
  BY DEF TypeOK, ProviderTypeOK, Event, ProcessWebhook
<1>2. CASE PaymentCanceled(e)
  BY <1>1, <1>2, ReleaseByCancelPending DEF PaymentCanceled
<1>3. CASE PaymentSucceeded(e)
  <2>1. /\ \A c \in {e.of} : status[c] = "pending_payment"
        /\ \A c \in Bookings : status'[c] = IF c \in {e.of} THEN "confirmed" ELSE status[c]
        /\ UNCHANGED <<stay, total, blocked, charge>>
    BY <1>1, <1>3 DEF PaymentSucceeded, ConfirmPendingBooking, Assign, inventoryVars,
                      providerVars, TypeOK, StoreTypeOK
  <2>2. Contract!Move({e.of}, StageOf("pending_payment"), StageOf("confirmed"))
    BY <1>1, <2>1, MoveByStatus DEF BookingStates
  <2>3. Money[e.of] = "captured"
    BY <1>1, <1>3, <2>1, SuccessIsCaptured DEF Money, PaymentSucceeded
  <2>4. Contract!Book(e.of)
    BY <2>1, <2>2, <2>3 DEF Contract!Book, StageOf, Money
  <2> QED
    BY <1>1, <2>4 DEF Simulates, Contract!Next
<1>4. CASE SkipWebhook(e) \/ PaymentFailed(e) \/ LatePaymentSucceeded(e)
  BY <1>1, <1>4, StutterWhenSame
  DEF SkipWebhook, PaymentFailed, LatePaymentSucceeded, bookingVars, inventoryVars,
      providerVars
<1> QED
  BY <1>2, <1>3, <1>4 DEF ProcessWebhook

\* A refund that is repeated changes nothing the contract speaks of.
LEMMA SimulatePaymentStep ==
    ASSUME TypeOK, Coupled, NEW b \in Bookings, PaymentStep(b)
    PROVE  Simulates
<1>1. UNCHANGED <<status, stay, total, blocked>>
  BY DEF PaymentStep, BeginInitiatePayment, FinishInitiatePayment, BeginReconcile,
         FinishReconcile, RefundPayment, RefundInterrupted, RefundFailed, RetryPaymentRefund,
         UnchangedByRefund, storeVars, bookingVars, inventoryVars
<1>2. CASE BeginInitiatePayment(b)
  <2>1. Money' = Money
    BY <1>2 DEF BeginInitiatePayment, CreatePayment, Money, TypeOK, ProviderTypeOK
  <2> QED
    BY <1>1, <2>1 DEF Simulates, Contract!contractVars, Stage
<1>3. CASE \/ BeginReconcile(b) \/ FinishReconcile(b)
           \/ RetryPaymentRefund(b) \/ \E known \in BOOLEAN : FinishInitiatePayment(b, known)
  BY <1>1, <1>3, StutterWhenSame
  DEF BeginReconcile, FinishReconcile, RetryPaymentRefund, FinishInitiatePayment, providerVars
<1>4. UNCHANGED Stage
  BY <1>1 DEF Stage
<1>5. CASE RefundPayment(b) \/ RefundInterrupted(b) \/ RefundFailed(b)
  <2>1. pay[b] = "refund_pending" /\ (UNCHANGED charge \/ Refund(b))
    BY <1>5 DEF RefundPayment, MarkPaymentRefunded, RefundInterrupted, RefundFailed,
                SchedulePaymentRefundRetry, providerVars
  <2>2. Stage[b] = "released"
    BY <2>1 DEF Coupled, BookingPaymentAgree, Stage, TypeOK, StoreTypeOK, BookingStates
  <2>3. CASE charge[b] = "captured" /\ Refund(b)
    <3>1. Money[b] = "captured" /\ Money' = [Money EXCEPT ![b] = "returned"]
      BY <2>3 DEF Refund, Money, TypeOK, ProviderTypeOK
    <3>2. Contract!Return(b)
      BY <1>1, <1>4, <2>2, <3>1 DEF Contract!Return
    <3> QED
      BY <3>2 DEF Simulates, Contract!Next
  <2>4. CASE ~(charge[b] = "captured" /\ Refund(b))
    <3>1. charge' = charge
      BY <2>1, <2>4 DEF Refund, TypeOK, ProviderTypeOK
    <3> QED
      BY <1>1, <3>1, StutterWhenSame
  <2> QED
    BY <2>3, <2>4
<1> QED
  BY <1>2, <1>3, <1>5 DEF PaymentStep

\* Who can pay has a payment, so holds rooms or held them: a confirmed
\* booking was paid already, or was made before payments existed.
LEMMA SimulateProviderStep ==
    ASSUME TypeOK, Coupled, MoneyInv, NEW b \in Bookings, ProviderStep(b)
    PROVE  Simulates
<1>1. UNCHANGED <<status, stay, total, blocked>>
  BY DEF ProviderStep, storeVars, bookingVars, inventoryVars
<1>2. CASE Pay(b)
  <2>1. /\ b \in checkout /\ charge[b] \in {"open", "declined"}
        /\ charge' = [charge EXCEPT ![b] = "captured"]
    BY <1>2 DEF Pay
  <2>2. pay[b] # "none"
    BY <2>1 DEF MoneyInv, PaidChargeIsKnown, KnownHavePayments
  <2>3. b \notin Legacy
    BY <2>2, StoreAssumption
    DEF Coupled, BookingPaymentAgree, LegacyIsOld, TypeOK, StoreTypeOK, BookingStates
  <2>4. status[b] \in {"pending_payment", "cancelled"}
    BY <2>1, <2>2, <2>3
    DEF MoneyInv, ConfirmedIsPaid, Coupled, BookingPaymentAgree, TypeOK, StoreTypeOK,
        BookingStates
  <2>5. Stage[b] \in {"held", "released"} /\ Money[b] = "unpaid"
    BY <2>1, <2>4 DEF Stage, Money
  <2>6. Money' = [Money EXCEPT ![b] = "captured"]
    BY <2>1 DEF Money, TypeOK, ProviderTypeOK
  <2>7. UNCHANGED Stage
    BY <1>1 DEF Stage
  <2>8. Contract!Capture(b)
    BY <1>1, <2>5, <2>6, <2>7 DEF Contract!Capture
  <2> QED
    BY <2>8 DEF Simulates, Contract!Next
<1>3. CASE Decline(b) \/ Cancel(b)
  <2>1. Money' = Money
    BY <1>3 DEF Decline, Cancel, Money, TypeOK, ProviderTypeOK
  <2> QED
    BY <1>1, <2>1 DEF Simulates, Contract!contractVars, Stage
<1> QED
  BY <1>2, <1>3 DEF ProviderStep

LEMMA SimulateNext ==
    ASSUME TypeOK, Coupled, MoneyInv, [Next]_vars, TypeOK', FitsNow'
    PROVE  Simulates
<1>1. CASE Expire
  BY <1>1, ReleaseByCancelPending DEF Expire, ExpirePendingPayments
<1>2. CASE Complete
  <2>1. PICK past \in SUBSET Bookings :
            /\ past # {} /\ \A b \in past : status[b] = "confirmed"
            /\ status' = Assign(status, past, "completed")
            /\ UNCHANGED stay
    BY <1>2 DEF Complete, CompletePastBookings, CompleteBookings
  <2>2. \A b \in Bookings : status'[b] = IF b \in past THEN "completed" ELSE status[b]
    BY <2>1 DEF Assign, TypeOK, StoreTypeOK
  <2>3. UNCHANGED <<charge, total, blocked>>
    BY <1>2 DEF Complete, CompletePastBookings, inventoryVars, providerVars
  <2>4. Contract!Move(past, StageOf("confirmed"), StageOf("completed"))
    BY <2>1, <2>2, MoveByStatus DEF BookingStates
  <2>5. Contract!Stay(past)
    BY <2>1, <2>3, <2>4 DEF Contract!Stay, StageOf, Money
  <2> QED
    BY <2>5 DEF Simulates, Contract!Next
<1>3. CASE AdminInventory
  <2>1. UNCHANGED <<status, stay, charge>>
    BY <1>3 DEF AdminInventory, storeVars, bookingVars, providerVars
  <2>2. UNCHANGED <<Stage, Money>>
    BY <2>1 DEF Stage, Money
  <2>3. total' \in Nat /\ blocked' \in [Dates -> Nat]
    BY DEF TypeOK, InventoryTypeOK
  <2>4. Contract!Fits(Stage, stay, total', blocked')
    BY <2>1, <2>2 DEF FitsNow
  <2>5. Contract!Rearrange
    BY <2>1, <2>2, <2>3, <2>4 DEF Contract!Rearrange
  <2> QED
    BY <2>5 DEF Simulates, Contract!Next
<1>4. CASE Tick \/ UNCHANGED vars
  BY <1>4, StutterWhenSame
  DEF Tick, vars, storeVars, bookingVars, inventoryVars, providerVars
<1> QED
  BY <1>1, <1>2, <1>3, <1>4, SimulateBookingStep, SimulateProcessWebhook,
     SimulatePaymentStep, SimulateProviderStep
  DEF Next

LEMMA InitSimulates == Init => Contract!Init
<1> SUFFICES ASSUME Init PROVE Contract!Init
  OBVIOUS
<1>1. TypeOK /\ RoomsInv
  BY InitTypeOK, InitConserved, InitNotOversold DEF RoomsInv
<1>2. Stage = [b \in Bookings |-> IF b \in Legacy THEN "booked" ELSE "none"]
  BY StoreAssumption DEF Init, Stage
<1>3. Money = [b \in Bookings |-> "unpaid"]
  BY DEF Init, ProviderInit, Money
<1>4. FitsNow
  BY <1>1, RoomsFit
<1> QED
  BY <1>1, <1>2, <1>3, <1>4
  DEF Init, Contract!Init, FitsNow, TypeOK, StoreTypeOK, InventoryTypeOK

\* The booking core implements the contract between hotel and guest, for any
\* number of bookings, nights, keys and admins: every step of the handlers,
\* the workers and the provider is one the contract allows, or changes
\* nothing of it.
THEOREM CoreImplementsContract == Spec => ImplementsContract
<1> DEFINE Good == TypeOK /\ Coupled /\ MoneyInv /\ RoomsInv
<1>1. Init => Good
  BY InitTypeOK, InitCoupled, InitMoney, InitConserved, InitNotOversold DEF RoomsInv
<1>2. Good /\ [Next]_vars => Good'
  BY NextTypeOK, CoupledByNext, MoneyByNext, ConservedByNext, NotOversoldByNext DEF RoomsInv
<1>3. Good => TypeOK /\ FitsNow
  BY RoomsFit
<1>4. Good /\ [Next]_vars /\ TypeOK' /\ FitsNow' => [Contract!Next]_(Contract!contractVars)
  BY SimulateNext DEF Simulates
<1> HIDE DEF Good
<1> QED
  BY <1>1, <1>2, <1>3, <1>4, InitSimulates, PTL DEF Spec, ImplementsContract, Contract!Spec

-----------------------------------------------------------------------------
\* What the contract is worth by itself: each of its clauses, kept by every
\* step it allows, whatever implements it.

NightsFit ==
    /\ total \in Nat /\ blocked \in [Dates -> Nat]
    /\ Contract!Fits(Stage, stay, total, blocked)

PaidForRooms ==
    \A b \in Bookings :
        /\ Stage[b] \in {"booked", "stayed"} => b \in Legacy \/ Money[b] = "captured"
        /\ Money[b] = "returned" => Stage[b] = "released"

LEMMA FewerInUse ==
    ASSUME NEW S \in SUBSET Bookings, NEW R \in SUBSET S, NEW f, NEW d
    PROVE  /\ Contract!InUse(R, f, d) \in Nat /\ Contract!InUse(S, f, d) \in Nat
           /\ Contract!InUse(R, f, d) <= Contract!InUse(S, f, d)
<1>0. \A T : Contract!Cardinality(T) = Cardinality(T)
  BY DEF Contract!Cardinality, Cardinality
<1>1. \A T \in SUBSET Bookings : Contract!InUse(T, f, d) = RoomsTaken(T, f, d)
  BY <1>0 DEF Contract!InUse, RoomsTaken, RoomUnits, Nights
<1>2. /\ IsFiniteSet(S) /\ S \ (S \ R) = R
      /\ RoomsTaken(S, f, d) \in Nat /\ RoomsTaken(S \ R, f, d) \in Nat
      /\ RoomsTaken(R, f, d) \in Nat
  BY RoomsOfBookings
<1>3. RoomsTaken(R, f, d) = RoomsTaken(S, f, d) - RoomsTaken(S \ R, f, d)
  BY <1>2, RoomsTakenWithout
<1> QED
  BY <1>1, <1>2, <1>3

LEMMA FitsWithFewer ==
    ASSUME NightsFit, UNCHANGED <<stay, total, blocked>>,
           Contract!TakesRooms(Stage') \subseteq Contract!TakesRooms(Stage)
    PROVE  NightsFit'
<1>1. Contract!TakesRooms(Stage) \in SUBSET Bookings
  BY DEF Contract!TakesRooms
<1>2. ASSUME NEW d \in Dates
      PROVE  Contract!InUse(Contract!TakesRooms(Stage'), stay, d) + blocked[d] <= total
  <2>1. Contract!InUse(Contract!TakesRooms(Stage), stay, d) + blocked[d] <= total
    BY DEF NightsFit, Contract!Fits
  <2> QED
    BY <1>1, <2>1, FewerInUse DEF NightsFit
<1> QED
  BY <1>2 DEF NightsFit, Contract!Fits

\* The contract never lets the rooms in use and the rooms withheld exceed the
\* hotel, books nobody who has not paid (but for the old bookings), and
\* returns money only for rooms that were given up, for good.
THEOREM ContractKeepsItsWord == Contract!Spec => [](NightsFit /\ PaidForRooms)
<1> USE DEF Contract!contractVars
<1>1. Contract!Init => NightsFit /\ PaidForRooms
  BY DEF Contract!Init, NightsFit, PaidForRooms
<1>2. NightsFit /\ PaidForRooms /\ [Contract!Next]_(Contract!contractVars)
      => NightsFit' /\ PaidForRooms'
  <2> SUFFICES ASSUME NightsFit, PaidForRooms, [Contract!Next]_(Contract!contractVars)
               PROVE  NightsFit' /\ PaidForRooms'
    OBVIOUS
  <2>1. CASE UNCHANGED Contract!contractVars
    BY <2>1 DEF NightsFit, PaidForRooms, Contract!Fits, Contract!TakesRooms
  <2>2. CASE Contract!Rearrange
    BY <2>2 DEF Contract!Rearrange, NightsFit, PaidForRooms
  <2>3. ASSUME NEW S \in SUBSET Bookings, NEW from \in {"held", "booked"},
               NEW to \in {"stayed", "released"}, Contract!Move(S, from, to),
               to = "stayed" => from = "booked", UNCHANGED <<stay, Money, total, blocked>>
        PROVE  NightsFit' /\ PaidForRooms'
    <3>1. Contract!TakesRooms(Stage') \subseteq Contract!TakesRooms(Stage)
      BY <2>3 DEF Contract!Move, Contract!TakesRooms
    <3>2. PaidForRooms'
      BY <2>3 DEF Contract!Move, PaidForRooms
    <3> QED
      BY <2>3, <3>1, <3>2, FitsWithFewer
  <2>4. ASSUME NEW b \in Bookings, Contract!Hold(b)
        PROVE  NightsFit' /\ PaidForRooms'
    BY <2>4 DEF Contract!Hold, Contract!Move, NightsFit, PaidForRooms
  <2>5. ASSUME NEW b \in Bookings, Contract!Book(b)
        PROVE  NightsFit' /\ PaidForRooms'
    <3>1. Contract!TakesRooms(Stage') \subseteq Contract!TakesRooms(Stage)
      BY <2>5 DEF Contract!Book, Contract!Move, Contract!TakesRooms
    <3> QED
      BY <2>5, <3>1, FitsWithFewer DEF Contract!Book, Contract!Move, PaidForRooms
  <2>6. ASSUME NEW b \in Bookings, Contract!Capture(b) \/ Contract!Return(b)
        PROVE  NightsFit' /\ PaidForRooms'
    <3>1. NightsFit'
      BY <2>6, FitsWithFewer DEF Contract!Capture, Contract!Return
    <3>2. Money = [c \in Bookings |-> Money[c]]
      BY DEF Money
    <3>3. \A c \in Bookings \ {b} : Money'[c] = Money[c]
      BY <2>6, <3>2 DEF Contract!Capture, Contract!Return
    <3>4. /\ Stage' = Stage /\ Stage[b] \in {"held", "released"}
          /\ Stage[b] = "released" \/ Money'[b] = "captured"
      BY <2>6, <3>2 DEF Contract!Capture, Contract!Return
    <3>5. PaidForRooms'
      BY <3>3, <3>4 DEF PaidForRooms
    <3> QED
      BY <3>1, <3>5
  <2> QED
    BY <2>1, <2>2, <2>3, <2>4, <2>5, <2>6 DEF Contract!Next, Contract!Stay, Contract!Release
<1> QED
  BY <1>1, <1>2, PTL DEF Contract!Spec

\* What a guest and a hotel can rely on, from the handlers' code: the rooms of
\* the bookings fit, whoever is booked has paid, and nobody is refunded who
\* still has rooms.
THEOREM GuestsGetWhatTheyPayFor == Spec => [](NightsFit /\ PaidForRooms)
BY CoreImplementsContract, ContractKeepsItsWord, PTL DEF ImplementsContract

=============================================================================
