---------------------------- MODULE BookingService ----------------------------
(***************************************************************************)
(* internal/booking: the transactions of the booking service and of its    *)
(* completion worker.  Each is one action: it holds the locks of the rows  *)
(* it reads (idempotency key, room type, availability; or booking, payment,*)
(* availability) from the read to the commit, and any error rolls all of   *)
(* it back.  A call that fails, and a repeated CreateBooking whose key has *)
(* a row, change nothing and are not actions.                              *)
(***************************************************************************)
EXTENDS Store

CONSTANTS
    LocalSkew     \* the server's local date minus the UTC date, in days

ASSUME BookingServiceAssumption == LocalSkew \subseteq {-1, 0, 1}

\* dateOnlyUTC(s.now()): the calendar date of the server's own time zone,
\* read before the transaction waits for its locks.
LocalDates == {DayOf(t) + skew : t \in TxTimes, skew \in LocalSkew}

\* validateStayDates
StayDatesValid(s) == \E today \in LocalDates : today <= s.in /\ s.in < s.out

\* CreateBooking: claim the key, take the rooms, insert booking, payment,
\* key and history.
CreateBooking(b, k, s) ==
    /\ StayDatesValid(s)
    /\ ClaimBookingIdempotencyKey(k)
    /\ IncrementAvailability(s)
    /\ \E t \in TxTimes : /\ t + TTL <= MaxTime
                          /\ CreatePendingBooking(b, s, t)
    /\ CreatePaymentForBooking(b)
    /\ AttachBookingToIdempotencyKey(k, s, b)
    /\ CreateBookingStatusHistory({b}, "none", "pending_payment")
    /\ UNCHANGED <<claimed, outbox, providerVars, now>>

\* cancelBooking, for the guest and for an admin: only a confirmed booking,
\* only before its check-in date, and a paid one becomes due for refund.
CancelBooking(b) ==
    /\ status[b] = "confirmed"
    /\ \E today \in LocalDates : stay[b].in > today
    /\ DecrementAvailability({b}, stay)
    /\ CancelConfirmedBooking(b)
    /\ IF pay[b] = "none" THEN UNCHANGED paymentVars
                          ELSE MarkPaymentRefundPending(b)
    /\ CreateBookingStatusHistory({b}, "confirmed", "cancelled")
    /\ EnqueueBookingEmail({b}, "booking_cancelled")
    /\ UNCHANGED <<keys, claimed, providerVars, now>>

\* CompletePastBookings: the worker passes today's UTC date.
CompletePastBookings ==
    /\ \E t \in TxTimes : CompleteBookings(DayOf(t))
    /\ UNCHANGED <<keys, paymentVars, claimed, outbox, inventoryVars, providerVars, now>>

=============================================================================
