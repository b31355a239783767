-------------------------------- MODULE Store --------------------------------
(***************************************************************************)
(* The tables a booking and its payment live in, and the SQL statements    *)
(* that write them (internal/db/queries).  A statement is an operator that *)
(* fixes the next state of one table; a guard of it is a WHERE clause, and *)
(* a service whose statement matches no row rolls its transaction back.    *)
(* BookingService and PaymentService put the statements together into the  *)
(* transactions of the program.                                            *)
(*                                                                         *)
(* Columns that no modelled decision reads are left out: names, prices,    *)
(* timestamps other than payment_expires_at, and the refund lease.         *)
(***************************************************************************)
EXTENDS Inventory, Provider, Sequences

CONSTANTS
    Keys,         \* idempotency keys the guest's client may send
    Legacy,       \* bookings confirmed before payments existed (no payment row)
    TTL,          \* payment pending TTL, in ticks of the clock
    DayLength,    \* ticks in a day
    MaxTime,      \* bound: the clock stops here
    TxLag         \* bound: how long ago a running transaction may have started

VARIABLES
    now,          \* the clock
    status,       \* bookings.status; "none" is no row yet
    stay,         \* bookings.check_in, check_out and rooms_count
    expires,      \* bookings.payment_expires_at
    history,      \* booking_status_history: <<from_status, to_status>> in order
    keys,         \* booking_idempotency_keys
    pay,          \* payments.status; "none" is no row
    pid,          \* bookings whose payments.provider_payment_id is set
    failure,      \* payments.failure_code
    claimed,      \* payment_webhook_events
    outbox        \* email_outbox, unique on (booking_id, event_type)

bookingVars == <<status, stay, expires>>
paymentVars == <<pay, pid, failure>>
storeVars == <<bookingVars, history, keys, paymentVars, claimed, outbox>>

ASSUME StoreAssumption ==
    /\ IsFiniteSet(Bookings)
    /\ Legacy \subseteq Bookings
    /\ TTL \in Nat \ {0} /\ DayLength \in Nat \ {0}
    /\ MaxTime \in Nat /\ TxLag \in Nat
    /\ Stays # {}

BookingStates == {"none", "pending_payment", "confirmed", "cancelled", "completed"}
PaymentStates == {"none", "pending", "succeeded", "expired", "refund_pending", "refunded"}
Failures == {"none", "declined", "refund_provider_error"}
EmailTypes == {"booking_confirmed", "booking_cancelled", "payment_refunded"}

StoreTypeOK ==
    /\ now \in 0..MaxTime
    /\ status \in [Bookings -> BookingStates]
    /\ stay \in [Bookings -> Stays]
    /\ expires \in [Bookings -> Nat]
    /\ history \in [Bookings -> Seq(BookingStates \X BookingStates)]
    /\ keys \subseteq [key : Keys, hash : Stays, booking : Bookings]
    /\ pay \in [Bookings -> PaymentStates]
    /\ pid \subseteq Bookings
    /\ failure \in [Bookings -> Failures]
    /\ claimed \subseteq Event
    /\ outbox \subseteq Bookings \X EmailTypes

\* Postgres' now() is the time the transaction started, which for one that
\* waited for a lock lies before the time its statement runs.
TxTimes == {t \in 0..now : now - t <= TxLag}

\* The UTC date at time t.
DayOf(t) == t \div DayLength

\* f with the value v for every member of S: an UPDATE of the rows of S.
Assign(f, S, v) == [x \in DOMAIN f |-> IF x \in S THEN v ELSE f[x]]

-----------------------------------------------------------------------------
\* bookings, booking_status_history, booking_idempotency_keys

CreatePendingBooking(b, s, t) ==
    /\ status[b] = "none"
    /\ status' = Assign(status, {b}, "pending_payment")
    /\ stay' = Assign(stay, {b}, s)
    /\ expires' = Assign(expires, {b}, t + TTL)

\* ConfirmPendingBooking in a transaction that started at time t.
ConfirmPendingBooking(b, t) ==
    /\ status[b] = "pending_payment"
    /\ expires[b] > t
    /\ status' = Assign(status, {b}, "confirmed")
    /\ UNCHANGED <<stay, expires>>

ExpirePendingBooking(S) ==
    /\ \A b \in S : status[b] = "pending_payment"
    /\ status' = Assign(status, S, "cancelled")
    /\ UNCHANGED <<stay, expires>>

\* CancelBooking and CancelBookingForAdmin, which differ in whose booking
\* they accept.
CancelConfirmedBooking(b) ==
    /\ status[b] = "confirmed"
    /\ status' = Assign(status, {b}, "cancelled")
    /\ UNCHANGED <<stay, expires>>

CreateBookingStatusHistory(S, from, to) ==
    history' = [b \in Bookings |-> IF b \in S THEN Append(history[b], <<from, to>>)
                                              ELSE history[b]]

\* Mutant of CompleteBookings: no history row.
CompleteWithoutHistory(today) ==
    LET past == {b \in Bookings : status[b] = "confirmed" /\ stay[b].out <= today}
    IN  /\ past # {}
        /\ status' = Assign(status, past, "completed")
        /\ UNCHANGED <<history, stay, expires>>

\* The UPDATE and the INSERT of history are one statement.
CompleteBookings(today) ==
    LET past == {b \in Bookings : status[b] = "confirmed" /\ stay[b].out <= today}
    IN  /\ past # {}
        /\ status' = Assign(status, past, "completed")
        /\ CreateBookingStatusHistory(past, "confirmed", "completed")
        /\ UNCHANGED <<stay, expires>>

\* Mutant of ClaimBookingIdempotencyKey: a key is free again after a
\* cancellation.
ClaimCancelledKey(k) == \A r \in keys : r.key = k => status[r.booking] = "cancelled"

\* Inserts the key's row, unless there is one.
ClaimBookingIdempotencyKey(k) == \A r \in keys : r.key # k

AttachBookingToIdempotencyKey(k, s, b) ==
    keys' = keys \cup {[key |-> k, hash |-> s, booking |-> b]}

-----------------------------------------------------------------------------
\* payments

CreatePaymentForBooking(b) ==
    /\ pay[b] = "none"
    /\ pay' = Assign(pay, {b}, "pending")
    /\ UNCHANGED <<pid, failure>>

SetPaymentProviderID(b) ==
    /\ pay[b] = "pending" /\ b \notin pid
    /\ pid' = pid \cup {b}
    /\ UNCHANGED <<pay, failure>>

RecordPaymentFailure(b) ==
    /\ pay[b] = "pending"
    /\ failure' = Assign(failure, {b}, "declined")
    /\ UNCHANGED <<pay, pid>>

MarkPaymentSucceeded(b) ==
    /\ pay[b] = "pending"
    /\ pay' = Assign(pay, {b}, "succeeded")
    /\ failure' = Assign(failure, {b}, "none")
    /\ UNCHANGED pid

\* Mutant of MarkPaymentExpired: the booking is cancelled, its payment kept.
KeepPaymentPending(S) == UNCHANGED paymentVars

MarkPaymentExpired(S) ==
    /\ \A b \in S : pay[b] = "pending"
    /\ pay' = Assign(pay, S, "expired")
    /\ UNCHANGED <<pid, failure>>

MarkPaymentRefundPending(b) ==
    /\ pay[b] = "succeeded"
    /\ pay' = Assign(pay, {b}, "refund_pending")
    /\ UNCHANGED <<pid, failure>>

\* Mutant of MarkExpiredPaymentRefundPending: failure_code is not cleared.
KeepFailureOnRefund(b) ==
    /\ pay[b] = "expired"
    /\ pay' = Assign(pay, {b}, "refund_pending")
    /\ UNCHANGED <<pid, failure>>

MarkExpiredPaymentRefundPending(b) ==
    /\ pay[b] = "expired"
    /\ pay' = Assign(pay, {b}, "refund_pending")
    /\ failure' = Assign(failure, {b}, "none")
    /\ UNCHANGED pid

SchedulePaymentRefundRetry(b) ==
    /\ pay[b] = "refund_pending"
    /\ failure' = Assign(failure, {b}, "refund_provider_error")
    /\ UNCHANGED <<pay, pid>>

RetryFailedPaymentRefundForAdmin(b) ==
    /\ pay[b] = "refund_pending" /\ failure[b] # "none"
    /\ failure' = Assign(failure, {b}, "none")
    /\ UNCHANGED <<pay, pid>>

-----------------------------------------------------------------------------
\* payment_webhook_events, email_outbox

ClaimPaymentWebhookEvent(e) ==
    /\ e \notin claimed
    /\ claimed' = claimed \cup {e}

\* ON CONFLICT DO NOTHING: a booking has one email of each type.
EnqueueBookingEmail(S, type) == outbox' = outbox \cup (S \X {type})

\* Mutant of MarkPaymentRefunded: a refund that failed once is left to the
\* admins.
MarkRefundedFirstTry(b) ==
    /\ pay[b] = "refund_pending" /\ failure[b] = "none"
    /\ pay' = Assign(pay, {b}, "refunded")
    /\ EnqueueBookingEmail({b}, "payment_refunded")
    /\ UNCHANGED <<pid, failure>>

\* One statement: the payment and the email it promises.
MarkPaymentRefunded(b) ==
    /\ pay[b] = "refund_pending"
    /\ pay' = Assign(pay, {b}, "refunded")
    /\ failure' = Assign(failure, {b}, "none")
    /\ EnqueueBookingEmail({b}, "payment_refunded")
    /\ UNCHANGED pid

=============================================================================
