---------------------------- MODULE PaymentService ----------------------------
(***************************************************************************)
(* internal/payments: what the payment handlers and the three payment      *)
(* workers do.  A database transaction, and a call of the provider, is one *)
(* action; a handler that goes from one to the other without holding a     *)
(* lock keeps what it read in between (inits, lookups), and anything may   *)
(* happen there.  Those two sets only grow: any number of requests with    *)
(* the same reading may be in flight, and one may take any time to go on.  *)
(***************************************************************************)
EXTENDS Store

CONSTANTS
    BatchSize,    \* bookings one expiration run may take
    MaxRequests,  \* bound: InitiatePayment readings in one behaviour
    MaxLookups    \* bound: bookings whose payment is ever reconciled

VARIABLES
    inits,        \* InitiatePayment calls: <<booking, provider id was set>>
    lookups       \* reconciliation passes that are about to ask the provider

flightVars == <<inits, lookups>>

ASSUME PaymentServiceAssumption ==
    BatchSize \in Nat \ {0} /\ MaxRequests \in Nat /\ MaxLookups \in Nat

PaymentServiceTypeOK ==
    /\ inits \subseteq Bookings \X BOOLEAN
    /\ lookups \subseteq Bookings

-----------------------------------------------------------------------------
\* InitiatePayment

\* GetInitiatablePaymentForUser, without a lock, and the provider's charge.
BeginInitiatePayment(b) ==
    /\ status[b] = "pending_payment" /\ pay[b] = "pending"
    /\ \E t \in TxTimes : expires[b] > t
    /\ CreatePayment(b)
    /\ inits' = inits \cup {<<b, b \in pid>>}
    /\ Cardinality(inits') <= MaxRequests
    /\ UNCHANGED <<checkout, lookups, storeVars, inventoryVars, now>>

\* Mutant of FinishInitiatePayment: no reload when SetPaymentProviderID
\* matches no row.
FinishWithoutReload(b, known) ==
    /\ <<b, known>> \in inits
    /\ IF known \/ b \in pid \/ pay[b] # "pending" THEN UNCHANGED paymentVars
                                                  ELSE SetPaymentProviderID(b)
    /\ checkout' \in {checkout, checkout \cup {b}}
    /\ UNCHANGED <<charge, events, flightVars, inventoryVars, bookingVars,
                   history, keys, claimed, outbox, now>>

\* The guest gets the session if the charge's id was stored when the payment
\* was read, is stored now, or turns out to be stored already: the provider's
\* idempotency key makes it the same id.  The answer may be lost on its way.
FinishInitiatePayment(b, known) ==
    /\ <<b, known>> \in inits
    /\ IF known \/ b \in pid THEN UNCHANGED paymentVars
                             ELSE SetPaymentProviderID(b)
    /\ checkout' \in {checkout, checkout \cup {b}}
    /\ UNCHANGED <<charge, events, flightVars, inventoryVars, bookingVars,
                   history, keys, claimed, outbox, now>>

-----------------------------------------------------------------------------
\* ExpirationService

\* cancelPendingBookingAndPayment for each booking of S, in one transaction:
\* one booking that fails rolls back the others.
CancelPendingBookingAndPayment(S) ==
    /\ DecrementAvailability(S, stay)
    /\ ExpirePendingBooking(S)
    /\ MarkPaymentExpired(S)
    /\ CreateBookingStatusHistory(S, "pending_payment", "cancelled")
    /\ EnqueueBookingEmail(S, "booking_cancelled")
    /\ UNCHANGED keys

\* Mutant of ExpiredPendingBookings: only bookings whose guest went to pay.
ExpiredInitiatedBookings(t) ==
    {b \in pid : status[b] = "pending_payment" /\ expires[b] <= t}

\* ListExpiredPendingBookingsForUpdate in a transaction that started at t.
\* The batch is any set of them: SKIP LOCKED leaves out what others hold.
ExpiredPendingBookings(t) ==
    {b \in Bookings : status[b] = "pending_payment" /\ expires[b] <= t}

ExpirePendingPayments(S) ==
    /\ S # {} /\ Cardinality(S) <= BatchSize
    /\ \E t \in TxTimes : S \subseteq ExpiredPendingBookings(t)
    /\ CancelPendingBookingAndPayment(S)
    /\ UNCHANGED <<claimed, providerVars, flightVars, now>>

-----------------------------------------------------------------------------
\* WebhookService.ProcessWebhook.  The claim of the event is in the same
\* transaction, so an error (a payment without this provider id, a success
\* that cannot be applied yet) takes it back and the event can come again.

\* Mutant of NothingToApply: an expired payment counts as processed.
NothingToApplyAfterExpiry(e) ==
    \/ e.type = "payment.created"
    \/ e.of \in pid /\ pay[e.of] # "pending"

\* What is not about the payment, and what comes when the payment has moved
\* on: the claim is committed and nothing else.
NothingToApply(e) ==
    \/ e.type = "payment.created"
    \/ /\ e.of \in pid
       /\ \/ e.type \in {"payment.canceled", "payment.failed"} /\ pay[e.of] # "pending"
          \/ /\ e.type = "payment.succeeded"
             /\ pay[e.of] \in {"succeeded", "refund_pending", "refunded"}

SkipWebhook(e) ==
    /\ NothingToApply(e)
    /\ UNCHANGED <<bookingVars, history, keys, paymentVars, outbox, inventoryVars>>

\* GetPaymentByProviderID finds a payment only by its stored provider id.
PaymentCanceled(e) ==
    /\ e.type = "payment.canceled" /\ e.of \in pid
    /\ pay[e.of] = "pending"
    /\ CancelPendingBookingAndPayment({e.of})

PaymentFailed(e) ==
    /\ e.type = "payment.failed" /\ e.of \in pid
    /\ RecordPaymentFailure(e.of)
    /\ UNCHANGED <<bookingVars, history, keys, outbox, inventoryVars>>

\* Mutant of PaymentSucceeded: whatever is not a failure confirms.
ConfirmUnlessFailed(e) ==
    /\ e.type # "payment.failed" /\ e.of \in pid
    /\ \E t \in TxTimes : ConfirmPendingBooking(e.of, t)
    /\ MarkPaymentSucceeded(e.of)
    /\ CreateBookingStatusHistory({e.of}, "pending_payment", "confirmed")
    /\ UNCHANGED <<keys, outbox, inventoryVars>>

\* The money came in time: one transaction confirms booking and payment.
PaymentSucceeded(e) ==
    /\ e.type = "payment.succeeded" /\ e.of \in pid
    /\ \E t \in TxTimes : ConfirmPendingBooking(e.of, t)
    /\ MarkPaymentSucceeded(e.of)
    /\ CreateBookingStatusHistory({e.of}, "pending_payment", "confirmed")
    /\ UNCHANGED <<keys, outbox, inventoryVars>>

\* The money came after the booking was given up: it is due for refund.
LatePaymentSucceeded(e) ==
    /\ e.type = "payment.succeeded" /\ e.of \in pid
    /\ status[e.of] = "cancelled"
    /\ MarkExpiredPaymentRefundPending(e.of)
    /\ UNCHANGED <<bookingVars, history, keys, outbox, inventoryVars>>

ProcessWebhook(e) ==
    /\ e \in events
    /\ ClaimPaymentWebhookEvent(e)
    /\ \/ SkipWebhook(e)
       \/ PaymentCanceled(e)
       \/ PaymentFailed(e)
       \/ PaymentSucceeded(e)
       \/ LatePaymentSucceeded(e)
    /\ UNCHANGED <<providerVars, flightVars, now>>

-----------------------------------------------------------------------------
\* ReconciliationService

\* ListPaymentsForReconciliation and TouchPendingPaymentReconciliation.
BeginReconcile(b) ==
    /\ pay[b] = "pending" /\ b \in pid
    /\ lookups' = lookups \cup {b}
    /\ Cardinality(lookups') <= MaxLookups
    /\ UNCHANGED <<inits, providerVars, storeVars, inventoryVars, now>>

\* LookupPayment and reconciliationEvent; the event goes to ProcessWebhook.
FinishReconcile(b) ==
    /\ b \in lookups
    /\ LookupEvents(b) # {}
    /\ events' = events \cup LookupEvents(b)
    /\ UNCHANGED <<charge, checkout, flightVars, storeVars, inventoryVars, now>>

-----------------------------------------------------------------------------
\* RefundService.  Any worker may take a payment that is due: the lease that
\* keeps them apart in time is not modelled here.

UnchangedByRefund == <<bookingVars, history, keys, claimed, inventoryVars, flightVars, now>>

\* refundPayment: the provider refunds, then the payment is marked.
RefundPayment(b) ==
    /\ b \in pid
    /\ Refund(b)
    /\ MarkPaymentRefunded(b)
    /\ UNCHANGED UnchangedByRefund

\* Mutant of RefundInterrupted: the email is enqueued before the mark.
EmailBeforeMark(b) ==
    /\ pay[b] = "refund_pending" /\ b \in pid
    /\ Refund(b)
    /\ EnqueueBookingEmail({b}, "payment_refunded")
    /\ UNCHANGED <<paymentVars, UnchangedByRefund>>

\* The worker stops, or loses its lease, between the two.
RefundInterrupted(b) ==
    /\ pay[b] = "refund_pending" /\ b \in pid
    /\ Refund(b)
    /\ UNCHANGED <<paymentVars, outbox, UnchangedByRefund>>

\* recordFailure: no provider id, or the provider's answer is an error,
\* which it may be after a refund too (a timeout).
RefundFailed(b) ==
    /\ \/ b \in pid /\ Refund(b)
       \/ UNCHANGED providerVars
    /\ SchedulePaymentRefundRetry(b)
    /\ UNCHANGED <<outbox, UnchangedByRefund>>

\* An admin retries a refund whose last attempt failed.
RetryPaymentRefund(b) ==
    /\ RetryFailedPaymentRefundForAdmin(b)
    /\ UNCHANGED <<outbox, providerVars, UnchangedByRefund>>

=============================================================================
