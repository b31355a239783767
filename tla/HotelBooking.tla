----------------------------- MODULE HotelBooking -----------------------------
(***************************************************************************)
(* The booking core of the program: the API's booking, payment and admin   *)
(* handlers and its background workers (expiration, reconciliation, refund,*)
(* completion), which share the database, with the payment provider and    *)
(* the guest around them.                                                  *)
(***************************************************************************)
EXTENDS BookingService, PaymentService

CONSTANTS
    LegacyStay,    \* the stay of every legacy booking
    InitialRooms,  \* total_rooms at the start
    NewTotals,     \* the totals an admin may ask for
    BlockCounts    \* the numbers of rooms an admin may block

vars == <<now, inventoryVars, storeVars, flightVars, providerVars>>

ASSUME HotelBookingAssumption ==
    /\ LegacyStay \in Stays
    /\ InitialRooms \in Nat
    /\ NewTotals \subseteq Nat /\ BlockCounts \subseteq Nat

\* The bookings that take rooms: the code gives them back on cancellation
\* only, a completed stay keeps the count of its past nights.
Live == {b \in Bookings : status[b] \in {"pending_payment", "confirmed", "completed"}}

TypeOK ==
    /\ InventoryTypeOK
    /\ ProviderTypeOK
    /\ StoreTypeOK
    /\ PaymentServiceTypeOK

\* A hotel with legacy bookings that fit, and no payment yet.
Init ==
    /\ now = 0
    /\ total = InitialRooms /\ active = TRUE
    /\ stay = [b \in Bookings |-> LegacyStay]
    /\ booked = [d \in Dates |-> RoomsTaken(Legacy, stay, d)]
    /\ blocked = [d \in Dates |-> 0]
    /\ \A d \in Dates : booked[d] <= total
    /\ status = [b \in Bookings |-> IF b \in Legacy THEN "confirmed" ELSE "none"]
    /\ history = [b \in Bookings |-> IF b \in Legacy THEN << <<"none", "confirmed">> >>
                                                     ELSE << >>]
    /\ expires = [b \in Bookings |-> 0]
    /\ pay = [b \in Bookings |-> "none"]
    /\ failure = [b \in Bookings |-> "none"]
    /\ pid = {} /\ keys = {} /\ claimed = {} /\ outbox = {}
    /\ inits = {} /\ lookups = {}
    /\ ProviderInit

-----------------------------------------------------------------------------

Tick ==
    /\ now < MaxTime
    /\ now' = now + 1
    /\ UNCHANGED <<inventoryVars, storeVars, flightVars, providerVars>>

\* The admin handlers of internal/inventory, internal/roomtype, internal/hotel.
AdminInventory ==
    /\ \/ \E from, last \in Dates, n \in BlockCounts, today \in LocalDates :
              SetBlockedInventory(from, last + 1, n, today)
       \/ \E n \in NewTotals : UpdateRoomType(n)
       \/ NewTotals # {} /\ Deactivate
    /\ UNCHANGED <<storeVars, flightVars, providerVars, now>>

\* The guest at the provider's checkout, and the provider itself.
ProviderStep(b) ==
    /\ Pay(b) \/ Decline(b) \/ Cancel(b)
    /\ UNCHANGED <<storeVars, inventoryVars, flightVars, now>>

BookingStep(b) ==
    /\ \/ \E k \in Keys, s \in Stays : CreateBooking(b, k, s)
       \/ CancelBooking(b)
    /\ UNCHANGED flightVars

Complete == CompletePastBookings /\ UNCHANGED flightVars

PaymentStep(b) ==
    \/ BeginInitiatePayment(b)
    \/ \E known \in BOOLEAN : FinishInitiatePayment(b, known)
    \/ BeginReconcile(b)
    \/ FinishReconcile(b)
    \/ RefundPayment(b)
    \/ RefundInterrupted(b)
    \/ RefundFailed(b)
    \/ RetryPaymentRefund(b)

Expire == \E S \in SUBSET Bookings : ExpirePendingPayments(S)

Next ==
    \/ Tick
    \/ AdminInventory
    \/ Complete
    \/ Expire
    \/ \E e \in events : ProcessWebhook(e)
    \/ \E b \in Bookings : BookingStep(b) \/ PaymentStep(b) \/ ProviderStep(b)

Spec == Init /\ [][Next]_vars

-----------------------------------------------------------------------------
\* Safety

\* The counter of a night is the rooms of the bookings that stay then: no
\* interleaving of creation, cancellation, expiration, provider cancellation
\* and completion adds or gives back rooms twice or not at all.
InventoryConserved == \A d \in Dates : booked[d] = RoomsTaken(Live, stay, d)

\* No night is sold or blocked beyond the hotel's rooms, whatever the guests
\* and the admins (who change the total and the blocks) do at the same time.
NeverOversold == \A d \in Dates : booked[d] + blocked[d] <= total

\* The two rows of a booking agree.  The workers and cancelBooking treat a
\* disagreement as "invariant violated" and would stop making progress.
BookingPaymentAgree ==
    \A b \in Bookings :
        /\ status[b] = "none" => pay[b] = "none"
        /\ status[b] = "pending_payment" => pay[b] = "pending"
        /\ status[b] \in {"confirmed", "completed"} =>
              pay[b] = IF b \in Legacy THEN "none" ELSE "succeeded"
        /\ status[b] = "cancelled" =>
              pay[b] \in IF b \in Legacy THEN {"none"}
                         ELSE {"expired", "refund_pending", "refunded"}

\* The constants that the transactions write to booking_status_history form
\* a chain that ends in the booking's status.
HistoryTellsStatus ==
    \A b \in Bookings :
        LET h == history[b]
            from(i) == IF i = 1 THEN "none" ELSE h[i - 1][2]
        IN  /\ \A i \in DOMAIN h : h[i][1] = from(i)
            /\ status[b] = IF h = << >> THEN "none" ELSE h[Len(h)][2]

\* A key answers with one booking, made for the very request the key came
\* with, and a booking has one key: a client's retries never book twice.
KeysNameOneBooking ==
    /\ \A r, q \in keys : (r.key = q.key \/ r.booking = q.booking) => r = q
    /\ \A r \in keys : stay[r.booking] = r.hash
    /\ {r.booking : r \in keys} = {b \in Bookings \ Legacy : status[b] # "none"}

\* A booking is confirmed for money the provider has, and money goes back
\* only for a cancelled booking.
ConfirmedIsPaid ==
    \A b \in Bookings \ Legacy :
        /\ status[b] \in {"confirmed", "completed"} => charge[b] = "captured"
        /\ charge[b] = "refunded" => status[b] = "cancelled"

\* A guest can pay only a charge whose id the database knows, so that every
\* event of a paid charge finds its payment; InitiatePayment talks to the
\* provider without a lock while the booking may expire.
PaidChargeIsKnown ==
    /\ checkout \subseteq pid
    /\ \A b \in Bookings : charge[b] \in {"declined", "captured", "refunded"} => b \in pid

\* An event is claimed for good only when its effect is in the database: a
\* success that was answered with an error leaves no claim behind.
ClaimedSuccessApplied ==
    \A e \in claimed : e.type = "payment.succeeded" =>
        pay[e.of] \in {"succeeded", "refund_pending", "refunded"}

\* failure_code belongs to the payment's present state: no decline survives
\* a capture, so an admin who lists failed refunds sees refunds only.
FailureFitsPayment ==
    \A b \in Bookings :
        failure[b] \in CASE pay[b] \in {"pending", "expired"} -> {"none", "declined"}
                          [] pay[b] = "refund_pending" -> {"none", "refund_provider_error"}
                          [] OTHER -> {"none"}

\* A guest is told of a cancellation and of a refund, when and only when it
\* is so: the emails are enqueued by the transactions that make it so.
EmailsTellTheState ==
    \A b \in Bookings :
        /\ <<b, "booking_cancelled">> \in outbox <=> status[b] = "cancelled"
        /\ <<b, "payment_refunded">> \in outbox <=> pay[b] = "refunded"

\* The tests of the webhook service expect the confirmation email too.
ConfirmedHasEmail ==
    \A b \in Bookings \ Legacy :
        status[b] = "confirmed" => <<b, "booking_confirmed">> \in outbox

-----------------------------------------------------------------------------
\* Refinement: the core implements the contract.

Stage == [b \in Bookings |->
    CASE status[b] = "none"            -> "none"
      [] status[b] = "pending_payment" -> "held"
      [] status[b] = "confirmed"       -> "booked"
      [] status[b] = "completed"       -> "stayed"
      [] status[b] = "cancelled"       -> "released"]

Money == [b \in Bookings |->
    CASE charge[b] = "captured" -> "captured"
      [] charge[b] = "refunded" -> "returned"
      [] OTHER                  -> "unpaid"]

Contract == INSTANCE StayContract WITH
    Guests <- Bookings, stage <- Stage, wants <- stay, money <- Money,
    rooms <- total, withheld <- blocked

\* Every step of the tables, the workers and the provider is a step of the
\* contract or changes nothing it speaks of.
ImplementsContract == Contract!Spec

-----------------------------------------------------------------------------
\* Liveness

\* Time passes; the expiration worker runs on every tick of its timer; the
\* provider repeats its events until ProcessWebhook accepts them (the worker
\* that makes a reconciliation event hands it over once, so it gets no
\* fairness); the refund worker retries without a limit and is answered
\* sooner or later.
Fairness ==
    /\ WF_vars(Tick)
    /\ WF_vars(Expire)
    /\ \A e \in Event : e.source = "provider" => WF_vars(ProcessWebhook(e))
    /\ \A b \in Bookings : WF_vars(RefundPayment(b))

FairSpec == Spec /\ Fairness

\* Rooms held for a payment are sold or given back.
HoldsEnd ==
    \A b \in Bookings : status[b] = "pending_payment" ~> status[b] # "pending_payment"

\* Money taken for a booking that is cancelled, before or after the money
\* came, goes back to the guest, and the database says so.
MoneyComesBack ==
    \A b \in Bookings :
        charge[b] = "captured" /\ status[b] = "cancelled"
            ~> charge[b] = "refunded" /\ pay[b] = "refunded"

\* A guest who paid has a confirmed booking or the money back.
PaidIsSettled ==
    \A b \in Bookings :
        charge[b] = "captured"
            ~> status[b] \in {"confirmed", "completed"} \/ charge[b] = "refunded"

=============================================================================
