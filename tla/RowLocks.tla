-------------------------------- MODULE RowLocks --------------------------------
(***************************************************************************)
(* The row locks of the transactions that move bookings, payments and      *)
(* availability of one room type.  A transaction asks for one row after    *)
(* another, waits while another one holds it in a conflicting mode, shows  *)
(* what it has written with its commit, and then releases everything.      *)
(* PostgreSQL rolls back one of those that wait in a circle.               *)
(*                                                                         *)
(* What the transactions decide is in the other modules; here are the rows *)
(* they want, in which order, and on which status that depends.            *)
(***************************************************************************)
EXTENDS Integers, Sequences, FiniteSets, SequencesExt

CONSTANTS
    Procs,       \* transactions under way at one time
    Bookings,    \* bookings that can be made: a bound
    Nights,      \* nights of the room type
    Stay,        \* first and last night of each booking
    BatchSize,   \* of ExpirationService
    None         \* no booking

VARIABLES
    status,      \* bookings.status
    payment,     \* payments.status
    rows,        \* nights with a committed room_type_availability row
    held,        \* locks of each transaction
    op           \* what each transaction does, and the rows it still wants

vars == <<status, payment, rows, held, op>>

ASSUME RowLocksAssumption ==
    /\ IsFiniteSet(Procs) /\ IsFiniteSet(Bookings) /\ None \notin Bookings
    /\ Nights \subseteq Nat /\ BatchSize \in Nat \ {0}
    /\ \A b \in Bookings : Stay[b] \in Nights \X Nights /\ Stay[b][1] <= Stay[b][2]

Idle == [kind |-> "idle", stage |-> "done", about |-> {}, wants |-> <<>>]

Init ==
    /\ status = [b \in Bookings |-> "none"] /\ payment = [b \in Bookings |-> "none"]
    /\ rows = {}
    /\ held = [p \in Procs |-> {}]
    /\ op = [p \in Procs |-> Idle]

-----------------------------------------------------------------------------
\* Locks.

\* mode: "insert", "update", "nokeyupdate", "share" or "keyshare".
Lock(row, of, mode) == [row |-> row, of |-> of, mode |-> mode]

\* FOR UPDATE and an uncommitted insert exclude everybody; the UPDATE of
\* columns that are no key lets in FOR KEY SHARE only.
Conflict(x, y) ==
    /\ x.row = y.row /\ x.of = y.of
    /\ \/ {x.mode, y.mode} \cap {"update", "insert"} # {}
       \/ "nokeyupdate" \in {x.mode, y.mode} /\ "keyshare" \notin {x.mode, y.mode}

\* INSERT ... ON CONFLICT DO NOTHING passes over a row that is there.
Passed(x) == x.mode = "insert" /\ x.of \in rows

Blocks(q, x) == ~Passed(x) /\ \E y \in held[q] : Conflict(x, y)

Waits(p, q) == p # q /\ op[p].wants # <<>> /\ Blocks(q, Head(op[p].wants))

\* Sets of transactions in P that wait for each other.
Circles(P) == {C \in (SUBSET P) \ {{}} : \A p \in C : \E q \in C : Waits(p, q)}

\* ORDER BY date.
NightsOf(s) == [i \in 1..(s[2] - s[1] + 1) |-> s[1] + i - 1]

LockAvailabilityRows(s) == [i \in 1..Len(NightsOf(s)) |-> Lock("night", NightsOf(s)[i], "update")]

EnsureAvailabilityRows(s) ==
    [i \in 1..Len(NightsOf(s)) |-> Lock("night", NightsOf(s)[i], "insert")]

LockBooking(b) == <<Lock("booking", b, "update")>>
LockPayment(b) == <<Lock("payment", b, "update")>>

\* CreateBooking and SetBlockedInventory: GetRoomTypeForBooking FOR SHARE, and the nights.
LockStay(s) == <<Lock("type", None, "share")>>
                   \o EnsureAvailabilityRows(s) \o LockAvailabilityRows(s)

-----------------------------------------------------------------------------

Begin(p, kind, about, wants) ==
    /\ op[p] = Idle
    /\ op' = [op EXCEPT ![p] = [kind |-> kind, stage |-> "first", about |-> about,
                                wants |-> wants]]
    /\ UNCHANGED <<status, payment, rows, held>>

GoOn(p, wants) ==
    /\ op' = [op EXCEPT ![p].stage = "second", ![p].wants = wants]
    /\ UNCHANGED <<status, payment, rows, held>>

Finish(p) == op' = [op EXCEPT ![p] = Idle] /\ held' = [held EXCEPT ![p] = {}]

\* p has the rows it asked for, at this stage of a transaction of these kinds.
Has(p, kinds, stage) == op[p].kind \in kinds /\ op[p].stage = stage /\ op[p].wants = <<>>

\* The booking of a transaction that is about one.
It(p) == CHOOSE b \in Bookings : b \in op[p].about

Acquire(p) ==
    /\ op[p].wants # <<>>
    /\ LET x == Head(op[p].wants)
       IN  /\ \A q \in Procs \ {p} : ~Blocks(q, x)
           /\ held' = [held EXCEPT ![p] = IF Passed(x) THEN @ ELSE @ \cup {x}]
    /\ op' = [op EXCEPT ![p].wants = Tail(@)]
    /\ UNCHANGED <<status, payment, rows>>

\* The transaction is rolled back: an error, a refusal, a lost connection, or
\* the victim of a deadlock.
Abort(p) ==
    /\ op[p] # Idle
    /\ Finish(p)
    /\ UNCHANGED <<status, payment, rows>>

CreateBooking(p, b) ==
    /\ status[b] = "none" /\ \A q \in Procs : b \notin op[q].about
    /\ Begin(p, "create", {b}, LockStay(Stay[b]))

CreatePendingBooking(p) ==
    /\ Has(p, {"create"}, "first")
    /\ status' = [status EXCEPT ![It(p)] = "pending"]
    /\ payment' = [payment EXCEPT ![It(p)] = "pending"]
    /\ rows' = rows \cup Range(NightsOf(Stay[It(p)]))
    /\ Finish(p)

\* SetBlockedInventory of a range of nights.
SetBlockedInventory(p, from, to) == Begin(p, "block", {}, LockStay(<<from, to>>))

InventorySet(p) ==
    /\ Has(p, {"block"}, "first")
    /\ rows' = rows \cup {x.of : x \in {y \in held[p] : y.row = "night"}}
    /\ Finish(p) /\ UNCHANGED <<status, payment>>

\* GetRoomTypeForUpdate
UpdateRoomType(p) == Begin(p, "update", {}, <<Lock("type", None, "update")>>)

RoomTypeUpdated(p) ==
    /\ Has(p, {"update"}, "first")
    /\ Finish(p) /\ UNCHANGED <<status, payment, rows>>

-----------------------------------------------------------------------------
\* Booking, then payment, then nights.

CancelBooking(p, b) == status[b] # "none" /\ Begin(p, "cancel", {b}, LockBooking(b))

\* Mutant of CancelConfirmed: no LockAvailabilityRows, so that the UPDATE of
\* the counters takes them in any order.
CancelUnlocked(p) ==
    /\ Has(p, {"cancel"}, "first") /\ status[It(p)] = "confirmed"
    /\ \E nights \in SetToSeqs(Range(LockAvailabilityRows(Stay[It(p)]))) :
          GoOn(p, LockPayment(It(p)) \o nights)

\* Another status, or too late: the rollback is Abort.
CancelConfirmed(p) ==
    /\ Has(p, {"cancel"}, "first") /\ status[It(p)] = "confirmed"
    /\ GoOn(p, LockPayment(It(p)) \o LockAvailabilityRows(Stay[It(p)]))

BookingCancelled(p) ==
    /\ Has(p, {"cancel"}, "second")
    /\ status' = [status EXCEPT ![It(p)] = "cancelled"]
    /\ payment' = [payment EXCEPT ![It(p)] = "refund_pending"]
    /\ Finish(p) /\ UNCHANGED rows

\* Mutant of ProcessWebhook: the payment is locked when it is found.
WebhookPaymentFirst(p, b, event) ==
    /\ status[b] # "none"
    /\ Begin(p, event, {b}, LockPayment(b) \o LockBooking(b))

ProcessWebhook(p, b, event) ==
    /\ status[b] # "none"
    /\ Begin(p, event, {b}, LockBooking(b) \o LockPayment(b))

WebhookCanceled(p) ==
    /\ Has(p, {"canceled"}, "first") /\ payment[It(p)] = "pending"
    /\ GoOn(p, LockAvailabilityRows(Stay[It(p)]))

\* What the transaction has no more to do with, it commits without a change.
WebhookRepeated(p) ==
    /\ Has(p, {"succeeded", "canceled", "failed"}, "first")
    /\ \/ payment[It(p)] # "pending" /\ op[p].kind # "succeeded"
       \/ payment[It(p)] \in {"succeeded", "refund_pending", "refunded"}
    /\ Finish(p) /\ UNCHANGED <<status, payment, rows>>

\* RecordPaymentFailure
WebhookFailed(p) ==
    /\ Has(p, {"failed"}, "first") /\ payment[It(p)] = "pending"
    /\ Finish(p) /\ UNCHANGED <<status, payment, rows>>

WebhookSucceeded(p) ==
    /\ Has(p, {"succeeded"}, "first")
    /\ \/ /\ payment[It(p)] = "pending"
          /\ status' = [status EXCEPT ![It(p)] = "confirmed"]
          /\ payment' = [payment EXCEPT ![It(p)] = "succeeded"]
       \/ /\ payment[It(p)] = "expired"
          /\ payment' = [payment EXCEPT ![It(p)] = "refund_pending"]
          /\ UNCHANGED status
    /\ Finish(p) /\ UNCHANGED rows

\* ListExpiredPendingBookingsForUpdate: SKIP LOCKED, so the list never waits.
\* Which of the pending bookings have fallen due is open.
ExpirePendingPayments(p) ==
    LET free == {b \in Bookings : /\ status[b] = "pending"
                                  /\ \A q \in Procs : ~Blocks(q, Lock("booking", b, "update"))}
    IN  /\ op[p] = Idle
        /\ \E batch \in (SUBSET free) \ {{}} :
              /\ Cardinality(batch) <= BatchSize
              /\ held' = [held EXCEPT ![p] = {Lock("booking", b, "update") : b \in batch}]
              /\ op' = [op EXCEPT ![p] = [kind |-> "expire", stage |-> "second",
                                         about |-> batch, wants |-> <<>>]]
        /\ UNCHANGED <<status, payment, rows>>

\* The next booking of the batch, in any order of them.
ExpirePendingPayment(p) ==
    /\ Has(p, {"expire"}, "second")
    /\ \E b \in op[p].about :
          /\ Lock("payment", b, "update") \notin held[p]
          /\ GoOn(p, LockPayment(b) \o LockAvailabilityRows(Stay[b]))

\* cancelPendingBookingAndPayment, of the provider or of each of a batch.
PendingCancelled(p) ==
    LET B == op[p].about
    IN  /\ Has(p, {"canceled", "expire"}, "second")
        /\ \A b \in B : Lock("payment", b, "update") \in held[p]
        /\ status' = [b \in Bookings |-> IF b \in B THEN "cancelled" ELSE status[b]]
        /\ payment' = [b \in Bookings |-> IF b \in B THEN "expired" ELSE payment[b]]
        /\ Finish(p) /\ UNCHANGED rows

\* Payment, and then its booking: the email refers to it.  The lease lets in
\* one refund of a payment at a time.
MarkPaymentRefunded(p, b) ==
    /\ payment[b] = "refund_pending"
    /\ \A q \in Procs : op[q].kind = "refund" => b \notin op[q].about
    /\ Begin(p, "refund", {b}, <<Lock("payment", b, "nokeyupdate"),
                                 Lock("booking", b, "keyshare")>>)

PaymentRefunded(p) ==
    /\ Has(p, {"refund"}, "first")
    /\ payment' = [payment EXCEPT ![It(p)] = "refunded"]
    /\ Finish(p) /\ UNCHANGED <<status, rows>>

\* The UPDATE of CompletePastBookings locks what its snapshot shows, in no
\* order, and leaves out what is no longer confirmed.  Nothing keeps the
\* workers of two API processes from completing at the same time.
CompletePastBookings(p) ==
    \E past \in SUBSET {b \in Bookings : status[b] = "confirmed"} : \E s \in SetToSeqs(past) :
       /\ past # {}
       /\ Begin(p, "complete", past, [i \in 1..Len(s) |-> Lock("booking", s[i], "nokeyupdate")])

BookingsCompleted(p) ==
    /\ Has(p, {"complete"}, "first")
    /\ status' = [b \in Bookings |->
                     IF b \in op[p].about /\ status[b] = "confirmed"
                     THEN "completed" ELSE status[b]]
    /\ Finish(p) /\ UNCHANGED <<payment, rows>>

GoesOn(p) ==
    \/ CreatePendingBooking(p) \/ InventorySet(p) \/ RoomTypeUpdated(p)
    \/ CancelConfirmed(p) \/ BookingCancelled(p)
    \/ WebhookCanceled(p) \/ WebhookRepeated(p) \/ WebhookFailed(p) \/ WebhookSucceeded(p)
    \/ ExpirePendingPayment(p) \/ PendingCancelled(p) \/ PaymentRefunded(p) \/ BookingsCompleted(p)

Next ==
    \/ \E p \in Procs :
          \/ \E b \in Bookings : \/ CreateBooking(p, b) \/ CancelBooking(p, b)
                                 \/ \E e \in {"succeeded", "canceled", "failed"} :
                                       ProcessWebhook(p, b, e)
                                 \/ MarkPaymentRefunded(p, b)
          \/ \E i, j \in Nights : i <= j /\ SetBlockedInventory(p, i, j)
          \/ UpdateRoomType(p) \/ ExpirePendingPayments(p) \/ CompletePastBookings(p)
          \/ Acquire(p) \/ GoesOn(p) \/ Abort(p)

Spec == Init /\ [][Next]_vars

-----------------------------------------------------------------------------

\* Whoever waits in a circle waits with an expiration batch of several
\* bookings, with the statement that marks a payment refunded, or with two
\* completions, which lock their bookings in no order: bookings,
\* cancellations, events, blocks and a completion never deadlock each other.
OnlyUnorderedLocksDeadlock ==
    \A C \in Circles({p \in Procs : /\ op[p].kind # "refund"
                                    /\ op[p].kind = "expire" => Cardinality(op[p].about) = 1}) :
        \E p, q \in C : p # q /\ op[p].kind = "complete" /\ op[q].kind = "complete"

\* No two transactions have locks on one row that exclude each other,
\* whatever they insert, lock, skip and pass over; whoever is done has none.
LocksExclude ==
    /\ \A p, q \in Procs : \A x \in held[p], y \in held[q] : p # q => ~Conflict(x, y)
    /\ \A p \in Procs : op[p] = Idle => held[p] = {}

\* "Keeping one order prevents a success webhook and the expiration worker
\* from deadlocking": with one expiration batch at a time they never do.
SuccessAndExpirationNeverDeadlock ==
    \A p \in Procs :
       op[p].kind = "expire" =>
          Circles({p} \cup {q \in Procs : op[q].kind = "succeeded"}) = {}

\* "All booking/payment transitions lock in this order", the booking and then
\* its payment: none has a payment and waits for its booking.
BookingsBeforePayments ==
    \A p \in Procs : op[p].wants # <<>> =>
       LET x == Head(op[p].wants)
       IN  x.row = "booking" => \A y \in held[p] : ~(y.row = "payment" /\ y.of = x.of)

=============================================================================
