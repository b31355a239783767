# Ryoko in TLA+

Ryoko is a hotel booking back end in Go over PostgreSQL: an HTTP API, and in
the same process a set of timed background workers. A guest logs in, books rooms,
pays through a payment provider (Stripe or a fake gateway), may cancel, and
stays; workers expire unpaid bookings, reconcile payments with the provider,
refund, complete past stays and send email. Almost every rule that matters is a
sentence about several tables at once, and almost every table is written by
several actors at once. This directory models that core and what surrounds it -
refunds, the email outbox, sessions, password reset, login with Google, the row
locks of the transactions, the rate limiter and the end of the process - checks
it with TLC and proves the most important invariants with TLAPS.

    tlc -workers 4 -config inventory.cfg MCHotelBooking
    tlapm HotelBookingProofs.tla

## 1. The system

### Components, their state, their operations

| component | state | operations that change it |
|---|---|---|
| booking service (`internal/booking/service.go`) | `bookings`, `booking_idempotency_keys`, `booking_status_history` | CreateBooking, CancelBooking and CancelBookingForAdmin (both `cancelBooking`), CompletePastBookings |
| inventory (`internal/inventory`, `internal/roomtype`, `internal/hotel`) | `room_type_availability` (rooms_booked, rooms_blocked per night), `room_types.total_rooms`, `is_active` | SetBlockedInventory, UpdateRoomType, DeactivateRoomType, DeactivateHotel |
| payment service (`internal/payments/service.go`) | `payments.provider_payment_id` | InitiatePayment |
| expiration service and worker | `payments`, `bookings`, counters, history, outbox | ExpirePendingPayments |
| webhook service and handler | `payment_webhook_events` and all of the above | ProcessWebhook |
| reconciliation service and worker | `payments.last_reconciled_at` | ReconcilePendingPayments |
| refund service and worker, payment admin service | `payments` (failure, lease, attempts), `payment_refund_attempts`, outbox | ProcessPendingRefunds, RetryFailedRefund |
| payment gateways | the provider's charges and refunds | CreatePayment, LookupPayment, RefundPayment, VerifyWebhook |
| email outbox (`internal/notifications`) and mailer | `email_outbox` | Enqueue, ProcessPendingEmails, RetryFailedEmailOutbox, DeleteSentEmailOutboxBefore |
| sessions (`internal/session`) | `refresh_tokens` | login, rotate, reuse, logout, revoke all, cleanup |
| password reset (`internal/passwordreset`) | `password_reset_requests`, `users.password_hash` | request, verify, confirm, cleanup |
| OAuth login (`internal/oauth`) | `oauth_accounts`, `oauth_login_codes`, `users` | AuthenticateGoogle, CreateGoogleLoginCode, ExchangeLoginCode, cleanup |
| rate limiter (`internal/middleware`) | a table of buckets under a mutex | allow, cleanup |
| process (`cmd/api/main.go`) | goroutines, the connection pool | start, signal, drain, wait, close |
| reviews, hotel images, amenities | their rows | create, update, delete |
| other handlers, configuration, admin views | none | decoding, wiring, reads |

### How they interact

* **Through rows.** No two components share memory; they meet in the database.
  A transaction locks what it reads (`SELECT ... FOR UPDATE`, `FOR SHARE` of the
  hotel and the room type when rooms are sold) and rolls back on any error, and
  every UPDATE repeats in its WHERE clause the state it relies on.
* **Through the provider.** InitiatePayment, reconciliation and refund call the
  provider *without* an open transaction; what they read before may be stale
  after. The provider calls back with events, late, twice or out of order.
* **Through timers.** Each worker loops over its own ticker; expiration and
  completion compare timestamps with `now()`, which is the *start* of the
  transaction and so may lie before the moment its UPDATE runs.
* **Through the outbox.** A transaction that makes something true inserts the
  email that tells it; another worker sends it.

### What is hard, and what makes it correct

| behaviour | correct if |
|---|---|
| one counter per night, adjusted by five different transactions | it always equals the rooms of the bookings (`InventoryConserved`) |
| admins change total and blocks while guests book | no night is oversold (`NeverOversold`) |
| client retries of CreateBooking | one key, one booking, same request (`KeysNameOneBooking`) |
| booking, payment, history and outbox rows move together | `BookingPaymentAgree`, `HistoryTellsStatus`, `EmailsTellTheState` |
| a provider call between two reads | the guest can only pay a charge the database knows (`PaidChargeIsKnown`) |
| events duplicated, reordered, after expiry | `ClaimedSuccessApplied`, `ConfirmedIsPaid`, `FailureFitsPayment` |
| a worker stops between the provider's refund and the UPDATE | money goes back once and the database learns it (`MoneyComesBack`, the contract's `Return`) |
| rooms held by guests who never pay | every hold ends (`HoldsEnd`) |
| money taken too late | the guest is booked or refunded (`PaidIsSettled`) |
| three calls per refund, with crashes and stale statements between them | one worker at a time, true records, the atomic refund (`OneWorkerPerPayment`, `RefundIsTrue`, `RefundStepsAreAtomic`) |
| outcome statements of the outbox that do not check the lease | running workers kept apart, outcomes true, every copy too many has its fault (`OneSenderUnlessStruck`, `OutcomeIsTrue`, `DuplicatesNeedFaults`, `AttemptsBounded`, `EmailsEnd`) |
| a refresh token used twice at once, during a reset, or again after it was replaced | a login stays one session, a reset ends all, a reuse all that it finds (`OneSessionPerLogin`, `ResetEndsSessions`, `ReuseEndsSessions`) |
| a reset request read before the user is locked | used once, and only the newest (`OneResetPerRequest`, `NewestRequestResets`) |
| concurrent first logins of one identity | `CodesFollowLinks`, `OneSessionPerCode`, `LinksAreKept` |
| transactions that take the same rows in different orders | who can deadlock with whom is known (`OnlyUnorderedLocksDeadlock`, `SuccessAndExpirationNeverDeadlock`), and a circle ends (`OperationsEnd`) |
| a clock read before a mutex, a table of limited size | `RateIsLimited`, `RefusedWhenInUse` |
| a signal in the middle of runs and requests | the pool closes last (`PoolClosesLast`) |

`PROJECT.json` lists these hazards at their lines, and the ones that are still
without a property.

## 2. The modules

    StayContract                    what a guest and a hotel are promised
         ^  INSTANCE ... WITH
    HotelBooking                    composition, properties, fairness
         |            \
    BookingService   PaymentService one action per transaction or provider call
          \          /
            Store                   the tables, one operator per SQL statement
          /       \
    Inventory   Provider            nightly counters;  the provider and the browser

    Refund                          the refund service and workers, call by call
         |  INSTANCE ... WITH
         v
    PaymentService                  whose atomic refund steps it implements

    EmailOutbox                     the outbox, its lease and its workers
    RowLocks                        the row locks of the transactions above
    PasswordReset --> Sessions      one account: tokens, rotation, reset
    OAuthLogin                      identities, links, login codes
    Shutdown --> RateLimiter        the process and what guards its handlers

    MCHotelBooking, MCRefund, MCEmailOutbox, MCRowLocks, MCPasswordReset,
    MCOAuthLogin, MCShutdown        finite instances for the .cfg files
    ContractProofs --> HotelBookingProofs; RefundProofs, EmailOutboxProofs,
    RowLocksProofs, PasswordResetProofs, OAuthLoginProofs, ShutdownProofs
                                    theorems, each over the module it is named for

(`A --> B`: A extends B.)

* **Inventory** - one room type. `booked`, `blocked`, `total`, `active` are
  `rooms_booked`, `rooms_blocked`, `total_rooms` and the conjunction of both
  `is_active`. Each statement names one room type, so room types never meet and
  one is enough. `RoomsTaken(S, f, d)` counts the rooms of a set of bookings on
  a night; it is both what a release subtracts and what the counter must equal.
  CreateBooking's Go check reads `rooms_booked` only; blocked rooms are excluded
  by the UPDATE. Both guards are in `IncrementAvailability`.
* **Provider** - external. A charge per booking, with the states the gateways
  tell apart. Events are a *set* that delivery does not empty: an event can come
  any number of times, at any later time, in any order.
* **Store** - the other tables. A guard is a WHERE clause; a statement that
  matches no row makes its caller roll back, so the action is not enabled.
  `TxTimes` is the set of values `now()` may have in a running transaction.
* **BookingService**, **PaymentService** - the transactions. InitiatePayment and
  reconciliation are two steps each, with the reading between them in `inits`
  and `lookups`; these sets only grow, so a reading can be used by any number of
  concurrent requests and after any delay. The answer that gives the guest the
  checkout session may be lost. RefundPayment has three forms: completed,
  stopped after the provider's call (`RefundInterrupted`), and answered with an
  error, which may hide a refund that took place (`RefundFailed`).
* **HotelBooking** - `Init`, `Next`, the properties, and the mapping to the
  contract: a booking's `Stage` from its status, its `Money` from the provider.
* **Refund** - what PaymentService takes as one step per refund: the claim of a
  batch under a lease, then for each payment the provider's call, the row in
  `payment_refund_attempts`, the mark, or the scheduling of a retry, each a step.
  `work` holds the claims with the next call of each; a run that times out or
  whose process stops loses its claims, and the call it was in may stay behind as
  `Late` and arrive at any time or never. A refund the provider reports as
  pending, or whose answer is lost, is an error with returned money. Times are
  distances from the present, so no clock needs a bound. The lease token is the
  timestamp of the claim; two claims of one payment never share it (between them
  lies a release by the holder or a whole lease), so the attempt number stands
  for it.
* **StayContract** - no counters, events, workers or clock: rooms are held only
  if every night still fits, booked only when paid, released, and money returned
  only for released rooms and only once.
* **EmailOutbox** - the claim of a batch, then per message the SMTP session and
  one of the statements `MarkEmailOutboxSent`, `ScheduleEmailOutboxRetry`,
  `MarkEmailOutboxFailed`. As in Refund, `work` holds the claims with the next
  call of each, and a stopped run may leave one call behind as `Late`. Unlike the
  refund's, these statements compare nothing but `status = 'processing'`; a ghost,
  `struck`, remembers the messages whose row was changed by a claim that no longer
  held it, and the properties say what is still true of the others and what is
  true of all. `content` is what is wrong with a message, if anything: no email
  at all (`bookingEmailFromOutbox`), or refused by mailer or server.
* **Sessions**, **PasswordReset** - one account, because every statement names
  one user. A step is a SQL statement and a lock: a rotation locks its token,
  inserts the successor (which takes the user's row FOR KEY SHARE through the
  foreign key), marks the old one; a confirmation looks the request up without a
  lock, locks the user, and revokes the tokens its snapshot showed one after the
  other, each when its row is free. What a transaction has written is visible
  with its commit. Requests and verifications hold the user's lock from the first
  statement to the commit and are one step. A confirmation reads the request again
  under the lock (`StillConfirmable`), and ConsumePasswordResetRequest repeats the
  conditions (`Consumable`). Numbers of requests are their ids.
  Ghosts: `family`, the login a token descends from, `born`, the password that
  this login was made under, and `used`.
* **OAuthLogin** - subjects whose reported email may change, users who register,
  change their email and delete themselves, and the linking transaction by its
  statements: the lookup, the user (found or created), the second lookup, the
  account with its two unique constraints, the commit. An uncommitted insert
  makes others wait (`SubjectPending`). The exchange of a code locks it, and
  `ConsumeOAuthLoginCode` issues the session and consumes the code in one commit, or
  rolls both back if the code is consumed already. The subject of a code is a ghost.
* **RowLocks** - for each transaction of booking, inventory, room type,
  expiration, webhook, refund and completion: which rows it asks for, in which
  mode, in which order, and how the next ones depend on the status it finds.
  `held` are its locks, `op[p].wants` the rows it still has to ask for, and
  `op[p].about` the bookings it is about; an expiration batch has its bookings
  first, as its `SELECT ... FOR UPDATE SKIP LOCKED` does, and then takes their other
  rows one booking after the other (`ExpirePendingPayment`). The modes
  are PostgreSQL's: an insert, FOR UPDATE, the update of columns that are no key,
  FOR SHARE, FOR KEY SHARE. `Circles(P)` are the sets of transactions of P that
  wait for each other. Rows that only one transaction ever locks, transactions of
  one statement on one row, and the wait for an idempotency key (whose waiter holds
  nothing yet) cannot be in a circle and are left out; payment deadlines play no
  part, so any pending booking may expire.
* **RateLimiter** - the token bucket without fractions: a token is worth
  `Window` units, a tick brings `Requests`. The clock is read before the mutex is
  taken: a request works with a time that is up to `Skew` old. The ghost `load`
  is what a key was let through, leaking at the rate that the property allows.
* **Shutdown** - `main` after the signal or the failure of the server, the
  workers of `workerWG`, requests with and without a connection, and the pool,
  whose `Close` waits for connections in use. Requests are admitted by
  RateLimiter, whose table they share.

Why a transaction is one action. Every transaction above locks the rows whose
values its decisions depend on before it reads them (booking, payment and
availability rows `FOR UPDATE`, the room type `FOR SHARE` against the
`FOR UPDATE` of UpdateRoomType, the idempotency key by its INSERT), and each
UPDATE repeats its condition. Two such transactions conflict on the same rows
and are serialised; the order in which they take the locks, and deadlock, is a
question of its own, that of `RowLocks`. InitiatePayment's read takes no lock: the read
and the provider's CreatePayment are one step, storing the id and answering the
guest another, and anything may happen in between. (What happens between the
read and the provider's call may as well happen after it: the call looks at the
charge only, is idempotent, and nothing in the database depends on a charge
without a stored id.) SKIP LOCKED makes the expiration batch *any* set of due
bookings up to the limit.

Abstractions worth knowing. Prices, names and other descriptive columns are left
out. `payment.created` stands for every event type the service does not act on.
A charge sends at most one event of a type per source. Legacy bookings are those
that were confirmed before the payments migration and have no payment row;
`cancelBooking` has a branch for them. A create call with a used key, a
conflicting one, and every rejected call change nothing and are not actions.
Reconciliation's staleness threshold is dropped: any pending payment with a
provider id may be looked up. In `HotelBooking` the refund is one step that any
number of workers may take at once; the lease and the calls it is made of are in
`Refund`, whose steps are shown to be those of `PaymentService`.

## 3. What is checked

Deadlock checking of TLC is off everywhere: clocks, rows and faults are bounded,
and a system whose work is done may stop. That transactions do not wait for each
other is a property of its own (`locks`, `sessions_liveness`).

| run | instance | shows |
|---|---|---|
| `inventory` | a legacy booking and two new ones, overlapping one- and two-night stays of one and two rooms, 3 rooms, totals 2 and 4, blocks 0 and 1 | `InventoryConserved`, `NeverOversold`, `KeysNameOneBooking`, and the contract under admin changes |
| `payment` | one booking, all outcomes and event types, two concurrent InitiatePayments, one reconciliation, fair workers | seven safety properties of payments; `MoneyComesBack`, `PaidIsSettled` |
| `two_payments` | two bookings paid, canceled and expired together, batches of two, fair workers | `ImplementsContract`: every step is a step of `StayContract` or invisible to it; `HoldsEnd` |
| `refund` | two workers, two payments, batches of two, two faults | `OneWorkerPerPayment`, `AttemptsAreNumbered`, `RefundIsTrue`; `RefundStepsAreAtomic`: the leased refund implements the atomic one; `RefundsEnd` |
| `outbox` | two workers, two messages of any content, batches of two, two attempts, one fault | `OneSenderUnlessStruck`, `OutcomeIsTrue`, `DuplicatesNeedFaults`, `AttemptsBounded`; `EmailsEnd` |
| `sessions` | two requests at a time, three tokens, two reset requests, four rows in all | `OneSessionPerLogin`, `ResetEndsSessions`, `ReuseEndsSessions`, `OneResetPerRequest`, `NewestRequestResets` |
| `sessions_liveness` | two requests at a time, two tokens, one reset request | `OperationsEnd`: locks are given back on every path and circles are broken |
| `oauth` | three requests at a time, two identities, two emails, two users, two codes | `CodesFollowLinks`, `OneSessionPerCode`, `LinksAreKept` |
| `locks` | three transactions at a time, two bookings that share a night | `OnlyUnorderedLocksDeadlock`, `SuccessAndExpirationNeverDeadlock` |
| `api_process` | two keys with different policies before a table of one entry, one tick of skew, two workers | `RateIsLimited`, `RefusedWhenInUse`, `PoolClosesLast` |
| `confirmation_email` | one booking paid | a *violation*: see below |
| `lock_order` | the instance of `locks` | a *violation*: see below |

Each property of each passing run also has a mutant in `PROJECT.json`: a
plausible bug in one mapped definition under which TLC finds it violated.
The mutants' operators stand next to the definitions they replace. `TypeOK` is an
invariant of the run `refund`, and a theorem of every module that states one. RowLocks states none: what its transactions may hold and want is the
first part of the invariant that is proved of it (`Fit`).

### Findings

1. The tests of the webhook service expect a `booking_confirmed` row in
   `email_outbox` after a processed success
   (`webhook_service_integration_test.go:41`), and that a failing insert rolls the
   confirmation back. `ProcessWebhook` confirms booking and payment and enqueues
   nothing, and no other code enqueues that type. `ConfirmedHasEmail` says what
   the tests say, and TLC reaches a confirmed booking with no such email.
2. `webhook_service.go:117` says that all booking and payment transitions lock the
   booking first and then the payment. `MarkPaymentRefunded` is one statement that
   updates the payment and then inserts the outbox row, whose foreign key locks
   the booking. `BookingsBeforePayments` says what the comment says; TLC reaches a
   refund that has the payment and asks for the booking, which a repeated event
   or a second cancellation may hold while it waits for the payment. PostgreSQL
   rolls one back, so the harm is a retry. The purpose that the comment names,
   no deadlock between a success event and expiration, does hold
   (`SuccessAndExpirationNeverDeadlock`).

What `OnlyUnorderedLocksDeadlock` leaves open is possible: an expiration batch
of several bookings can wait in a circle with a booking or a cancellation, since
it takes the nights of one booking after those of another. So can the completions
of two API processes with each other: the UPDATE of CompletePastBookings locks its
bookings in the order in which it finds them, and nothing keeps two processes from
running it at once. PostgreSQL rolls one back, and the worker's next run repeats it.

Whoever uses a replaced token again, to rotate it or to log out, ends what
`RevokeAllUserRefreshTokens` finds, the replacement of the token included
(`ReuseEndsSessions`), but not more: the user is not locked, so that the successor
that a rotation of another token commits after the statement's snapshot, or the
token of a login under way, survives. The model has these steps. No text of the
repository promises more, so this is recorded as a hazard and not as a finding; only
a reset, which locks the user, leaves no session at all (`ResetEndsSessions`).

### Bounds

*HotelBooking.* `MaxTime` stops the clock, and a booking is made only if its
deadline lies before that, so that holds can end. `TTL` is one or two ticks and
`TxLag` one tick: a transaction that started before a deadline can commit after
it, which is the race that matters, and a longer lag repeats it. `DayLength` one
or two ticks gives check-in and check-out dates inside the run. `LocalSkew` is
{0}, a server in UTC; the properties proved below hold for -1..1. `MaxRequests`
bounds the InitiatePayment readings in `inits`: with two, a booking has one
reading from before the id was stored and one from after. `MaxLookups` does the
same for `lookups`. Two nights and two new bookings are enough for stays that
overlap in one night only. An expiration batch of two succeeds or fails as a
whole; SKIP LOCKED also makes it one.

*Refund, EmailOutbox.* `MaxFaults` bounds errors, crashes and timeouts. With two, a
refund worker can be stopped with a call under way, a second one take over and
fail, and a third attempt follow. In the outbox one fault is enough for a late
statement that strikes the claim of another worker, because a refused message
needs no fault to be tried again. The lease is one tick longer than a run, the
smallest difference the configuration allows. `MaxExponent` is the code's own
cap.

*Sessions.* `MaxRows` bounds tokens and requests together: four is a login, its
rotation, a second login or rotation and a request, or two requests and two
tokens. One wrong code uses up `MaxAttempts` = 1. With `NewestRequestResets` a
second request must overtake a confirmation, with `OneResetPerRequest` a second
confirmation must: both fit.

*OAuthLogin.* Three requests are two that race for one identity and a third that
uses what they leave; two emails and two users let the racers report different
emails.

*RowLocks.* Three transactions, because a circle of two may need a third that
holds a row first. One booking has the last night only, the other both, so orders
of nights can differ. The lease lets in one refund per payment. Expiration batches
and completions may overlap, as they do with several processes.

*Shutdown, RateLimiter.* `MaxEntries` is one, so that the second key meets a full
table. The one key has three requests in two ticks: with a skew of one, overtaking
is worth a whole request more, which is the case that decides what rate can be
promised at all. `Skew` must be shorter than every window, which the assumption
says. `MaxHandlers` one, two workers, one tick of grace.

Interchangeable keys, tokens, processes, users and bookings are symmetric in the
runs that check safety only; runs that check liveness use no symmetry.

### Fairness

`HotelBooking!FairSpec` assumes weak fairness of: time; the expiration worker,
which runs at every tick of an endless ticker and whose next batch takes what the
last left; the processing of each *provider* event, because the handler answers
an error with a status that makes the provider send it again; and the refund that
completes, because the worker retries without a limit and an answer comes
eventually. Nothing is assumed of guests, of cancellation, of the
administrators, of the completion or the reconciliation worker. Without the
provider's repetition `PaidIsSettled` does not hold: reconciliation looks at
*pending* payments only, so a success lost for good on an expired booking is
never found again. That is recorded as a hazard.

In `Refund` and `EmailOutbox` the assumptions are time, that tickers go on
claiming, and that a running worker's call is answered within the run; every
error, crash and timeout counts as a fault, of which there are finitely many. In
the outbox the claim of each message has strong fairness, because a batch takes
what has been due longest first: a message that is due again and again is taken.

In `PasswordReset` the steps of each transaction have strong fairness, because
PostgreSQL queues those who wait for a row, and the rollback of a transaction in
a circle has weak fairness, which is its deadlock detection. Nobody is assumed to
start anything.

## 4. What is proved

Every invariant and every action property of the passing runs, and the
refinements, are theorems for all constants that satisfy the named assumptions.
Only liveness is left to TLC.

**The core.** `HotelBookingProofs` starts with the counting lemmas (the rooms of a
union, of a difference, of a single booking), from the finiteness of the set of
bookings and the shape of a stay, and proves:

| theorem | states | argument |
|---|---|---|
| `TypeCorrect` | `Spec => []TypeOK` | inductive; the only step that needs thought is a release, whose WHERE clause keeps a counter from going below zero |
| `RoomsConserved` | `Spec => []InventoryConserved` | inductive with `TypeOK`: each step leaves bookings and counters alone, adds one booking and its rooms, or removes a set of bookings and their rooms |
| `RoomsNeverOversold` | `Spec => []NeverOversold` | inductive with `TypeOK`: the three increasing UPDATEs look at the sum, and a release only lowers it |
| `BookingAgreesWithPayment` | `Spec => []BookingPaymentAgree` | needs the strengthening `LegacyIsOld`: a legacy booking is never absent or held. Without it, a state with a held legacy booking satisfies the property and the next success breaks it |

`ContractProofs` goes on from these:

| theorem | states | argument |
|---|---|---|
| `HistoryIsTrue` | `Spec => []HistoryTellsStatus` | every step moves a set of bookings from one status to another and appends exactly that to their histories (`MovesSome`) |
| `KeysAreUnique` | `Spec => []KeysNameOneBooking` | a step makes at most one booking and adds at most its key (`SameBookings` otherwise) |
| `ClaimsApplied`, `FailuresFit`, `EmailsAreTrue` | `Spec => []` of `ClaimedSuccessApplied`, `FailureFitsPayment`, `EmailsTellTheState` | inductive together (`RowsTrue`), with the agreement of booking and payment: an email of a cancellation is written by whichever transaction cancels, so one of them that forgot it would break the equivalence |
| `ConfirmedBookingsArePaid`, `PaidChargesAreKnown` | `Spec => []` of `ConfirmedIsPaid`, `PaidChargeIsKnown` | `MoneyInv`, see below |
| `CapturedMoneyIsNeverLost` | if the provider is asked to tell of successes, `Spec => []MoneyIsAccountedFor` | see below |
| `CoreImplementsContract` | `Spec => ImplementsContract` | step simulation, see below |
| `ContractKeepsItsWord`, `GuestsGetWhatTheyPayFor` | what the contract implies, and with the refinement what the code does: rooms fit, the booked have paid, the refunded have no rooms | a release only lowers what is in use (`FewerInUse`) |

That a confirmed booking is paid is not inductive, since a success event in flight
can confirm a booking long after the provider made it. `MoneyInv` adds what is true
of everything that travels: a success in `events`, whether the provider sent it or
a lookup found it, is about a charge whose money was taken (`SuccessesArePaid`); a
request that read a provider id goes on with one that is stored (`ReadingsAreTrue`);
and a stored id has its payment (`KnownHavePayments`).

`MoneyIsAccountedFor` is the safety half of `PaidIsSettled`, and no run needs
fairness for it: captured money has its booking, or is due for a refund, or its
success event is still unclaimed and meets a booking and a payment in one of the two
states that `ProcessWebhook` can take it in (a hold past its deadline has to be
expired first). It follows from `MoneyInv`, `ClaimedSuccessApplied` and
`BookingPaymentAgree` with the accounts of the provider (`Accounts`): every capture is
told, a refund is asked for only when due, and marked only when made. Its one
hypothesis is that `payment.succeeded` is among the events the provider sends.

For the refinement, each step of the core that gets past its guards is matched with
the move of the contract it makes: CreateBooking with `Hold`, a webhook's
confirmation with `Book`, the three ways to cancel with `Release`, completion of any
set with `Stay`, the browser with `Capture`, the provider's refund with `Return`,
the admin with `Rearrange`; everything else is a stutter. `Hold` and `Rearrange`
need that the rooms fit, which is where counters and bookings meet (`RoomsFit`,
from `RoomsConserved` and `RoomsNeverOversold`); `Book` and `Return` need
`MoneyInv` and the agreement of booking and payment.

**Refunds.** `RefundProofs` is about the refund lease. `LeaseInv` says that a running
worker holds the leases of its claims and that these are no older than its run
(`Leased`), that a payment and an attempt name one claim (`Named`), and that what
a claim still has to do is not done and what it says is done (`Ordered`). It is
inductive for any number of workers, payments, faults and late calls, from
`RunTimeout < Lease` alone:

| theorem | states |
|---|---|
| `RefundedByOneWorker` | `Spec => []OneWorkerPerPayment` |
| `AttemptsNumbered` | `Spec => []AttemptsAreNumbered` |
| `RefundTrue` | `Spec => []RefundIsTrue` |
| `RefundImplementsCore` | `Spec => RefundStepsAreAtomic`, with the further invariant that a payment that is not due was never attempted |
| `TypeCorrect` | `Spec => []TypeOK`, with the bounds of lease and back-off |

The back-off needs no induction. Its multiplier is at least one, because powers of
two count the subsets of a set (`PowersOfTwo`), and the division that guards the product then bounds it by
`MaxDelay` (`BackOffBounded`): the code's check before it multiplies is what keeps
the delay from exceeding its limit.

**The outbox.** `EmailOutboxProofs` has the same plan with weaker statements:
`OutboxInv` says that a running worker's claim has its row, under a lease no older
than its run, unless the message was struck (`Leased`), and that what any claim is
about to record is so (`Grounded`), whatever the row says by then.

| theorem | states |
|---|---|
| `SentByOneWorker` | `Spec => []OneSenderUnlessStruck` |
| `OutcomesTrue` | `Spec => []OutcomeIsTrue` |
| `CopiesPaidFor` | `Spec => []DuplicatesNeedFaults` |
| `AttemptsPaidFor` | `Spec => []AttemptsBounded` |
| `TypeCorrect` | `Spec => []TypeOK`, with the bounds of lease and back-off |

The two bounds by faults are one accounting argument. Neither is inductive: a claim
under way may still send a copy or schedule a retry, and several claims of one
message can be under way at once. `Budget` counts, for each message, what has
happened *and* what is still to come: its copies, plus the claims that may still
send (`Acting`), plus one if it can be claimed again with or without an admin
(`Open`), are at most `1 + faults`; its attempts, plus the claims that may still
schedule (`Low`), plus one if it is due (`Due`), stay within `MaxAttempts + faults`;
and there are no more claims of it than faults and the one running worker that holds
its row (`Claimed`). A step moves units from one of these to another, and only a
fault adds one. That a second running worker adds nothing without a fault is
`OutboxInv` again.

`PasswordResetProofs` covers Sessions and PasswordReset with any number of tokens,
requests and transactions under way. `ResetInv` adds to the types the form of each
transaction at each of its steps (`Shapes`), that the login of a session is a
committed token (`Families`), what a confirmation holds and knows (`Holding`), and
that requests are made in order and the one under way is the newest (`Requested`). The argument for
`ResetsEndSessions`: a confirmation holds the user's row, so no login and no
successor can commit between the snapshot of its revocation and its own commit, and
a session it did not see cannot appear. A reuse has no such lock, and
`ReusesEndSessions` needs an invariant of its own, `RevokeInv`: whatever its snapshot
showed, and the replacement of its token, is over or still in its hands (to be locked,
or locked and to be revoked). It holds because no token comes back to life and one
that is over gets no successor (`TokensAge`), whatever else happens in between.

| theorem | states |
|---|---|
| `TypeCorrect` | `Spec => []TypeOK` |
| `LoginsDoNotSplit` | `Spec => []OneSessionPerLogin` |
| `ResetsEndSessions` | `Spec => []ResetEndsSessions` |
| `ReusesEndSessions` | `Spec => ReuseEndsSessions` |
| `RequestsUsedOnce` | `Spec => []OneResetPerRequest` |
| `NewestResets` | `Spec => NewestRequestResets` |

`OAuthLoginProofs` follows the linking transaction step by step (`Linking`), and
users who go or are not yet committed (`Deleting`), and exchanges (`Exchanging`).
What makes it inductive is that an uncommitted account is the only one of its
subject, which the unique constraint and the waiting behind an uncommitted insert
give.

| theorem | states |
|---|---|
| `TypeCorrect` | `Spec => []TypeOK` |
| `CodesOfLinkedUsers` | `Spec => []CodesFollowLinks` |
| `CodesUsedOnce` | `Spec => []OneSessionPerCode` |
| `LinksKept` | `Spec => LinksAreKept` |

`RowLocksProofs` proves that locks exclude each other and, from that, who can
deadlock with whom, for any number of transactions and bookings and any nights:

| theorem | states | argument |
|---|---|---|
| `ExclusiveLocks` | `Spec => []LocksExclude` | inductive with the form of the locks |
| `LockOrderPreventsDeadlock` | `Spec => []OnlyUnorderedLocksDeadlock` | a common order of rows, see below |
| `SuccessSurvivesExpiration` | `Spec => []SuccessAndExpirationNeverDeadlock` | whoever has a payment has its booking first |
| `OnlyRefundsTakePaymentsFirst` | `Spec => []RefundsAside`: the comment that run `lock_order` refutes is true of every transaction but the one it finds | from `OrderInv`; a batch asks for no booking once it has payments |

`OrderInv` says what each transaction holds and wants: the rows it has come before
the rows it still asks for (`Climbs`), in the order room type, booking, payment,
nights to insert, nights to update, each from the first night on. It is kept by
`CreateBooking`, cancellation, webhooks, admin changes, and an expiration of one
booking; a completion takes several bookings, in any order, but nothing else. What makes it
inductive is that a night to update is there or inserted by the same transaction
(`NightsThere`), and what each kind of transaction is about (`Suits`). Every waiting
transaction has a `Rank` by the row it waits for, and whoever is waited for, and
waits itself, has a higher one (`WaitingClimbs`), with one exception that the lemma
spells out: inserts and updates of nights are ranked by the night alone. But who waits
to update a night waits for another update, and so for one that is past its inserts.
Hence ranks rise along the members of a circle that wait to update nights, or along
the whole circle if there are none. A finite set has no element from which one can
always climb (`NoEndlessClimb`, from the library's well-founded order of finite
subsets). A completion takes bookings in no order; it ranks after the others that
wait for a booking, so that a circle without two completions climbs here as well.

The second theorem does not follow from the order, because batches break it. A
success event that holds anything and waits has its booking and waits for the payment.
A batch or another success event that has this payment would have the booking as
well, so it is none of them that the event waits for (`SuccessIsNotWaitedFor`). In a
circle of success events and one batch, everybody would therefore wait for the batch,
and the batch would have nobody to wait for.

`ShutdownProofs` proves the process and its limiter:

| theorem | states | argument |
|---|---|---|
| `TypeCorrect` | `Spec => []TypeOK` | the limiter's types are inductive by themselves, since no other action touches its table |
| `PoolLast` | `Spec => []PoolClosesLast` | inductive with the order of the phases |
| `RateLimited` | `Spec => []RateIsLimited` | for each key, its load and what its bucket could give now, late clocks included, stay within the burst, and an entry that the cleanup may drop is so old that its load is gone, so that a fresh bucket gives away nothing (`Fits`) |
| `RefusedOnlyWhenInUse` | `Spec => []RefusedWhenInUse` | an entry is no older than its window and the last cleanup (`Swept`) |

`Fits` was worth its trouble: a first version of `RateIsLimited` held in the
instance and had no proof. With other windows, requests that overtake each other
gain more than it allowed. `Burst` is the bound that holds for all constants.

### Assumptions

| assumption | says | from |
|---|---|---|
| `InventoryAssumption` | stays lie in the nights that have rows, and last at least one | the date checks of CreateBooking |
| `StoreAssumption` | finitely many bookings, natural times | bounds of the model |
| `BookingServiceAssumption` | the server's date is at most a day from UTC's | time zones |
| `PaymentServiceAssumption`, `HotelBookingAssumption` | a batch takes at least one; totals and blocks are natural numbers | NewExpirationService, request validation, CHECK constraints; bounds of the model |
| `RefundAssumption`, `EmailOutboxAssumption` | positive limits, a run shorter than its lease | what the constructors and the configuration reject at start, for leases of whole seconds |
| `SessionsAssumption`, `PasswordResetAssumption`, `OAuthAssumption` | markers are not values; request ids are natural numbers | form of the model |
| `RowLocksAssumption` | a stay has its nights in order; finitely many transactions and bookings; batches take at least one | the date checks; connections and rows are finite; NewExpirationService |
| `RateLimiterAssumption` | positive policies; `Skew` shorter than every window | NewIPRateLimiter; the wait for a mutex |
| `ShutdownAssumption` | a positive period of grace | the constant in `main.go` |

TLC evaluates them in the runs that use their module. The theorems cover any number
of bookings, rooms, nights, keys, tokens, users, requests and workers, and any batch
size and clock bound.

### Only model-checked

* All liveness: `MoneyComesBack`, `PaidIsSettled`, `HoldsEnd`, `RefundsEnd`,
  `EmailsEnd`, `OperationsEnd`. The prover does not handle fairness.
* That the findings are real: `ConfirmedHasEmail` and `BookingsBeforePayments` are
  false, and TLC's traces show how.
* That the statements have content: a mutant of the code breaks each of them.
* How fast the back-off grows. Its bound is proved; what a power of two is for each
  exponent would need an induction that the provers cannot instantiate.

## 5. Not modelled

* **Reviews, hotel images, amenities.** Single statements on single rows. One
  review per completed booking and one primary image per hotel are unique
  constraints; there is no interaction to check.
* **Admin views and listings** only read. **Handlers** decode, call one service and
  encode; those that change shared rows themselves (registration, change of email,
  deletion of a user) are in OAuthLogin.
* **Configuration** appears as the modules' assumptions. One gap: leases are
  compared with run timeouts before fractions of a second are cut off
  (`notifications/service.go:93`, and the refund service). The modules assume the
  comparison of what the statement gets.
* **Tokens, signatures, Google's ID tokens** and the cache of Google's keys are
  cryptography, or read-only.
* **The mailer's SMTP session** is the three answers the outbox can tell apart:
  accepted, refused, unknown.
* **A second signal** kills the process and leaves nothing to say.
* **Crashes of the database.** Its commits are taken as durable and its snapshots
  as PostgreSQL describes them for READ COMMITTED.

Modelled, but without a property, because no text of the repository says what
should be true: the user that a login leaves behind without a link when another
login links its identity first, and the password reset's cooldown, which is
forgotten with the row that the cleanup deletes.

## 6. Plan

1. Done: `Inventory`, `Provider`, `Store`, `BookingService`, `PaymentService`,
   `HotelBooking`, `StayContract`, and four invariant theorems.
2. Done: `Refund` and its theorems, the refinement of PaymentService's steps
   included.
3. Done: `EmailOutbox`, `RowLocks`, `Sessions` with `PasswordReset`, `OAuthLogin`,
   `Shutdown` with `RateLimiter`, each with its theorems.
4. Done: the remaining invariants of `HotelBooking` and the refinement of
   `StayContract` (`ContractProofs`); the bounds by faults and the types of
   `EmailOutbox`; the types of `Refund`; the absence of deadlock in `RowLocks`.
5. Left: the safety half of the other liveness properties (what a leased refund or
   message in any state can still do next), as `MoneyIsAccountedFor` is that of
   `PaidIsSettled`; and that the atomic transactions of the core take their rows as
   `RowLocks` says, which section 2 argues and no theorem states.
