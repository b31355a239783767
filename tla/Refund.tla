-------------------------------- MODULE Refund --------------------------------
(***************************************************************************)
(* The refund service and its workers: a worker claims a batch of payments *)
(* under a lease, and for each asks the provider for the refund, records   *)
(* the attempt and marks the payment, in three separate steps without a    *)
(* transaction around them.  A run has a timeout shorter than the lease;   *)
(* what a stopped run had already sent may still arrive later.             *)
(*                                                                         *)
(* Times are kept as distances from the present: `wait` to                 *)
(* refund_available_at, `age` from refund_locked_at.  The lease's token,   *)
(* refund_locked_at, is the time of the claim; a payment is claimed again  *)
(* only after a release or a whole lease, so the number of the attempt     *)
(* tells claims apart just as well.                                        *)
(***************************************************************************)
EXTENDS Integers, FiniteSets

CONSTANTS
    Payments,
    Workers,       \* refund workers, one per process
    Late,          \* not a worker: what a stopped run left in flight
    Lease,         \* PAYMENT_REFUND_LEASE_SECONDS, in ticks
    RunTimeout,    \* PAYMENT_REFUND_RUN_TIMEOUT_SECONDS, in ticks
    BatchSize,
    BaseDelay,     \* PAYMENT_REFUND_BASE_RETRY_SECONDS, in ticks
    MaxDelay,      \* maxRefundRetryDelay, in ticks
    MaxExponent,   \* maxRefundExponent
    MaxFaults      \* bound: errors, timeouts and crashes in one behaviour

VARIABLES
    pay,           \* payments.status
    failure,       \* payments.failure_code
    attempts,      \* payments.refund_attempts
    wait,          \* ticks until refund_available_at
    locked,        \* payments whose refund_locked_at is set
    age,           \* ticks since refund_locked_at, counted up to the lease
    rows,          \* payment_refund_attempts
    mailed,        \* payments with a payment_refunded row in the outbox
    returned,      \* payments whose money the provider has given back
    work,          \* claims that workers hold, with the next call of each
    ran,           \* ticks since each worker's run began
    faults

tableVars == <<pay, failure, attempts, wait, locked, age, rows, mailed>>
vars == <<tableVars, returned, work, ran, faults>>

\* NewRefundService and the configuration refuse anything else, if the lease is
\* one of whole seconds; of another the statement drops the rest.
ASSUME RefundAssumption ==
    /\ Late \notin Workers
    /\ Lease \in Nat /\ RunTimeout \in Nat \ {0} /\ RunTimeout < Lease
    /\ BatchSize \in Nat \ {0}
    /\ BaseDelay \in Nat \ {0} /\ MaxDelay \in Nat /\ BaseDelay <= MaxDelay
    /\ MaxExponent \in Nat
    /\ MaxFaults \in Nat

Claims == [worker : Workers \cup {Late}, payment : Payments, attempt : Nat,
           next : {"refund", "record", "mark", "schedule"}]

Attempts == [payment : Payments, attempt : Nat, status : {"succeeded", "failed"}]

TypeOK ==
    /\ pay \in [Payments -> {"succeeded", "refund_pending", "refunded"}]
    /\ failure \in [Payments -> {"none", "refund_provider_error"}]
    /\ attempts \in [Payments -> Nat]
    /\ wait \in [Payments -> 0..MaxDelay]
    /\ locked \subseteq Payments
    /\ age \in [Payments -> 0..Lease]
    /\ rows \subseteq Attempts
    /\ mailed \subseteq Payments
    /\ returned \subseteq Payments
    /\ work \subseteq Claims
    /\ ran \in [Workers -> 0..RunTimeout]
    /\ faults \in 0..MaxFaults

\* Paid bookings that may still be cancelled.
Init ==
    /\ pay = [p \in Payments |-> "succeeded"]
    /\ failure = [p \in Payments |-> "none"]
    /\ attempts = [p \in Payments |-> 0]
    /\ wait = [p \in Payments |-> 0]
    /\ age = [p \in Payments |-> 0]
    /\ locked = {} /\ rows = {} /\ mailed = {} /\ returned = {}
    /\ work = {}
    /\ ran = [w \in Workers |-> 0]
    /\ faults = 0

Busy(w) == \E x \in work : x.worker = w

-----------------------------------------------------------------------------

\* cancelBooking and the webhook service make a payment due.
MarkPaymentRefundPending(p) ==
    /\ pay[p] = "succeeded"
    /\ pay' = [pay EXCEPT ![p] = "refund_pending"]
    /\ UNCHANGED <<failure, attempts, wait, locked, age, rows, mailed,
                   returned, work, ran, faults>>

\* Mutant of Claimable: a lock is taken over without waiting for its lease.
ClaimableAtOnce(p) == pay[p] = "refund_pending" /\ wait[p] = 0

\* Mutant of Claimable: a lock is never taken over.
ClaimableUnlocked(p) == pay[p] = "refund_pending" /\ wait[p] = 0 /\ p \notin locked

Claimable(p) ==
    /\ pay[p] = "refund_pending" /\ wait[p] = 0
    /\ p \in locked => age[p] >= Lease

\* A run of w claims payments; SKIP LOCKED may leave out any of them.
ClaimRefundPendingPayments(w, S) ==
    /\ ~Busy(w)
    /\ S # {} /\ Cardinality(S) <= BatchSize
    /\ \A p \in S : Claimable(p)
    /\ attempts' = [p \in Payments |-> IF p \in S THEN attempts[p] + 1 ELSE attempts[p]]
    /\ locked' = locked \cup S
    /\ age' = [p \in Payments |-> IF p \in S THEN 0 ELSE age[p]]
    /\ work' = work \cup {[worker |-> w, payment |-> p, attempt |-> attempts'[p],
                           next |-> "refund"] : p \in S}
    /\ ran' = [ran EXCEPT ![w] = 0]
    /\ UNCHANGED <<pay, failure, wait, rows, mailed, returned, faults>>

\* A worker takes its claims one after the other.
AtHand(x) ==
    \/ x.worker = Late
    \/ x.next # "refund"
    \/ \A y \in work : y.worker = x.worker => y.next = "refund"

\* The claim x goes on with the call n, or is done with; what is late is
\* done with as soon as it has arrived.
Advance(x, n) ==
    work' = (work \ {x}) \cup
        (IF n = "done" \/ x.worker = Late THEN {} ELSE {[x EXCEPT !.next = n]})

\* Gateway.RefundPayment
RefundAccepted(x) ==
    /\ x.next = "refund" /\ AtHand(x)
    /\ returned' = returned \cup {x.payment}
    /\ Advance(x, "record")
    /\ UNCHANGED <<tableVars, ran, faults>>

\* An error, or a refund that is still pending there: the money may go back.
RefundRefused(x) ==
    /\ x.next = "refund" /\ AtHand(x) /\ x.worker # Late
    /\ faults < MaxFaults /\ faults' = faults + 1
    /\ returned' \in {returned, returned \cup {x.payment}}
    /\ Advance(x, "schedule")
    /\ UNCHANGED <<tableVars, ran>>

\* Mutant of HoldsLease: whoever finds the payment locked may write.
FindsLock(x) == pay[x.payment] = "refund_pending" /\ x.payment \in locked

\* The WHERE clause of the three statements below.
HoldsLease(x) ==
    /\ pay[x.payment] = "refund_pending"
    /\ x.payment \in locked /\ attempts[x.payment] = x.attempt

RecordSuccessfulPaymentRefundAttempt(x) ==
    /\ x.next = "record"
    /\ IF HoldsLease(x)
       THEN /\ rows' = rows \cup {[payment |-> x.payment, status |-> "succeeded",
                                   attempt |-> attempts[x.payment]]}
            /\ Advance(x, "mark")
       ELSE /\ Advance(x, "done")
            /\ UNCHANGED rows
    /\ UNCHANGED <<pay, failure, attempts, wait, locked, age, mailed, returned, ran, faults>>

\* Mutant of MarkPaymentRefunded: an earlier error stays.
MarkKeepingFailure(x) ==
    /\ x.next = "mark"
    /\ IF HoldsLease(x)
       THEN /\ pay' = [pay EXCEPT ![x.payment] = "refunded"]
            /\ locked' = locked \ {x.payment}
            /\ mailed' = mailed \cup {x.payment}
       ELSE UNCHANGED <<pay, locked, mailed>>
    /\ Advance(x, "done")
    /\ UNCHANGED <<failure, attempts, wait, age, rows, returned, ran, faults>>

MarkPaymentRefunded(x) ==
    /\ x.next = "mark"
    /\ IF HoldsLease(x)
       THEN /\ pay' = [pay EXCEPT ![x.payment] = "refunded"]
            /\ failure' = [failure EXCEPT ![x.payment] = "none"]
            /\ locked' = locked \ {x.payment}
            /\ mailed' = mailed \cup {x.payment}
       ELSE UNCHANGED <<pay, failure, locked, mailed>>
    /\ Advance(x, "done")
    /\ UNCHANGED <<attempts, wait, age, rows, returned, ran, faults>>

\* Mutant of RetryDelay: nothing caps the doubling.
RetryDelayUncapped(n) == BaseDelay * 2 ^ (n - 1)

\* retryDelay: BaseDelay doubled with each attempt, up to MaxDelay, which is
\* compared by a division so that nothing overflows.
RetryDelay(n) ==
    LET exponent == IF n - 1 > MaxExponent THEN MaxExponent ELSE n - 1
        multiplier == 2 ^ exponent
    IN  IF BaseDelay > MaxDelay \div multiplier THEN MaxDelay ELSE BaseDelay * multiplier

SchedulePaymentRefundRetry(x) ==
    /\ x.next = "schedule"
    /\ IF HoldsLease(x)
       THEN /\ failure' = [failure EXCEPT ![x.payment] = "refund_provider_error"]
            /\ wait' = [wait EXCEPT ![x.payment] = RetryDelay(x.attempt)]
            /\ locked' = locked \ {x.payment}
            /\ rows' = rows \cup {[payment |-> x.payment, status |-> "failed",
                                   attempt |-> attempts[x.payment]]}
       ELSE UNCHANGED <<failure, wait, locked, rows>>
    /\ Advance(x, "done")
    /\ UNCHANGED <<pay, attempts, age, mailed, returned, ran, faults>>

\* Mutant of StatementFailed: an attempt that was not recorded is no reason
\* not to mark the payment.
StatementIgnored(x) ==
    /\ x.next # "refund" /\ x.worker # Late
    /\ faults < MaxFaults /\ faults' = faults + 1
    /\ Advance(x, IF x.next = "record" THEN "mark" ELSE "done")
    /\ UNCHANGED <<tableVars, returned, ran>>

\* A statement fails: the worker leaves this claim and goes on with the next.
StatementFailed(x) ==
    /\ x.next # "refund" /\ x.worker # Late
    /\ faults < MaxFaults /\ faults' = faults + 1
    /\ Advance(x, "done")
    /\ UNCHANGED <<tableVars, returned, ran>>

\* The run of w times out or its process stops; the call it is in may be
\* under way.
Stop(w) ==
    /\ Busy(w)
    /\ faults < MaxFaults /\ faults' = faults + 1
    /\ LET mine == {x \in work : x.worker = w}
       IN  \/ work' = work \ mine
           \/ \E x \in mine : /\ AtHand(x)
                              /\ work' = (work \ mine) \cup {[x EXCEPT !.worker = Late]}
    /\ UNCHANGED <<tableVars, returned, ran>>

\* An admin retries a refund that failed, unless a worker has it.
RetryFailedRefund(p) ==
    /\ pay[p] = "refund_pending" /\ failure[p] # "none" /\ p \notin locked
    /\ failure' = [failure EXCEPT ![p] = "none"]
    /\ wait' = [wait EXCEPT ![p] = 0]
    /\ UNCHANGED <<pay, attempts, locked, age, rows, mailed, returned, work, ran, faults>>

\* Time passes, but no run goes on beyond its timeout.
Tick ==
    /\ \A w \in Workers : Busy(w) => ran[w] < RunTimeout
    /\ wait' = [p \in Payments |-> IF wait[p] > 0 THEN wait[p] - 1 ELSE 0]
    /\ age' = [p \in Payments |-> IF p \in locked /\ age[p] < Lease THEN age[p] + 1
                                                                    ELSE age[p]]
    /\ ran' = [w \in Workers |-> IF Busy(w) THEN ran[w] + 1 ELSE ran[w]]
    /\ UNCHANGED <<pay, failure, attempts, locked, rows, mailed, returned, work, faults>>

\* The next call of a claim, when it is answered.
Answered(x) ==
    \/ RefundAccepted(x)
    \/ RecordSuccessfulPaymentRefundAttempt(x)
    \/ MarkPaymentRefunded(x)
    \/ SchedulePaymentRefundRetry(x)

Claim == \E w \in Workers, S \in SUBSET Payments : ClaimRefundPendingPayments(w, S)

Next ==
    \/ Tick
    \/ Claim
    \/ \E x \in work : Answered(x) \/ RefundRefused(x) \/ StatementFailed(x)
    \/ \E w \in Workers : Stop(w)
    \/ \E p \in Payments : MarkPaymentRefundPending(p) \/ RetryFailedRefund(p)

Spec == Init /\ [][Next]_vars

-----------------------------------------------------------------------------

\* No payment is in the hands of two running workers, and the one that has
\* it holds its lease: the timeout of a run, counted on the worker's clock,
\* ends it before the lease, counted from the claim, lets another in.
OneWorkerPerPayment ==
    \A x, y \in work :
        /\ x.worker # Late => HoldsLease(x)
        /\ x.worker # Late /\ y.worker # Late /\ x.payment = y.payment => x = y

\* payment_refund_attempts has one row per attempt at most, for an attempt
\* that was made: UNIQUE (payment_id, attempt_number) never makes a statement
\* fail, whatever arrives late.
AttemptsAreNumbered ==
    /\ \A r, q \in rows : r.payment = q.payment /\ r.attempt = q.attempt => r = q
    /\ \A r \in rows : r.attempt \in 1..attempts[r.payment]

\* What the table and the guest are told is so: a succeeded attempt and a
\* refunded payment mean returned money, a refunded payment has the row of
\* its last attempt and the email, an error that is shown has its row.
RefundIsTrue ==
    /\ \A r \in rows : r.status = "succeeded" => r.payment \in returned
    /\ \A p \in Payments :
          /\ pay[p] = "refunded" <=> p \in mailed
          /\ pay[p] = "refunded" =>
                [payment |-> p, attempt |-> attempts[p], status |-> "succeeded"] \in rows
          /\ failure[p] # "none" /\ p \notin locked =>
                [payment |-> p, attempt |-> attempts[p], status |-> "failed"] \in rows

-----------------------------------------------------------------------------
\* Refinement: seen without leases, attempts and times, the workers take the
\* atomic refund steps of PaymentService that HotelBooking is built from.

Core == INSTANCE PaymentService WITH
    Bookings <- Payments, pid <- Payments,
    status <- [p \in Payments |-> "cancelled"],
    charge <- [p \in Payments |-> IF p \in returned THEN "refunded" ELSE "captured"],
    outbox <- mailed \X {"payment_refunded"},
    now <- 0, total <- 0, active <- TRUE, booked <- <<>>, blocked <- <<>>,
    stay <- <<>>, expires <- <<>>, history <- <<>>, keys <- {}, claimed <- {},
    checkout <- {}, events <- {}, inits <- {}, lookups <- {},
    Dates <- {}, MaxRooms <- 0, Stays <- {}, Outcomes <- {}, Subscribed <- {},
    Keys <- {}, Legacy <- {}, TTL <- 1, DayLength <- 1, MaxTime <- 0, TxLag <- 0,
    MaxRequests <- 0, MaxLookups <- 0

BecomesDue(p) == Core!MarkPaymentRefundPending(p) /\ UNCHANGED <<returned, mailed>>

\* Each step on the payment, the provider and the outbox is one of those.
RefundStepsAreAtomic ==
    [][\E p \in Payments : \/ BecomesDue(p)
                           \/ Core!RefundPayment(p)
                           \/ Core!RefundInterrupted(p)
                           \/ Core!RefundFailed(p)
                           \/ Core!RetryPaymentRefund(p)]_<<pay, failure, mailed, returned>>

-----------------------------------------------------------------------------

\* Time passes, a worker's ticker goes on claiming, and a call is answered.
Fairness ==
    /\ WF_vars(Tick)
    /\ WF_vars(Claim)
    /\ \A w \in Workers : WF_vars(\E x \in work : x.worker = w /\ Answered(x))

FairSpec == Spec /\ Fairness

\* After the last fault, wherever it struck, every due refund is completed.
RefundsEnd == \A p \in Payments : pay[p] = "refund_pending" ~> pay[p] = "refunded"

=============================================================================
