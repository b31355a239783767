------------------------------ MODULE EmailOutbox ------------------------------
(***************************************************************************)
(* The email outbox and its workers: a worker claims a batch of messages   *)
(* under a lease and, one after the other, sends each over SMTP and        *)
(* records the outcome.  The statements that record it ask only whether    *)
(* the row is 'processing', not whose claim it is, so a statement of a     *)
(* stopped run that arrives late may strike the claim of another worker.   *)
(*                                                                         *)
(* Times are distances from the present: `wait` to available_at, `age`     *)
(* from locked_at while a row is processing and from sent_at once it is    *)
(* sent.  `copies` is what the recipient has received, `struck` the        *)
(* messages whose row a claim changed that no longer held it.              *)
(***************************************************************************)
EXTENDS Integers, FiniteSets

CONSTANTS
    Messages,      \* rows of email_outbox: a booking and an event type
    Workers,       \* outbox workers, one per process
    Late,          \* not a worker: what a stopped run left in flight
    Lease,         \* EMAIL_OUTBOX_LEASE_SECONDS, in ticks
    RunTimeout,    \* EMAIL_OUTBOX_RUN_TIMEOUT_SECONDS, in ticks
    BatchSize,
    MaxAttempts,
    BaseDelay,     \* EMAIL_OUTBOX_BASE_RETRY_SECONDS, in ticks
    MaxDelay,      \* maxOutboxRetryDelay, in ticks
    MaxExponent,   \* maxRetryExponent
    Retention,     \* how long a sent message is kept, in ticks
    MaxFaults      \* bound: errors, timeouts and crashes in one behaviour

VARIABLES
    content,       \* what is wrong with each message, if anything
    status,        \* email_outbox.status, or that there is no row (yet)
    attempts,      \* email_outbox.attempts
    wait, age,
    work,          \* claims that workers hold, with the next call of each
    ran,           \* ticks since each worker's run began
    copies, struck, faults

rowVars == <<status, attempts, wait, age>>
moving == <<rowVars, work, ran, copies, struck, faults>>
vars == <<content, moving>>

\* NewService, NewCleanupWorker and the configuration refuse anything else, if
\* the lease is one of whole seconds; of another the statement drops the rest.
ASSUME EmailOutboxAssumption ==
    /\ Late \notin Workers
    /\ RunTimeout \in Nat \ {0} /\ Lease \in Nat /\ RunTimeout < Lease
    /\ BatchSize \in 1..1000 /\ MaxAttempts \in 1..100
    /\ BaseDelay \in Nat \ {0} /\ MaxDelay \in Nat /\ BaseDelay <= MaxDelay
    /\ MaxExponent \in Nat /\ Retention \in Nat \ {0} /\ MaxFaults \in Nat

Oldest == IF Lease > Retention THEN Lease ELSE Retention

Claims == [worker : Workers \cup {Late}, message : Messages, attempt : Nat,
           next : {"send", "sent", "schedule", "fail"}]

\* "invalid": bookingEmailFromOutbox refuses it; "refused": the mailer's own
\* validation or the SMTP server does.
Contents == {"fine", "refused", "invalid"}

TypeOK ==
    /\ content \in [Messages -> Contents]
    /\ status \in [Messages -> {"none", "pending", "processing", "sent", "failed", "deleted"}]
    /\ attempts \in [Messages -> Nat]
    /\ wait \in [Messages -> 0..MaxDelay]
    /\ age \in [Messages -> 0..Oldest]
    /\ work \subseteq Claims
    /\ ran \in [Workers -> 0..RunTimeout]
    /\ copies \in [Messages -> Nat]
    /\ struck \subseteq Messages
    /\ faults \in 0..MaxFaults

Init ==
    /\ content \in [Messages -> Contents]
    /\ status = [m \in Messages |-> "none"]
    /\ attempts = [m \in Messages |-> 0]
    /\ wait = [m \in Messages |-> 0]
    /\ age = [m \in Messages |-> 0]
    /\ work = {} /\ ran = [w \in Workers |-> 0]
    /\ copies = [m \in Messages |-> 0]
    /\ struck = {} /\ faults = 0

Busy(w) == \E x \in work : x.worker = w

-----------------------------------------------------------------------------

\* A cancellation or a refund leaves its email with the same transaction.
EnqueueBookingEmail(m) ==
    /\ status[m] = "none"
    /\ status' = [status EXCEPT ![m] = "pending"]
    /\ UNCHANGED <<attempts, wait, age, work, ran, copies, struck, faults>>

\* Mutant of Claimable: the claim of another worker is taken over at once.
ClaimableAtOnce(m) ==
    \/ status[m] = "pending" /\ wait[m] = 0
    \/ status[m] = "processing"

\* Mutant of Claimable: a message that a run left behind stays with it.
ClaimablePending(m) == status[m] = "pending" /\ wait[m] = 0

Claimable(m) ==
    \/ status[m] = "pending" /\ wait[m] = 0
    \/ status[m] = "processing" /\ age[m] >= Lease

\* A run of w claims a batch; SKIP LOCKED may leave out any message.
ClaimEmailOutboxMessages(w, S) ==
    /\ ~Busy(w)
    /\ S # {} /\ Cardinality(S) <= BatchSize
    /\ \A m \in S : Claimable(m)
    /\ status' = [m \in Messages |-> IF m \in S THEN "processing" ELSE status[m]]
    /\ attempts' = [m \in Messages |-> IF m \in S THEN attempts[m] + 1 ELSE attempts[m]]
    /\ age' = [m \in Messages |-> IF m \in S THEN 0 ELSE age[m]]
    /\ work' = work \cup {[worker |-> w, message |-> m, attempt |-> attempts'[m],
                           next |-> "send"] : m \in S}
    /\ ran' = [ran EXCEPT ![w] = 0]
    /\ UNCHANGED <<wait, copies, struck, faults>>

\* A worker takes its claims one after the other.
AtHand(x) ==
    \/ x.worker = Late
    \/ x.next # "send"
    \/ \A y \in work : y.worker = x.worker => y.next = "send"

\* The claim x goes on with the call n, or is done with; what is late is
\* done with as soon as it has arrived.
Advance(x, n) ==
    work' = (work \ {x}) \cup
        (IF n = "done" \/ x.worker = Late THEN {} ELSE {[x EXCEPT !.next = n]})

Receive(m) == copies' = [copies EXCEPT ![m] = @ + 1]

\* The message cannot be an email, and no retry would change that.
RejectContent(x) ==
    /\ x.next = "send" /\ AtHand(x) /\ content[x.message] = "invalid"
    /\ Advance(x, "fail")
    /\ UNCHANGED <<rowVars, ran, copies, struck, faults>>

\* The SMTP server accepts the message and closes the session.
SendBookingEmail(x) ==
    /\ x.next = "send" /\ AtHand(x) /\ content[x.message] = "fine"
    /\ Receive(x.message)
    /\ Advance(x, "sent")
    /\ UNCHANGED <<rowVars, ran, struck, faults>>

\* Mutant of AfterError: the budget of attempts is not looked at.
AlwaysRetry(x) == "schedule"

AfterError(x) == IF x.attempt >= MaxAttempts THEN "fail" ELSE "schedule"

\* The mailer's own validation or the server refuses the message.
SendRefused(x) ==
    /\ x.next = "send" /\ AtHand(x) /\ x.worker # Late /\ content[x.message] = "refused"
    /\ Advance(x, AfterError(x))
    /\ UNCHANGED <<rowVars, ran, copies, struck, faults>>

\* Any step of the SMTP session fails; after the last byte of the message,
\* or at QUIT, the server has accepted it all the same.
SendFailed(x) ==
    /\ x.next = "send" /\ AtHand(x) /\ x.worker # Late
    /\ content[x.message] = "fine"
    /\ faults < MaxFaults /\ faults' = faults + 1
    /\ \/ Receive(x.message)
       \/ UNCHANGED copies
    /\ Advance(x, AfterError(x))
    /\ UNCHANGED <<rowVars, ran, struck>>

\* The claim x is no longer the one that holds its row.
Overtaken(x) ==
    \/ attempts[x.message] # x.attempt
    \/ \E y \in work \ {x} : y.message = x.message /\ y.worker # Late

\* Ghost: the statement of x changes its row.
Strike(x) == struck' = IF Overtaken(x) THEN struck \cup {x.message} ELSE struck

MarkEmailOutboxSent(x) ==
    /\ x.next = "sent"
    /\ IF status[x.message] = "processing"
       THEN /\ status' = [status EXCEPT ![x.message] = "sent"]
            /\ age' = [age EXCEPT ![x.message] = 0]
            /\ Strike(x)
       ELSE UNCHANGED <<status, age, struck>>
    /\ Advance(x, "done")
    /\ UNCHANGED <<attempts, wait, ran, copies, faults>>

\* retryDelay: BaseDelay doubled with each attempt, up to MaxDelay.
RetryDelay(n) ==
    LET multiplier == 2 ^ (IF n - 1 > MaxExponent THEN MaxExponent ELSE n - 1)
    IN  IF BaseDelay > MaxDelay \div multiplier THEN MaxDelay ELSE BaseDelay * multiplier

ScheduleEmailOutboxRetry(x) ==
    /\ x.next = "schedule"
    /\ IF status[x.message] = "processing"
       THEN /\ status' = [status EXCEPT ![x.message] = "pending"]
            /\ wait' = [wait EXCEPT ![x.message] = RetryDelay(x.attempt)]
            /\ Strike(x)
       ELSE UNCHANGED <<status, wait, struck>>
    /\ Advance(x, "done")
    /\ UNCHANGED <<attempts, age, ran, copies, faults>>

MarkEmailOutboxFailed(x) ==
    /\ x.next = "fail"
    /\ IF status[x.message] = "processing"
       THEN /\ status' = [status EXCEPT ![x.message] = "failed"]
            /\ Strike(x)
       ELSE UNCHANGED <<status, struck>>
    /\ Advance(x, "done")
    /\ UNCHANGED <<attempts, wait, age, ran, copies, faults>>

\* A statement fails: the worker leaves this message and goes on with the next.
StatementFailed(x) ==
    /\ x.next # "send" /\ x.worker # Late
    /\ faults < MaxFaults /\ faults' = faults + 1
    /\ Advance(x, "done")
    /\ UNCHANGED <<rowVars, ran, copies, struck>>

\* The run of w times out or its process stops: with its context gone the
\* statements of the remaining messages fail too, and their attempts are
\* spent without a try.  The call it is in may be under way.
Stop(w) ==
    /\ Busy(w)
    /\ faults < MaxFaults /\ faults' = faults + 1
    /\ LET mine == {x \in work : x.worker = w}
       IN  \/ work' = work \ mine
           \/ \E x \in mine : /\ AtHand(x)
                              /\ work' = (work \ mine) \cup {[x EXCEPT !.worker = Late]}
    /\ UNCHANGED <<rowVars, ran, copies, struck>>

\* Mutant of RetryFailedEmailOutbox: whatever is finished can be retried.
RetryFinishedEmailOutbox(m) ==
    /\ status[m] \in {"sent", "failed"}
    /\ status' = [status EXCEPT ![m] = "pending"]
    /\ attempts' = [attempts EXCEPT ![m] = 0]
    /\ wait' = [wait EXCEPT ![m] = 0]
    /\ UNCHANGED <<age, work, ran, copies, struck, faults>>

\* An admin retries a message that failed.
RetryFailedEmailOutbox(m) ==
    /\ status[m] = "failed"
    /\ status' = [status EXCEPT ![m] = "pending"]
    /\ attempts' = [attempts EXCEPT ![m] = 0]
    /\ wait' = [wait EXCEPT ![m] = 0]
    /\ UNCHANGED <<age, work, ran, copies, struck, faults>>

\* Mutant of Expired: failed messages are cleaned up as well.
ExpiredOrFailed == {m \in Messages : status[m] \in {"sent", "failed"} /\ age[m] >= Retention}

Expired == {m \in Messages : status[m] = "sent" /\ age[m] >= Retention}

\* The cleanup worker deletes what has been sent long enough ago.
DeleteSentEmailOutboxBefore ==
    /\ Expired # {}
    /\ status' = [m \in Messages |-> IF m \in Expired THEN "deleted" ELSE status[m]]
    /\ UNCHANGED <<attempts, wait, age, work, ran, copies, struck, faults>>

\* Time passes, but no run goes on beyond its timeout.
Tick ==
    /\ \A w \in Workers : Busy(w) => ran[w] < RunTimeout
    /\ wait' = [m \in Messages |-> IF wait[m] > 0 THEN wait[m] - 1 ELSE 0]
    /\ age' = [m \in Messages |->
                  IF status[m] \in {"processing", "sent"} /\ age[m] < Oldest
                  THEN age[m] + 1 ELSE age[m]]
    /\ ran' = [w \in Workers |-> IF Busy(w) THEN ran[w] + 1 ELSE ran[w]]
    /\ UNCHANGED <<status, attempts, work, copies, struck, faults>>

\* The next call of a claim, when it is answered.
Answered(x) ==
    \/ RejectContent(x)
    \/ SendBookingEmail(x)
    \/ SendRefused(x)
    \/ MarkEmailOutboxSent(x)
    \/ ScheduleEmailOutboxRetry(x)
    \/ MarkEmailOutboxFailed(x)

ClaimOf(m) ==
    \E w \in Workers, S \in SUBSET Messages : m \in S /\ ClaimEmailOutboxMessages(w, S)

Step ==
    \/ Tick
    \/ \E w \in Workers, S \in SUBSET Messages : ClaimEmailOutboxMessages(w, S)
    \/ \E x \in work : Answered(x) \/ SendFailed(x) \/ StatementFailed(x)
    \/ \E w \in Workers : Stop(w)
    \/ \E m \in Messages : EnqueueBookingEmail(m) \/ RetryFailedEmailOutbox(m)
    \/ DeleteSentEmailOutboxBefore

Next == Step /\ UNCHANGED content

Spec == Init /\ [][Next]_vars

-----------------------------------------------------------------------------

\* The lease keeps running workers apart: two of them hold one message, or
\* one holds a message whose row says otherwise, only if a late statement of
\* a stopped run struck it, which nothing in the statements prevents.
OneSenderUnlessStruck ==
    \A x, y \in work :
        x.worker # Late /\ x.message \notin struck =>
            /\ status[x.message] = "processing" /\ attempts[x.message] = x.attempt
            /\ y.worker # Late /\ y.message = x.message => x = y

\* Delivery is at least once, and more than once only for a reason: every
\* copy too many has its own error, timeout or crash, whatever is retried,
\* taken over or retried by an admin, and whatever strikes late.
DuplicatesNeedFaults == \A m \in Messages : copies[m] <= 1 + faults

\* The row tells the truth: sent, or deleted after its retention, means that
\* the recipient has it; failed means that the content is no email or that
\* the attempts were used up, unless a late statement struck it.
OutcomeIsTrue ==
    \A m \in Messages :
        /\ status[m] \in {"sent", "deleted"} => copies[m] > 0
        /\ status[m] = "failed" /\ m \notin struck =>
              content[m] = "invalid" \/ attempts[m] >= MaxAttempts

\* Runs that stop spend attempts without counting failures, but no message
\* is claimed more often than its budget and one claim per fault allow.
AttemptsBounded == \A m \in Messages : attempts[m] <= MaxAttempts + faults

-----------------------------------------------------------------------------

\* Time passes, a worker's ticker goes on claiming and a batch takes what has
\* been due longest first, and a call is answered.
Fairness ==
    /\ WF_moving(Tick)
    /\ \A m \in Messages : SF_moving(ClaimOf(m))
    /\ \A w \in Workers : WF_moving(\E x \in work : x.worker = w /\ Answered(x))

FairSpec == Spec /\ Fairness

\* Every email is sent in the end, or marked failed for an admin to see,
\* whatever worker was stopped with it and whatever struck it late; what can
\* be sent and is never retried by hand does not stay with a dead worker.
EmailsEnd ==
    \A m \in Messages :
        status[m] \in {"pending", "processing"} ~> status[m] \in {"sent", "failed"}

=============================================================================
