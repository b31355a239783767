--------------------------- MODULE EmailOutboxProofs ---------------------------
(***************************************************************************)
(* The lease of the email outbox and the truth of its rows, for any        *)
(* messages, workers, batches and faults, and any lease longer than a run. *)
(***************************************************************************)
EXTENDS EmailOutbox, TLAPS, FiniteSetTheorems

Statuses == {"none", "pending", "processing", "sent", "failed", "deleted"}
Next1 == {"send", "sent", "schedule", "fail"}

\* The types the argument needs; the back-off plays no part in it.
Typed ==
    /\ content \in [Messages -> Contents]
    /\ status \in [Messages -> Statuses]
    /\ attempts \in [Messages -> Nat]
    /\ age \in [Messages -> Nat]
    /\ work \subseteq Claims
    /\ ran \in [Workers -> Nat]
    /\ copies \in [Messages -> Nat]
    /\ struck \subseteq Messages

\* A running worker's claim that nobody struck has its row and is the only
\* one of a running worker; its lease is no older than its run.
Leased ==
    \A x \in work : x.worker # Late /\ x.message \notin struck =>
        /\ status[x.message] = "processing" /\ attempts[x.message] = x.attempt
        /\ age[x.message] <= ran[x.worker] /\ ran[x.worker] <= RunTimeout
        /\ \A y \in work : y.worker # Late /\ y.message = x.message => x = y

\* What a claim is about to record is so.
Grounded ==
    \A x \in work :
        /\ x.next = "sent" => copies[x.message] > 0
        /\ x.next = "fail" => content[x.message] = "invalid" \/ x.attempt >= MaxAttempts

OutboxInv == Typed /\ Leased /\ Grounded /\ OutcomeIsTrue

LEMMA InitOutbox == Init => OutboxInv
BY DEF Init, OutboxInv, Typed, Statuses, Leased, Grounded, OutcomeIsTrue

-----------------------------------------------------------------------------
\* A claim goes on, or is done with.

LEMMA AdvanceClaims ==
    ASSUME Typed, NEW x \in work, NEW n \in Next1 \cup {"done"}, Advance(x, n)
    PROVE  /\ work' \subseteq Claims
           /\ \A y \in work' : \/ y \in work /\ y # x
                               \/ /\ y = [x EXCEPT !.next = n]
                                  /\ y.worker = x.worker /\ y.message = x.message
                                  /\ y.attempt = x.attempt /\ y.next = n
                                  /\ x.worker # Late /\ n # "done"
BY DEF Typed, Advance, Claims, Next1

\* It goes on and leaves its row alone; a copy may have been received.
LEMMA AdvanceOutbox ==
    ASSUME OutboxInv, NEW x \in work, NEW n \in Next1 \cup {"done"}, Advance(x, n),
           UNCHANGED <<content, status, attempts, age, ran, struck>>,
           copies' \in [Messages -> Nat], \A m \in Messages : copies'[m] >= copies[m],
           n = "sent" /\ x.worker # Late => copies'[x.message] > 0,
           n = "fail" => content[x.message] = "invalid" \/ x.attempt >= MaxAttempts
    PROVE  OutboxInv'
<1>1. Typed'
  BY AdvanceClaims DEF OutboxInv, Typed
<1>2. Leased'
  BY AdvanceClaims DEF OutboxInv, Leased
<1>3. Grounded'
  BY AdvanceClaims DEF OutboxInv, Grounded, Typed, Claims
<1>4. OutcomeIsTrue'
  BY DEF OutboxInv, OutcomeIsTrue, Typed
<1> QED
  BY <1>1, <1>2, <1>3, <1>4 DEF OutboxInv

\* It records its outcome and is done with.
LEMMA RecordOutbox ==
    ASSUME OutboxInv, NEW x \in work, Advance(x, "done"), NEW s \in Statuses,
           IF status[x.message] = "processing"
           THEN /\ status' = [status EXCEPT ![x.message] = s] /\ Strike(x)
           ELSE UNCHANGED <<status, struck>>,
           age' \in [Messages -> Nat],
           \A m \in Messages : m # x.message \/ status[m] # "processing" => age'[m] = age[m],
           UNCHANGED <<content, attempts, ran, copies>>,
           s \in {"sent", "deleted"} => copies[x.message] > 0,
           s = "failed" => content[x.message] = "invalid" \/ x.attempt >= MaxAttempts
    PROVE  OutboxInv'
<1>1. x.message \in Messages
  BY DEF OutboxInv, Typed, Claims
<1>2. /\ work' \subseteq Claims
      /\ \A y \in work' : y \in work /\ y # x
  BY AdvanceClaims DEF OutboxInv
<1>3. /\ struck' \subseteq Messages /\ struck \subseteq struck'
      /\ status[x.message] = "processing" /\ x.message \notin struck' => ~Overtaken(x)
  BY <1>1 DEF OutboxInv, Typed, Strike
<1>4. Typed'
  BY <1>2, <1>3 DEF OutboxInv, Typed
<1>5. Leased'
  <2>1. ASSUME NEW y \in work', y.worker # Late, y.message \notin struck'
        PROVE  y.message # x.message \/ status[x.message] # "processing"
    BY <1>2, <1>3, <2>1 DEF Overtaken
  <2>2. ASSUME NEW y \in work', y.worker # Late, y.message \notin struck'
        PROVE  status'[y.message] = status[y.message] /\ age'[y.message] = age[y.message]
    BY <1>2, <2>1, <2>2 DEF OutboxInv, Typed, Claims
  <2> QED
    BY <1>2, <1>3, <2>2 DEF OutboxInv, Leased
<1>6. Grounded'
  BY <1>2 DEF OutboxInv, Grounded
<1>7. OutcomeIsTrue'
  <2>1. ASSUME NEW m \in Messages, status'[m] # status[m]
        PROVE  m = x.message /\ status[m] = "processing" /\ status'[m] = s
    BY <2>1 DEF OutboxInv, Typed
  <2>2. status[x.message] = "processing" /\ x.message \notin struck' =>
           attempts[x.message] = x.attempt
    BY <1>3 DEF Overtaken
  <2> QED
    BY <1>3, <2>1, <2>2 DEF OutboxInv, OutcomeIsTrue
<1> QED
  BY <1>4, <1>5, <1>6, <1>7 DEF OutboxInv

-----------------------------------------------------------------------------
\* The steps

\* Nothing that is claimed and not struck can be claimed again.
LEMMA ClaimOutbox ==
    ASSUME OutboxInv, NEW w \in Workers, NEW S \in SUBSET Messages,
           ClaimEmailOutboxMessages(w, S), UNCHANGED content
    PROVE  OutboxInv'
<1> DEFINE New(m) == [worker |-> w, message |-> m, attempt |-> attempts'[m], next |-> "send"]
<1>1. /\ status' = [m \in Messages |-> IF m \in S THEN "processing" ELSE status[m]]
      /\ attempts' = [m \in Messages |-> IF m \in S THEN attempts[m] + 1 ELSE attempts[m]]
      /\ age' = [m \in Messages |-> IF m \in S THEN 0 ELSE age[m]]
      /\ work' = work \cup {New(m) : m \in S}
      /\ ran' = [ran EXCEPT ![w] = 0]
      /\ \A m \in S : Claimable(m)
      /\ \A x \in work : x.worker # w
      /\ UNCHANGED <<copies, struck>>
  BY DEF ClaimEmailOutboxMessages, Busy
<1>2. ASSUME NEW x \in work, x.worker # Late, x.message \notin struck
      PROVE  x.message \notin S
  <2>1. x.worker \in Workers /\ x.message \in Messages
    BY <1>2 DEF OutboxInv, Typed, Claims
  <2>2. age[x.message] \in Nat /\ ran[x.worker] \in Nat
    BY <2>1 DEF OutboxInv, Typed
  <2>3. /\ status[x.message] = "processing"
        /\ age[x.message] <= ran[x.worker] /\ ran[x.worker] <= RunTimeout
    BY <1>2 DEF OutboxInv, Leased
  <2>4. RunTimeout \in Nat /\ Lease \in Nat /\ RunTimeout < Lease
    BY EmailOutboxAssumption
  <2>5. ~(age[x.message] >= Lease)
    BY <2>2, <2>3, <2>4
  <2> QED
    BY <1>1, <2>3, <2>5 DEF Claimable
<1>3. w # Late /\ RunTimeout \in Nat
  BY EmailOutboxAssumption
<1>4. \A m \in S : New(m) \in Claims
  BY <1>1 DEF OutboxInv, Typed, Claims
<1>5. Typed'
  <2>1. /\ status' \in [Messages -> Statuses] /\ attempts' \in [Messages -> Nat]
        /\ age' \in [Messages -> Nat]
    BY <1>1 DEF OutboxInv, Typed, Statuses
  <2>2. work' \subseteq Claims
    <3>1. {New(m) : m \in S} \subseteq Claims
      BY <1>4
    <3> HIDE DEF New
    <3> QED
      BY <1>1, <3>1 DEF OutboxInv, Typed
  <2>3. ran' \in [Workers -> Nat]
    BY <1>1 DEF OutboxInv, Typed
  <2> QED
    BY <1>1, <2>1, <2>2, <2>3 DEF OutboxInv, Typed
<1>6. Leased'
  <2>1. ASSUME NEW x \in work', x.worker # Late, x.message \notin struck'
        PROVE  /\ status'[x.message] = "processing" /\ attempts'[x.message] = x.attempt
               /\ age'[x.message] <= ran'[x.worker] /\ ran'[x.worker] <= RunTimeout
               /\ \A y \in work' : y.worker # Late /\ y.message = x.message => x = y
    <3>1. CASE x \in work
      <4>1. x.message \in Messages \ S /\ x.worker # w
        BY <1>1, <1>2, <2>1, <3>1 DEF OutboxInv, Typed, Claims
      <4>2. \A y \in work' : y.message = x.message => y \in work
        BY <1>1, <4>1
      <4>3. x.worker \in Workers
        BY <2>1, <3>1 DEF OutboxInv, Typed, Claims
      <4> QED
        BY <1>1, <2>1, <3>1, <4>1, <4>2, <4>3 DEF OutboxInv, Typed, Leased
    <3>2. CASE x \notin work
      <4>1. PICK m \in S : x = New(m)
        BY <1>1, <3>2
      <4>2. \A y \in work' : y.worker # Late /\ y.message = m => y = New(m)
        BY <1>1, <1>2, <2>1, <4>1
      <4> QED
        BY <1>1, <1>3, <4>1, <4>2 DEF OutboxInv, Typed
    <3> QED
      BY <3>1, <3>2
  <2> QED
    BY <2>1 DEF Leased
<1>7. Grounded'
  BY <1>1 DEF OutboxInv, Grounded
<1>8. OutcomeIsTrue'
  BY <1>1 DEF OutboxInv, OutcomeIsTrue
<1> QED
  BY <1>5, <1>6, <1>7, <1>8 DEF OutboxInv

\* A run stops: its claims are gone but for the call that was under way.
LEMMA StopOutbox ==
    ASSUME OutboxInv, NEW w \in Workers, Stop(w), UNCHANGED content
    PROVE  OutboxInv'
<1>1. /\ UNCHANGED <<status, attempts, age, ran, copies, struck>>
      /\ \A y \in work' : \/ y \in work
                          \/ \E x \in work : y = [x EXCEPT !.worker = Late]
  BY DEF Stop, rowVars
<1>2. \A x \in work : LET y == [x EXCEPT !.worker = Late]
                      IN  /\ y \in Claims /\ y.worker = Late /\ y.message = x.message
                          /\ y.attempt = x.attempt /\ y.next = x.next
  BY DEF OutboxInv, Typed, Claims
<1>3. Typed'
  BY <1>1, <1>2 DEF OutboxInv, Typed
<1>4. Leased'
  <2>1. \A y \in work' : y.worker # Late => y \in work
    BY <1>1, <1>2
  <2> QED
    BY <1>1, <2>1 DEF OutboxInv, Leased
<1>5. Grounded'
  <2>1. ASSUME NEW y \in work'
        PROVE  \E x \in work : /\ y.message = x.message /\ y.attempt = x.attempt
                               /\ y.next = x.next
    BY <1>1, <1>2
  <2> QED
    BY <1>1, <2>1 DEF OutboxInv, Grounded
<1>6. OutcomeIsTrue'
  BY <1>1 DEF OutboxInv, OutcomeIsTrue
<1> QED
  BY <1>3, <1>4, <1>5, <1>6 DEF OutboxInv

\* Rows that no claim holds: made, retried by an admin, deleted.
LEMMA RowsOutbox ==
    ASSUME OutboxInv, UNCHANGED content,
           \/ \E m \in Messages : EnqueueBookingEmail(m) \/ RetryFailedEmailOutbox(m)
           \/ DeleteSentEmailOutboxBefore
    PROVE  OutboxInv'
<1>1. /\ UNCHANGED <<age, work, ran, copies, struck>>
      /\ status' \in [Messages -> Statuses] /\ attempts' \in [Messages -> Nat]
      /\ \A m \in Messages : \/ status'[m] = status[m] /\ attempts'[m] = attempts[m]
                             \/ status[m] \in {"none", "failed"} /\ status'[m] = "pending"
                             \/ status[m] = "sent" /\ status'[m] = "deleted"
  BY DEF EnqueueBookingEmail, RetryFailedEmailOutbox, DeleteSentEmailOutboxBefore, Expired,
         OutboxInv, Typed, Statuses
<1>2. Typed'
  BY <1>1 DEF OutboxInv, Typed
<1>3. Leased'
  BY <1>1 DEF OutboxInv, Leased, Typed, Claims
<1>4. Grounded'
  BY <1>1 DEF OutboxInv, Grounded
<1>5. OutcomeIsTrue'
  BY <1>1 DEF OutboxInv, OutcomeIsTrue
<1> QED
  BY <1>2, <1>3, <1>4, <1>5 DEF OutboxInv

\* Leases and runs grow older together.
LEMMA TickOutbox ==
    ASSUME OutboxInv, Tick, UNCHANGED content
    PROVE  OutboxInv'
<1>1. /\ UNCHANGED <<status, attempts, work, copies, struck>>
      /\ age' \in [Messages -> Nat] /\ ran' \in [Workers -> Nat]
      /\ \A m \in Messages : age'[m] <= age[m] + 1
  BY DEF Tick, OutboxInv, Typed
<1>2. \A x \in work : x.worker \in Workers =>
         /\ ran'[x.worker] = ran[x.worker] + 1 /\ ran[x.worker] < RunTimeout
  BY DEF Tick, Busy
<1>3. Typed'
  BY <1>1 DEF OutboxInv, Typed
<1>4. Leased'
  <2>1. ASSUME NEW x \in work, x.worker # Late, x.message \notin struck
        PROVE  age'[x.message] <= ran'[x.worker] /\ ran'[x.worker] <= RunTimeout
    <3>1. x.worker \in Workers /\ x.message \in Messages
      BY <2>1 DEF OutboxInv, Typed, Claims
    <3>2. /\ age[x.message] \in Nat /\ ran[x.worker] \in Nat /\ age'[x.message] \in Nat
          /\ age[x.message] <= ran[x.worker]
      BY <1>1, <2>1, <3>1 DEF OutboxInv, Typed, Leased
    <3> QED
      BY <1>1, <1>2, <3>1, <3>2, EmailOutboxAssumption
  <2> QED
    BY <1>1, <2>1 DEF OutboxInv, Leased
<1>5. Grounded' /\ OutcomeIsTrue'
  BY <1>1 DEF OutboxInv, Grounded, OutcomeIsTrue
<1> QED
  BY <1>3, <1>4, <1>5 DEF OutboxInv

\* What a claim does next.
LEMMA ClaimStep ==
    ASSUME OutboxInv, NEW x \in work, UNCHANGED content,
           Answered(x) \/ SendFailed(x) \/ StatementFailed(x)
    PROVE  OutboxInv'
<1> USE DEF rowVars
<1>1. x \in Claims /\ x.message \in Messages
  BY DEF OutboxInv, Typed, Claims
<1>2. \A m \in Messages : copies[m] \in Nat
  BY DEF OutboxInv, Typed
<1>3. CASE RejectContent(x) \/ StatementFailed(x)
  BY <1>2, <1>3, AdvanceOutbox DEF RejectContent, StatementFailed, Next1, OutboxInv, Typed
<1>4. CASE SendBookingEmail(x)
  <2>1. /\ copies' \in [Messages -> Nat] /\ \A m \in Messages : copies'[m] >= copies[m]
        /\ copies'[x.message] > 0
    BY <1>1, <1>2, <1>4 DEF SendBookingEmail, Receive, OutboxInv, Typed
  <2> QED
    BY <1>4, <2>1, AdvanceOutbox DEF SendBookingEmail, Next1
<1>5. CASE SendRefused(x) \/ SendFailed(x)
  <2>1. /\ copies' \in [Messages -> Nat] /\ \A m \in Messages : copies'[m] >= copies[m]
    BY <1>1, <1>2, <1>5 DEF SendRefused, SendFailed, Receive, OutboxInv, Typed
  <2>2. /\ AfterError(x) \in Next1 /\ AfterError(x) # "sent"
        /\ AfterError(x) = "fail" => x.attempt >= MaxAttempts
    BY DEF AfterError, Next1
  <2>3. Advance(x, AfterError(x)) /\ UNCHANGED <<status, attempts, age, ran, struck>>
    BY <1>5 DEF SendRefused, SendFailed
  <2> QED
    BY <2>1, <2>2, <2>3, AdvanceOutbox
<1>6. CASE MarkEmailOutboxSent(x)
  <2>1. copies[x.message] > 0
    BY <1>6 DEF MarkEmailOutboxSent, OutboxInv, Grounded
  <2>2. /\ age' \in [Messages -> Nat]
        /\ \A m \in Messages : m # x.message \/ status[m] # "processing" => age'[m] = age[m]
    BY <1>1, <1>6 DEF MarkEmailOutboxSent, OutboxInv, Typed
  <2> QED
    BY <1>6, <2>1, <2>2, RecordOutbox DEF MarkEmailOutboxSent, Statuses
<1>7. CASE ScheduleEmailOutboxRetry(x)
  <2>1. UNCHANGED <<age, content, attempts, ran, copies>> /\ age \in [Messages -> Nat]
    BY <1>7 DEF ScheduleEmailOutboxRetry, OutboxInv, Typed
  <2> QED
    BY <1>7, <2>1, RecordOutbox DEF ScheduleEmailOutboxRetry, Statuses
<1>8. CASE MarkEmailOutboxFailed(x)
  <2>1. UNCHANGED <<age, content, attempts, ran, copies>> /\ age \in [Messages -> Nat]
    BY <1>8 DEF MarkEmailOutboxFailed, OutboxInv, Typed
  <2>2. content[x.message] = "invalid" \/ x.attempt >= MaxAttempts
    BY <1>8 DEF MarkEmailOutboxFailed, OutboxInv, Grounded
  <2> QED
    BY <1>8, <2>1, <2>2, RecordOutbox DEF MarkEmailOutboxFailed, Statuses
<1> QED
  BY <1>3, <1>4, <1>5, <1>6, <1>7, <1>8 DEF Answered

LEMMA OutboxStep == OutboxInv /\ [Next]_vars => OutboxInv'
<1> SUFFICES ASSUME OutboxInv, [Next]_vars PROVE OutboxInv'
  OBVIOUS
<1>1. CASE UNCHANGED vars
  BY <1>1 DEF vars, moving, rowVars, OutboxInv, Typed, Leased, Grounded, OutcomeIsTrue
<1>2. CASE Next
  BY <1>2, ClaimOutbox, StopOutbox, RowsOutbox, TickOutbox, ClaimStep DEF Next, Step
<1> QED
  BY <1>1, <1>2

-----------------------------------------------------------------------------

\* The lease keeps running workers apart unless a late statement strikes.
THEOREM SentByOneWorker == Spec => []OneSenderUnlessStruck
<1>1. OutboxInv => OneSenderUnlessStruck
  BY DEF OutboxInv, Leased, OneSenderUnlessStruck
<1> QED
  BY InitOutbox, OutboxStep, <1>1, PTL DEF Spec

\* A row marked sent has been received; one marked failed could not be sent.
THEOREM OutcomesTrue == Spec => []OutcomeIsTrue
<1>1. OutboxInv => OutcomeIsTrue
  BY DEF OutboxInv
<1> QED
  BY InitOutbox, OutboxStep, <1>1, PTL DEF Spec

-----------------------------------------------------------------------------
\* Attempts and copies are paid for.  A claim that is under way may be worth
\* one more claim of its message (it schedules a retry, or fails for an admin
\* to retry) or one more copy; so what is counted is what has happened and
\* what is still to come.

On(m) == {x \in work : x.message = m}

\* What can still schedule a retry.
Low(m) == {x \in On(m) : x.attempt < MaxAttempts}

\* What can still send, schedule or fail.
Acting(m) == {x \in On(m) : x.next # "sent"}

\* A running worker has the row, and its lease lasts.
Held(m) ==
    /\ status[m] = "processing"
    /\ \E x \in On(m) : /\ x.worker # Late /\ x.attempt = attempts[m]
                        /\ age[m] <= ran[x.worker] /\ ran[x.worker] <= RunTimeout

\* There is a claim to come without anybody's doing, or with an admin's.
Due(m) == status[m] = "pending" \/ (status[m] = "processing" /\ ~Held(m))
Open(m) == Due(m) \/ status[m] \in {"none", "failed"}

One(P) == IF P THEN 1 ELSE 0

Claimed(m) ==
    /\ IsFiniteSet(On(m))
    /\ \A x \in On(m) : x.next = "schedule" => x.attempt < MaxAttempts
    /\ status[m] = "none" => attempts[m] = 0
    /\ Cardinality(On(m)) <= faults + One(Held(m))

Tried(m) ==
    attempts[m] >= MaxAttempts =>
        attempts[m] + Cardinality(Low(m)) + One(Due(m)) <= MaxAttempts + faults

Copied(m) ==
    IF content[m] = "fine"
    THEN copies[m] + Cardinality(Acting(m)) + One(Open(m)) <= 1 + faults
    ELSE copies[m] = 0

Budget(m) == Claimed(m) /\ Tried(m) /\ Copied(m)

Budgets == faults \in Nat /\ \A m \in Messages : Budget(m)

LEMMA Fewer ==
    ASSUME NEW A, IsFiniteSet(A), NEW B \in SUBSET A
    PROVE  IsFiniteSet(B) /\ Cardinality(A) \in Nat /\ Cardinality(B) \in Nat
           /\ Cardinality(B) <= Cardinality(A)
BY FS_Subset, FS_CardinalityType

LEMMA OneFewer ==
    ASSUME NEW A, IsFiniteSet(A), NEW x \in A, NEW B \in SUBSET (A \ {x})
    PROVE  Cardinality(B) <= Cardinality(A) - 1
<1>1. IsFiniteSet(A \ {x}) /\ Cardinality(A \ {x}) = Cardinality(A) - 1
  BY FS_RemoveElement
<1> QED
  BY <1>1, FS_Subset

LEMMA OneMore ==
    ASSUME NEW A, IsFiniteSet(A), NEW y, NEW B \in SUBSET (A \cup {y})
    PROVE  /\ IsFiniteSet(B) /\ Cardinality(A) \in Nat /\ Cardinality(B) \in Nat
           /\ Cardinality(B) <= Cardinality(A) + 1
<1>1. IsFiniteSet(A \cup {y}) /\ Cardinality(A \cup {y}) <= Cardinality(A) + 1
      /\ Cardinality(A) \in Nat
  BY FS_AddElement, FS_CardinalityType
<1>2. IsFiniteSet(B) /\ Cardinality(B) <= Cardinality(A \cup {y})
  BY <1>1, FS_Subset
<1>3. Cardinality(B) \in Nat /\ Cardinality(A \cup {y}) \in Nat
  BY <1>1, <1>2, FS_CardinalityType
<1> QED
  BY <1>1, <1>2, <1>3

LEMMA Replaced ==
    ASSUME NEW A, IsFiniteSet(A), NEW x, NEW y,
           NEW B \in SUBSET ((A \ {x}) \cup {y}), y \in B => x \in A
    PROVE  /\ IsFiniteSet(B) /\ Cardinality(A) \in Nat /\ Cardinality(B) \in Nat
           /\ Cardinality(B) <= Cardinality(A)
<1>1. CASE x \in A
  <2> DEFINE C == A \ {x}
  <2>1. IsFiniteSet(C) /\ Cardinality(C) = Cardinality(A) - 1 /\ Cardinality(A) \in Nat
    BY <1>1, FS_RemoveElement, FS_CardinalityType
  <2>2. B \in SUBSET (C \cup {y})
    OBVIOUS
  <2> HIDE DEF C
  <2>3. IsFiniteSet(B) /\ Cardinality(B) \in Nat /\ Cardinality(B) <= Cardinality(C) + 1
    BY <2>1, <2>2, OneMore
  <2> QED
    BY <2>1, <2>3
<1>2. CASE x \notin A
  BY <1>2, Fewer
<1> QED
  BY <1>1, <1>2

\* The numbers that are counted.
LEMMA Counts ==
    ASSUME NEW m, IsFiniteSet(On(m))
    PROVE  /\ IsFiniteSet(Low(m)) /\ IsFiniteSet(Acting(m))
           /\ Cardinality(On(m)) \in Nat /\ Cardinality(Low(m)) \in Nat
           /\ Cardinality(Acting(m)) \in Nat
           /\ Cardinality(Low(m)) <= Cardinality(On(m))
<1>1. Low(m) \in SUBSET On(m) /\ Acting(m) \in SUBSET On(m)
  BY DEF Low, Acting
<1> QED
  BY <1>1, Fewer

\* Nothing more is claimed, sent or recorded of a message; a fault pays for
\* what it breaks.
LEMMA BudgetWhenQuiet ==
    ASSUME NEW m \in Messages, OutboxInv, Budget(m), faults \in Nat, faults' \in Nat,
           IsFiniteSet(On(m)'), \A x \in On(m)' : x.next = "schedule" => x.attempt < MaxAttempts,
           Cardinality(On(m)') <= Cardinality(On(m)),
           Cardinality(Low(m)') <= Cardinality(Low(m)),
           Cardinality(Acting(m)') <= Cardinality(Acting(m)),
           status'[m] = status[m], attempts'[m] = attempts[m], content' = content,
           \/ faults' >= faults /\ (Held(m) => Held(m)') /\ copies'[m] = copies[m]
           \/ faults' = faults + 1 /\ copies'[m] = copies[m]
           \/ /\ faults' = faults + 1 /\ (Held(m) => Held(m)')
              /\ content[m] = "fine" /\ copies'[m] \in {copies[m], copies[m] + 1}
    PROVE  Budget(m)'
<1>1. /\ IsFiniteSet(On(m)) /\ attempts[m] \in Nat /\ copies[m] \in Nat
      /\ MaxAttempts \in Nat \ {0}
  BY EmailOutboxAssumption DEF Budget, Claimed, OutboxInv, Typed
<1>2. /\ Cardinality(On(m)) \in Nat /\ Cardinality(Low(m)) \in Nat
      /\ Cardinality(Acting(m)) \in Nat
  BY <1>1, Counts
<1>3. Due(m)' => Due(m) \/ (Held(m) /\ ~Held(m)')
  BY DEF Due
<1>4. Open(m)' => Open(m) \/ (Held(m) /\ ~Held(m)')
  BY <1>3 DEF Open
<1>5. Low(m)' \in SUBSET On(m)' /\ Acting(m)' \in SUBSET On(m)'
  BY DEF Low, Acting
<1>6. /\ Cardinality(On(m)') \in Nat /\ Cardinality(Low(m)') \in Nat
      /\ Cardinality(Acting(m)') \in Nat
  BY <1>5, Fewer
<1>7. Claimed(m)'
  BY <1>1, <1>2, <1>6 DEF Budget, Claimed, One
<1>8. Tried(m)'
  BY <1>1, <1>2, <1>3, <1>6 DEF Budget, Tried, One
<1>9. Copied(m)'
  BY <1>1, <1>2, <1>4, <1>6 DEF Budget, Copied, One
<1> QED
  BY <1>7, <1>8, <1>9 DEF Budget

\* Of a message that the step is not about, nothing changes.
LEMMA BudgetOfOthers ==
    ASSUME NEW m \in Messages, OutboxInv, Budget(m), faults \in Nat, faults' \in Nat,
           faults' >= faults, On(m)' = On(m), content' = content, ran' = ran,
           status'[m] = status[m], attempts'[m] = attempts[m], age'[m] = age[m],
           copies'[m] = copies[m]
    PROVE  Budget(m)'
<1>1. /\ IsFiniteSet(On(m))
      /\ \A x \in On(m) : x.next = "schedule" => x.attempt < MaxAttempts
  BY DEF Budget, Claimed
<1>2. Held(m) => Held(m)'
  BY DEF Held
<1>3. Low(m)' = Low(m) /\ Acting(m)' = Acting(m)
  BY DEF Low, Acting
<1>4. /\ Cardinality(On(m)) \in Nat /\ Cardinality(Low(m)) \in Nat
      /\ Cardinality(Acting(m)) \in Nat
  BY <1>1, Counts
<1> QED
  BY <1>1, <1>2, <1>3, <1>4, BudgetWhenQuiet

\* What becomes of the claims on a message when one of them goes on.
LEMMA AdvanceOn ==
    ASSUME Typed, NEW x \in work, NEW n \in Next1 \cup {"done"}, Advance(x, n), NEW m \in Messages,
           NEW y, y = [x EXCEPT !.next = n]
    PROVE  /\ m # x.message => On(m)' = On(m)
           /\ On(m)' \subseteq (On(m) \ {x}) \cup {y}
           /\ On(m) \ {x} \subseteq On(m)'
           /\ n = "done" \/ x.worker = Late => On(m)' \subseteq On(m) \ {x}
           /\ n # "done" /\ x.worker # Late /\ m = x.message => y \in On(m)'
           /\ y.worker = x.worker /\ y.message = x.message /\ y.attempt = x.attempt
           /\ y.next = n
<1>1. x \in Claims
  BY DEF Typed
<1>2. /\ y.worker = x.worker /\ y.message = x.message /\ y.attempt = x.attempt
      /\ y.next = n
  BY <1>1 DEF Claims
<1>3. CASE n = "done" \/ x.worker = Late
  <2>1. work' = work \ {x}
    BY <1>3 DEF Advance
  <2> QED
    BY <1>2, <1>3, <2>1 DEF On
<1>4. CASE n # "done" /\ x.worker # Late
  <2>1. work' = (work \ {x}) \cup {y}
    BY <1>4 DEF Advance
  <2> QED
    BY <1>2, <1>4, <2>1 DEF On
<1> QED
  BY <1>2, <1>3, <1>4

\* A claim goes on with its next call: after a fault, or with a copy, or with
\* neither.
LEMMA BudgetByAdvance ==
    ASSUME OutboxInv, Budgets, NEW x \in work, NEW n \in Next1 \cup {"done"}, Advance(x, n),
           faults' \in Nat, UNCHANGED <<content, status, attempts, age, ran>>,
           \A m \in Messages : m # x.message => copies'[m] = copies[m],
           x.next = "sent" => n = "done",
           n = "schedule" => x.attempt < MaxAttempts,
           n = "done" => faults' = faults + 1 /\ x.worker # Late,
           \/ faults' \in {faults, faults + 1} /\ copies'[x.message] = copies[x.message]
           \/ /\ faults' = faults + 1 /\ n # "done" /\ content[x.message] = "fine"
              /\ copies'[x.message] \in {copies[x.message], copies[x.message] + 1}
    PROVE  Budgets'
<1> DEFINE y == [x EXCEPT !.next = n]
<1> SUFFICES ASSUME NEW m \in Messages PROVE Budget(m)'
  BY DEF Budgets
<1>1. /\ Typed /\ Budget(m) /\ faults \in Nat /\ IsFiniteSet(On(m))
      /\ \A z \in On(m) : z.next = "schedule" => z.attempt < MaxAttempts
  BY DEF Budgets, Budget, Claimed, OutboxInv
<1>2. /\ m # x.message => On(m)' = On(m)
      /\ On(m)' \subseteq (On(m) \ {x}) \cup {y}
      /\ On(m) \ {x} \subseteq On(m)'
      /\ n = "done" \/ x.worker = Late => On(m)' \subseteq On(m) \ {x}
      /\ n # "done" /\ x.worker # Late /\ m = x.message => y \in On(m)'
      /\ y.worker = x.worker /\ y.message = x.message /\ y.attempt = x.attempt
      /\ y.next = n
  BY <1>1, AdvanceOn
<1> HIDE DEF y
<1>3. CASE m # x.message
  BY <1>1, <1>2, <1>3, BudgetOfOthers
<1>4. CASE m = x.message
  <2>1. x \in On(m)
    BY <1>4 DEF On
  <2>2. /\ Low(m)' \subseteq (Low(m) \ {x}) \cup {y}
        /\ y \in Low(m)' => x \in Low(m)
    BY <1>2, <2>1 DEF Low
  <2>3. /\ Acting(m)' \subseteq (Acting(m) \ {x}) \cup {y}
        /\ y \in Acting(m)' => x \in Acting(m)
    <3>1. y \in On(m)' => n # "done"
      <4>1. \A z \in On(m) : z.next # "done"
        BY <1>1 DEF On, Typed, Claims
      <4> QED
        BY <1>2, <4>1
    <3> QED
      BY <1>2, <2>1, <3>1 DEF Acting
  <2>4. /\ IsFiniteSet(On(m)') /\ Cardinality(On(m)') <= Cardinality(On(m))
    BY <1>1, <1>2, <2>1, Replaced
  <2>5. IsFiniteSet(Low(m)) /\ IsFiniteSet(Acting(m))
    BY <1>1, Counts
  <2>6. /\ Cardinality(Low(m)') <= Cardinality(Low(m))
        /\ Cardinality(Acting(m)') <= Cardinality(Acting(m))
    BY <2>2, <2>3, <2>5, Replaced
  <2>7. \A z \in On(m)' : z.next = "schedule" => z.attempt < MaxAttempts
    BY <1>1, <1>2
  <2>8. n # "done" => (Held(m) => Held(m)')
    BY <1>2, <1>4 DEF Held
  <2> QED
    BY <1>1, <1>4, <2>4, <2>6, <2>7, <2>8, BudgetWhenQuiet
<1> QED
  BY <1>3, <1>4

\* The recipient gets the copy that the claim was counted for.
LEMMA BudgetBySend ==
    ASSUME OutboxInv, Budgets, NEW x \in work, SendBookingEmail(x), UNCHANGED content
    PROVE  Budgets'
<1> DEFINE y == [x EXCEPT !.next = "sent"]
<1>1. /\ x.next = "send" /\ content[x.message] = "fine" /\ Advance(x, "sent")
      /\ "sent" \in Next1 \cup {"done"}
      /\ UNCHANGED <<content, status, attempts, age, ran, faults>>
      /\ copies' = [copies EXCEPT ![x.message] = @ + 1]
  BY DEF SendBookingEmail, rowVars, Receive, Next1
<1>2. copies \in [Messages -> Nat] /\ Typed
  BY DEF OutboxInv, Typed
<1> SUFFICES ASSUME NEW m \in Messages PROVE Budget(m)'
  BY <1>1 DEF Budgets
<1>3. /\ Budget(m) /\ faults \in Nat /\ IsFiniteSet(On(m))
      /\ \A z \in On(m) : z.next = "schedule" => z.attempt < MaxAttempts
  BY DEF Budgets, Budget, Claimed
<1>4. /\ m # x.message => On(m)' = On(m)
      /\ On(m)' \subseteq (On(m) \ {x}) \cup {y}
      /\ On(m) \ {x} \subseteq On(m)'
      /\ x.worker # Late /\ m = x.message => y \in On(m)'
      /\ y.worker = x.worker /\ y.message = x.message /\ y.attempt = x.attempt
      /\ y.next = "sent"
  BY <1>1, <1>2, AdvanceOn
<1> HIDE DEF y
<1>5. CASE m # x.message
  BY <1>1, <1>2, <1>3, <1>4, <1>5, BudgetOfOthers
<1>6. CASE m = x.message
  <2>1. x \in On(m) /\ x \in Acting(m)
    BY <1>1, <1>6 DEF On, Acting
  <2>2. /\ Low(m)' \subseteq (Low(m) \ {x}) \cup {y}
        /\ y \in Low(m)' => x \in Low(m)
        /\ Acting(m)' \subseteq Acting(m) \ {x}
    BY <1>4, <2>1 DEF Low, Acting
  <2>3. /\ IsFiniteSet(On(m)') /\ Cardinality(On(m)') <= Cardinality(On(m))
    BY <1>3, <1>4, <2>1, Replaced
  <2>4. /\ IsFiniteSet(Low(m)) /\ IsFiniteSet(Acting(m))
        /\ Cardinality(Low(m)) \in Nat /\ Cardinality(Acting(m)) \in Nat
        /\ Cardinality(On(m)) \in Nat
    BY <1>3, Counts
  <2>5. /\ Cardinality(Low(m)') <= Cardinality(Low(m)) /\ Cardinality(Low(m)') \in Nat
        /\ Cardinality(Acting(m)') <= Cardinality(Acting(m)) - 1
        /\ Cardinality(Acting(m)') \in Nat /\ Cardinality(On(m)') \in Nat
    <3>1. Low(m)' \in SUBSET On(m)' /\ Acting(m)' \in SUBSET On(m)'
      BY DEF Low, Acting
    <3>2. /\ Cardinality(Low(m)') \in Nat /\ Cardinality(Acting(m)') \in Nat
          /\ Cardinality(On(m)') \in Nat
      BY <2>3, <3>1, Fewer
    <3> QED
      BY <2>1, <2>2, <2>4, <3>2, Replaced, OneFewer
  <2>6. \A z \in On(m)' : z.next = "schedule" => z.attempt < MaxAttempts
    BY <1>3, <1>4
  <2>7. Held(m) => Held(m)'
    BY <1>1, <1>4, <1>6 DEF Held
  <2>8. (Due(m)' => Due(m)) /\ (Open(m)' => Open(m))
    BY <1>1, <2>7 DEF Due, Open
  <2>9. /\ attempts[m] \in Nat /\ MaxAttempts \in Nat /\ copies[m] \in Nat
        /\ copies'[m] = copies[m] + 1 /\ content'[m] = "fine"
        /\ status'[m] = status[m] /\ attempts'[m] = attempts[m]
    BY <1>1, <1>2, <1>6, EmailOutboxAssumption DEF OutboxInv, Typed
  <2>10. Claimed(m)'
    BY <1>1, <1>3, <2>3, <2>4, <2>5, <2>6, <2>7, <2>9 DEF Budget, Claimed, One
  <2>11. Tried(m)'
    BY <1>1, <1>3, <2>4, <2>5, <2>8, <2>9 DEF Budget, Tried, One
  <2>12. Copied(m)'
    BY <1>1, <1>3, <2>4, <2>5, <2>8, <2>9 DEF Budget, Copied, One
  <2> QED
    BY <2>10, <2>11, <2>12 DEF Budget
<1> QED
  BY <1>5, <1>6

\* An outcome is recorded, or comes too late to be.
LEMMA BudgetByRecord ==
    ASSUME OutboxInv, Budgets, NEW x \in work, Advance(x, "done"),
           NEW s \in {"sent", "pending", "failed"},
           x.next = CASE s = "sent" -> "sent" [] s = "pending" -> "schedule" [] OTHER -> "fail",
           IF status[x.message] = "processing"
           THEN status' = [status EXCEPT ![x.message] = s]
           ELSE status' = status,
           \A m \in Messages : m # x.message => age'[m] = age[m],
           UNCHANGED <<content, attempts, ran, copies, faults>>
    PROVE  Budgets'
<1>1. /\ Typed /\ "done" \in Next1 \cup {"done"} /\ status \in [Messages -> Statuses]
      /\ x.message \in Messages /\ copies \in [Messages -> Nat]
  BY DEF OutboxInv, Typed, Claims
<1> SUFFICES ASSUME NEW m \in Messages PROVE Budget(m)'
  BY DEF Budgets
<1>2. /\ Budget(m) /\ faults \in Nat /\ IsFiniteSet(On(m))
      /\ \A z \in On(m) : z.next = "schedule" => z.attempt < MaxAttempts
  BY DEF Budgets, Budget, Claimed
<1>3. /\ m # x.message => On(m)' = On(m)
      /\ On(m)' \subseteq On(m) \ {x}
  <2> DEFINE y == [x EXCEPT !.next = "done"]
  <2>1. y = [x EXCEPT !.next = "done"]
    OBVIOUS
  <2> HIDE DEF y
  <2> QED
    BY <1>1, <2>1, AdvanceOn
<1>4. CASE m # x.message
  <2>1. status'[m] = status[m]
    BY <1>1, <1>4
  <2> QED
    BY <1>2, <1>3, <1>4, <2>1, BudgetOfOthers
<1>5. CASE m = x.message
  <2>1. x \in On(m)
    BY <1>5 DEF On
  <2>2. /\ Low(m)' \subseteq Low(m) \ {x} /\ Acting(m)' \subseteq Acting(m) \ {x}
        /\ s = "pending" => x \in Low(m)
        /\ s # "sent" => x \in Acting(m)
    BY <1>2, <1>3, <2>1 DEF Low, Acting
  <2>3. /\ IsFiniteSet(Low(m)) /\ IsFiniteSet(Acting(m))
        /\ Cardinality(Low(m)) \in Nat /\ Cardinality(Acting(m)) \in Nat
        /\ Cardinality(On(m)) \in Nat
    BY <1>2, Counts
  <2>4. /\ IsFiniteSet(On(m)') /\ Cardinality(On(m)') \in Nat
        /\ Cardinality(On(m)') <= Cardinality(On(m)) - 1
    BY <1>2, <1>3, <2>1, Fewer, OneFewer
  <2>5. /\ Cardinality(Low(m)') \in Nat /\ Cardinality(Acting(m)') \in Nat
        /\ Cardinality(Low(m)') <= Cardinality(Low(m))
        /\ Cardinality(Acting(m)') <= Cardinality(Acting(m))
        /\ s = "pending" => Cardinality(Low(m)') <= Cardinality(Low(m)) - 1
        /\ s # "sent" => Cardinality(Acting(m)') <= Cardinality(Acting(m)) - 1
    <3>1. Low(m)' \in SUBSET Low(m) /\ Acting(m)' \in SUBSET Acting(m)
      BY <2>2
    <3> QED
      BY <2>2, <2>3, <3>1, Fewer, OneFewer
  <2>6. \A z \in On(m)' : z.next = "schedule" => z.attempt < MaxAttempts
    BY <1>2, <1>3
  <2>7. CASE status[m] # "processing"
    <3>1. status'[m] = status[m] /\ ~Held(m)
      BY <1>5, <2>7 DEF Held
    <3> QED
      BY <1>2, <2>3, <2>4, <2>5, <2>6, <3>1, BudgetWhenQuiet
  <2>8. CASE status[m] = "processing"
    <3>1. /\ status'[m] = s /\ ~Held(m)' /\ (Due(m)' <=> s = "pending")
          /\ (Open(m)' <=> s # "sent")
      BY <1>1, <1>5, <2>8 DEF Held, Due, Open
    <3>2. attempts[m] \in Nat /\ MaxAttempts \in Nat /\ copies[m] \in Nat
      BY <1>1, EmailOutboxAssumption DEF OutboxInv, Typed
    <3>3. Claimed(m)'
      BY <1>2, <2>3, <2>4, <2>6, <3>1 DEF Budget, Claimed, One
    <3>4. Tried(m)'
      BY <1>2, <2>3, <2>5, <3>1, <3>2 DEF Budget, Tried, One
    <3>5. Copied(m)'
      BY <1>2, <2>3, <2>5, <3>1, <3>2 DEF Budget, Copied, One
    <3> QED
      BY <3>3, <3>4, <3>5 DEF Budget
  <2> QED
    BY <2>7, <2>8
<1> QED
  BY <1>4, <1>5

\* A claim that had come due is made.
LEMMA BudgetByClaim ==
    ASSUME OutboxInv, Budgets, NEW w \in Workers, NEW S \in SUBSET Messages,
           ClaimEmailOutboxMessages(w, S), UNCHANGED content
    PROVE  Budgets'
<1> DEFINE New(m) == [worker |-> w, message |-> m, attempt |-> attempts'[m], next |-> "send"]
<1>1. /\ status' = [m \in Messages |-> IF m \in S THEN "processing" ELSE status[m]]
      /\ attempts' = [m \in Messages |-> IF m \in S THEN attempts[m] + 1 ELSE attempts[m]]
      /\ age' = [m \in Messages |-> IF m \in S THEN 0 ELSE age[m]]
      /\ work' = work \cup {New(m) : m \in S}
      /\ ran' = [ran EXCEPT ![w] = 0]
      /\ \A m \in S : Claimable(m)
      /\ \A x \in work : x.worker # w
      /\ UNCHANGED <<copies, faults>>
  BY DEF ClaimEmailOutboxMessages, Busy
<1>2. /\ w # Late /\ RunTimeout \in Nat /\ Lease \in Nat /\ RunTimeout < Lease
      /\ MaxAttempts \in Nat \ {0}
  BY EmailOutboxAssumption
<1> SUFFICES ASSUME NEW m \in Messages PROVE Budget(m)'
  BY <1>1 DEF Budgets
<1>3. /\ Budget(m) /\ faults \in Nat /\ IsFiniteSet(On(m)) /\ faults' = faults
      /\ \A z \in On(m) : z.next = "schedule" => z.attempt < MaxAttempts
  BY <1>1 DEF Budgets, Budget, Claimed
<1>4. /\ attempts \in [Messages -> Nat] /\ age \in [Messages -> Nat] /\ ran \in [Workers -> Nat]
      /\ copies \in [Messages -> Nat] /\ work \subseteq Claims
  BY DEF OutboxInv, Typed
<1>5. /\ Cardinality(On(m)) \in Nat /\ Cardinality(Low(m)) \in Nat
      /\ Cardinality(Acting(m)) \in Nat /\ IsFiniteSet(Low(m)) /\ IsFiniteSet(Acting(m))
      /\ Cardinality(Low(m)) <= Cardinality(On(m))
  BY <1>3, Counts
<1>6. CASE m \notin S
  <2>1. On(m)' = On(m)
    BY <1>1, <1>6 DEF On
  <2>2. \A x \in On(m) : x.worker # Late => ran'[x.worker] = ran[x.worker]
    BY <1>1, <1>4 DEF On, Claims
  <2>3. status'[m] = status[m] /\ attempts'[m] = attempts[m] /\ age'[m] = age[m]
    BY <1>1, <1>6
  <2>4. Held(m) => Held(m)'
    BY <2>1, <2>2, <2>3 DEF Held
  <2>5. Low(m)' = Low(m) /\ Acting(m)' = Acting(m)
    BY <2>1 DEF Low, Acting
  <2>6. /\ IsFiniteSet(On(m)') /\ Cardinality(On(m)') <= Cardinality(On(m))
        /\ Cardinality(Low(m)') <= Cardinality(Low(m))
        /\ Cardinality(Acting(m)') <= Cardinality(Acting(m))
        /\ \A z \in On(m)' : z.next = "schedule" => z.attempt < MaxAttempts
    BY <1>3, <1>5, <2>1, <2>5
  <2>7. faults' \in Nat /\ faults' >= faults /\ copies'[m] = copies[m]
    BY <1>1, <1>3
  <2> HIDE DEF New
  <2> QED
    BY <1>3, <2>3, <2>4, <2>6, <2>7, BudgetWhenQuiet
<1>7. CASE m \in S
  <2>1. ~Held(m) /\ Due(m) /\ Open(m)
    <3>1. ASSUME Held(m) PROVE FALSE
      <4>1. PICK x \in On(m) : /\ x.worker # Late /\ age[m] <= ran[x.worker]
                               /\ ran[x.worker] <= RunTimeout
        BY <3>1 DEF Held
      <4>2. x.worker \in Workers
        BY <1>4, <4>1 DEF On, Claims
      <4>3. age[m] \in Nat /\ ran[x.worker] \in Nat
        BY <1>4, <4>2
      <4>4. ~(age[m] >= Lease)
        BY <1>2, <4>1, <4>3
      <4> QED
        BY <1>1, <1>7, <3>1, <4>4 DEF Claimable, Held
    <3> QED
      BY <1>1, <1>7, <3>1 DEF Claimable, Due, Open
  <2> DEFINE y == New(m)
  <2>2. /\ y.worker = w /\ y.message = m /\ y.attempt = attempts[m] + 1 /\ y.next = "send"
        /\ attempts'[m] = attempts[m] + 1
    BY <1>1, <1>7
  <2>3. On(m)' = On(m) \cup {y}
    BY <1>1, <1>7 DEF On
  <2> HIDE DEF y
  <2>4. /\ status'[m] = "processing" /\ age'[m] = 0 /\ ran'[w] = 0 /\ attempts[m] \in Nat
        /\ copies[m] \in Nat /\ copies'[m] = copies[m]
    BY <1>1, <1>4, <1>7
  <2>5. Held(m)' /\ ~Due(m)' /\ ~Open(m)'
    BY <1>2, <2>2, <2>3, <2>4 DEF Held, Due, Open
  <2>6. /\ Low(m)' \subseteq Low(m) \cup {y} /\ Acting(m)' \subseteq Acting(m) \cup {y}
        /\ attempts'[m] >= MaxAttempts => Low(m)' \subseteq Low(m)
    BY <1>2, <2>2, <2>3, <2>4 DEF Low, Acting
  <2>7. /\ IsFiniteSet(On(m)') /\ Cardinality(On(m)') \in Nat
        /\ Cardinality(On(m)') <= Cardinality(On(m)) + 1
        /\ Cardinality(Acting(m)') \in Nat
        /\ Cardinality(Acting(m)') <= Cardinality(Acting(m)) + 1
        /\ Cardinality(Low(m)') \in Nat
        /\ attempts'[m] >= MaxAttempts => Cardinality(Low(m)') <= Cardinality(Low(m))
    BY <1>3, <1>5, <2>3, <2>6, OneMore, Fewer
  <2>8. \A z \in On(m)' : z.next = "schedule" => z.attempt < MaxAttempts
    BY <1>3, <2>2, <2>3
  <2>9. Claimed(m)'
    BY <1>3, <1>5, <2>1, <2>4, <2>5, <2>7, <2>8 DEF Budget, Claimed, One
  <2>10. Tried(m)'
    BY <1>2, <1>3, <1>5, <2>1, <2>2, <2>4, <2>5, <2>7 DEF Budget, Tried, Claimed, One
  <2>11. Copied(m)'
    BY <1>3, <1>5, <2>1, <2>4, <2>5, <2>7 DEF Budget, Copied, One
  <2> QED
    BY <2>9, <2>10, <2>11 DEF Budget
<1> QED
  BY <1>6, <1>7

\* A run that stops costs the claim it had; the late call is the same claim.
LEMMA BudgetByStop ==
    ASSUME OutboxInv, Budgets, NEW w \in Workers, Stop(w), UNCHANGED content
    PROVE  Budgets'
<1>1. /\ UNCHANGED <<status, attempts, age, ran, copies>> /\ faults' = faults + 1
  BY DEF Stop, rowVars
<1> SUFFICES ASSUME NEW m \in Messages PROVE Budget(m)'
  BY <1>1 DEF Budgets
<1>2. /\ Budget(m) /\ faults \in Nat /\ IsFiniteSet(On(m))
      /\ \A z \in On(m) : z.next = "schedule" => z.attempt < MaxAttempts
  BY DEF Budgets, Budget, Claimed
<1>3. IsFiniteSet(Low(m)) /\ IsFiniteSet(Acting(m))
  BY <1>2, Counts
<1>4. \/ On(m)' \subseteq On(m)
      \/ \E x \in On(m) : /\ [x EXCEPT !.worker = Late].next = x.next
                          /\ [x EXCEPT !.worker = Late].attempt = x.attempt
                          /\ On(m)' \subseteq (On(m) \ {x}) \cup {[x EXCEPT !.worker = Late]}
  <2> DEFINE mine == {x \in work : x.worker = w}
  <2>1. CASE work' = work \ mine
    BY <2>1 DEF On
  <2>2. CASE \E x \in mine : work' = (work \ mine) \cup {[x EXCEPT !.worker = Late]}
    <3>1. PICK x \in mine : work' = (work \ mine) \cup {[x EXCEPT !.worker = Late]}
      BY <2>2
    <3> DEFINE y == [x EXCEPT !.worker = Late]
    <3>2. y.message = x.message /\ y.next = x.next /\ y.attempt = x.attempt
      BY DEF OutboxInv, Typed, Claims
    <3> HIDE DEF y
    <3>3. CASE x.message = m
      <4>1. x \in On(m) /\ On(m)' \subseteq (On(m) \ {x}) \cup {y}
        BY <3>1, <3>3 DEF On, y
      <4> QED
        BY <3>2, <4>1 DEF y
    <3>4. CASE x.message # m
      BY <3>1, <3>2, <3>4 DEF On, y
    <3> QED
      BY <3>3, <3>4
  <2> QED
    BY <2>1, <2>2 DEF Stop
<1>5. CASE On(m)' \subseteq On(m)
  <2>1. /\ On(m)' \in SUBSET On(m) /\ Low(m)' \in SUBSET Low(m)
        /\ Acting(m)' \in SUBSET Acting(m)
    BY <1>5 DEF Low, Acting
  <2>2. /\ IsFiniteSet(On(m)') /\ Cardinality(On(m)') <= Cardinality(On(m))
        /\ Cardinality(Low(m)') <= Cardinality(Low(m))
        /\ Cardinality(Acting(m)') <= Cardinality(Acting(m))
    BY <1>2, <1>3, <2>1, Fewer
  <2>3. \A z \in On(m)' : z.next = "schedule" => z.attempt < MaxAttempts
    BY <1>2, <1>5
  <2> QED
    BY <1>1, <1>2, <2>2, <2>3, BudgetWhenQuiet
<1>6. CASE \E x \in On(m) : /\ [x EXCEPT !.worker = Late].next = x.next
                            /\ [x EXCEPT !.worker = Late].attempt = x.attempt
                            /\ On(m)' \subseteq (On(m) \ {x}) \cup {[x EXCEPT !.worker = Late]}
  <2>1. PICK x \in On(m) : /\ [x EXCEPT !.worker = Late].next = x.next
                           /\ [x EXCEPT !.worker = Late].attempt = x.attempt
                           /\ On(m)' \subseteq (On(m) \ {x}) \cup {[x EXCEPT !.worker = Late]}
    BY <1>6
  <2> DEFINE y == [x EXCEPT !.worker = Late]
  <2>2. /\ y.next = x.next /\ y.attempt = x.attempt
        /\ On(m)' \subseteq (On(m) \ {x}) \cup {y}
    BY <2>1
  <2> HIDE DEF y
  <2>3. /\ Low(m)' \subseteq (Low(m) \ {x}) \cup {y} /\ (y \in Low(m)' => x \in Low(m))
        /\ Acting(m)' \subseteq (Acting(m) \ {x}) \cup {y}
        /\ (y \in Acting(m)' => x \in Acting(m))
    BY <2>2 DEF Low, Acting
  <2>4. /\ IsFiniteSet(On(m)') /\ Cardinality(On(m)') <= Cardinality(On(m))
        /\ Cardinality(Low(m)') <= Cardinality(Low(m))
        /\ Cardinality(Acting(m)') <= Cardinality(Acting(m))
    BY <1>2, <1>3, <2>2, <2>3, Replaced
  <2>5. \A z \in On(m)' : z.next = "schedule" => z.attempt < MaxAttempts
    BY <1>2, <2>2
  <2> QED
    BY <1>1, <1>2, <2>4, <2>5, BudgetWhenQuiet
<1> QED
  BY <1>4, <1>5, <1>6

\* Rows that no claim holds: made, retried by an admin, deleted.
LEMMA BudgetByRows ==
    ASSUME OutboxInv, Budgets, UNCHANGED content,
           \/ \E m \in Messages : EnqueueBookingEmail(m) \/ RetryFailedEmailOutbox(m)
           \/ DeleteSentEmailOutboxBefore
    PROVE  Budgets'
<1>1. /\ UNCHANGED <<age, work, ran, copies, faults>>
      /\ \A m \in Messages :
            \/ status'[m] = status[m] /\ attempts'[m] = attempts[m]
            \/ status[m] = "none" /\ status'[m] = "pending" /\ attempts'[m] = attempts[m]
            \/ status[m] = "failed" /\ status'[m] = "pending" /\ attempts'[m] = 0
            \/ status[m] = "sent" /\ status'[m] = "deleted" /\ attempts'[m] = attempts[m]
  BY DEF EnqueueBookingEmail, RetryFailedEmailOutbox, DeleteSentEmailOutboxBefore, Expired,
         OutboxInv, Typed
<1> SUFFICES ASSUME NEW m \in Messages PROVE Budget(m)'
  BY <1>1 DEF Budgets
<1>2. /\ Budget(m) /\ faults \in Nat /\ IsFiniteSet(On(m))
  BY DEF Budgets, Budget, Claimed
<1>3. On(m)' = On(m) /\ Low(m)' = Low(m) /\ Acting(m)' = Acting(m)
  BY <1>1 DEF On, Low, Acting
<1>4. CASE status'[m] = status[m] /\ attempts'[m] = attempts[m]
  BY <1>1, <1>2, <1>3, <1>4, BudgetOfOthers
<1>5. CASE \/ status[m] = "none" /\ status'[m] = "pending" /\ attempts'[m] = attempts[m]
           \/ status[m] = "failed" /\ status'[m] = "pending" /\ attempts'[m] = 0
           \/ status[m] = "sent" /\ status'[m] = "deleted" /\ attempts'[m] = attempts[m]
  <2>1. ~Held(m) /\ ~Held(m)' /\ (Open(m)' => Open(m)) /\ (Due(m)' => attempts'[m] = 0)
        /\ (attempts'[m] >= MaxAttempts => attempts'[m] = attempts[m] /\ ~Due(m)')
    BY <1>2, <1>5, EmailOutboxAssumption DEF Held, Due, Open, Budget, Claimed
  <2>2. /\ Cardinality(On(m)) \in Nat /\ Cardinality(Low(m)) \in Nat
        /\ Cardinality(Acting(m)) \in Nat
        /\ attempts[m] \in Nat /\ copies[m] \in Nat /\ MaxAttempts \in Nat
    BY <1>2, Counts, EmailOutboxAssumption DEF OutboxInv, Typed
  <2>3. Claimed(m)'
    BY <1>1, <1>2, <1>3, <1>5, <2>1, <2>2 DEF Budget, Claimed, One
  <2>4. Tried(m)'
    BY <1>1, <1>2, <1>3, <2>1, <2>2 DEF Budget, Tried, One
  <2>5. Copied(m)'
    BY <1>1, <1>2, <1>3, <2>1, <2>2 DEF Budget, Copied, One
  <2> QED
    BY <2>3, <2>4, <2>5 DEF Budget
<1> QED
  BY <1>1, <1>4, <1>5

\* A lease that is held grows no older than its run.
LEMMA BudgetByTick ==
    ASSUME OutboxInv, Budgets, Tick, UNCHANGED content
    PROVE  Budgets'
<1>1. UNCHANGED <<status, attempts, work, copies, faults>>
  BY DEF Tick
<1> SUFFICES ASSUME NEW m \in Messages PROVE Budget(m)'
  BY <1>1 DEF Budgets
<1>2. /\ Budget(m) /\ faults \in Nat /\ IsFiniteSet(On(m))
      /\ \A z \in On(m) : z.next = "schedule" => z.attempt < MaxAttempts
  BY DEF Budgets, Budget, Claimed
<1>3. On(m)' = On(m) /\ Low(m)' = Low(m) /\ Acting(m)' = Acting(m)
  BY <1>1 DEF On, Low, Acting
<1>4. Held(m) => Held(m)'
  <2> SUFFICES ASSUME Held(m) PROVE Held(m)'
    OBVIOUS
  <2>1. PICK x \in On(m) : /\ x.worker # Late /\ x.attempt = attempts[m]
                           /\ age[m] <= ran[x.worker] /\ ran[x.worker] <= RunTimeout
    BY DEF Held
  <2>2. x \in work /\ x.worker \in Workers
    BY <2>1 DEF On, OutboxInv, Typed, Claims
  <2>3. ran[x.worker] \in Nat /\ age[m] \in Nat /\ RunTimeout \in Nat
    BY <2>2, EmailOutboxAssumption DEF OutboxInv, Typed
  <2>4. ran'[x.worker] = ran[x.worker] + 1 /\ ran[x.worker] < RunTimeout
    BY <2>2 DEF Tick, Busy
  <2>5. age'[m] <= age[m] + 1 /\ age'[m] \in Nat
    BY <2>3 DEF Tick
  <2>6. age'[m] <= ran'[x.worker] /\ ran'[x.worker] <= RunTimeout
    BY <2>1, <2>3, <2>4, <2>5
  <2> QED
    BY <1>1, <1>3, <2>1, <2>6 DEF Held
<1>5. /\ Cardinality(On(m)) \in Nat /\ Cardinality(Low(m)) \in Nat
      /\ Cardinality(Acting(m)) \in Nat
  BY <1>2, Counts
<1>6. /\ IsFiniteSet(On(m)') /\ Cardinality(On(m)') <= Cardinality(On(m))
      /\ Cardinality(Low(m)') <= Cardinality(Low(m))
      /\ Cardinality(Acting(m)') <= Cardinality(Acting(m))
      /\ \A z \in On(m)' : z.next = "schedule" => z.attempt < MaxAttempts
  BY <1>2, <1>3, <1>5
<1> QED
  BY <1>1, <1>2, <1>4, <1>6, BudgetWhenQuiet

\* What a claim does next.
LEMMA BudgetByClaimStep ==
    ASSUME OutboxInv, Budgets, NEW x \in work, UNCHANGED content,
           Answered(x) \/ SendFailed(x) \/ StatementFailed(x)
    PROVE  Budgets'
<1>1. /\ x \in Claims /\ x.message \in Messages /\ faults \in Nat
      /\ copies \in [Messages -> Nat]
      /\ {"sent", "fail", "schedule", "done"} \subseteq Next1 \cup {"done"}
  BY DEF OutboxInv, Typed, Claims, Budgets, Next1
<1>2. CASE RejectContent(x)
  <2>1. /\ x.next = "send" /\ Advance(x, "fail")
        /\ UNCHANGED <<content, status, attempts, age, ran, copies, faults>>
    BY <1>2 DEF RejectContent, rowVars
  <2> QED
    BY <1>1, <2>1, BudgetByAdvance
<1>3. CASE SendBookingEmail(x)
  BY <1>3, BudgetBySend
<1>4. AfterError(x) \in {"fail", "schedule"} /\ (AfterError(x) = "schedule" => x.attempt < MaxAttempts)
  BY <1>1, EmailOutboxAssumption DEF AfterError, Claims
<1>5. CASE SendRefused(x)
  <2>1. /\ x.next = "send" /\ Advance(x, AfterError(x))
        /\ UNCHANGED <<content, status, attempts, age, ran, copies, faults>>
    BY <1>5 DEF SendRefused, rowVars
  <2> QED
    BY <1>1, <1>4, <2>1, BudgetByAdvance
<1>6. CASE SendFailed(x)
  <2>1. /\ x.next = "send" /\ Advance(x, AfterError(x)) /\ content[x.message] = "fine"
        /\ UNCHANGED <<content, status, attempts, age, ran>> /\ faults' = faults + 1
        /\ copies' = copies \/ copies' = [copies EXCEPT ![x.message] = @ + 1]
    BY <1>6 DEF SendFailed, rowVars, Receive
  <2>2. /\ \A m \in Messages : m # x.message => copies'[m] = copies[m]
        /\ copies'[x.message] \in {copies[x.message], copies[x.message] + 1}
    BY <1>1, <2>1
  <2>3. /\ AfterError(x) \in Next1 \cup {"done"} /\ AfterError(x) # "done"
        /\ faults' \in Nat
    BY <1>1, <1>4, <2>1
  <2> QED
    BY <1>4, <2>1, <2>2, <2>3, BudgetByAdvance
<1>7. CASE StatementFailed(x)
  <2>1. /\ x.next # "send" /\ Advance(x, "done") /\ x.worker # Late
        /\ UNCHANGED <<content, status, attempts, age, ran, copies>> /\ faults' = faults + 1
    BY <1>7 DEF StatementFailed, rowVars
  <2> QED
    BY <1>1, <2>1, BudgetByAdvance
<1>8. CASE MarkEmailOutboxSent(x)
  <2>1. /\ x.next = "sent" /\ Advance(x, "done")
        /\ IF status[x.message] = "processing"
           THEN status' = [status EXCEPT ![x.message] = "sent"]
           ELSE status' = status
        /\ \A m \in Messages : m # x.message => age'[m] = age[m]
        /\ UNCHANGED <<content, attempts, ran, copies, faults>>
    BY <1>8 DEF MarkEmailOutboxSent, OutboxInv, Typed
  <2> QED
    BY <2>1, BudgetByRecord
<1>9. CASE ScheduleEmailOutboxRetry(x)
  <2>1. /\ x.next = "schedule" /\ Advance(x, "done")
        /\ IF status[x.message] = "processing"
           THEN status' = [status EXCEPT ![x.message] = "pending"]
           ELSE status' = status
        /\ UNCHANGED <<age, content, attempts, ran, copies, faults>>
    BY <1>9 DEF ScheduleEmailOutboxRetry
  <2> QED
    BY <2>1, BudgetByRecord
<1>10. CASE MarkEmailOutboxFailed(x)
  <2>1. /\ x.next = "fail" /\ Advance(x, "done")
        /\ IF status[x.message] = "processing"
           THEN status' = [status EXCEPT ![x.message] = "failed"]
           ELSE status' = status
        /\ UNCHANGED <<age, content, attempts, ran, copies, faults>>
    BY <1>10 DEF MarkEmailOutboxFailed
  <2> QED
    BY <2>1, BudgetByRecord
<1> QED
  BY <1>2, <1>3, <1>5, <1>6, <1>7, <1>8, <1>9, <1>10 DEF Answered

LEMMA InitBudgets == Init => Budgets
<1> SUFFICES ASSUME Init, NEW m \in Messages PROVE Budget(m)
  BY DEF Init, Budgets
<1>1. On(m) = {} /\ Low(m) = {} /\ Acting(m) = {} /\ faults = 0
  BY DEF Init, On, Low, Acting
<1>2. /\ status[m] = "none" /\ attempts[m] = 0 /\ copies[m] = 0
      /\ MaxAttempts \in Nat \ {0}
  BY EmailOutboxAssumption DEF Init
<1>3. IsFiniteSet({}) /\ Cardinality({}) = 0
  BY FS_EmptySet
<1>4. ~Held(m) /\ Open(m)
  BY <1>2 DEF Held, Open
<1> QED
  BY <1>1, <1>2, <1>3, <1>4 DEF Budget, Claimed, Tried, Copied, One

LEMMA BudgetStep == OutboxInv /\ Budgets /\ [Next]_vars => Budgets'
<1> SUFFICES ASSUME OutboxInv, Budgets, [Next]_vars PROVE Budgets'
  OBVIOUS
<1>1. CASE UNCHANGED vars
  <2>1. UNCHANGED <<content, status, attempts, age, work, ran, copies, faults>>
    BY <1>1 DEF vars, moving, rowVars
  <2> SUFFICES ASSUME NEW m \in Messages PROVE Budget(m)'
    BY <2>1 DEF Budgets
  <2>2. On(m)' = On(m)
    BY <2>1 DEF On
  <2> QED
    BY <2>1, <2>2, BudgetOfOthers DEF Budgets
<1>2. CASE Next
  BY <1>2, BudgetByClaim, BudgetByStop, BudgetByRows, BudgetByTick, BudgetByClaimStep
     DEF Next, Step
<1> QED
  BY <1>1, <1>2

LEMMA BudgetsAlways == Spec => [](OutboxInv /\ Budgets)
BY InitOutbox, OutboxStep, InitBudgets, BudgetStep, PTL DEF Spec

\* Every copy too many has its own fault (DuplicatesNeedFaults).
THEOREM CopiesPaidFor == Spec => []DuplicatesNeedFaults
<1>1. OutboxInv /\ Budgets => DuplicatesNeedFaults
  <2> SUFFICES ASSUME OutboxInv, Budgets, NEW m \in Messages
               PROVE  copies[m] <= 1 + faults
    BY DEF DuplicatesNeedFaults
  <2>1. Budget(m) /\ faults \in Nat /\ copies[m] \in Nat /\ IsFiniteSet(On(m))
    BY DEF Budgets, Budget, Claimed, OutboxInv, Typed
  <2>2. Cardinality(Acting(m)) \in Nat
    BY <2>1, Counts
  <2> QED
    BY <2>1, <2>2 DEF Budget, Copied, One
<1> QED
  BY BudgetsAlways, <1>1, PTL

\* Every claim beyond the budget has its own fault (AttemptsBounded).
THEOREM AttemptsPaidFor == Spec => []AttemptsBounded
<1>1. OutboxInv /\ Budgets => AttemptsBounded
  <2> SUFFICES ASSUME OutboxInv, Budgets, NEW m \in Messages
               PROVE  attempts[m] <= MaxAttempts + faults
    BY DEF AttemptsBounded
  <2>1. /\ Budget(m) /\ faults \in Nat /\ attempts[m] \in Nat /\ IsFiniteSet(On(m))
        /\ MaxAttempts \in Nat
    BY EmailOutboxAssumption DEF Budgets, Budget, Claimed, OutboxInv, Typed
  <2>2. Cardinality(Low(m)) \in Nat
    BY <2>1, Counts
  <2> QED
    BY <2>1, <2>2 DEF Budget, Tried, One
<1> QED
  BY BudgetsAlways, <1>1, PTL

-----------------------------------------------------------------------------
\* Types: the back-off never goes beyond its limit.

LEMMA PowersOfTwo == \A n \in Nat : 2 ^ n \in Nat \ {0}
<1> SUFFICES ASSUME NEW n \in Nat PROVE 2 ^ n \in Nat \ {0}
  OBVIOUS
<1> DEFINE S == SUBSET (1..n)
<1>1. IsFiniteSet(1..n) /\ Cardinality(1..n) = n
  BY FS_Interval
<1>2. IsFiniteSet(S) /\ Cardinality(S) = 2 ^ n
  BY <1>1, FS_SUBSET
<1>3. S # {} /\ Cardinality(S) \in Nat
  BY <1>2, FS_CardinalityType
<1> HIDE DEF S
<1>4. Cardinality(S) # 0
  BY <1>2, <1>3, FS_EmptySet
<1> QED
  BY <1>2, <1>3, <1>4

LEMMA BackOffBounded ==
    ASSUME NEW n \in Nat \ {0}
    PROVE  RetryDelay(n) \in 0..MaxDelay
<1> DEFINE e == IF n - 1 > MaxExponent THEN MaxExponent ELSE n - 1
           k == 2 ^ e
           q == MaxDelay \div k
<1>1. MaxExponent \in Nat /\ MaxDelay \in Nat /\ BaseDelay \in Nat
  BY EmailOutboxAssumption
<1>2. e \in Nat
  BY <1>1
<1>3. RetryDelay(n) = IF BaseDelay > q THEN MaxDelay ELSE BaseDelay * k
  BY DEF RetryDelay
<1> HIDE DEF e
<1>4. k \in Nat \ {0}
  BY <1>2, PowersOfTwo
<1> HIDE DEF k
<1>5. q \in Nat /\ q * k <= MaxDelay
  BY <1>1, <1>4
<1> HIDE DEF q
<1>6. BaseDelay <= q => BaseDelay * k <= q * k /\ BaseDelay * k \in Nat
  BY <1>1, <1>4, <1>5
<1> QED
  BY <1>1, <1>3, <1>4, <1>5, <1>6

\* The rest of TypeOK; a claim has a number, for the delay to be computed from.
Ranged ==
    /\ wait \in [Messages -> 0..MaxDelay]
    /\ age \in [Messages -> 0..Oldest]
    /\ ran \in [Workers -> 0..RunTimeout]
    /\ faults \in 0..MaxFaults
    /\ \A x \in work : x.attempt # 0

LEMMA OldestIsNat == Oldest \in Nat /\ RunTimeout \in Nat /\ MaxDelay \in Nat /\ MaxFaults \in Nat
BY EmailOutboxAssumption DEF Oldest

LEMMA AdvanceRanged ==
    ASSUME Typed, Ranged, NEW x \in work, NEW n \in Next1 \cup {"done"}, Advance(x, n)
    PROVE  \A y \in work' : y.attempt # 0
BY AdvanceClaims DEF Ranged

LEMMA RangedStep == OutboxInv /\ Ranged /\ [Next]_vars => Ranged'
<1> SUFFICES ASSUME OutboxInv, Ranged, [Next]_vars PROVE Ranged'
  OBVIOUS
<1> USE DEF rowVars
<1>1. Typed /\ attempts \in [Messages -> Nat] /\ work \subseteq Claims
  BY DEF OutboxInv, Typed
<1>2. CASE UNCHANGED vars
  BY <1>2 DEF vars, moving, Ranged
<1>3. CASE Tick
  <2>1. wait' \in [Messages -> 0..MaxDelay] /\ age' \in [Messages -> 0..Oldest]
    BY <1>3, OldestIsNat DEF Tick, Ranged
  <2>2. ran' \in [Workers -> 0..RunTimeout]
    BY <1>3, OldestIsNat DEF Tick, Ranged
  <2> QED
    BY <1>3, <2>1, <2>2 DEF Tick, Ranged
<1>4. ASSUME NEW w \in Workers, NEW S \in SUBSET Messages, ClaimEmailOutboxMessages(w, S)
      PROVE  Ranged'
  <2>1. /\ UNCHANGED <<wait, faults>> /\ ran' = [ran EXCEPT ![w] = 0]
        /\ age' = [m \in Messages |-> IF m \in S THEN 0 ELSE age[m]]
        /\ attempts' = [m \in Messages |-> IF m \in S THEN attempts[m] + 1 ELSE attempts[m]]
        /\ work' = work \cup {[worker |-> w, message |-> m, attempt |-> attempts'[m],
                               next |-> "send"] : m \in S}
    BY <1>4 DEF ClaimEmailOutboxMessages
  <2>2. \A x \in work' : x.attempt # 0
    <3>1. \A m \in S : attempts'[m] # 0
      BY <1>1, <2>1
    <3>2. \A x \in work' : x \in work \/ \E m \in S : x.attempt = attempts'[m]
      <4> DEFINE Given(m) == [worker |-> w, message |-> m, attempt |-> attempts'[m],
                              next |-> "send"]
      <4> SUFFICES ASSUME NEW x \in work', x \notin work
                   PROVE  \E m \in S : x.attempt = attempts'[m]
        OBVIOUS
      <4>1. PICK m \in S : x = Given(m)
        BY <2>1
      <4>2. x.attempt = attempts'[m]
        BY <4>1
      <4> QED
        BY <4>2
    <3> QED
      BY <3>1, <3>2 DEF Ranged
  <2> QED
    BY <2>1, <2>2, OldestIsNat DEF Ranged
<1>5. ASSUME NEW x \in work, Answered(x) \/ SendFailed(x) \/ StatementFailed(x)
      PROVE  Ranged'
  <2>1. /\ x \in Claims /\ x.attempt \in Nat \ {0} /\ x.message \in Messages
        /\ {"sent", "fail", "schedule", "done"} \subseteq Next1 \cup {"done"}
        /\ AfterError(x) \in {"fail", "schedule"}
    BY <1>1 DEF Claims, Ranged, Next1, AfterError
  <2>2. \A y \in work' : y.attempt # 0
    <3>1. \E n \in Next1 \cup {"done"} : Advance(x, n)
      BY <1>5, <2>1 DEF Answered, RejectContent, SendBookingEmail, SendRefused, SendFailed,
         StatementFailed, MarkEmailOutboxSent, ScheduleEmailOutboxRetry, MarkEmailOutboxFailed
    <3> QED
      BY <1>1, <3>1, AdvanceRanged
  <2>3. wait' = wait \/ wait' = [wait EXCEPT ![x.message] = RetryDelay(x.attempt)]
    BY <1>5 DEF Answered, RejectContent, SendBookingEmail, SendRefused, SendFailed,
       StatementFailed, MarkEmailOutboxSent, ScheduleEmailOutboxRetry, MarkEmailOutboxFailed
  <2>4. age' = age \/ age' = [age EXCEPT ![x.message] = 0]
    BY <1>5 DEF Answered, RejectContent, SendBookingEmail, SendRefused, SendFailed,
       StatementFailed, MarkEmailOutboxSent, ScheduleEmailOutboxRetry, MarkEmailOutboxFailed
  <2>5. ran' = ran /\ (faults' = faults \/ (faults < MaxFaults /\ faults' = faults + 1))
    BY <1>5 DEF Answered, RejectContent, SendBookingEmail, SendRefused, SendFailed,
       StatementFailed, MarkEmailOutboxSent, ScheduleEmailOutboxRetry, MarkEmailOutboxFailed
  <2>6. RetryDelay(x.attempt) \in 0..MaxDelay
    BY <2>1, BackOffBounded
  <2> QED
    BY <2>2, <2>3, <2>4, <2>5, <2>6, OldestIsNat DEF Ranged
<1>6. ASSUME NEW w \in Workers, Stop(w)
      PROVE  Ranged'
  <2>1. /\ UNCHANGED <<wait, age, ran>> /\ faults < MaxFaults /\ faults' = faults + 1
        /\ \A y \in work' : \/ y \in work
                            \/ \E x \in work : y = [x EXCEPT !.worker = Late]
    BY <1>6 DEF Stop
  <2>2. \A y \in work' : y.attempt # 0
    BY <1>1, <2>1 DEF Ranged, Claims
  <2> QED
    BY <2>1, <2>2, OldestIsNat DEF Ranged
<1>7. ASSUME NEW m \in Messages, EnqueueBookingEmail(m) \/ RetryFailedEmailOutbox(m)
      PROVE  Ranged'
  BY <1>7, OldestIsNat DEF EnqueueBookingEmail, RetryFailedEmailOutbox, Ranged
<1>8. CASE DeleteSentEmailOutboxBefore
  BY <1>8 DEF DeleteSentEmailOutboxBefore, Ranged
<1> QED
  BY <1>2, <1>3, <1>4, <1>5, <1>6, <1>7, <1>8 DEF Next, Step

LEMMA InitRanged == Init => Ranged
BY OldestIsNat DEF Init, Ranged

\* Rows, claims and clocks stay well typed, and no retry is scheduled beyond
\* maxOutboxRetryDelay (TypeOK).
THEOREM TypeCorrect == Spec => []TypeOK
<1>1. OutboxInv /\ Ranged => TypeOK
  BY DEF OutboxInv, Typed, Statuses, Ranged, TypeOK
<1> QED
  BY InitOutbox, OutboxStep, InitRanged, RangedStep, <1>1, PTL DEF Spec

=============================================================================
