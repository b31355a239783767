----------------------------- MODULE RefundProofs -----------------------------
(***************************************************************************)
(* The safety of the refund lease for any number of payments, workers,     *)
(* attempts, faults and late calls, and any lease longer than a run.       *)
(***************************************************************************)
EXTENDS Refund, TLAPS, FiniteSetTheorems

\* The types the argument needs; the back-off plays no part in it.
Typed ==
    /\ pay \in [Payments -> {"succeeded", "refund_pending", "refunded"}]
    /\ failure \in [Payments -> {"none", "refund_provider_error"}]
    /\ attempts \in [Payments -> Nat]
    /\ locked \subseteq Payments
    /\ age \in [Payments -> Nat]
    /\ rows \subseteq Attempts
    /\ mailed \subseteq Payments
    /\ returned \subseteq Payments
    /\ work \subseteq Claims
    /\ ran \in [Workers -> Nat]

\* A running worker holds the leases of its claims, and they are no older
\* than its run.
Leased ==
    \A x \in work : x.worker # Late =>
        /\ HoldsLease(x)
        /\ age[x.payment] <= ran[x.worker]
        /\ ran[x.worker] <= RunTimeout

\* A claim is told from every other by its payment and attempt.
Named ==
    /\ \A x \in work : x.attempt \in 1..attempts[x.payment]
    /\ \A x, y \in work : x.payment = y.payment /\ x.attempt = y.attempt => x = y

\* What the claims still have to do is not done, and what they say is done.
Ordered ==
    \A x \in work :
        /\ x.next # "mark" => \A r \in rows : r.payment = x.payment => r.attempt # x.attempt
        /\ x.next \in {"record", "mark"} => x.payment \in returned
        /\ x.next = "mark" =>
              [payment |-> x.payment, attempt |-> x.attempt, status |-> "succeeded"] \in rows

LeaseInv == Typed /\ Leased /\ Named /\ Ordered /\ AttemptsAreNumbered /\ RefundIsTrue

LEMMA InitLeaseInv == Init => LeaseInv
BY RefundAssumption
DEF Init, LeaseInv, Typed, Leased, Named, Ordered, AttemptsAreNumbered, RefundIsTrue

-----------------------------------------------------------------------------
\* How the set of claims changes when one of them goes on.

Next1 == {"record", "mark", "schedule"}

LEMMA AdvanceClaims ==
    ASSUME Typed, NEW x \in work, NEW n \in Next1 \cup {"done"}, Advance(x, n)
    PROVE  /\ work' \subseteq Claims
           /\ \A y \in work' : \/ y \in work /\ y # x
                               \/ /\ y = [x EXCEPT !.next = n]
                                  /\ y.worker = x.worker /\ y.payment = x.payment
                                  /\ y.attempt = x.attempt /\ y.next = n
                                  /\ x.worker # Late /\ n # "done"
BY DEF Typed, Advance, Claims, Next1

\* The claims keep their names when one goes on and no attempt is made.
LEMMA AdvanceNamed ==
    ASSUME Typed, Named, NEW x \in work, NEW n \in Next1 \cup {"done"}, Advance(x, n),
           UNCHANGED attempts
    PROVE  Named'
<1>1. ASSUME NEW y \in work', NEW z \in work', y.payment = z.payment, y.attempt = z.attempt
      PROVE  y = z
  BY <1>1, AdvanceClaims DEF Named
<1>2. ASSUME NEW y \in work'
      PROVE  y.attempt \in 1..attempts[y.payment]
  BY <1>2, AdvanceClaims DEF Named
<1> QED
  BY <1>1, <1>2 DEF Named

\* Leases survive a step that leaves the locks alone.
LEMMA AdvanceLeased ==
    ASSUME Typed, Leased, NEW x \in work, NEW n \in Next1 \cup {"done"}, Advance(x, n),
           UNCHANGED <<pay, attempts, locked, age, ran>>
    PROVE  Leased'
BY AdvanceClaims DEF Leased, HoldsLease

\* A step that ends the claim x may unlock its payment: the leases of the
\* other running claims are on other payments.
LEMMA ReleaseLeased ==
    ASSUME Typed, Leased, Named, NEW x \in work, HoldsLease(x), Advance(x, "done"),
           \A p \in Payments : p # x.payment => pay'[p] = pay[p],
           locked' = locked \ {x.payment}, UNCHANGED <<attempts, age, ran>>
    PROVE  Leased'
<1>1. ASSUME NEW y \in work', y.worker # Late
      PROVE  /\ HoldsLease(y)' /\ age'[y.payment] <= ran'[y.worker]
             /\ ran'[y.worker] <= RunTimeout
  <2>1. y \in work /\ y # x
    BY AdvanceClaims
  <2>2. y.payment # x.payment
    BY <1>1, <2>1 DEF Leased, Named, HoldsLease
  <2>3. y.payment \in Payments
    BY <2>1 DEF Typed, Claims
  <2> QED
    BY <1>1, <2>1, <2>2, <2>3 DEF Leased, HoldsLease
<1> QED
  BY <1>1 DEF Leased

-----------------------------------------------------------------------------
\* The steps

LEMMA DueInv ==
    ASSUME LeaseInv, NEW p \in Payments,
           MarkPaymentRefundPending(p) \/ RetryFailedRefund(p)
    PROVE  LeaseInv'
<1> USE DEF MarkPaymentRefundPending, RetryFailedRefund
<1>1. Typed'
  BY DEF LeaseInv, Typed
<1>2. Leased'
  BY DEF LeaseInv, Typed, Leased, HoldsLease, Claims
<1>3. Named' /\ Ordered' /\ AttemptsAreNumbered'
  BY DEF LeaseInv, Named, Ordered, AttemptsAreNumbered
<1>4. RefundIsTrue'
  BY DEF LeaseInv, Typed, RefundIsTrue
<1> QED
  BY <1>1, <1>2, <1>3, <1>4 DEF LeaseInv

LEMMA ClaimInv ==
    ASSUME LeaseInv, NEW w \in Workers, NEW S \in SUBSET Payments,
           ClaimRefundPendingPayments(w, S)
    PROVE  LeaseInv'
<1> DEFINE New(p) == [worker |-> w, payment |-> p, attempt |-> attempts'[p],
                      next |-> "refund"]
<1>1. /\ attempts' = [p \in Payments |-> IF p \in S THEN attempts[p] + 1 ELSE attempts[p]]
      /\ locked' = locked \cup S
      /\ age' = [p \in Payments |-> IF p \in S THEN 0 ELSE age[p]]
      /\ work' = work \cup {New(p) : p \in S}
      /\ ran' = [ran EXCEPT ![w] = 0]
      /\ \A p \in S : Claimable(p)
      /\ \A x \in work : x.worker # w
      /\ UNCHANGED <<pay, failure, rows, mailed, returned>>
  BY DEF ClaimRefundPendingPayments, Busy
<1>2. \A x \in work : x.worker # Late => x.payment \notin S
  BY <1>1, RefundAssumption DEF LeaseInv, Typed, Leased, HoldsLease, Claimable, Claims
<1>3. \A p \in Payments : /\ attempts[p] \in Nat /\ attempts'[p] \in Nat
                          /\ attempts[p] <= attempts'[p]
                          /\ p \in S => attempts'[p] = attempts[p] + 1
  BY <1>1 DEF LeaseInv, Typed
<1>4. w # Late
  BY RefundAssumption
<1>5. Typed'
  BY <1>1, <1>3 DEF LeaseInv, Typed, Claims
<1>6. Leased'
  <2>1. ASSUME NEW x \in work', x.worker # Late
        PROVE  /\ HoldsLease(x)' /\ age'[x.payment] <= ran'[x.worker]
               /\ ran'[x.worker] <= RunTimeout
    <3>1. CASE x \in work
      BY <1>1, <1>2, <2>1, <3>1 DEF LeaseInv, Typed, Leased, HoldsLease, Claims
    <3>2. CASE \E p \in S : x = New(p)
      BY <1>1, <3>2, RefundAssumption DEF LeaseInv, Typed, HoldsLease, Claimable
    <3> QED
      BY <1>1, <3>1, <3>2
  <2> QED
    BY <2>1 DEF Leased
<1>7. Named'
  <2>1. \A x \in work : /\ x.payment \in Payments /\ x.attempt \in Nat
                        /\ x.attempt \in 1..attempts[x.payment]
    BY DEF LeaseInv, Typed, Named, Claims
  <2>2. ASSUME NEW x \in work'
        PROVE  x.attempt \in 1..attempts'[x.payment]
    <3>1. CASE x \in work
      BY <1>3, <2>1, <3>1
    <3>2. CASE x \notin work
      <4>1. PICK p \in S : x = New(p)
        BY <1>1, <3>2
      <4>2. x.payment = p /\ x.attempt = attempts'[p]
        BY <4>1
      <4> QED
        BY <1>3, <4>2
    <3> QED
      BY <3>1, <3>2
  <2>3. ASSUME NEW x \in work, NEW y \in work', y \notin work
        PROVE  ~(x.payment = y.payment /\ x.attempt = y.attempt)
    <3>1. PICK p \in S : y = New(p)
      BY <1>1, <2>3
    <3>2. y.payment = p /\ y.attempt = attempts[p] + 1
      BY <1>3, <3>1
    <3> QED
      BY <1>3, <2>1, <3>2
  <2>4. ASSUME NEW x \in work', NEW y \in work', x.payment = y.payment, x.attempt = y.attempt
        PROVE  x = y
    <3>1. CASE x \in work /\ y \in work
      BY <2>4, <3>1 DEF LeaseInv, Named
    <3>2. CASE x \in work /\ y \notin work
      BY <2>3, <2>4, <3>2
    <3>3. CASE x \notin work /\ y \in work
      BY <2>3, <2>4, <3>3
    <3>4. CASE x \notin work /\ y \notin work
      BY <1>1, <2>4, <3>4
    <3> QED
      BY <3>1, <3>2, <3>3, <3>4
  <2> QED
    BY <2>2, <2>4 DEF Named
<1>8. \A r \in rows : /\ r.payment \in Payments /\ r.attempt \in Nat
                      /\ r.attempt \in 1..attempts[r.payment]
  BY DEF LeaseInv, Typed, AttemptsAreNumbered, Attempts
<1>9. Ordered'
  <2>1. ASSUME NEW p \in S, NEW r \in rows, r.payment = p
        PROVE  r.attempt # attempts'[p]
    BY <1>3, <1>8, <2>1
  <2>2. ASSUME NEW x \in work', x \notin work
        PROVE  x.next = "refund" /\ x.payment \in S /\ x.attempt = attempts'[x.payment]
    BY <1>1, <2>2
  <2>3. ASSUME NEW x \in work'
        PROVE  /\ x.next # "mark" =>
                     \A r \in rows' : r.payment = x.payment => r.attempt # x.attempt
               /\ x.next \in {"record", "mark"} => x.payment \in returned'
               /\ x.next = "mark" => [payment |-> x.payment, attempt |-> x.attempt,
                                      status |-> "succeeded"] \in rows'
    <3>1. CASE x \in work
      BY <1>1, <3>1 DEF LeaseInv, Ordered
    <3>2. CASE x \notin work
      BY ZenonT(40), <1>1, <2>1, <2>2, <3>2
    <3> QED
      BY <3>1, <3>2
  <2> QED
    BY <2>3 DEF Ordered
<1>10. AttemptsAreNumbered'
  <2>1. \A r \in rows : r.attempt \in 1..attempts'[r.payment]
    <3>1. ASSUME NEW r \in rows PROVE r.attempt \in 1..attempts'[r.payment]
      BY <1>3, <1>8
    <3> QED
      BY <3>1
  <2> QED
    BY <1>1, <2>1 DEF LeaseInv, AttemptsAreNumbered
<1>11. RefundIsTrue'
  BY <1>1 DEF LeaseInv, Typed, RefundIsTrue, Claimable
<1> QED
  BY <1>5, <1>6, <1>7, <1>9, <1>10, <1>11 DEF LeaseInv

\* The provider's answer, or an error on the way to it.
LEMMA ProviderInv ==
    ASSUME LeaseInv, NEW x \in work, RefundAccepted(x) \/ RefundRefused(x)
    PROVE  LeaseInv'
<1>1. /\ UNCHANGED <<pay, failure, attempts, wait, locked, age, rows, mailed, ran>>
      /\ returned \subseteq returned' /\ returned' \subseteq Payments
      /\ x.next = "refund"
      /\ \/ Advance(x, "record") /\ x.payment \in returned'
         \/ Advance(x, "schedule")
  BY DEF RefundAccepted, RefundRefused, tableVars, LeaseInv, Typed, Claims
<1>2. PICK n \in {"record", "schedule"} :
          Advance(x, n) /\ (n = "record" => x.payment \in returned')
  BY <1>1
<1>3. Typed'
  BY <1>1, <1>2, AdvanceClaims DEF LeaseInv, Typed, Next1
<1>4. Leased' /\ Named'
  BY <1>1, <1>2, AdvanceLeased, AdvanceNamed DEF LeaseInv, Next1
<1>5. Ordered'
  <2>1. ASSUME NEW y \in work'
        PROVE  /\ y.next # "mark" =>
                     \A r \in rows' : r.payment = y.payment => r.attempt # y.attempt
               /\ y.next \in {"record", "mark"} => y.payment \in returned'
               /\ y.next = "mark" => [payment |-> y.payment, attempt |-> y.attempt,
                                      status |-> "succeeded"] \in rows'
    <3>1. CASE y \in work
      BY <1>1, <3>1 DEF LeaseInv, Ordered
    <3>2. CASE y \notin work
      <4>1. y.payment = x.payment /\ y.attempt = x.attempt /\ y.next = n
        BY <1>2, <3>2, AdvanceClaims DEF LeaseInv, Next1
      <4> QED
        BY <1>1, <1>2, <4>1 DEF LeaseInv, Ordered
    <3> QED
      BY <3>1, <3>2
  <2> QED
    BY <2>1 DEF Ordered
<1>6. AttemptsAreNumbered' /\ RefundIsTrue'
  BY <1>1 DEF LeaseInv, AttemptsAreNumbered, RefundIsTrue
<1> QED
  BY <1>3, <1>4, <1>5, <1>6 DEF LeaseInv

\* A claim that ends changes nothing that the others rest on.
LEMMA DoneInv ==
    ASSUME LeaseInv, NEW x \in work, Advance(x, "done"), UNCHANGED <<tableVars, returned, ran>>
    PROVE  LeaseInv'
<1>1. UNCHANGED <<pay, failure, attempts, locked, age, rows, mailed>>
  BY DEF tableVars
<1>2. \A y \in work' : y \in work /\ y # x
  BY AdvanceClaims DEF LeaseInv
<1>3. Typed'
  BY <1>1, <1>2 DEF LeaseInv, Typed
<1>4. Leased' /\ Named'
  BY <1>1, AdvanceLeased, AdvanceNamed DEF LeaseInv
<1>5. Ordered' /\ AttemptsAreNumbered' /\ RefundIsTrue'
  BY <1>1, <1>2 DEF LeaseInv, Ordered, AttemptsAreNumbered, RefundIsTrue
<1> QED
  BY <1>3, <1>4, <1>5 DEF LeaseInv

\* A row for the claim's attempt keeps the numbering, and the other claims
\* are of other attempts.
LEMMA NewRow ==
    ASSUME LeaseInv, NEW x \in work, x.next # "mark", HoldsLease(x),
           NEW st \in {"succeeded", "failed"}, NEW row,
           row = [payment |-> x.payment, attempt |-> attempts[x.payment], status |-> st],
           rows' = rows \cup {row}, UNCHANGED attempts
    PROVE  /\ row \in Attempts /\ AttemptsAreNumbered'
           /\ row.payment = x.payment /\ row.attempt = x.attempt /\ row.status = st
           /\ \A y \in work : y # x /\ y.next # "mark" =>
                 \A r \in rows' : r.payment = y.payment => r.attempt # y.attempt
<1>1. x.payment \in Payments /\ x.attempt \in Nat /\ attempts[x.payment] = x.attempt
      /\ x.attempt \in 1..attempts[x.payment]
  BY DEF LeaseInv, Typed, Claims, HoldsLease, Named
<1>2. row \in Attempts
  BY <1>1 DEF Attempts
<1>3. row.payment = x.payment /\ row.attempt = x.attempt /\ row.status = st
  BY <1>1
<1>4. \A r \in rows : r.payment = x.payment => r.attempt # x.attempt
  BY DEF LeaseInv, Ordered
<1>5. AttemptsAreNumbered'
  BY <1>1, <1>3, <1>4 DEF LeaseInv, AttemptsAreNumbered
<1>6. ASSUME NEW y \in work, y # x, y.next # "mark",
             NEW r \in rows', r.payment = y.payment
      PROVE  r.attempt # y.attempt
  <2>1. CASE r \in rows
    BY <1>6, <2>1 DEF LeaseInv, Ordered
  <2>2. CASE r \notin rows
    <3>1. r.payment = x.payment /\ r.attempt = x.attempt
      BY <1>3, <2>2
    <3> QED
      BY <1>6, <3>1 DEF LeaseInv, Named
  <2> QED
    BY <2>1, <2>2
<1> QED
  BY <1>2, <1>3, <1>5, <1>6

LEMMA RecordInv ==
    ASSUME LeaseInv, NEW x \in work, RecordSuccessfulPaymentRefundAttempt(x)
    PROVE  LeaseInv'
<1>1. /\ UNCHANGED <<pay, failure, attempts, wait, locked, age, mailed, returned, ran>>
      /\ x.next = "record"
  BY DEF RecordSuccessfulPaymentRefundAttempt
<1>2. CASE ~HoldsLease(x)
  BY <1>1, <1>2, DoneInv DEF RecordSuccessfulPaymentRefundAttempt, tableVars
<1>3. CASE HoldsLease(x)
  <2> DEFINE row == [payment |-> x.payment, attempt |-> attempts[x.payment],
                     status |-> "succeeded"]
  <2>1. rows' = rows \cup {row} /\ Advance(x, "mark")
    BY <1>3 DEF RecordSuccessfulPaymentRefundAttempt
  <2>2. /\ row \in Attempts /\ AttemptsAreNumbered'
        /\ row.payment = x.payment /\ row.attempt = x.attempt /\ row.status = "succeeded"
        /\ \A y \in work : y # x /\ y.next # "mark" =>
              \A r \in rows' : r.payment = y.payment => r.attempt # y.attempt
    BY <1>1, <1>3, <2>1, NewRow
  <2>3. attempts[x.payment] = x.attempt /\ x.payment \in returned
    BY <1>1, <1>3 DEF HoldsLease, LeaseInv, Ordered
  <2>4. \A y \in work' : \/ y \in work /\ y # x
                         \/ y.payment = x.payment /\ y.attempt = x.attempt /\ y.next = "mark"
    BY <2>1, AdvanceClaims DEF LeaseInv, Next1
  <2>5. Typed'
    BY <1>1, <2>1, <2>2, AdvanceClaims DEF LeaseInv, Typed, Next1
  <2>6. Leased' /\ Named'
    BY <1>1, <2>1, AdvanceLeased, AdvanceNamed DEF LeaseInv, Next1
  <2>7. Ordered'
    BY <1>1, <2>1, <2>2, <2>3, <2>4 DEF LeaseInv, Ordered
  <2>8. RefundIsTrue'
    BY <1>1, <2>1, <2>2, <2>3 DEF LeaseInv, RefundIsTrue
  <2> QED
    BY <2>2, <2>5, <2>6, <2>7, <2>8 DEF LeaseInv
<1> QED
  BY <1>2, <1>3

LEMMA MarkInv ==
    ASSUME LeaseInv, NEW x \in work, MarkPaymentRefunded(x)
    PROVE  LeaseInv'
<1>1. /\ UNCHANGED <<attempts, wait, age, rows, returned, ran>>
      /\ x.next = "mark" /\ Advance(x, "done")
  BY DEF MarkPaymentRefunded
<1>2. CASE ~HoldsLease(x)
  BY <1>1, <1>2, DoneInv DEF MarkPaymentRefunded, tableVars
<1>3. CASE HoldsLease(x)
  <2>1. /\ pay' = [pay EXCEPT ![x.payment] = "refunded"]
        /\ failure' = [failure EXCEPT ![x.payment] = "none"]
        /\ locked' = locked \ {x.payment}
        /\ mailed' = mailed \cup {x.payment}
    BY <1>3 DEF MarkPaymentRefunded
  <2>2. \A y \in work' : y \in work /\ y # x
    BY <1>1, AdvanceClaims DEF LeaseInv
  <2>3. x.payment \in Payments /\ attempts[x.payment] = x.attempt
    BY <1>3 DEF HoldsLease, LeaseInv, Typed, Claims
  <2>4. Typed'
    BY <1>1, <2>1, <2>2, <2>3 DEF LeaseInv, Typed
  <2>5. Leased'
    BY <1>1, <1>3, <2>1, ReleaseLeased DEF LeaseInv, Typed
  <2>6. Named'
    BY <1>1, AdvanceNamed DEF LeaseInv
  <2>7. Ordered' /\ AttemptsAreNumbered'
    BY <1>1, <2>2 DEF LeaseInv, Ordered, AttemptsAreNumbered
  <2>8. [payment |-> x.payment, attempt |-> x.attempt, status |-> "succeeded"] \in rows
    BY <1>1 DEF LeaseInv, Ordered
  <2>9. RefundIsTrue'
    BY <1>1, <2>1, <2>3, <2>8 DEF LeaseInv, Typed, RefundIsTrue
  <2> QED
    BY <2>4, <2>5, <2>6, <2>7, <2>9 DEF LeaseInv
<1> QED
  BY <1>2, <1>3

LEMMA ScheduleInv ==
    ASSUME LeaseInv, NEW x \in work, SchedulePaymentRefundRetry(x)
    PROVE  LeaseInv'
<1>1. /\ UNCHANGED <<pay, attempts, age, mailed, returned, ran>>
      /\ x.next = "schedule" /\ Advance(x, "done")
  BY DEF SchedulePaymentRefundRetry
<1>2. CASE ~HoldsLease(x)
  BY <1>1, <1>2, DoneInv DEF SchedulePaymentRefundRetry, tableVars
<1>3. CASE HoldsLease(x)
  <2> DEFINE row == [payment |-> x.payment, attempt |-> attempts[x.payment],
                     status |-> "failed"]
  <2>1. /\ failure' = [failure EXCEPT ![x.payment] = "refund_provider_error"]
        /\ locked' = locked \ {x.payment}
        /\ rows' = rows \cup {row}
    BY <1>3 DEF SchedulePaymentRefundRetry
  <2>2. /\ row \in Attempts /\ AttemptsAreNumbered'
        /\ row.payment = x.payment /\ row.attempt = x.attempt /\ row.status = "failed"
        /\ \A y \in work : y # x /\ y.next # "mark" =>
              \A r \in rows' : r.payment = y.payment => r.attempt # y.attempt
    BY <1>1, <1>3, <2>1, NewRow
  <2>3. \A y \in work' : y \in work /\ y # x
    BY <1>1, AdvanceClaims DEF LeaseInv
  <2>4. Typed'
    BY <1>1, <2>1, <2>2, <2>3 DEF LeaseInv, Typed
  <2>5. Leased'
    BY <1>1, <1>3, <2>1, ReleaseLeased DEF LeaseInv
  <2>6. Named'
    BY <1>1, AdvanceNamed DEF LeaseInv
  <2>7. Ordered'
    BY <1>1, <2>1, <2>2, <2>3 DEF LeaseInv, Ordered
  <2>8. RefundIsTrue'
    BY <1>1, <1>3, <2>1, <2>2 DEF LeaseInv, Typed, RefundIsTrue, HoldsLease
  <2> QED
    BY <2>2, <2>4, <2>5, <2>6, <2>7, <2>8 DEF LeaseInv
<1> QED
  BY <1>2, <1>3

\* A stopped worker's claims go, but for the one whose call is under way.
LEMMA StopInv ==
    ASSUME LeaseInv, NEW w \in Workers, Stop(w)
    PROVE  LeaseInv'
<1>1. UNCHANGED <<pay, failure, attempts, locked, age, rows, mailed, returned, ran>>
  BY DEF Stop, tableVars
<1>2. PICK x \in work : /\ x \notin work'
                        /\ \A y \in work' : y \in work \/ y = [x EXCEPT !.worker = Late]
  <2> DEFINE mine == {x \in work : x.worker = w}
  <2>1. CASE work' = work \ mine
    BY <2>1 DEF Stop, Busy
  <2>2. CASE \E x \in mine : work' = (work \ mine) \cup {[x EXCEPT !.worker = Late]}
    <3>1. PICK x \in mine : work' = (work \ mine) \cup {[x EXCEPT !.worker = Late]}
      BY <2>2
    <3>2. [x EXCEPT !.worker = Late].worker = Late
      BY DEF LeaseInv, Typed, Claims
    <3>3. x \notin work'
      BY <3>1, <3>2, RefundAssumption
    <3> QED
      BY <3>1, <3>3
  <2> QED
    BY <2>1, <2>2 DEF Stop
<1> DEFINE late == [x EXCEPT !.worker = Late]
<1>3. /\ late \in Claims /\ late.worker = Late /\ late.payment = x.payment
      /\ late.attempt = x.attempt /\ late.next = x.next
  BY DEF LeaseInv, Typed, Claims
<1>4. \A y \in work' : (y \in work /\ y # x) \/ y = late
  BY <1>2
<1> HIDE DEF late
<1>5. Typed'
  BY <1>1, <1>3, <1>4 DEF LeaseInv, Typed
<1>6. Leased'
  BY <1>1, <1>3, <1>4 DEF LeaseInv, Leased, HoldsLease
<1>7. Named'
  BY <1>1, <1>3, <1>4 DEF LeaseInv, Named
<1>8. Ordered'
  <2>1. ASSUME NEW y \in work'
        PROVE  /\ y.next # "mark" =>
                     \A r \in rows' : r.payment = y.payment => r.attempt # y.attempt
               /\ y.next \in {"record", "mark"} => y.payment \in returned'
               /\ y.next = "mark" => [payment |-> y.payment, attempt |-> y.attempt,
                                      status |-> "succeeded"] \in rows'
    <3>1. PICK z \in work : z.payment = y.payment /\ z.attempt = y.attempt
                            /\ z.next = y.next
      BY <1>3, <1>4, <2>1
    <3> QED
      BY <1>1, <3>1 DEF LeaseInv, Ordered
  <2> QED
    BY <2>1 DEF Ordered
<1>9. AttemptsAreNumbered' /\ RefundIsTrue'
  BY <1>1 DEF LeaseInv, AttemptsAreNumbered, RefundIsTrue
<1> QED
  BY <1>5, <1>6, <1>7, <1>8, <1>9 DEF LeaseInv

\* Time ages a lease no faster than the run that holds it.
LEMMA TickInv ==
    ASSUME LeaseInv, Tick
    PROVE  LeaseInv'
<1>1. /\ UNCHANGED <<pay, failure, attempts, locked, rows, mailed, returned, work>>
      /\ age' = [p \in Payments |-> IF p \in locked /\ age[p] < Lease THEN age[p] + 1
                                                                      ELSE age[p]]
      /\ ran' = [v \in Workers |-> IF Busy(v) THEN ran[v] + 1 ELSE ran[v]]
      /\ \A v \in Workers : Busy(v) => ran[v] < RunTimeout
  BY DEF Tick
<1>2. Typed'
  BY <1>1 DEF LeaseInv, Typed
<1>3. Leased'
  <2>1. ASSUME NEW x \in work, x.worker # Late
        PROVE  HoldsLease(x)' /\ age'[x.payment] <= ran'[x.worker]
               /\ ran'[x.worker] <= RunTimeout
    <3>1. x.worker \in Workers /\ x.payment \in Payments /\ Busy(x.worker)
      BY <2>1 DEF LeaseInv, Typed, Claims, Busy
    <3>2. ran'[x.worker] = ran[x.worker] + 1 /\ ran[x.worker] < RunTimeout
          /\ ran[x.worker] \in Nat
      BY <1>1, <3>1 DEF LeaseInv, Typed
    <3>3. age'[x.payment] \in {age[x.payment], age[x.payment] + 1}
          /\ age[x.payment] \in Nat
      BY <1>1, <3>1 DEF LeaseInv, Typed
    <3>4. HoldsLease(x) /\ age[x.payment] <= ran[x.worker]
      BY <2>1 DEF LeaseInv, Leased
    <3> QED
      BY <1>1, <3>2, <3>3, <3>4, RefundAssumption DEF HoldsLease
  <2> QED
    BY <1>1, <2>1 DEF Leased
<1>4. Named' /\ Ordered' /\ AttemptsAreNumbered' /\ RefundIsTrue'
  BY <1>1 DEF LeaseInv, Named, Ordered, AttemptsAreNumbered, RefundIsTrue
<1> QED
  BY <1>2, <1>3, <1>4 DEF LeaseInv

LEMMA NextLeaseInv == LeaseInv /\ [Next]_vars => LeaseInv'
<1> SUFFICES ASSUME LeaseInv, [Next]_vars PROVE LeaseInv'
  OBVIOUS
<1>1. CASE UNCHANGED vars
  BY <1>1
  DEF vars, tableVars, LeaseInv, Typed, Leased, HoldsLease, Named, Ordered,
      AttemptsAreNumbered, RefundIsTrue
<1>2. ASSUME NEW x \in work, Answered(x) \/ RefundRefused(x) \/ StatementFailed(x)
      PROVE  LeaseInv'
  BY <1>2, ProviderInv, RecordInv, MarkInv, ScheduleInv, DoneInv
  DEF Answered, StatementFailed
<1> QED
  BY <1>1, <1>2, DueInv, ClaimInv, StopInv, TickInv DEF Next, Claim

\* In every reachable state the lease does what it is for.
THEOREM LeaseIsSafe == Spec => []LeaseInv
BY InitLeaseInv, NextLeaseInv, PTL DEF Spec

\* No two running workers refund one payment, provided only that a run's
\* timeout is shorter than the lease, which the configuration enforces.
THEOREM RefundedByOneWorker == Spec => []OneWorkerPerPayment
<1>1. LeaseInv => OneWorkerPerPayment
  BY DEF LeaseInv, Leased, Named, HoldsLease, OneWorkerPerPayment
<1> QED
  BY <1>1, LeaseIsSafe, PTL

\* The attempts table never meets its UNIQUE constraint.
THEOREM AttemptsNumbered == Spec => []AttemptsAreNumbered
<1>1. LeaseInv => AttemptsAreNumbered
  BY DEF LeaseInv
<1> QED
  BY <1>1, LeaseIsSafe, PTL

\* A payment marked as refunded has been refunded, recorded and announced.
THEOREM RefundTrue == Spec => []RefundIsTrue
<1>1. LeaseInv => RefundIsTrue
  BY DEF LeaseInv
<1> QED
  BY <1>1, LeaseIsSafe, PTL

-----------------------------------------------------------------------------
\* The steps are the atomic ones of PaymentService.

\* A payment that is not due has not been attempted.
Fresh == \A p \in Payments : pay[p] = "succeeded" => attempts[p] = 0

LEMMA NextFresh == Typed /\ Fresh /\ [Next]_vars => Fresh'
<1> SUFFICES ASSUME Typed, Fresh, [Next]_vars PROVE Fresh'
  OBVIOUS
<1> USE DEF Fresh, Typed
<1>1. ASSUME NEW w \in Workers, NEW S \in SUBSET Payments, ClaimRefundPendingPayments(w, S)
      PROVE  Fresh'
  BY <1>1 DEF ClaimRefundPendingPayments, Claimable
<1>2. ASSUME NEW p \in Payments, MarkPaymentRefundPending(p) \/ RetryFailedRefund(p)
      PROVE  Fresh'
  BY <1>2 DEF MarkPaymentRefundPending, RetryFailedRefund
<1>3. ASSUME NEW x \in work, MarkPaymentRefunded(x)
      PROVE  Fresh'
  BY <1>3 DEF MarkPaymentRefunded
<1>4. CASE UNCHANGED <<pay, attempts>>
  BY <1>4
<1> QED
  BY <1>1, <1>2, <1>3, <1>4
  DEF Next, Claim, Answered, RefundAccepted, RefundRefused, StatementFailed, Stop, Tick,
      RecordSuccessfulPaymentRefundAttempt, SchedulePaymentRefundRetry, vars, tableVars

\* What the provider gives back is due, or has been given back before.
LEMMA ReturnIsDue ==
    ASSUME LeaseInv, Fresh, NEW x \in work, x.payment \notin returned
    PROVE  x.payment \in Payments /\ pay[x.payment] = "refund_pending"
<1>1. x.payment \in Payments /\ x.attempt \in 1..attempts[x.payment]
      /\ attempts[x.payment] \in Nat
  BY DEF LeaseInv, Typed, Claims, Named
<1>2. pay[x.payment] # "succeeded"
  BY <1>1 DEF Fresh
<1>3. ASSUME pay[x.payment] = "refunded"
      PROVE  FALSE
  <2>1. [payment |-> x.payment, attempt |-> attempts[x.payment], status |-> "succeeded"] \in rows
    BY <1>1, <1>3 DEF LeaseInv, RefundIsTrue
  <2> QED
    BY <2>1 DEF LeaseInv, RefundIsTrue
<1> QED
  BY <1>1, <1>2, <1>3 DEF LeaseInv, Typed

\* One of the steps of PaymentService, seen from the payment p.
CoreStep(p) ==
    \/ BecomesDue(p)
    \/ Core!RefundPayment(p)
    \/ Core!RefundInterrupted(p)
    \/ Core!RefundFailed(p)
    \/ Core!RetryPaymentRefund(p)

visible == <<pay, failure, mailed, returned>>

\* The substitutions of Core that these steps leave alone.
LEMMA CoreUnchanged == UNCHANGED Core!UnchangedByRefund
BY DEF Core!UnchangedByRefund, Core!bookingVars, Core!inventoryVars, Core!flightVars

\* The provider's charge, before and after it gives the money of p back.
LEMMA CoreReturns ==
    ASSUME NEW p \in Payments, returned' = returned \cup {p}
    PROVE  Core!Refund(p)
BY DEF Core!Refund

LEMMA ProviderIsCore ==
    ASSUME LeaseInv, Fresh, NEW x \in work, RefundAccepted(x) \/ RefundRefused(x)
    PROVE  UNCHANGED visible \/ CoreStep(x.payment)
<1>1. UNCHANGED <<pay, failure, mailed>>
      /\ (returned' = returned \/ returned' = returned \cup {x.payment})
  BY DEF RefundAccepted, RefundRefused, tableVars
<1>2. CASE x.payment \notin returned /\ returned' = returned \cup {x.payment}
  <2>1. x.payment \in Payments /\ pay[x.payment] = "refund_pending"
    BY <1>2, ReturnIsDue
  <2>2. Core!Refund(x.payment)
    BY <1>2, <2>1, CoreReturns
  <2>3. Core!RefundInterrupted(x.payment)
    BY <1>1, <2>1, <2>2, CoreUnchanged DEF Core!RefundInterrupted, Core!paymentVars
  <2> QED
    BY <2>3 DEF CoreStep
<1> QED
  BY <1>1, <1>2 DEF visible

LEMMA MarkIsCore ==
    ASSUME LeaseInv, NEW x \in work, MarkPaymentRefunded(x)
    PROVE  UNCHANGED visible \/ CoreStep(x.payment)
<1>1. CASE HoldsLease(x)
  <2>1. /\ pay[x.payment] = "refund_pending"
        /\ pay' = [pay EXCEPT ![x.payment] = "refunded"]
        /\ failure' = [failure EXCEPT ![x.payment] = "none"]
        /\ mailed' = mailed \cup {x.payment} /\ returned' = returned
    BY <1>1 DEF MarkPaymentRefunded, HoldsLease
  <2>2. x.payment \in Payments /\ x.payment \in returned
    BY DEF LeaseInv, Typed, Claims, Ordered, MarkPaymentRefunded
  <2>3. Core!Refund(x.payment)
    BY <2>1, <2>2, CoreReturns
  <2>4. pay' = Core!Assign(pay, {x.payment}, "refunded")
        /\ failure' = Core!Assign(failure, {x.payment}, "none")
    BY <2>1 DEF Core!Assign, LeaseInv, Typed
  <2>5. Core!MarkPaymentRefunded(x.payment)
    BY <2>1, <2>4 DEF Core!MarkPaymentRefunded, Core!EnqueueBookingEmail
  <2>6. Core!RefundPayment(x.payment)
    BY <2>2, <2>3, <2>5, CoreUnchanged DEF Core!RefundPayment
  <2> QED
    BY <2>6 DEF CoreStep
<1>2. CASE ~HoldsLease(x)
  BY <1>2 DEF MarkPaymentRefunded, visible
<1> QED
  BY <1>1, <1>2

LEMMA ScheduleIsCore ==
    ASSUME LeaseInv, NEW x \in work, SchedulePaymentRefundRetry(x)
    PROVE  UNCHANGED visible \/ CoreStep(x.payment)
<1>1. CASE HoldsLease(x)
  <2>1. /\ pay[x.payment] = "refund_pending"
        /\ failure' = [failure EXCEPT ![x.payment] = "refund_provider_error"]
        /\ UNCHANGED <<pay, mailed, returned>>
    BY <1>1 DEF SchedulePaymentRefundRetry, HoldsLease
  <2>2. failure' = Core!Assign(failure, {x.payment}, "refund_provider_error")
    BY <2>1 DEF Core!Assign, LeaseInv, Typed
  <2>3. Core!RefundFailed(x.payment)
    BY <2>1, <2>2, CoreUnchanged
    DEF Core!RefundFailed, Core!SchedulePaymentRefundRetry, Core!providerVars
  <2> QED
    BY <2>3 DEF CoreStep
<1>2. CASE ~HoldsLease(x)
  BY <1>2 DEF SchedulePaymentRefundRetry, visible
<1> QED
  BY <1>1, <1>2

LEMMA DueIsCore ==
    ASSUME LeaseInv, NEW p \in Payments,
           MarkPaymentRefundPending(p) \/ RetryFailedRefund(p)
    PROVE  CoreStep(p)
<1>1. CASE MarkPaymentRefundPending(p)
  <2>1. pay' = Core!Assign(pay, {p}, "refund_pending")
    BY <1>1 DEF MarkPaymentRefundPending, Core!Assign, LeaseInv, Typed
  <2> QED
    BY <1>1, <2>1
    DEF CoreStep, BecomesDue, MarkPaymentRefundPending, Core!MarkPaymentRefundPending
<1>2. CASE RetryFailedRefund(p)
  <2>1. failure' = Core!Assign(failure, {p}, "none")
    BY <1>2 DEF RetryFailedRefund, Core!Assign, LeaseInv, Typed
  <2>2. Core!RetryPaymentRefund(p)
    BY <1>2, <2>1, CoreUnchanged
    DEF RetryFailedRefund, Core!RetryPaymentRefund, Core!RetryFailedPaymentRefundForAdmin,
        Core!providerVars
  <2> QED
    BY <2>2 DEF CoreStep
<1> QED
  BY <1>1, <1>2

LEMMA NextIsCore ==
    ASSUME LeaseInv, Fresh, [Next]_vars
    PROVE  UNCHANGED visible \/ \E p \in Payments : CoreStep(p)
<1>1. \A x \in work : x.payment \in Payments
  BY DEF LeaseInv, Typed, Claims
<1>2. ASSUME NEW x \in work, Answered(x) \/ RefundRefused(x)
      PROVE  UNCHANGED visible \/ \E p \in Payments : CoreStep(p)
  <2>1. CASE RecordSuccessfulPaymentRefundAttempt(x)
    BY <2>1 DEF RecordSuccessfulPaymentRefundAttempt, visible
  <2> QED
    BY <1>1, <1>2, <2>1, ProviderIsCore, MarkIsCore, ScheduleIsCore DEF Answered
<1>3. ASSUME NEW p \in Payments, MarkPaymentRefundPending(p) \/ RetryFailedRefund(p)
      PROVE  \E q \in Payments : CoreStep(q)
  BY <1>3, DueIsCore
<1>4. CASE UNCHANGED vars \/ Tick \/ Claim \/ (\E x \in work : StatementFailed(x))
           \/ (\E w \in Workers : Stop(w))
  BY <1>4
  DEF vars, tableVars, visible, Tick, Claim, ClaimRefundPendingPayments, StatementFailed, Stop
<1> QED
  BY <1>2, <1>3, <1>4 DEF Next

\* The three calls, the leases and the late arrivals come to nothing but the
\* atomic steps that HotelBooking is composed of.
THEOREM RefundImplementsCore == Spec => RefundStepsAreAtomic
<1>1. Init => LeaseInv /\ Fresh
  BY InitLeaseInv DEF Init, Fresh
<1>2. LeaseInv /\ Fresh /\ [Next]_vars => LeaseInv' /\ Fresh'
  BY NextLeaseInv, NextFresh DEF LeaseInv
<1>3. LeaseInv /\ Fresh /\ [Next]_vars
         => [\E p \in Payments : \/ BecomesDue(p)
                                 \/ Core!RefundPayment(p)
                                 \/ Core!RefundInterrupted(p)
                                 \/ Core!RefundFailed(p)
                                 \/ Core!RetryPaymentRefund(p)]_<<pay, failure, mailed, returned>>
  BY NextIsCore DEF CoreStep, visible
<1> QED
  BY <1>1, <1>2, <1>3, PTL DEF Spec, RefundStepsAreAtomic


-----------------------------------------------------------------------------
\* Types: the back-off never goes beyond its limit.

LEMMA PowersOfTwo == \A n \in Nat : 2 ^ n \in Nat \ {0}
<1> SUFFICES ASSUME NEW n \in Nat PROVE 2 ^ n \in Nat \ {0}
  OBVIOUS
<1> DEFINE S == SUBSET (1..n)
<1>1. IsFiniteSet(1..n) /\ Cardinality(1..n) = n
  BY FS_Interval
<1>2. IsFiniteSet(S) /\ Cardinality(S) = 2 ^ n
  BY <1>1, FS_SUBSET
<1>3. S # {} /\ Cardinality(S) \in Nat
  BY <1>2, FS_CardinalityType
<1> HIDE DEF S
<1>4. Cardinality(S) # 0
  BY <1>2, <1>3, FS_EmptySet
<1> QED
  BY <1>2, <1>3, <1>4

LEMMA BackOffBounded ==
    ASSUME NEW n \in Nat \ {0}
    PROVE  RetryDelay(n) \in 0..MaxDelay
<1> DEFINE e == IF n - 1 > MaxExponent THEN MaxExponent ELSE n - 1
           k == 2 ^ e
           q == MaxDelay \div k
<1>1. MaxExponent \in Nat /\ MaxDelay \in Nat /\ BaseDelay \in Nat
  BY RefundAssumption
<1>2. e \in Nat
  BY <1>1
<1>3. RetryDelay(n) = IF BaseDelay > q THEN MaxDelay ELSE BaseDelay * k
  BY DEF RetryDelay
<1> HIDE DEF e
<1>4. k \in Nat \ {0}
  BY <1>2, PowersOfTwo
<1> HIDE DEF k
<1>5. q \in Nat /\ q * k <= MaxDelay
  BY <1>1, <1>4
<1> HIDE DEF q
<1>6. BaseDelay <= q => BaseDelay * k <= q * k /\ BaseDelay * k \in Nat
  BY <1>1, <1>4, <1>5
<1> QED
  BY <1>1, <1>3, <1>4, <1>5, <1>6

\* The rest of TypeOK.
Ranged ==
    /\ wait \in [Payments -> 0..MaxDelay]
    /\ age \in [Payments -> 0..Lease]
    /\ ran \in [Workers -> 0..RunTimeout]
    /\ faults \in 0..MaxFaults

LEMMA BoundsAreNats == Lease \in Nat /\ RunTimeout \in Nat /\ MaxDelay \in Nat /\ MaxFaults \in Nat
BY RefundAssumption

LEMMA RangedStep == LeaseInv /\ Ranged /\ [Next]_vars => Ranged'
<1> SUFFICES ASSUME LeaseInv, Ranged, [Next]_vars PROVE Ranged'
  OBVIOUS
<1> USE DEF tableVars
<1>1. CASE UNCHANGED vars
  BY <1>1 DEF vars, Ranged
<1>2. CASE Tick
  <2>1. wait' \in [Payments -> 0..MaxDelay] /\ age' \in [Payments -> 0..Lease]
    BY <1>2, BoundsAreNats DEF Tick, Ranged
  <2>2. ran' \in [Workers -> 0..RunTimeout]
    BY <1>2, BoundsAreNats DEF Tick, Ranged
  <2> QED
    BY <1>2, <2>1, <2>2 DEF Tick, Ranged
<1>3. ASSUME NEW w \in Workers, NEW S \in SUBSET Payments, ClaimRefundPendingPayments(w, S)
      PROVE  Ranged'
  BY <1>3, BoundsAreNats DEF ClaimRefundPendingPayments, Ranged
<1>4. ASSUME NEW x \in work, Answered(x) \/ RefundRefused(x) \/ StatementFailed(x)
      PROVE  Ranged'
  <2> USE DEF Answered, RefundAccepted, RecordSuccessfulPaymentRefundAttempt,
              MarkPaymentRefunded, SchedulePaymentRefundRetry, RefundRefused, StatementFailed
  <2>1. x.attempt \in Nat \ {0} /\ x.payment \in Payments
    BY DEF LeaseInv, Typed, Named, Claims
  <2>2. wait' = wait \/ wait' = [wait EXCEPT ![x.payment] = RetryDelay(x.attempt)]
    BY <1>4
  <2>3. /\ UNCHANGED <<age, ran>>
        /\ faults' = faults \/ (faults < MaxFaults /\ faults' = faults + 1)
    BY <1>4
  <2>4. RetryDelay(x.attempt) \in 0..MaxDelay
    BY <2>1, BackOffBounded
  <2> QED
    BY <2>2, <2>3, <2>4, BoundsAreNats DEF Ranged
<1>5. ASSUME NEW w \in Workers, Stop(w)
      PROVE  Ranged'
  BY <1>5, BoundsAreNats DEF Stop, Ranged
<1>6. ASSUME NEW p \in Payments, MarkPaymentRefundPending(p) \/ RetryFailedRefund(p)
      PROVE  Ranged'
  BY <1>6, BoundsAreNats DEF MarkPaymentRefundPending, RetryFailedRefund, Ranged
<1> QED
  BY <1>1, <1>2, <1>3, <1>4, <1>5, <1>6 DEF Next, Claim

LEMMA InitRanged == Init => Ranged
BY BoundsAreNats DEF Init, Ranged

\* Payments, claims, attempts and clocks stay well typed, and no retry is
\* scheduled beyond maxRefundRetryDelay (TypeOK).
THEOREM TypeCorrect == Spec => []TypeOK
<1>1. LeaseInv /\ Ranged => TypeOK
  BY DEF LeaseInv, Typed, Ranged, TypeOK
<1> QED
  BY InitLeaseInv, NextLeaseInv, InitRanged, RangedStep, <1>1, PTL DEF Spec

=============================================================================
