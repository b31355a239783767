---------------------------- MODULE RowLocksProofs ----------------------------
(***************************************************************************)
(* The row locks, for any transactions, bookings and nights.               *)
(***************************************************************************)
EXTENDS RowLocks, TLAPS, FiniteSetTheorems, WellFoundedInduction

\* Every transaction has its entry; nothing is said of what it wants.
Entries ==
    /\ op = [p \in Procs |-> op[p]]
    /\ held = [p \in Procs |-> held[p]]
    /\ \A p \in Procs :
          /\ "kind" \in DOMAIN op[p]
          /\ op[p].kind = "idle" => op[p] = Idle

LocksInv == Entries /\ LocksExclude

LEMMA ConflictSymmetric ==
    ASSUME NEW x, NEW y, Conflict(x, y)
    PROVE  Conflict(y, x)
<1>1. {x.mode, y.mode} = {y.mode, x.mode}
  OBVIOUS
<1> QED
  BY <1>1 DEF Conflict

LEMMA InitLocks == Init => LocksInv
BY DEF Init, Idle, LocksInv, Entries, LocksExclude

\* A transaction takes locks that exclude none of the others.
LEMMA TakingKeepsLocks ==
    ASSUME LocksInv, NEW p \in Procs, NEW L,
           NEW r, "kind" \in DOMAIN r, r.kind # "idle",
           op' = [op EXCEPT ![p] = r], held' = [held EXCEPT ![p] = L],
           \A x \in L : x \in held[p]
                        \/ \A q \in Procs \ {p} : \A y \in held[q] : ~Conflict(x, y)
    PROVE  LocksInv'
<1>1. /\ op'[p] = r /\ held'[p] = L
      /\ \A q \in Procs \ {p} : op'[q] = op[q] /\ held'[q] = held[q]
  BY DEF LocksInv, Entries
<1>2. op'[p].kind # "idle" /\ Idle.kind = "idle"
  BY <1>1 DEF Idle
<1>3. Entries'
  <2>1. op' = [q \in Procs |-> op'[q]] /\ held' = [q \in Procs |-> held'[q]]
    BY DEF LocksInv, Entries
  <2> QED
    BY <1>1, <1>2, <2>1 DEF LocksInv, Entries
<1>4. ASSUME NEW x \in held'[p], NEW q \in Procs \ {p}, NEW y \in held'[q]
      PROVE  ~Conflict(x, y) /\ ~Conflict(y, x)
  BY <1>1, <1>4, ConflictSymmetric DEF LocksInv, LocksExclude
<1>5. LocksExclude'
  BY <1>1, <1>2, <1>4 DEF LocksInv, LocksExclude
<1> QED
  BY <1>3, <1>5 DEF LocksInv

LEMMA FinishKeepsLocks ==
    ASSUME LocksInv, NEW p \in Procs, Finish(p)
    PROVE  LocksInv'
<1>1. /\ op'[p] = Idle /\ held'[p] = {}
      /\ \A q \in Procs \ {p} : op'[q] = op[q] /\ held'[q] = held[q]
  BY DEF Finish, LocksInv, Entries
<1>2. op' = [q \in Procs |-> op'[q]] /\ held' = [q \in Procs |-> held'[q]]
  BY DEF Finish, LocksInv, Entries
<1>3. "kind" \in DOMAIN Idle
  BY DEF Idle
<1>4. Entries'
  BY <1>1, <1>2, <1>3 DEF LocksInv, Entries
<1>5. LocksExclude'
  BY <1>1 DEF LocksInv, LocksExclude
<1> QED
  BY <1>4, <1>5 DEF LocksInv

\* A transaction begins, or goes on to its second stage.
LEMMA BeginKeepsLocks ==
    ASSUME LocksInv, NEW p \in Procs, NEW k, NEW about, NEW w, k # "idle",
           Begin(p, k, about, w)
    PROVE  LocksInv'
<1>1. held' = [held EXCEPT ![p] = held[p]]
  BY DEF Begin, LocksInv, Entries
<1> DEFINE r == [kind |-> k, stage |-> "first", about |-> about, wants |-> w]
<1>2. "kind" \in DOMAIN r /\ r.kind # "idle" /\ op' = [op EXCEPT ![p] = r]
  BY DEF Begin
<1> HIDE DEF r
<1> QED
  BY <1>1, <1>2, TakingKeepsLocks

LEMMA GoOnKeepsLocks ==
    ASSUME LocksInv, NEW p \in Procs, NEW w, op[p].kind # "idle", GoOn(p, w)
    PROVE  LocksInv'
<1>1. held' = [held EXCEPT ![p] = held[p]]
  BY DEF GoOn, LocksInv, Entries
<1> DEFINE r == [op[p] EXCEPT !.stage = "second", !.wants = w]
<1>2. "kind" \in DOMAIN r /\ r.kind # "idle" /\ op' = [op EXCEPT ![p] = r]
  BY DEF GoOn, LocksInv, Entries
<1> HIDE DEF r
<1> QED
  BY <1>1, <1>2, TakingKeepsLocks

LEMMA AcquireKeepsLocks ==
    ASSUME LocksInv, NEW p \in Procs, Acquire(p)
    PROVE  LocksInv'
<1> DEFINE x == Head(op[p].wants)
           L == IF Passed(x) THEN held[p] ELSE held[p] \cup {x}
<1>1. held' = [held EXCEPT ![p] = L]
  BY DEF Acquire, LocksInv, Entries
<1>2. op[p].kind # "idle" /\ "kind" \in DOMAIN op[p]
  <2>1. op[p].wants # <<>> /\ Idle.wants = <<>>
    BY DEF Acquire, Idle
  <2> QED
    BY <2>1 DEF LocksInv, Entries
<1> DEFINE r == [op[p] EXCEPT !.wants = Tail(op[p].wants)]
<1>3. "kind" \in DOMAIN r /\ r.kind # "idle" /\ op' = [op EXCEPT ![p] = r]
  BY <1>2 DEF Acquire
<1>4. \A y \in L : y \in held[p]
                   \/ \A q \in Procs \ {p} : \A z \in held[q] : ~Conflict(y, z)
  BY DEF Acquire, Blocks
<1> HIDE DEF L, r
<1> QED
  BY <1>1, <1>3, <1>4, TakingKeepsLocks

\* A batch takes free bookings only.
LEMMA ExpireKeepsLocks ==
    ASSUME LocksInv, NEW p \in Procs, ExpirePendingPayments(p)
    PROVE  LocksInv'
<1>1. PICK batch \in SUBSET Bookings :
         /\ \A b \in batch : \A q \in Procs : ~Blocks(q, Lock("booking", b, "update"))
         /\ held' = [held EXCEPT ![p] = {Lock("booking", b, "update") : b \in batch}]
         /\ op' = [op EXCEPT ![p] =
               [kind |-> "expire", stage |-> "second", about |-> batch, wants |-> <<>>]]
  BY DEF ExpirePendingPayments
<1> DEFINE L == {Lock("booking", b, "update") : b \in batch}
           r == [kind |-> "expire", stage |-> "second", about |-> batch, wants |-> <<>>]
<1>2. ASSUME NEW y \in L, NEW q \in Procs \ {p}, NEW z \in held[q]
      PROVE  ~Conflict(y, z)
  <2>1. ~Passed(y) /\ ~Blocks(q, y)
    BY <1>1 DEF Passed, Lock
  <2> QED
    BY <2>1 DEF Blocks
<1>3. "kind" \in DOMAIN r /\ r.kind # "idle"
  OBVIOUS
<1>4. op' = [op EXCEPT ![p] = r] /\ held' = [held EXCEPT ![p] = L]
  BY <1>1
<1> HIDE DEF L, r
<1> QED
  BY <1>2, <1>3, <1>4, TakingKeepsLocks

LEMMA LocksStep == LocksInv /\ [Next]_vars => LocksInv'
<1> SUFFICES ASSUME LocksInv, [Next]_vars PROVE LocksInv'
  OBVIOUS
<1>1. CASE UNCHANGED vars
  BY <1>1 DEF vars, LocksInv, Entries, LocksExclude
<1>2. ASSUME NEW p \in Procs, NEW b \in Bookings, NEW e \in {"succeeded", "canceled", "failed"},
             \/ CreateBooking(p, b) \/ CancelBooking(p, b) \/ ProcessWebhook(p, b, e)
             \/ MarkPaymentRefunded(p, b)
      PROVE  LocksInv'
  BY <1>2, BeginKeepsLocks DEF CreateBooking, CancelBooking, ProcessWebhook, MarkPaymentRefunded
<1>3. ASSUME NEW p \in Procs,
             \/ \E i, j \in Nights : SetBlockedInventory(p, i, j)
             \/ UpdateRoomType(p) \/ CompletePastBookings(p)
      PROVE  LocksInv'
  BY <1>3, BeginKeepsLocks DEF SetBlockedInventory, UpdateRoomType, CompletePastBookings
<1>4. ASSUME NEW p \in Procs, ExpirePendingPayments(p) \/ Acquire(p)
      PROVE  LocksInv'
  BY <1>4, ExpireKeepsLocks, AcquireKeepsLocks
<1>5. ASSUME NEW p \in Procs, CancelConfirmed(p) \/ WebhookCanceled(p) \/ ExpirePendingPayment(p)
      PROVE  LocksInv'
  BY <1>5, GoOnKeepsLocks DEF CancelConfirmed, WebhookCanceled, ExpirePendingPayment, Has
<1>6. ASSUME NEW p \in Procs, GoesOn(p) \/ Abort(p),
             ~CancelConfirmed(p), ~WebhookCanceled(p), ~ExpirePendingPayment(p)
      PROVE  LocksInv'
  BY <1>6, FinishKeepsLocks
  DEF GoesOn, Abort, CreatePendingBooking, InventorySet, RoomTypeUpdated, BookingCancelled,
      WebhookRepeated, WebhookFailed, WebhookSucceeded, PendingCancelled, PaymentRefunded,
      BookingsCompleted
<1> QED
  BY <1>1, <1>2, <1>3, <1>4, <1>5, <1>6 DEF Next

\* No two transactions have locks that exclude each other (LocksExclude).
THEOREM ExclusiveLocks == Spec => []LocksExclude
<1>1. LocksInv => LocksExclude
  BY DEF LocksInv
<1> QED
  BY InitLocks, LocksStep, <1>1, PTL DEF Spec

-----------------------------------------------------------------------------
\* Why so few transactions can wait in a circle: a transaction asks for its
\* rows in one order, the room type, a booking, its payment, the nights it
\* may have to insert, and the nights it updates, each from the first on.
\* Whoever waits for another one waits for a row before those the other one
\* can be waiting for.

TypeLocks == [row : {"type"}, of : {None}, mode : {"share", "update"}]
BookingLocks == [row : {"booking"}, of : Bookings, mode : {"update", "nokeyupdate", "keyshare"}]
PaymentLocks == [row : {"payment"}, of : Bookings, mode : {"update", "nokeyupdate"}]
NightLocks == [row : {"night"}, of : Nat, mode : {"insert", "update"}]
Locks == TypeLocks \cup BookingLocks \cup PaymentLocks \cup NightLocks

Level(x) == CASE x.row = "type" -> 0
              [] x.row = "booking" -> 1
              [] x.row = "payment" -> 3
              [] x.row = "night" /\ x.mode = "insert" -> 4
              [] OTHER -> 5

Before(x, y) ==
    \/ Level(x) < Level(y)
    \/ Level(x) = Level(y) /\ x.row = "night" /\ y.row = "night" /\ x.of < y.of

Sorted(w) == \A i, j \in DOMAIN w : i < j => Before(w[i], w[j])

Needs(p) == held[p] \cup Range(op[p].wants)

NightsIn(s) == s[1] .. s[2]

Batch(p) == op[p].kind = "expire" /\ Cardinality(op[p].about) # 1

\* The order of rows; a completion and a batch do not keep it, and marking a
\* refund does not.
Climbs(p) ==
    op[p].kind \in {"complete", "refund"} \/ Batch(p) \/
       /\ Sorted(op[p].wants)
       /\ \A x \in held[p], y \in Range(op[p].wants) : Before(x, y)

\* A night that is updated is there, or will be inserted by the same
\* transaction; a night that a transaction inserts is not there before.
NightsThere(p) ==
    /\ \A x \in Needs(p) : x.row = "night" /\ x.mode = "update" =>
          x.of \in rows \/ Lock("night", x.of, "insert") \in Needs(p)
    /\ \A x \in held[p] : x.mode = "insert" => x.of \notin rows

\* What a transaction of each kind is about and what it asks for.
Suits(p) ==
    LET k == op[p].kind
        about == op[p].about
        first == op[p].stage = "first"
    IN  /\ k = "complete" => \A x \in Needs(p) : x.row = "booking"
        /\ k = "create" => \E b \in Bookings :
              /\ about = {b}
              /\ \A d \in NightsIn(Stay[b]) : Lock("night", d, "update") \in Needs(p)
        /\ k \in {"cancel", "succeeded", "canceled", "failed"} => \E b \in Bookings :
              /\ about = {b} /\ status[b] # "none"
              /\ first => \A x \in Needs(p) : x.row = "booking" \/ (x.row = "payment" /\ k # "cancel")
        /\ k = "succeeded" => \A b \in about :
              /\ Lock("booking", b, "update") \in Needs(p)
              /\ \A x \in Needs(p) : x.of = b /\ x.row \in {"booking", "payment"}
        /\ k = "expire" =>
              /\ about \subseteq Bookings
              /\ \A b \in about : status[b] # "none" /\ Lock("booking", b, "update") \in held[p]
              /\ \A x \in Needs(p) : x.row = "payment" => x.of \in about
              /\ \A x \in Range(op[p].wants) : x.row # "booking"
              /\ \A b \in about : about = {b} => \/ Lock("payment", b, "update") \in Needs(p)
                                                 \/ \A x \in Needs(p) : x.row = "booking"

Fit(p) ==
    /\ {"kind", "stage", "about", "wants"} \subseteq DOMAIN op[p]
    /\ op[p].wants \in Seq(Locks) /\ held[p] \subseteq Locks
    /\ Climbs(p) /\ NightsThere(p) /\ Suits(p)

\* The nights of every booking that was made are there.
BookedNightsThere ==
    /\ status = [b \in Bookings |-> status[b]]
    /\ \A b \in Bookings : status[b] # "none" => NightsIn(Stay[b]) \subseteq rows

OrderInv == LocksInv /\ BookedNightsThere /\ \A p \in Procs : Fit(p)

LEMMA HeadAndTail ==
    ASSUME NEW T, NEW w \in Seq(T), w # <<>>
    PROVE  /\ Head(w) \in T /\ Tail(w) \in Seq(T)
           /\ Range(w) = {Head(w)} \cup Range(Tail(w))
           /\ Sorted(w) => Sorted(Tail(w)) /\ \A y \in Range(Tail(w)) : Before(Head(w), y)
<1>1. /\ Len(w) \in Nat \ {0} /\ DOMAIN w = 1..Len(w) /\ Head(w) = w[1] /\ w[1] \in T
      /\ Tail(w) \in Seq(T) /\ DOMAIN Tail(w) = 1..(Len(w) - 1)
      /\ \A i \in 1..(Len(w) - 1) : Tail(w)[i] = w[i + 1]
  OBVIOUS
<1>2. Range(w) = {Head(w)} \cup Range(Tail(w))
  <2>1. ASSUME NEW i \in DOMAIN w
        PROVE  w[i] \in {Head(w)} \cup Range(Tail(w))
    <3>1. CASE i = 1
      BY <1>1, <3>1
    <3>2. CASE i # 1
      <4>1. i - 1 \in DOMAIN Tail(w) /\ Tail(w)[i - 1] = w[i]
        BY <1>1, <2>1, <3>2
      <4> QED
        BY <4>1 DEF Range
    <3> QED
      BY <3>1, <3>2
  <2>2. ASSUME NEW i \in DOMAIN Tail(w)
        PROVE  Tail(w)[i] \in Range(w)
    <3>1. i + 1 \in DOMAIN w /\ Tail(w)[i] = w[i + 1]
      BY <1>1, <2>2
    <3> QED
      BY <3>1 DEF Range
  <2>3. Head(w) \in Range(w)
    BY <1>1 DEF Range
  <2> QED
    BY <2>1, <2>2, <2>3 DEF Range
<1>3. ASSUME Sorted(w)
      PROVE  Sorted(Tail(w)) /\ \A y \in Range(Tail(w)) : Before(Head(w), y)
  <2>1. ASSUME NEW i \in DOMAIN Tail(w), NEW j \in DOMAIN Tail(w), i < j
        PROVE  Before(Tail(w)[i], Tail(w)[j])
    <3>1. i + 1 \in DOMAIN w /\ j + 1 \in DOMAIN w /\ i + 1 < j + 1
      BY <1>1, <2>1
    <3> QED
      BY <1>1, <1>3, <3>1 DEF Sorted
  <2>2. ASSUME NEW i \in DOMAIN Tail(w)
        PROVE  Before(Head(w), Tail(w)[i])
    <3>1. 1 \in DOMAIN w /\ i + 1 \in DOMAIN w /\ 1 < i + 1
      BY <1>1, <2>2
    <3> QED
      BY <1>1, <1>3, <3>1 DEF Sorted
  <2> QED
    BY <2>1, <2>2 DEF Sorted, Range
<1> QED
  BY <1>1, <1>2, <1>3

LEMMA Concatenation ==
    ASSUME NEW T, NEW u \in Seq(T), NEW v \in Seq(T), Sorted(u), Sorted(v),
           \A x \in Range(u), y \in Range(v) : Before(x, y)
    PROVE  u \o v \in Seq(T) /\ Sorted(u \o v) /\ Range(u \o v) = Range(u) \cup Range(v)
<1> DEFINE m == Len(u)
           n == Len(v)
           w == u \o v
<1>1. /\ m \in Nat /\ n \in Nat /\ DOMAIN u = 1..m /\ DOMAIN v = 1..n
      /\ w \in Seq(T) /\ DOMAIN w = 1..(m + n)
      /\ \A i \in 1..(m + n) : w[i] = IF i <= m THEN u[i] ELSE v[i - m]
  OBVIOUS
<1> HIDE DEF m, n, w
<1>2. \A i \in DOMAIN w : \/ i \in DOMAIN u /\ w[i] = u[i]
                          \/ i - m \in DOMAIN v /\ i > m /\ w[i] = v[i - m]
  BY <1>1
<1>3. \A i \in DOMAIN u : i \in DOMAIN w /\ w[i] = u[i]
  BY <1>1
<1>4. ASSUME NEW i \in DOMAIN v
      PROVE  i + m \in DOMAIN w /\ w[i + m] = v[i]
  <2>1. i + m \in DOMAIN w /\ ~(i + m <= m) /\ (i + m) - m = i
    BY <1>1
  <2> QED
    BY <1>1, <2>1
<1>5. Range(w) = Range(u) \cup Range(v)
  BY <1>2, <1>3, <1>4 DEF Range
<1>6. Sorted(w)
  <2> SUFFICES ASSUME NEW i \in DOMAIN w, NEW j \in DOMAIN w, i < j
               PROVE  Before(w[i], w[j])
    BY DEF Sorted
  <2>1. CASE j <= m
    <3>1. i \in DOMAIN u /\ j \in DOMAIN u /\ w[i] = u[i] /\ w[j] = u[j]
      BY <1>1, <2>1
    <3> QED
      BY <3>1 DEF Sorted
  <2>2. CASE i > m
    <3>1. i - m \in DOMAIN v /\ j - m \in DOMAIN v /\ w[i] = v[i - m] /\ w[j] = v[j - m]
          /\ i - m < j - m
      BY <1>1, <2>2
    <3> QED
      BY <3>1 DEF Sorted
  <2>3. CASE i <= m /\ j > m
    <3>1. i \in DOMAIN u /\ j - m \in DOMAIN v /\ w[i] = u[i] /\ w[j] = v[j - m]
      BY <1>1, <2>3
    <3> QED
      BY <3>1 DEF Range
  <2> QED
    BY <1>1, <2>1, <2>2, <2>3
<1> QED
  BY <1>1, <1>5, <1>6 DEF w

LEMMA OneLock ==
    ASSUME NEW x \in Locks
    PROVE  <<x>> \in Seq(Locks) /\ Sorted(<<x>>) /\ Range(<<x>>) = {x}
<1>1. DOMAIN <<x>> = {1} /\ <<x>>[1] = x
  OBVIOUS
<1> QED
  BY <1>1 DEF Sorted, Range

\* The rows of a stay's nights, in order of date.
LEMMA NightRows ==
    ASSUME NEW s \in Nat \X Nat, s[1] <= s[2], NEW mode \in {"insert", "update"},
           NEW w, w = [i \in 1..Len(NightsOf(s)) |-> Lock("night", NightsOf(s)[i], mode)]
    PROVE  /\ w \in Seq(Locks) /\ Sorted(w)
           /\ Range(w) = {Lock("night", d, mode) : d \in NightsIn(s)}
<1> DEFINE n == s[2] - s[1] + 1
<1>1. /\ s[1] \in Nat /\ s[2] \in Nat /\ n \in Nat /\ Len(NightsOf(s)) = n
      /\ \A i \in 1..n : NightsOf(s)[i] = s[1] + i - 1
  BY DEF NightsOf
<1>2. w = [i \in 1..n |-> Lock("night", s[1] + i - 1, mode)]
  BY <1>1
<1>3. \A i \in 1..n : s[1] + i - 1 \in NightsIn(s) /\ s[1] + i - 1 \in Nat
  BY <1>1 DEF NightsIn
<1>4. \A d \in NightsIn(s) : d - s[1] + 1 \in 1..n /\ s[1] + (d - s[1] + 1) - 1 = d
  BY <1>1 DEF NightsIn
<1>5. \A i \in 1..n : Lock("night", s[1] + i - 1, mode) \in Locks
  BY <1>3 DEF Lock, Locks, NightLocks
<1>6. w \in Seq(Locks)
  BY <1>1, <1>2, <1>5
<1>7. Range(w) = {Lock("night", d, mode) : d \in NightsIn(s)}
  <2>1. Range(w) = {Lock("night", s[1] + i - 1, mode) : i \in 1..n}
    BY <1>2 DEF Range
  <2> HIDE DEF n
  <2>2. ASSUME NEW d \in NightsIn(s)
        PROVE  \E i \in 1..n : Lock("night", d, mode) = Lock("night", s[1] + i - 1, mode)
    BY <1>4, <2>2
  <2> QED
    BY <1>3, <2>1, <2>2
<1>8. Sorted(w)
  <2> SUFFICES ASSUME NEW i \in 1..n, NEW j \in 1..n, i < j
               PROVE  Before(w[i], w[j])
    BY <1>2 DEF Sorted
  <2>1. /\ w[i].row = "night" /\ w[j].row = "night" /\ w[i].mode = w[j].mode
        /\ w[i].of < w[j].of
    BY <1>1, <1>2 DEF Lock
  <2> QED
    BY <2>1 DEF Before, Level
<1> QED
  BY <1>6, <1>7, <1>8

\* What the transactions ask for, when they begin and when they go on.
LEMMA AvailabilityRows ==
    ASSUME NEW s \in Nat \X Nat, s[1] <= s[2]
    PROVE  /\ LockAvailabilityRows(s) \in Seq(Locks) /\ Sorted(LockAvailabilityRows(s))
           /\ Range(LockAvailabilityRows(s)) = {Lock("night", d, "update") : d \in NightsIn(s)}
BY NightRows DEF LockAvailabilityRows

LEMMA StayRows ==
    ASSUME NEW s \in Nat \X Nat, s[1] <= s[2]
    PROVE  /\ LockStay(s) \in Seq(Locks) /\ Sorted(LockStay(s))
           /\ Range(LockStay(s)) = {Lock("type", None, "share")}
                 \cup {Lock("night", d, "insert") : d \in NightsIn(s)}
                 \cup {Lock("night", d, "update") : d \in NightsIn(s)}
<1> DEFINE t == Lock("type", None, "share")
           u == EnsureAvailabilityRows(s)
           v == LockAvailabilityRows(s)
<1>1. /\ u \in Seq(Locks) /\ Sorted(u)
      /\ Range(u) = {Lock("night", d, "insert") : d \in NightsIn(s)}
  BY NightRows DEF EnsureAvailabilityRows
<1>2. /\ v \in Seq(Locks) /\ Sorted(v)
      /\ Range(v) = {Lock("night", d, "update") : d \in NightsIn(s)}
  BY AvailabilityRows
<1>3. t \in Locks /\ Level(t) = 0
  BY DEF Lock, Locks, TypeLocks, Level
<1> DEFINE a == <<t>>
<1>4. a \in Seq(Locks) /\ Sorted(a) /\ Range(a) = {t}
  BY <1>3, OneLock
<1>5. (\A x \in Range(u) : Level(x) = 4) /\ (\A x \in Range(v) : Level(x) = 5)
  BY <1>1, <1>2 DEF Lock, Level
<1>6. LockStay(s) = (a \o u) \o v
  BY DEF LockStay
<1> HIDE DEF t, u, v, a
<1>7. \A x \in Range(a), y \in Range(u) : Before(x, y)
  BY <1>3, <1>4, <1>5 DEF Before
<1> DEFINE c == a \o u
<1>8. c \in Seq(Locks) /\ Sorted(c) /\ Range(c) = {t} \cup Range(u)
  BY <1>1, <1>4, <1>7, Concatenation
<1> HIDE DEF c
<1>9. \A x \in Range(c), y \in Range(v) : Before(x, y)
  BY <1>3, <1>5, <1>8 DEF Before
<1>10. /\ c \o v \in Seq(Locks) /\ Sorted(c \o v)
       /\ Range(c \o v) = {t} \cup Range(u) \cup Range(v)
  BY <1>2, <1>8, <1>9, Concatenation
<1> QED
  BY <1>1, <1>2, <1>6, <1>10 DEF t, c

LEMMA BookingRow ==
    ASSUME NEW b \in Bookings
    PROVE  /\ LockBooking(b) \in Seq(Locks) /\ Sorted(LockBooking(b))
           /\ Range(LockBooking(b)) = {Lock("booking", b, "update")}
<1>1. Lock("booking", b, "update") \in Locks
  BY DEF Lock, Locks, BookingLocks
<1> QED
  BY <1>1, OneLock DEF LockBooking

LEMMA PaymentRow ==
    ASSUME NEW b \in Bookings
    PROVE  /\ LockPayment(b) \in Seq(Locks) /\ Sorted(LockPayment(b))
           /\ Range(LockPayment(b)) = {Lock("payment", b, "update")}
<1>1. Lock("payment", b, "update") \in Locks
  BY DEF Lock, Locks, PaymentLocks
<1> QED
  BY <1>1, OneLock DEF LockPayment

LEMMA BookingAndPaymentRows ==
    ASSUME NEW b \in Bookings, NEW w, w = LockBooking(b) \o LockPayment(b)
    PROVE  /\ w \in Seq(Locks) /\ Sorted(w)
           /\ Range(w) = {Lock("booking", b, "update"), Lock("payment", b, "update")}
<1>1. \A x \in Range(LockBooking(b)), y \in Range(LockPayment(b)) : Before(x, y)
  BY BookingRow, PaymentRow DEF Lock, Before, Level
<1>2. /\ LockBooking(b) \o LockPayment(b) \in Seq(Locks)
      /\ Sorted(LockBooking(b) \o LockPayment(b))
      /\ Range(LockBooking(b) \o LockPayment(b)) = Range(LockBooking(b)) \cup Range(LockPayment(b))
  BY <1>1, BookingRow, PaymentRow, Concatenation
<1> QED
  BY <1>2, BookingRow, PaymentRow

LEMMA PaymentAndNightRows ==
    ASSUME NEW b \in Bookings, NEW w, w = LockPayment(b) \o LockAvailabilityRows(Stay[b])
    PROVE  /\ w \in Seq(Locks) /\ Sorted(w)
           /\ Range(w) = {Lock("payment", b, "update")}
                           \cup {Lock("night", d, "update") : d \in NightsIn(Stay[b])}
<1> DEFINE u == LockPayment(b)
           v == LockAvailabilityRows(Stay[b])
<1>1. Stay[b] \in Nat \X Nat /\ Stay[b][1] <= Stay[b][2]
  BY RowLocksAssumption
<1>2. /\ v \in Seq(Locks) /\ Sorted(v)
      /\ Range(v) = {Lock("night", d, "update") : d \in NightsIn(Stay[b])}
  BY <1>1, AvailabilityRows
<1>3. u \in Seq(Locks) /\ Sorted(u) /\ Range(u) = {Lock("payment", b, "update")}
  BY PaymentRow
<1> HIDE DEF u, v
<1>4. \A x \in Range(u), y \in Range(v) : Before(x, y)
  BY <1>2, <1>3 DEF Lock, Before, Level
<1>5. u \o v \in Seq(Locks) /\ Sorted(u \o v) /\ Range(u \o v) = Range(u) \cup Range(v)
  BY <1>2, <1>3, <1>4, Concatenation
<1> QED
  BY <1>2, <1>3, <1>5 DEF u, v

-----------------------------------------------------------------------------
\* The steps keep the order.

\* Bookings stay made, and nights stay.
Grows ==
    /\ rows \subseteq rows'
    /\ \A b \in Bookings : status[b] # "none" => status'[b] # "none"

LEMMA FitOfOthers ==
    ASSUME NEW q, Fit(q), op'[q] = op[q], held'[q] = held[q], Grows,
           \A x \in held[q] : x.mode = "insert" => x.of \notin rows'
    PROVE  Fit(q)'
<1>1. Needs(q)' = Needs(q)
  BY DEF Needs
<1>2. Climbs(q)'
  BY DEF Fit, Climbs, Batch
<1>3. NightsThere(q)'
  BY <1>1 DEF Fit, NightsThere, Grows
<1>4. Suits(q)'
  BY <1>1 DEF Fit, Suits, Grows
<1> QED
  BY <1>2, <1>3, <1>4 DEF Fit

LEMMA FitWhenIdle ==
    ASSUME NEW p, op'[p] = Idle, held'[p] = {}
    PROVE  Fit(p)'
<1>1. /\ op'[p].kind = "idle" /\ op'[p].wants = <<>> /\ <<>> \in Seq(Locks)
      /\ DOMAIN <<>> = {} /\ Range(<<>>) = {}
  BY DEF Idle, Range
<1>2. Needs(p)' = {}
  BY <1>1 DEF Needs
<1>3. {"kind", "stage", "about", "wants"} \subseteq DOMAIN Idle
  BY DEF Idle
<1> QED
  BY <1>1, <1>2, <1>3 DEF Fit, Climbs, Sorted, NightsThere, Suits

LEMMA OrderByOne ==
    ASSUME OrderInv, LocksInv', NEW p \in Procs, Fit(p)', BookedNightsThere', Grows,
           \A q \in Procs \ {p} : op'[q] = op[q] /\ held'[q] = held[q],
           \A q \in Procs \ {p} : \A x \in held[q] : x.mode = "insert" => x.of \notin rows'
    PROVE  OrderInv'
<1>1. \A q \in Procs : Fit(q)'
  <2> SUFFICES ASSUME NEW q \in Procs, q # p PROVE Fit(q)'
    OBVIOUS
  <2>1. Fit(q) /\ op'[q] = op[q] /\ held'[q] = held[q]
        /\ \A x \in held[q] : x.mode = "insert" => x.of \notin rows'
    BY DEF OrderInv
  <2> QED
    BY <2>1, FitOfOthers
<1> QED
  BY <1>1 DEF OrderInv

\* A step that writes no table but moves one transaction on.
LEMMA OrderByMove ==
    ASSUME OrderInv, LocksInv', NEW p \in Procs, Fit(p)', UNCHANGED <<status, rows>>,
           \A q \in Procs \ {p} : op'[q] = op[q] /\ held'[q] = held[q]
    PROVE  OrderInv'
<1>1. Grows /\ BookedNightsThere'
  BY DEF Grows, BookedNightsThere, OrderInv
<1>2. \A q \in Procs \ {p} : \A x \in held[q] : x.mode = "insert" => x.of \notin rows'
  BY DEF OrderInv, Fit, NightsThere
<1> QED
  BY <1>1, <1>2, OrderByOne

LEMMA OrderByFinish ==
    ASSUME OrderInv, LocksInv', NEW p \in Procs, Finish(p), BookedNightsThere', Grows,
           \A q \in Procs \ {p} : \A x \in held[q] : x.mode = "insert" => x.of \notin rows'
    PROVE  OrderInv'
<1>1. /\ op'[p] = Idle /\ held'[p] = {}
      /\ \A q \in Procs \ {p} : op'[q] = op[q] /\ held'[q] = held[q]
  BY DEF Finish, OrderInv, LocksInv, Entries
<1> QED
  BY <1>1, FitWhenIdle, OrderByOne

LEMMA OrderByPlainFinish ==
    ASSUME OrderInv, LocksInv', NEW p \in Procs, Finish(p), UNCHANGED rows,
           status' = [b \in Bookings |-> status'[b]],
           \A b \in Bookings : status'[b] # "none" <=> status[b] # "none"
    PROVE  OrderInv'
<1>1. Grows /\ BookedNightsThere'
  BY DEF Grows, BookedNightsThere, OrderInv
<1>2. \A q \in Procs \ {p} : \A x \in held[q] : x.mode = "insert" => x.of \notin rows'
  BY DEF OrderInv, Fit, NightsThere
<1> QED
  BY <1>1, <1>2, OrderByFinish

\* A transaction begins: it has nothing, and what it wants is in order.
LEMMA OrderByBegin ==
    ASSUME OrderInv, LocksInv', NEW p \in Procs, NEW k, NEW about, NEW w,
           Begin(p, k, about, w), k # "expire", w \in Seq(Locks),
           k \in {"complete", "refund"} \/ Sorted(w),
           \A x \in Range(w) : x.row = "night" /\ x.mode = "update"
                                  => Lock("night", x.of, "insert") \in Range(w),
           k = "complete" => \A x \in Range(w) : x.row = "booking",
           k = "create" => \E b \in Bookings :
              /\ about = {b}
              /\ \A d \in NightsIn(Stay[b]) : Lock("night", d, "update") \in Range(w),
           k \in {"cancel", "succeeded", "canceled", "failed"} => \E b \in Bookings :
              /\ about = {b} /\ status[b] # "none"
              /\ Range(w) \subseteq {Lock("booking", b, "update"), Lock("payment", b, "update")}
              /\ k = "cancel" => \A x \in Range(w) : x.row = "booking"
              /\ k = "succeeded" => Lock("booking", b, "update") \in Range(w)
    PROVE  OrderInv'
<1>1. /\ op[p] = Idle
      /\ op'[p] = [kind |-> k, stage |-> "first", about |-> about, wants |-> w]
      /\ held' = held
      /\ \A q \in Procs \ {p} : op'[q] = op[q] /\ held'[q] = held[q]
      /\ UNCHANGED <<status, rows>>
  BY DEF Begin, OrderInv, LocksInv, Entries
<1>2. /\ held'[p] = {} /\ op'[p].kind = k /\ op'[p].stage = "first"
      /\ op'[p].about = about /\ op'[p].wants = w
  BY <1>1 DEF OrderInv, LocksInv, LocksExclude
<1>3. Needs(p)' = Range(w)
  BY <1>2 DEF Needs
<1>4. Climbs(p)'
  BY <1>2 DEF Climbs
<1>5. NightsThere(p)'
  BY <1>2, <1>3 DEF NightsThere
<1>6. Suits(p)'
  <2>1. ASSUME k \in {"cancel", "succeeded", "canceled", "failed"}
        PROVE  \E b \in Bookings :
                  /\ about = {b} /\ status[b] # "none"
                  /\ \A x \in Range(w) : x.of = b /\ (x.row = "booking" \/ (x.row = "payment" /\ k # "cancel"))
                  /\ k = "succeeded" => Lock("booking", b, "update") \in Range(w)
    <3>1. PICK b \in Bookings :
              /\ about = {b} /\ status[b] # "none"
              /\ Range(w) \subseteq {Lock("booking", b, "update"), Lock("payment", b, "update")}
              /\ k = "cancel" => \A x \in Range(w) : x.row = "booking"
              /\ k = "succeeded" => Lock("booking", b, "update") \in Range(w)
      BY <2>1
    <3>2. \A x \in Range(w) : x.of = b /\ x.row \in {"booking", "payment"}
      BY <3>1 DEF Lock
    <3> QED
      BY <3>1, <3>2
  <2> QED
    BY <1>1, <1>2, <1>3, <2>1 DEF Suits
<1>7. Fit(p)'
  BY <1>1, <1>2, <1>4, <1>5, <1>6 DEF Fit
<1> QED
  BY <1>1, <1>2, <1>7, OrderByMove

\* A transaction that cancels goes on to the payment and the nights of a
\* booking, which are there.
LEMMA OrderByGoOn ==
    ASSUME OrderInv, LocksInv', NEW p \in Procs, NEW w, NEW b \in Bookings, GoOn(p, w),
           op[p].kind \in {"cancel", "canceled", "expire"}, op[p].wants = <<>>,
           b \in op[p].about, status[b] # "none",
           NEW paid \in BOOLEAN,
           w = IF paid THEN LockAvailabilityRows(Stay[b])
                       ELSE LockPayment(b) \o LockAvailabilityRows(Stay[b]),
           paid => op[p].kind = "canceled",
           Batch(p) \/ \A x \in held[p] : x.row = "booking" \/ (x.row = "payment" /\ paid)
    PROVE  OrderInv'
<1> DEFINE k == op[p].kind
           about == op[p].about
<1>1. Fit(p) /\ b \in about
  BY DEF OrderInv
<1>2. /\ op'[p] = [op[p] EXCEPT !.stage = "second", !.wants = w]
      /\ held' = held
      /\ \A q \in Procs \ {p} : op'[q] = op[q] /\ held'[q] = held[q]
      /\ UNCHANGED <<status, rows>>
  BY DEF GoOn, OrderInv, LocksInv, Entries
<1>3. {"kind", "stage", "about", "wants"} \subseteq DOMAIN op[p]
  BY <1>1 DEF Fit
<1>4. /\ op'[p].kind = k /\ op'[p].stage = "second"
      /\ op'[p].about = about /\ op'[p].wants = w
      /\ DOMAIN op'[p] = DOMAIN op[p]
  BY <1>2, <1>3
<1>5. Needs(p) = held[p] /\ Needs(p)' = held[p] \cup Range(w)
  BY <1>2, <1>4 DEF Needs, Range
<1>6. /\ w \in Seq(Locks) /\ Sorted(w)
      /\ \A y \in Range(w) : \/ y = Lock("payment", b, "update") /\ ~paid
                             \/ \E d \in NightsIn(Stay[b]) : y = Lock("night", d, "update")
      /\ k # "canceled" => Lock("payment", b, "update") \in Range(w)
  <2>1. Stay[b] \in Nat \X Nat /\ Stay[b][1] <= Stay[b][2]
    BY RowLocksAssumption
  <2>2. CASE paid
    <3>1. w = LockAvailabilityRows(Stay[b])
      BY <2>2
    <3> QED
      BY <2>1, <2>2, <3>1, AvailabilityRows
  <2>3. CASE ~paid
    <3>1. w = LockPayment(b) \o LockAvailabilityRows(Stay[b])
      BY <2>3
    <3>2. /\ w \in Seq(Locks) /\ Sorted(w)
          /\ Range(w) = {Lock("payment", b, "update")}
                           \cup {Lock("night", d, "update") : d \in NightsIn(Stay[b])}
      BY <3>1, PaymentAndNightRows
    <3> QED
      BY <2>3, <3>2
  <2> QED
    BY <2>2, <2>3
<1>7. \A y \in Range(w) : /\ y.row = "payment" => y.of = b /\ ~paid
                          /\ y.row = "night" => y.of \in NightsIn(Stay[b])
                          /\ y.row \in {"payment", "night"} /\ y.mode = "update"
  BY <1>6 DEF Lock
<1>8. Climbs(p)'
  <2>1. CASE Batch(p)
    BY <1>4, <2>1 DEF Climbs, Batch
  <2>2. CASE ~Batch(p)
    <3>1. ASSUME NEW x \in held[p], NEW y \in Range(w)
          PROVE  Before(x, y)
      BY <1>7, <2>2, <3>1 DEF Before, Level
    <3> QED
      BY <1>2, <1>4, <1>6, <3>1 DEF Climbs
  <2> QED
    BY <2>1, <2>2
<1>9. NightsThere(p)'
  <2>1. NightsIn(Stay[b]) \subseteq rows
    BY DEF OrderInv, BookedNightsThere
  <2> QED
    BY <1>1, <1>2, <1>5, <1>7, <2>1 DEF Fit, NightsThere
<1>10. Suits(p)'
  <2>1. CASE k = "expire"
    <3> HIDE DEF k, about
    <3>1. /\ about \subseteq Bookings
          /\ \A c \in about : status[c] # "none" /\ Lock("booking", c, "update") \in held[p]
          /\ \A x \in held[p] : x.row = "payment" => x.of \in about
      BY <1>1, <1>5, <2>1 DEF Fit, Suits, k, about
    <3>2. \A c \in about : about = {c} => Lock("payment", c, "update") \in Range(w)
      BY <1>1, <1>6, <2>1
    <3> QED
      BY <1>1, <1>2, <1>4, <1>5, <1>7, <2>1, <3>1, <3>2 DEF Suits
  <2>2. CASE k # "expire"
    <3>1. \E c \in Bookings : about = {c} /\ status[c] # "none"
      BY <1>1, <2>2 DEF Fit, Suits
    <3> HIDE DEF k, about
    <3> QED
      BY <1>2, <1>4, <2>2, <3>1 DEF Suits, k
  <2> QED
    BY <2>1, <2>2
<1>11. Fit(p)'
  BY <1>1, <1>2, <1>3, <1>4, <1>6, <1>8, <1>9, <1>10 DEF Fit
<1> QED
  BY <1>2, <1>4, <1>11, OrderByMove

\* What was asked for is got, or passed over as it is there.
LEMMA OrderByAcquire ==
    ASSUME OrderInv, LocksInv', NEW p \in Procs, Acquire(p)
    PROVE  OrderInv'
<1> DEFINE w == op[p].wants
           x == Head(w)
<1>1. Fit(p) /\ w # <<>>
  BY DEF OrderInv, Acquire
<1>2. /\ op'[p] = [op[p] EXCEPT !.wants = Tail(w)]
      /\ held'[p] = IF Passed(x) THEN held[p] ELSE held[p] \cup {x}
      /\ \A q \in Procs \ {p} : op'[q] = op[q] /\ held'[q] = held[q]
      /\ UNCHANGED <<status, rows>>
  BY DEF Acquire, OrderInv, LocksInv, Entries
<1>3. /\ op'[p].kind = op[p].kind /\ op'[p].stage = op[p].stage
      /\ op'[p].about = op[p].about /\ op'[p].wants = Tail(w)
      /\ DOMAIN op'[p] = DOMAIN op[p]
  BY <1>1, <1>2 DEF Fit
<1>4. /\ x \in Locks /\ Tail(w) \in Seq(Locks)
      /\ Range(w) = {x} \cup Range(Tail(w))
      /\ Sorted(w) => Sorted(Tail(w)) /\ \A y \in Range(Tail(w)) : Before(x, y)
  BY <1>1, HeadAndTail DEF Fit
<1> HIDE DEF w, x
<1>5. Passed(x) => x.mode = "insert" /\ x.of \in rows
  BY DEF Passed
<1>6. /\ Needs(p) = held[p] \cup {x} \cup Range(Tail(w))
      /\ Needs(p)' = held'[p] \cup Range(Tail(w))
  BY <1>3, <1>4 DEF Needs, w
<1>7. /\ Needs(p)' \subseteq Needs(p)
      /\ \A y \in Needs(p) : y \in Needs(p)' \/ (y = x /\ Passed(x))
  BY <1>2, <1>6
<1>8. Climbs(p)'
  BY <1>1, <1>2, <1>3, <1>4 DEF Fit, Climbs, Batch, w
<1>9. NightsThere(p)'
  <2>1. ASSUME NEW y \in Needs(p)', y.row = "night", y.mode = "update"
        PROVE  y.of \in rows \/ Lock("night", y.of, "insert") \in Needs(p)'
    <3>1. y.of \in rows \/ Lock("night", y.of, "insert") \in Needs(p)
      BY <1>1, <1>7, <2>1 DEF Fit, NightsThere
    <3>2. Lock("night", y.of, "insert") = x => y.of = x.of
      BY DEF Lock
    <3> QED
      BY <1>5, <1>7, <3>1, <3>2
  <2>2. ASSUME NEW y \in held'[p], y.mode = "insert"
        PROVE  y.of \notin rows
    <3>1. y \in held[p] \/ (y = x /\ ~Passed(x))
      BY <1>2, <2>2
    <3> QED
      BY <1>1, <2>2, <3>1 DEF Fit, NightsThere, Passed
  <2> QED
    BY <1>2, <2>1, <2>2 DEF NightsThere
<1>10. Suits(p)'
  <2>1. \A row, of : Lock(row, of, "update") \in Needs(p) => Lock(row, of, "update") \in Needs(p)'
    <3>1. \A row, of : Lock(row, of, "update").mode = "update"
      BY DEF Lock
    <3> QED
      BY <1>5, <1>7, <3>1
  <2>2. \A y \in held[p] : y \in held'[p]
    BY <1>2
  <2>3. Range(op'[p].wants) \subseteq Range(op[p].wants)
    BY <1>3, <1>4 DEF w
  <2> QED
    BY <1>1, <1>2, <1>3, <1>7, <2>1, <2>2, <2>3 DEF Fit, Suits
<1>11. Fit(p)'
  BY <1>1, <1>2, <1>3, <1>4, <1>8, <1>9, <1>10 DEF Fit
<1> QED
  BY <1>2, <1>3, <1>11, OrderByMove

LEMMA OrderByExpire ==
    ASSUME OrderInv, LocksInv', NEW p \in Procs, ExpirePendingPayments(p)
    PROVE  OrderInv'
<1>1. PICK batch \in SUBSET Bookings :
         /\ \A b \in batch : status[b] = "pending"
         /\ held' = [held EXCEPT ![p] = {Lock("booking", b, "update") : b \in batch}]
         /\ op' = [op EXCEPT ![p] =
               [kind |-> "expire", stage |-> "second", about |-> batch, wants |-> <<>>]]
         /\ UNCHANGED <<status, rows>>
  BY DEF ExpirePendingPayments
<1> DEFINE L == {Lock("booking", b, "update") : b \in batch}
<1>2. /\ held'[p] = L
      /\ op'[p] = [kind |-> "expire", stage |-> "second", about |-> batch, wants |-> <<>>]
      /\ \A q \in Procs \ {p} : op'[q] = op[q] /\ held'[q] = held[q]
  BY <1>1 DEF OrderInv, LocksInv, Entries
<1>3. /\ op'[p].kind = "expire" /\ op'[p].about = batch /\ op'[p].wants = <<>>
      /\ {"kind", "stage", "about", "wants"} \subseteq DOMAIN op'[p]
  BY <1>2
<1>4. \A x \in L : x \in Locks /\ x.row = "booking" /\ x.mode = "update"
  BY DEF Lock, Locks, BookingLocks
<1>5. \A b \in batch : Lock("booking", b, "update") \in L
  OBVIOUS
<1> HIDE DEF L
<1>6. <<>> \in Seq(Locks) /\ DOMAIN <<>> = {} /\ Range(<<>>) = {}
  BY DEF Range
<1>7. Needs(p)' = L
  BY <1>2, <1>3, <1>6 DEF Needs
<1>8. Climbs(p)' /\ NightsThere(p)'
  BY <1>2, <1>3, <1>4, <1>6, <1>7 DEF Climbs, Sorted, NightsThere
<1>9. Suits(p)'
  BY <1>1, <1>2, <1>3, <1>4, <1>5, <1>6, <1>7 DEF Suits
<1>10. Fit(p)'
  BY <1>2, <1>3, <1>4, <1>6, <1>8, <1>9 DEF Fit
<1> QED
  BY <1>1, <1>2, <1>3, <1>10, OrderByMove

LEMMA OrderByCreate ==
    ASSUME OrderInv, LocksInv', NEW p \in Procs, NEW b \in Bookings, CreateBooking(p, b)
    PROVE  OrderInv'
<1> DEFINE w == LockStay(Stay[b])
<1>1. Begin(p, "create", {b}, w)
  BY DEF CreateBooking
<1>2. Stay[b] \in Nat \X Nat /\ Stay[b][1] <= Stay[b][2]
  BY RowLocksAssumption
<1>3. /\ w \in Seq(Locks) /\ Sorted(w)
      /\ Range(w) = {Lock("type", None, "share")}
            \cup {Lock("night", d, "insert") : d \in NightsIn(Stay[b])}
            \cup {Lock("night", d, "update") : d \in NightsIn(Stay[b])}
  BY <1>2, StayRows
<1> HIDE DEF w
<1>4. \A x \in Range(w) : x.row = "night" /\ x.mode = "update"
                             => Lock("night", x.of, "insert") \in Range(w)
  BY <1>3 DEF Lock
<1>5. \A d \in NightsIn(Stay[b]) : Lock("night", d, "update") \in Range(w)
  BY <1>3
<1> DEFINE k == "create"
           a == {b}
<1>6. Begin(p, k, a, w) /\ k # "expire" /\ k = "create" /\ a = {b}
  BY <1>1
<1> HIDE DEF k, a
<1> QED
  BY <1>3, <1>4, <1>5, <1>6, OrderByBegin

LEMMA OrderByBlock ==
    ASSUME OrderInv, LocksInv', NEW p \in Procs, NEW i \in Nights, NEW j \in Nights, i <= j,
           SetBlockedInventory(p, i, j)
    PROVE  OrderInv'
<1> DEFINE s == <<i, j>>
           w == LockStay(s)
<1>1. Begin(p, "block", {}, w)
  BY DEF SetBlockedInventory
<1>2. s \in Nat \X Nat /\ s[1] <= s[2]
  BY RowLocksAssumption
<1> HIDE DEF s
<1>3. /\ w \in Seq(Locks) /\ Sorted(w)
      /\ Range(w) = {Lock("type", None, "share")}
            \cup {Lock("night", d, "insert") : d \in NightsIn(s)}
            \cup {Lock("night", d, "update") : d \in NightsIn(s)}
  BY <1>2, StayRows
<1> HIDE DEF w
<1>4. \A x \in Range(w) : x.row = "night" /\ x.mode = "update"
                             => Lock("night", x.of, "insert") \in Range(w)
  BY <1>3 DEF Lock
<1> DEFINE k == "block"
           a == {}
<1>5. Begin(p, k, a, w) /\ k = "block"
  BY <1>1
<1> HIDE DEF k, a
<1> QED
  BY <1>3, <1>4, <1>5, OrderByBegin

LEMMA OrderByTypeUpdate ==
    ASSUME OrderInv, LocksInv', NEW p \in Procs, UpdateRoomType(p)
    PROVE  OrderInv'
<1> DEFINE x == Lock("type", None, "update")
           w == <<x>>
<1>1. Begin(p, "update", {}, w)
  BY DEF UpdateRoomType
<1>2. x \in Locks /\ x.row = "type"
  BY DEF Lock, Locks, TypeLocks
<1> HIDE DEF x
<1>3. w \in Seq(Locks) /\ Sorted(w) /\ Range(w) = {x}
  BY <1>2, OneLock
<1> HIDE DEF w
<1> DEFINE k == "update"
           a == {}
<1>4. Begin(p, k, a, w) /\ k = "update"
  BY <1>1
<1> HIDE DEF k, a
<1> QED
  BY <1>2, <1>3, <1>4, OrderByBegin

LEMMA OrderByCancel ==
    ASSUME OrderInv, LocksInv', NEW p \in Procs, NEW b \in Bookings, CancelBooking(p, b)
    PROVE  OrderInv'
<1> DEFINE w == LockBooking(b)
           k == "cancel"
           a == {b}
<1>1. Begin(p, k, a, w) /\ k = "cancel" /\ a = {b} /\ status[b] # "none"
  BY DEF CancelBooking
<1>2. /\ w \in Seq(Locks) /\ Sorted(w)
      /\ Range(w) = {Lock("booking", b, "update")}
  BY BookingRow
<1> HIDE DEF w, k, a
<1>3. \A x \in Range(w) : x.row = "booking"
  BY <1>2 DEF Lock
<1> QED
  BY <1>1, <1>2, <1>3, OrderByBegin

LEMMA OrderByWebhook ==
    ASSUME OrderInv, LocksInv', NEW p \in Procs, NEW b \in Bookings,
           NEW e \in {"succeeded", "canceled", "failed"}, ProcessWebhook(p, b, e)
    PROVE  OrderInv'
<1> DEFINE w == LockBooking(b) \o LockPayment(b)
           a == {b}
<1>1. Begin(p, e, a, w) /\ a = {b} /\ status[b] # "none"
  BY DEF ProcessWebhook
<1>2. /\ w \in Seq(Locks) /\ Sorted(w)
      /\ Range(w) = {Lock("booking", b, "update"), Lock("payment", b, "update")}
  BY BookingAndPaymentRows
<1> HIDE DEF w, a
<1>3. \A x \in Range(w) : x.row # "night"
  BY <1>2 DEF Lock
<1> QED
  BY <1>1, <1>2, <1>3, OrderByBegin

LEMMA OrderByRefund ==
    ASSUME OrderInv, LocksInv', NEW p \in Procs, NEW b \in Bookings, MarkPaymentRefunded(p, b)
    PROVE  OrderInv'
<1> DEFINE x == Lock("payment", b, "nokeyupdate")
           y == Lock("booking", b, "keyshare")
           w == <<x, y>>
           k == "refund"
           a == {b}
<1>1. Begin(p, k, a, w) /\ k = "refund"
  BY DEF MarkPaymentRefunded
<1>2. x \in Locks /\ y \in Locks /\ x.row # "night" /\ y.row # "night"
  BY DEF Lock, Locks, PaymentLocks, BookingLocks
<1> HIDE DEF x, y, k, a
<1>3. w \in Seq(Locks) /\ DOMAIN w = {1, 2} /\ w[1] = x /\ w[2] = y
  BY <1>2
<1> HIDE DEF w
<1>4. \A z \in Range(w) : z.row # "night"
  BY <1>2, <1>3 DEF Range
<1> QED
  BY <1>1, <1>3, <1>4, OrderByBegin

LEMMA OrderByCompletion ==
    ASSUME OrderInv, LocksInv', NEW p \in Procs, CompletePastBookings(p)
    PROVE  OrderInv'
<1>1. PICK past \in SUBSET Bookings : \E s \in SetToSeqs(past) :
         Begin(p, "complete", past, [i \in 1..Len(s) |-> Lock("booking", s[i], "nokeyupdate")])
  BY DEF CompletePastBookings
<1>2. PICK s \in SetToSeqs(past) :
         Begin(p, "complete", past, [i \in 1..Len(s) |-> Lock("booking", s[i], "nokeyupdate")])
  BY <1>1
<1> DEFINE w == [i \in 1..Len(s) |-> Lock("booking", s[i], "nokeyupdate")]
           k == "complete"
<1>3. IsFiniteSet(past)
  BY RowLocksAssumption, FS_Subset
<1>4. Len(s) \in Nat /\ \A i \in 1..Len(s) : s[i] \in Bookings
  <2>1. Cardinality(past) \in Nat
    BY <1>3, FS_CardinalityType
  <2>2. DOMAIN s = 1..Cardinality(past) /\ s \in [1..Cardinality(past) -> past]
    BY DEF SetToSeqs
  <2>3. s \in Seq(past) /\ Len(s) = Cardinality(past)
    BY <2>1, <2>2
  <2> QED
    BY <2>1, <2>2, <2>3
<1>5. \A i \in 1..Len(s) : /\ Lock("booking", s[i], "nokeyupdate") \in Locks
                           /\ Lock("booking", s[i], "nokeyupdate").row = "booking"
  BY <1>4 DEF Lock, Locks, BookingLocks
<1>6. w \in Seq(Locks) /\ \A x \in Range(w) : x.row = "booking"
  BY <1>4, <1>5 DEF Range
<1>7. Begin(p, k, past, w) /\ k = "complete"
  BY <1>2
<1> HIDE DEF w, k
<1> QED
  BY <1>2, <1>6, <1>7, OrderByBegin

\* The booking of a transaction that is about one.
LEMMA ItsBooking ==
    ASSUME NEW p, NEW b \in Bookings, op[p].about = {b}
    PROVE  It(p) = b
BY DEF It

LEMMA CancelsIt ==
    ASSUME OrderInv, NEW p \in Procs,
           op[p].kind \in {"create", "cancel", "succeeded", "canceled", "failed"}
    PROVE  /\ It(p) \in Bookings /\ op[p].about = {It(p)}
           /\ op[p].kind # "create" => status[It(p)] # "none"
<1>1. \E b \in Bookings : /\ op[p].about = {b}
                          /\ op[p].kind # "create" => status[b] # "none"
  BY DEF OrderInv, Fit, Suits
<1> QED
  BY <1>1, ItsBooking

LEMMA OrderByCancelConfirmed ==
    ASSUME OrderInv, LocksInv', NEW p \in Procs, CancelConfirmed(p)
    PROVE  OrderInv'
<1> DEFINE b == It(p)
           paid == FALSE
           w == LockPayment(b) \o LockAvailabilityRows(Stay[b])
<1>1. /\ op[p].kind = "cancel" /\ op[p].stage = "first" /\ op[p].wants = <<>>
      /\ GoOn(p, w)
  BY DEF CancelConfirmed, Has
<1>2. b \in Bookings /\ b \in op[p].about /\ status[b] # "none"
  BY <1>1, CancelsIt
<1>3. \A x \in held[p] : x.row = "booking"
  BY <1>1 DEF OrderInv, Fit, Suits, Needs
<1>4. /\ paid \in BOOLEAN /\ ~paid
      /\ w = IF paid THEN LockAvailabilityRows(Stay[b])
                     ELSE LockPayment(b) \o LockAvailabilityRows(Stay[b])
  OBVIOUS
<1> HIDE DEF b, w, paid
<1> QED
  BY <1>1, <1>2, <1>3, <1>4, OrderByGoOn

LEMMA OrderByWebhookCanceled ==
    ASSUME OrderInv, LocksInv', NEW p \in Procs, WebhookCanceled(p)
    PROVE  OrderInv'
<1> DEFINE b == It(p)
           paid == TRUE
           w == LockAvailabilityRows(Stay[b])
<1>1. /\ op[p].kind = "canceled" /\ op[p].stage = "first" /\ op[p].wants = <<>>
      /\ GoOn(p, w)
  BY DEF WebhookCanceled, Has
<1>2. b \in Bookings /\ b \in op[p].about /\ status[b] # "none"
  BY <1>1, CancelsIt
<1>3. \A x \in held[p] : x.row = "booking" \/ x.row = "payment"
  BY <1>1 DEF OrderInv, Fit, Suits, Needs
<1>4. /\ paid \in BOOLEAN /\ paid
      /\ w = IF paid THEN LockAvailabilityRows(Stay[b])
                     ELSE LockPayment(b) \o LockAvailabilityRows(Stay[b])
  OBVIOUS
<1> HIDE DEF b, w, paid
<1> QED
  BY <1>1, <1>2, <1>3, <1>4, OrderByGoOn

LEMMA OrderByExpireOne ==
    ASSUME OrderInv, LocksInv', NEW p \in Procs, ExpirePendingPayment(p)
    PROVE  OrderInv'
<1>1. PICK b \in op[p].about :
         /\ Lock("payment", b, "update") \notin held[p]
         /\ GoOn(p, LockPayment(b) \o LockAvailabilityRows(Stay[b]))
  BY DEF ExpirePendingPayment
<1> DEFINE paid == FALSE
           w == LockPayment(b) \o LockAvailabilityRows(Stay[b])
<1>2. op[p].kind = "expire" /\ op[p].wants = <<>> /\ GoOn(p, w)
  BY <1>1 DEF ExpirePendingPayment, Has
<1>3. /\ op[p].about \subseteq Bookings
      /\ \A c \in op[p].about : status[c] # "none"
      /\ \A c \in op[p].about : op[p].about = {c} => \/ Lock("payment", c, "update") \in Needs(p)
                                                     \/ \A x \in Needs(p) : x.row = "booking"
  BY <1>2 DEF OrderInv, Fit, Suits
<1>4. Needs(p) = held[p]
  BY <1>2 DEF Needs, Range
<1>5. Batch(p) \/ \A x \in held[p] : x.row = "booking"
  <2> SUFFICES ASSUME ~Batch(p) PROVE \A x \in held[p] : x.row = "booking"
    OBVIOUS
  <2>1. Cardinality(op[p].about) = 1 /\ IsFiniteSet(op[p].about)
    BY <1>2, <1>3, RowLocksAssumption, FS_Subset DEF Batch
  <2>2. op[p].about = {b}
    BY <2>1, FS_Singleton
  <2> QED
    BY <1>1, <1>3, <1>4, <2>2
<1>6. /\ paid \in BOOLEAN /\ ~paid
      /\ w = IF paid THEN LockAvailabilityRows(Stay[b])
                     ELSE LockPayment(b) \o LockAvailabilityRows(Stay[b])
  OBVIOUS
<1> HIDE DEF w, paid
<1>7. b \in Bookings /\ b \in op[p].about /\ status[b] # "none"
  BY <1>3
<1> QED
  BY <1>2, <1>5, <1>6, <1>7, OrderByGoOn

\* Whoever holds a night to update it lets nobody else hold it to insert it.
LEMMA NobodyElseInserts ==
    ASSUME LocksInv, NEW p \in Procs, NEW q \in Procs, p # q, NEW x \in held[q], NEW d,
           Lock("night", d, "update") \in held[p], x.row = "night", x.mode = "insert"
    PROVE  x.of # d
<1>1. ~Conflict(Lock("night", d, "update"), x)
  BY DEF LocksInv, LocksExclude
<1> QED
  BY <1>1 DEF Conflict, Lock

\* Only a night is inserted.
LEMMA InsertsNights ==
    ASSUME NEW q, Fit(q), NEW x \in held[q], x.mode = "insert"
    PROVE  x.row = "night"
BY DEF Fit, Locks, TypeLocks, BookingLocks, PaymentLocks, NightLocks

LEMMA OrderByCreated ==
    ASSUME OrderInv, LocksInv', NEW p \in Procs, CreatePendingBooking(p)
    PROVE  OrderInv'
<1> DEFINE b == It(p)
<1>1. /\ op[p].kind = "create" /\ op[p].wants = <<>> /\ Finish(p)
      /\ status' = [status EXCEPT ![b] = "pending"]
      /\ rows' = rows \cup Range(NightsOf(Stay[b]))
  BY DEF CreatePendingBooking, Has
<1>2. b \in Bookings /\ op[p].about = {b}
  BY <1>1, CancelsIt
<1>3. Needs(p) = held[p]
  BY <1>1 DEF Needs, Range
<1>4. \A d \in NightsIn(Stay[b]) : Lock("night", d, "update") \in held[p]
  <2>1. \E c \in Bookings : /\ op[p].about = {c}
                            /\ \A d \in NightsIn(Stay[c]) : Lock("night", d, "update") \in Needs(p)
    BY <1>1 DEF OrderInv, Fit, Suits
  <2> HIDE DEF b
  <2> QED
    BY <1>2, <1>3, <2>1
<1>5. Range(NightsOf(Stay[b])) = NightsIn(Stay[b])
  <2> DEFINE s == Stay[b]
             n == s[2] - s[1] + 1
  <2>1. s[1] \in Nat /\ s[2] \in Nat /\ s[1] <= s[2]
    BY <1>2, RowLocksAssumption
  <2>2. DOMAIN NightsOf(s) = 1..n /\ \A i \in 1..n : NightsOf(s)[i] = s[1] + i - 1
    BY DEF NightsOf
  <2> HIDE DEF s
  <2>3. \A i \in 1..n : s[1] + i - 1 \in NightsIn(s)
    BY <2>1 DEF NightsIn
  <2>4. \A d \in NightsIn(s) : d - s[1] + 1 \in 1..n /\ s[1] + (d - s[1] + 1) - 1 = d
    BY <2>1 DEF NightsIn
  <2>5. \A d \in NightsIn(s) : d \in Range(NightsOf(s))
    BY <2>2, <2>4 DEF Range
  <2>6. Range(NightsOf(s)) \subseteq NightsIn(s)
    BY <2>2, <2>3 DEF Range
  <2> QED
    BY <2>5, <2>6 DEF s
<1> HIDE DEF b
<1>6. Grows /\ BookedNightsThere'
  BY <1>1, <1>2, <1>5 DEF Grows, BookedNightsThere, OrderInv
<1>7. ASSUME NEW q \in Procs \ {p}, NEW x \in held[q], x.mode = "insert"
      PROVE  x.of \notin rows'
  <2>1. Fit(q) /\ x.row = "night" /\ x.of \notin rows
    BY <1>7, InsertsNights DEF OrderInv, Fit, NightsThere
  <2>2. x.of \notin NightsIn(Stay[b])
    BY <1>4, <1>7, <2>1, NobodyElseInserts DEF OrderInv
  <2> QED
    BY <1>1, <1>5, <2>1, <2>2
<1> QED
  BY <1>1, <1>6, <1>7, OrderByFinish

LEMMA OrderByInventorySet ==
    ASSUME OrderInv, LocksInv', NEW p \in Procs, InventorySet(p)
    PROVE  OrderInv'
<1>1. /\ Finish(p) /\ status' = status
      /\ rows' = rows \cup {x.of : x \in {y \in held[p] : y.row = "night"}}
  BY DEF InventorySet
<1>2. Grows /\ BookedNightsThere'
  BY <1>1 DEF Grows, BookedNightsThere, OrderInv
<1>3. ASSUME NEW q \in Procs \ {p}, NEW x \in held[q], x.mode = "insert"
      PROVE  x.of \notin rows'
  <2>1. Fit(q) /\ x.row = "night" /\ x.of \notin rows
    BY <1>3, InsertsNights DEF OrderInv, Fit, NightsThere
  <2>2. ASSUME NEW y \in held[p], y.row = "night"
        PROVE  x.of # y.of
    <3>1. ~Conflict(x, y)
      BY DEF OrderInv, LocksInv, LocksExclude
    <3> QED
      BY <1>3, <2>1, <2>2, <3>1 DEF Conflict
  <2> QED
    BY <1>1, <2>1, <2>2
<1> QED
  BY <1>1, <1>2, <1>3, OrderByFinish

LEMMA OrderByOutcome ==
    ASSUME OrderInv, LocksInv', NEW p \in Procs,
           \/ RoomTypeUpdated(p) \/ WebhookRepeated(p) \/ WebhookFailed(p) \/ PaymentRefunded(p)
           \/ Abort(p)
    PROVE  OrderInv'
<1>1. Finish(p) /\ UNCHANGED <<status, rows>>
  BY DEF RoomTypeUpdated, WebhookRepeated, WebhookFailed, PaymentRefunded, Abort
<1> QED
  BY <1>1, OrderByPlainFinish DEF OrderInv, BookedNightsThere

LEMMA OrderByCancelled ==
    ASSUME OrderInv, LocksInv', NEW p \in Procs, BookingCancelled(p) \/ WebhookSucceeded(p)
    PROVE  OrderInv'
<1>1. /\ op[p].kind \in {"cancel", "succeeded"} /\ Finish(p) /\ rows' = rows
      /\ status' = status \/ \E v \in {"cancelled", "confirmed"} :
                                status' = [status EXCEPT ![It(p)] = v]
  BY DEF BookingCancelled, WebhookSucceeded, Has
<1>2. It(p) \in Bookings /\ status[It(p)] # "none"
  BY <1>1, CancelsIt
<1>3. status = [b \in Bookings |-> status[b]]
  BY DEF OrderInv, BookedNightsThere
<1>4. /\ status' = [b \in Bookings |-> status'[b]]
      /\ \A b \in Bookings : status'[b] # "none" <=> status[b] # "none"
  BY <1>1, <1>2, <1>3
<1> QED
  BY <1>1, <1>4, OrderByPlainFinish

LEMMA OrderByPendingCancelled ==
    ASSUME OrderInv, LocksInv', NEW p \in Procs, PendingCancelled(p)
    PROVE  OrderInv'
<1>1. /\ op[p].kind \in {"canceled", "expire"} /\ Finish(p) /\ rows' = rows
      /\ status' = [b \in Bookings |-> IF b \in op[p].about THEN "cancelled" ELSE status[b]]
  BY DEF PendingCancelled, Has
<1>2. \A b \in op[p].about : status[b] # "none"
  BY <1>1 DEF OrderInv, Fit, Suits
<1>3. /\ status' = [b \in Bookings |-> status'[b]]
      /\ \A b \in Bookings : status'[b] # "none" <=> status[b] # "none"
  BY <1>1, <1>2
<1> QED
  BY <1>1, <1>3, OrderByPlainFinish

LEMMA OrderByCompleted ==
    ASSUME OrderInv, LocksInv', NEW p \in Procs, BookingsCompleted(p)
    PROVE  OrderInv'
<1>1. /\ Finish(p) /\ rows' = rows
      /\ status' = [b \in Bookings |-> IF b \in op[p].about /\ status[b] = "confirmed"
                                       THEN "completed" ELSE status[b]]
  BY DEF BookingsCompleted
<1>2. /\ status' = [b \in Bookings |-> status'[b]]
      /\ \A b \in Bookings : status'[b] # "none" <=> status[b] # "none"
  BY <1>1
<1> QED
  BY <1>1, <1>2, OrderByPlainFinish

LEMMA InitOrder == Init => OrderInv
<1> SUFFICES ASSUME Init PROVE OrderInv
  OBVIOUS
<1>1. LocksInv
  BY InitLocks
<1>2. \A p \in Procs : /\ op[p].kind = "idle" /\ op[p].wants = <<>> /\ held[p] = {}
                       /\ {"kind", "stage", "about", "wants"} \subseteq DOMAIN op[p]
  BY DEF Init, Idle
<1>3. <<>> \in Seq(Locks) /\ DOMAIN <<>> = {} /\ Range(<<>>) = {}
  BY DEF Range
<1>4. ASSUME NEW p \in Procs
      PROVE  Fit(p)
  <2>1. Needs(p) = {}
    BY <1>2, <1>3 DEF Needs
  <2> QED
    BY <1>2, <1>3, <2>1 DEF Fit, Climbs, Sorted, NightsThere, Suits
<1>5. BookedNightsThere
  BY <1>2 DEF Init, BookedNightsThere
<1> QED
  BY <1>1, <1>4, <1>5 DEF OrderInv

LEMMA OrderStep == OrderInv /\ [Next]_vars => OrderInv'
<1> SUFFICES ASSUME OrderInv, [Next]_vars PROVE OrderInv'
  OBVIOUS
<1>1. LocksInv'
  BY LocksStep DEF OrderInv
<1>2. CASE UNCHANGED vars
  <2>1. UNCHANGED <<status, rows, held, op>>
    BY <1>2 DEF vars
  <2>2. ASSUME NEW p \in Procs
        PROVE  Fit(p)'
    <3>1. Fit(p)
      BY DEF OrderInv
    <3> QED
      BY <2>1, <3>1 DEF Fit, Climbs, Batch, NightsThere, Suits, Needs
  <2>3. BookedNightsThere'
    BY <2>1 DEF OrderInv, BookedNightsThere
  <2> QED
    BY <1>1, <2>2, <2>3 DEF OrderInv
<1>3. ASSUME NEW p \in Procs, NEW b \in Bookings, NEW e \in {"succeeded", "canceled", "failed"},
             \/ CreateBooking(p, b) \/ CancelBooking(p, b) \/ ProcessWebhook(p, b, e)
             \/ MarkPaymentRefunded(p, b)
      PROVE  OrderInv'
  BY <1>1, <1>3, OrderByCreate, OrderByCancel, OrderByWebhook, OrderByRefund
<1>4. ASSUME NEW p \in Procs,
             \/ \E i, j \in Nights : i <= j /\ SetBlockedInventory(p, i, j)
             \/ UpdateRoomType(p) \/ ExpirePendingPayments(p) \/ CompletePastBookings(p)
             \/ Acquire(p)
      PROVE  OrderInv'
  BY <1>1, <1>4, OrderByBlock, OrderByTypeUpdate, OrderByExpire, OrderByCompletion, OrderByAcquire
<1>5. ASSUME NEW p \in Procs,
             \/ CreatePendingBooking(p) \/ InventorySet(p) \/ RoomTypeUpdated(p)
             \/ CancelConfirmed(p) \/ BookingCancelled(p)
             \/ WebhookCanceled(p) \/ WebhookRepeated(p)
      PROVE  OrderInv'
  BY <1>1, <1>5, OrderByCreated, OrderByInventorySet, OrderByOutcome, OrderByCancelConfirmed,
     OrderByCancelled, OrderByWebhookCanceled
<1>6. ASSUME NEW p \in Procs,
             \/ WebhookFailed(p) \/ WebhookSucceeded(p) \/ ExpirePendingPayment(p)
             \/ PendingCancelled(p) \/ PaymentRefunded(p) \/ BookingsCompleted(p) \/ Abort(p)
      PROVE  OrderInv'
  BY <1>1, <1>6, OrderByOutcome, OrderByCancelled, OrderByExpireOne, OrderByPendingCancelled,
     OrderByCompleted
<1> QED
  BY <1>2, <1>3, <1>4, <1>5, <1>6 DEF Next, GoesOn

-----------------------------------------------------------------------------
\* Circles.

\* What is finite has no element from which one can always climb further.
LEMMA NoEndlessClimb ==
    ASSUME NEW C, IsFiniteSet(C), C # {}, NEW r,
           \A p \in C : r[p] \in Nat,
           \A p \in C : \E q \in C : r[p] < r[q]
    PROVE  FALSE
<1> DEFINE Above(p) == {q \in C : r[p] < r[q]}
           T == {Above(p) : p \in C}
           R == StrictSubsetOrdering(C)
<1>1. IsWellFoundedOn(R, FiniteSubsetsOf(C))
  BY FS_StrictSubsetOrderingWellFounded
<1>2. T \subseteq FiniteSubsetsOf(C) /\ T # {}
  <2>1. T \subseteq SUBSET C /\ T # {}
    OBVIOUS
  <2>2. FiniteSubsetsOf(C) = SUBSET C
    BY FS_FiniteSubsetsOfFinite
  <2> QED
    BY <2>1, <2>2
<1> HIDE DEF T, R
<1>3. PICK A \in T : \A B \in T : ~(<<B, A>> \in R)
  BY <1>1, <1>2, WFMin
<1>4. PICK p \in C : A = Above(p)
  BY <1>3 DEF T
<1>5. PICK q \in C : r[p] < r[q]
  OBVIOUS
<1>6. Above(q) \subseteq Above(p) /\ q \in Above(p) /\ q \notin Above(q)
  BY <1>5
<1>7. Above(q) \in T /\ <<Above(q), A>> \in R
  BY <1>4, <1>6 DEF T, R, StrictSubsetOrdering
<1> QED
  BY <1>3, <1>7

\* How far a transaction that waits has come.
Rank(p) ==
    LET x == Head(op[p].wants)
    IN  CASE x.row = "type" -> 0
          [] x.row = "booking" -> IF op[p].kind = "complete" THEN 2 ELSE 1
          [] x.row = "payment" -> 3
          [] OTHER -> 4 + x.of

WaitsForNight(p) == Head(op[p].wants).row = "night" /\ Head(op[p].wants).mode = "update"

LEMMA RowsOfLocks ==
    ASSUME NEW x \in Locks
    PROVE  /\ x.row \in {"type", "booking", "payment", "night"}
           /\ x.row = "type" <=> Level(x) = 0
           /\ x.row = "booking" <=> Level(x) = 1
           /\ x.row = "payment" <=> Level(x) = 3
           /\ x.row = "night" /\ x.mode = "insert" <=> Level(x) = 4
           /\ x.row = "night" /\ x.mode = "update" <=> Level(x) = 5
           /\ x.row = "night" => x.of \in Nat /\ x.mode \in {"insert", "update"}
BY DEF Locks, TypeLocks, BookingLocks, PaymentLocks, NightLocks, Level

\* Whoever is waited for, and waits itself, has come further.
LEMMA WaitingClimbs ==
    ASSUME OrderInv, NEW p \in Procs, NEW q \in Procs, Waits(p, q), op[q].wants # <<>>,
           op[p].kind # "refund", op[q].kind # "refund", ~Batch(p), ~Batch(q),
           op[p].kind = "complete" => op[q].kind # "complete"
    PROVE  /\ Rank(p) \in Nat
           /\ WaitsForNight(p) => WaitsForNight(q) /\ Rank(p) < Rank(q)
           /\ ~WaitsForNight(p) /\ ~WaitsForNight(q) => Rank(p) < Rank(q)
<1> DEFINE x == Head(op[p].wants)
           z == Head(op[q].wants)
<1>1. /\ Fit(p) /\ Fit(q) /\ p # q
      /\ op[p].wants \in Seq(Locks) /\ op[p].wants # <<>> /\ op[q].wants \in Seq(Locks)
      /\ held[q] \subseteq Locks
  BY DEF OrderInv, Fit, Waits
<1>2. /\ x \in Locks /\ Range(op[p].wants) = {x} \cup Range(Tail(op[p].wants))
      /\ Sorted(op[p].wants) => \A y \in Range(Tail(op[p].wants)) : Before(x, y)
  BY <1>1, HeadAndTail
<1>3. z \in Locks /\ Range(op[q].wants) = {z} \cup Range(Tail(op[q].wants))
  BY <1>1, HeadAndTail
<1>4. PICK y \in held[q] : ~Passed(x) /\ y.row = x.row /\ y.of = x.of /\ y \in Locks
  BY <1>1 DEF Waits, Blocks, Conflict
<1>5. op[q].kind = "complete" => y.row = "booking" /\ z.row = "booking"
  BY <1>1, <1>3 DEF Fit, Suits, Needs
<1>6. op[q].kind # "complete" => Before(y, z)
  BY <1>1, <1>3 DEF Fit, Climbs
<1>7. op[p].kind = "complete" => x.row = "booking" /\ op[q].kind # "complete"
  BY <1>1, <1>2 DEF Fit, Suits, Needs
<1>8. Rank(p) = CASE x.row = "type" -> 0
                  [] x.row = "booking" -> IF op[p].kind = "complete" THEN 2 ELSE 1
                  [] x.row = "payment" -> 3
                  [] OTHER -> 4 + x.of
  BY DEF Rank
<1>9. Rank(q) = CASE z.row = "type" -> 0
                  [] z.row = "booking" -> IF op[q].kind = "complete" THEN 2 ELSE 1
                  [] z.row = "payment" -> 3
                  [] OTHER -> 4 + z.of
  BY DEF Rank
<1>10. /\ WaitsForNight(p) <=> x.row = "night" /\ x.mode = "update"
       /\ WaitsForNight(q) <=> z.row = "night" /\ z.mode = "update"
  BY DEF WaitsForNight
<1>11. WaitsForNight(p) => y.mode = "update"
  <2> SUFFICES ASSUME WaitsForNight(p), y.mode # "update" PROVE FALSE
    OBVIOUS
  <2>1. y.mode = "insert"
    BY <1>4, <1>10, RowsOfLocks
  <2>2. x.of \notin rows
    BY <1>1, <1>4, <2>1 DEF Fit, NightsThere
  <2> DEFINE i == Lock("night", x.of, "insert")
  <2>3. i \in Needs(p)
    BY <1>1, <1>2, <1>10, <2>2 DEF Fit, NightsThere, Needs
  <2>4. i.row = "night" /\ i.of = x.of /\ i.mode = "insert" /\ Level(i) = 4 /\ Level(x) = 5
    BY <1>10 DEF Lock, Level
  <2> HIDE DEF i, x
  <2>5. CASE i \in held[p]
    <3>1. ~Conflict(i, y)
      BY <1>1, <2>5 DEF OrderInv, LocksInv, LocksExclude
    <3> QED
      BY <1>4, <1>10, <2>1, <2>4, <3>1 DEF Conflict
  <2>6. CASE i \in Range(Tail(op[p].wants))
    <3>1. Before(x, i)
      BY <1>1, <1>2, <1>7, <1>10, <2>6 DEF Fit, Climbs
    <3> QED
      BY <2>4, <3>1 DEF Before
  <2>7. i # x
    BY <2>4
  <2> QED
    BY <1>2, <2>3, <2>5, <2>6, <2>7 DEF Needs
<1> HIDE DEF x, z
<1>12. Rank(p) \in Nat
  BY <1>2, <1>8, RowsOfLocks
<1>13. ASSUME WaitsForNight(p)
       PROVE  WaitsForNight(q) /\ Rank(p) < Rank(q)
  <2>1. y.row = "night" /\ y.mode = "update" /\ Level(y) = 5 /\ Before(y, z)
    BY <1>4, <1>5, <1>6, <1>10, <1>11, <1>13, RowsOfLocks
  <2>2. z.row = "night" /\ z.mode = "update" /\ y.of < z.of
    BY <1>3, <2>1, RowsOfLocks DEF Before
  <2>3. x.of \in Nat /\ z.of \in Nat /\ x.row = "night"
    BY <1>2, <1>3, <1>10, <1>13, <2>2, RowsOfLocks
  <2>4. Rank(p) = 4 + x.of /\ Rank(q) = 4 + z.of
    BY <1>8, <1>9, <2>2, <2>3
  <2> QED
    BY <1>4, <1>10, <2>2, <2>3, <2>4
<1>14. ASSUME ~WaitsForNight(p), ~WaitsForNight(q)
       PROVE  Rank(p) < Rank(q)
  <2>1. ~(z.row = "night" /\ z.mode = "update")
    BY <1>10, <1>14
  <2>2. CASE x.row = "type"
    <3>1. Level(y) = 0 /\ Before(y, z)
      BY <1>4, <1>5, <1>6, <2>2, RowsOfLocks
    <3>2. z.row # "type" /\ (z.row = "night" => z.of \in Nat)
      BY <1>3, <1>4, <2>2, <3>1, RowsOfLocks DEF Before
    <3> QED
      BY <1>3, <1>8, <1>9, <2>2, <3>2, RowsOfLocks
  <2>3. CASE x.row = "booking" /\ op[q].kind = "complete"
    BY <1>5, <1>7, <1>8, <1>9, <2>3
  <2>4. CASE x.row = "booking" /\ op[q].kind # "complete"
    <3>1. Level(y) = 1 /\ Before(y, z)
      BY <1>4, <1>6, <2>4, RowsOfLocks
    <3>2. z.row \in {"payment", "night"} /\ (z.row = "night" => z.of \in Nat)
      BY <1>3, <1>4, <2>4, <3>1, RowsOfLocks DEF Before
    <3> QED
      BY <1>8, <1>9, <2>4, <3>2
  <2>5. CASE x.row = "payment"
    <3>1. Level(y) = 3 /\ Before(y, z)
      BY <1>4, <1>5, <1>6, <2>5, RowsOfLocks
    <3>2. z.row = "night" /\ z.of \in Nat
      BY <1>3, <1>4, <2>5, <3>1, RowsOfLocks DEF Before
    <3> QED
      BY <1>8, <1>9, <2>5, <3>2
  <2>6. CASE x.row = "night"
    <3>1. Level(y) \in {4, 5} /\ Before(y, z)
      BY <1>4, <1>5, <1>6, <2>6, RowsOfLocks
    <3>2. z.row = "night" /\ y.of < z.of
      BY <1>3, <2>1, <3>1, RowsOfLocks DEF Before
    <3>3. z.of \in Nat /\ x.of \in Nat
      BY <1>2, <1>3, <2>6, <3>2, RowsOfLocks
    <3> QED
      BY <1>4, <1>8, <1>9, <2>6, <3>2, <3>3
  <2> QED
    BY <1>2, <2>2, <2>3, <2>4, <2>5, <2>6, RowsOfLocks
<1> QED
  BY <1>12, <1>13, <1>14

\* Whoever waits in a circle waits with an expiration batch of several
\* bookings, with the statement that marks a payment refunded, or with two
\* completions (OnlyUnorderedLocksDeadlock).
LEMMA OrderHasNoCircles == OrderInv => OnlyUnorderedLocksDeadlock
<1> DEFINE P == {p \in Procs : /\ op[p].kind # "refund"
                               /\ op[p].kind = "expire" => Cardinality(op[p].about) = 1}
<1> SUFFICES ASSUME OrderInv, NEW C \in SUBSET P, C # {},
                    \A p \in C : \E q \in C : Waits(p, q),
                    \A p, q \in C : op[p].kind = "complete" /\ op[q].kind = "complete" => p = q
             PROVE  FALSE
  BY DEF OnlyUnorderedLocksDeadlock, Circles
<1>1. \A p \in C : p \in Procs /\ op[p].kind # "refund" /\ ~Batch(p) /\ op[p].wants # <<>>
  BY DEF Batch, Waits
<1>2. IsFiniteSet(C)
  <2>1. IsFiniteSet(Procs) /\ C \in SUBSET Procs
    BY <1>1, RowLocksAssumption
  <2> QED
    BY <2>1, FS_Subset
<1> DEFINE U == {p \in C : WaitsForNight(p)}
           r == [p \in C |-> Rank(p)]
<1>3. ASSUME NEW p \in C, NEW q \in C, Waits(p, q)
      PROVE  /\ r[p] \in Nat
             /\ p \in U => q \in U /\ r[p] < r[q]
             /\ p \notin U /\ q \notin U => r[p] < r[q]
  <2>1. op[p].kind = "complete" => op[q].kind # "complete"
    BY <1>3 DEF Waits
  <2> QED
    BY <1>1, <1>3, <2>1, WaitingClimbs
<1>4. IsFiniteSet(U)
  BY <1>2, FS_Subset
<1> HIDE DEF P, U, r
<1>5. \A p \in C : r[p] \in Nat
  BY <1>3
<1>6. U \subseteq C
  BY DEF U
<1>7. CASE U = {}
  <2>1. \A p \in C : \E q \in C : r[p] < r[q]
    BY <1>3, <1>7
  <2> QED
    BY <1>2, <1>5, <2>1, NoEndlessClimb
<1>8. CASE U # {}
  <2>1. \A p \in U : \E q \in U : r[p] < r[q]
    BY <1>3, <1>6
  <2>2. \A p \in U : r[p] \in Nat
    BY <1>5, <1>6
  <2> QED
    BY <1>4, <1>8, <2>1, <2>2, NoEndlessClimb
<1> QED
  BY <1>7, <1>8

\* A success event that somebody waits for has its booking, and nobody else
\* that has its payment would not have its booking.
LEMMA SuccessIsNotWaitedFor ==
    ASSUME OrderInv, NEW p \in Procs, NEW q \in Procs, NEW r \in Procs,
           Waits(p, q), Waits(q, r),
           op[q].kind = "succeeded", op[r].kind \in {"succeeded", "expire"}
    PROVE  FALSE
<1> DEFINE z == Head(op[q].wants)
<1>1. /\ Fit(q) /\ Fit(r) /\ q # r /\ p # q
      /\ op[q].wants \in Seq(Locks) /\ op[q].wants # <<>>
      /\ held[q] \subseteq Locks /\ held[r] \subseteq Locks
  BY DEF OrderInv, Fit, Waits
<1>2. /\ z \in Locks /\ z \in Range(op[q].wants)
  BY <1>1, HeadAndTail
<1>3. PICK y \in held[q] : TRUE
  BY DEF Waits, Blocks
<1>4. PICK u \in held[r] : u.row = z.row /\ u.of = z.of
  BY DEF Waits, Blocks, Conflict
<1>5. PICK b \in Bookings : \A x \in Needs(q) : x.of = b /\ x.row \in {"booking", "payment"}
  BY ZenonT(40), <1>1 DEF Fit, Suits
<1>6. y.of = b /\ y.row \in {"booking", "payment"} /\ z.of = b /\ z.row \in {"booking", "payment"}
  BY <1>2, <1>5 DEF Needs
<1>7. Before(y, z)
  BY <1>1, <1>2 DEF Fit, Climbs, Batch
<1>8. y.row = "booking" /\ z.row = "payment" /\ y \in Locks
  BY <1>1, <1>2, <1>6, <1>7, RowsOfLocks DEF Before
<1> HIDE DEF z
<1>9. u.row = "payment" /\ u.of = b /\ u \in Locks
  BY <1>1, <1>4, <1>6, <1>8
<1> DEFINE l == Lock("booking", b, "update")
<1>10. l.row = "booking" /\ l.of = b /\ l.mode = "update" /\ Level(l) = 1
  BY DEF Lock, Level
<1>11. l \notin held[r]
  <2> SUFFICES ASSUME l \in held[r] PROVE FALSE
    OBVIOUS
  <2>1. ~Conflict(y, l)
    BY <1>1 DEF OrderInv, LocksInv, LocksExclude
  <2> HIDE DEF l
  <2> QED
    BY <1>6, <1>8, <1>10, <2>1 DEF Conflict
<1>12. CASE op[r].kind = "expire"
  BY <1>1, <1>9, <1>11, <1>12 DEF Fit, Suits, Needs
<1>13. CASE op[r].kind = "succeeded"
  <2>1. l \in Needs(r)
    <3>1. PICK c \in Bookings : op[r].about = {c}
      BY <1>1, <1>13 DEF Fit, Suits
    <3>2. Lock("booking", c, "update") \in Needs(r) /\ \A x \in Needs(r) : x.of = c
      BY <1>1, <1>13, <3>1 DEF Fit, Suits
    <3> QED
      BY <1>9, <3>2 DEF Needs
  <2>2. l \in Range(op[r].wants)
    BY <1>11, <2>1 DEF Needs
  <2>3. Before(u, l)
    BY <1>1, <1>13, <2>2 DEF Fit, Climbs, Batch
  <2> HIDE DEF l
  <2> QED
    BY <1>9, <1>10, <2>3, RowsOfLocks DEF Before
<1> QED
  BY <1>12, <1>13

\* In a circle of them everybody would wait for the batch, the batch too.
LEMMA OrderSparesSuccess == OrderInv => SuccessAndExpirationNeverDeadlock
<1> SUFFICES ASSUME OrderInv, NEW p \in Procs, op[p].kind = "expire",
                    NEW C \in SUBSET ({p} \cup {q \in Procs : op[q].kind = "succeeded"}), C # {},
                    \A a \in C : \E q \in C : Waits(a, q)
             PROVE  FALSE
  BY DEF SuccessAndExpirationNeverDeadlock, Circles
<1>1. \A a \in C : a \in Procs /\ (a = p \/ op[a].kind = "succeeded")
  OBVIOUS
<1>2. ASSUME NEW a \in C, NEW q \in C, Waits(a, q)
      PROVE  q = p
  <2>1. PICK r \in C : Waits(q, r)
    OBVIOUS
  <2> QED
    BY <1>1, <1>2, <2>1, SuccessIsNotWaitedFor
<1>3. p \in C
  BY <1>2
<1>4. PICK q \in C : Waits(p, q)
  BY <1>3
<1> QED
  BY <1>2, <1>3, <1>4 DEF Waits

\* Bookings, cancellations, events, blocks and a completion never deadlock
\* each other (OnlyUnorderedLocksDeadlock).
THEOREM LockOrderPreventsDeadlock == Spec => []OnlyUnorderedLocksDeadlock
BY InitOrder, OrderStep, OrderHasNoCircles, PTL DEF Spec

\* One expiration batch, of any size, and any number of success events never
\* deadlock (SuccessAndExpirationNeverDeadlock).
THEOREM SuccessSurvivesExpiration == Spec => []SuccessAndExpirationNeverDeadlock
BY InitOrder, OrderStep, OrderSparesSuccess, PTL DEF Spec

\* What is true of the order that webhook_service.go states for all booking
\* and payment transitions: every transaction but the statement that marks a
\* refund keeps it, expiration batches included.
RefundsAside ==
    \A p \in Procs : op[p].kind # "refund" /\ op[p].wants # <<>> =>
       LET x == Head(op[p].wants)
       IN  x.row = "booking" => \A y \in held[p] : ~(y.row = "payment" /\ y.of = x.of)

THEOREM OnlyRefundsTakePaymentsFirst == Spec => []RefundsAside
<1>1. OrderInv => RefundsAside
  <2> SUFFICES ASSUME OrderInv, NEW p \in Procs, op[p].kind # "refund", op[p].wants # <<>>,
                      Head(op[p].wants).row = "booking",
                      NEW y \in held[p], y.row = "payment"
               PROVE  FALSE
    BY DEF RefundsAside
  <2> DEFINE x == Head(op[p].wants)
  <2>1. Fit(p) /\ op[p].wants \in Seq(Locks) /\ y \in Locks
    BY DEF OrderInv, Fit
  <2>2. x \in Range(op[p].wants) /\ x \in Locks /\ x.row = "booking"
    BY <2>1, HeadAndTail
  <2> HIDE DEF x
  <2>3. CASE op[p].kind \in {"complete", "expire"}
    BY <2>1, <2>2, <2>3 DEF Fit, Suits, Needs
  <2>4. CASE op[p].kind \notin {"complete", "expire"}
    <3>1. Before(y, x)
      BY <2>1, <2>2, <2>4 DEF Fit, Climbs, Batch
    <3> QED
      BY <2>1, <2>2, <3>1, RowsOfLocks DEF Before
  <2> QED
    BY <2>3, <2>4
<1> QED
  BY InitOrder, OrderStep, <1>1, PTL DEF Spec

=============================================================================
