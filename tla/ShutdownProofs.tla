---------------------------- MODULE ShutdownProofs ----------------------------
(***************************************************************************)
(* The order of shutdown, for any number of workers, clients and requests, *)
(* and any grace period; and the rate limiter, for any policies, table and *)
(* skew of the clock that is shorter than every window.                    *)
(***************************************************************************)
EXTENDS Shutdown, FiniteSetTheorems, TLAPS

\* The types of the process; the limiter plays no part in it.
Typed ==
    /\ phase \in {"serving", "draining", "waiting", "closing", "exited"}
    /\ worker \in [Workers -> {"waiting", "running", "returned"}]
    /\ busy \in Nat /\ using \in Nat /\ busy + using <= MaxHandlers
    /\ drained \in 0..Grace

\* Draining is over with nothing under way, or by force, and nothing new
\* comes in; workers that have returned stay where they are.
Ordered ==
    /\ phase \in {"waiting", "closing", "exited"} /\ busy + using > 0 => forced = TRUE
    /\ PoolClosed => WorkersReturned

ShutdownInv == Typed /\ Ordered

LEMMA InitShutdown == Init => ShutdownInv
BY ShutdownAssumption DEF Init, ShutdownInv, Typed, Ordered, PoolClosed, WorkersReturned

\* What requests do.
LEMMA RequestsKeepShutdown ==
    ASSUME ShutdownInv,
           \/ \E c \in Clients, lag \in 0..Skew : Admit(c, lag) \/ Reject(c, lag)
           \/ AcquireConnection \/ ReleaseConnection \/ HandlerReturns
    PROVE  ShutdownInv'
<1> USE ShutdownAssumption DEF ShutdownInv, Typed, Ordered, PoolClosed, WorkersReturned, processVars
<1>1. CASE \E c \in Clients, lag \in 0..Skew : Admit(c, lag)
  BY <1>1 DEF Admit
<1>2. CASE \E c \in Clients, lag \in 0..Skew : Reject(c, lag)
  BY <1>2 DEF Reject
<1>3. CASE AcquireConnection
  BY <1>3 DEF AcquireConnection
<1>4. CASE ReleaseConnection
  BY <1>4 DEF ReleaseConnection
<1>5. CASE HandlerReturns
  BY <1>5 DEF HandlerReturns
<1> QED BY <1>1, <1>2, <1>3, <1>4, <1>5

\* What workers do: none runs again once it has returned.
LEMMA WorkersKeepShutdown ==
    ASSUME ShutdownInv, NEW w \in Workers, RunOnce(w) \/ RunEnds(w) \/ WorkerReturns(w)
    PROVE  ShutdownInv'
<1> USE ShutdownAssumption DEF ShutdownInv, Typed, Ordered, PoolClosed, WorkersReturned
<1>1. CASE RunOnce(w)
  BY <1>1 DEF RunOnce
<1>2. CASE RunEnds(w)
  BY <1>2 DEF RunEnds
<1>3. CASE WorkerReturns(w)
  BY <1>3 DEF WorkerReturns
<1> QED BY <1>1, <1>2, <1>3

\* What main does.
LEMMA MainKeepsShutdown ==
    ASSUME ShutdownInv,
           \/ Signal \/ ServerFails \/ BeginShutdown \/ EndDrain \/ ClosePool \/ Exit
           \/ Tick
    PROVE  ShutdownInv'
<1> USE ShutdownAssumption DEF ShutdownInv, Typed, Ordered, PoolClosed, WorkersReturned
<1>1. CASE Signal \/ ServerFails
  BY <1>1 DEF Signal, ServerFails
<1>2. CASE BeginShutdown
  BY <1>2 DEF BeginShutdown
<1>3. CASE EndDrain
  BY <1>3 DEF EndDrain
<1>4. CASE ClosePool
  BY <1>4 DEF ClosePool
<1>5. CASE Exit
  BY <1>5 DEF Exit
<1>6. CASE Tick
  BY <1>6 DEF Tick
<1> QED BY <1>1, <1>2, <1>3, <1>4, <1>5, <1>6

LEMMA ShutdownStep == ShutdownInv /\ [Next]_vars => ShutdownInv'
<1> SUFFICES ASSUME ShutdownInv, [Next]_vars PROVE ShutdownInv'
  OBVIOUS
<1>1. CASE UNCHANGED vars
  BY <1>1 DEF vars, processVars, ShutdownInv, Typed, Ordered, PoolClosed, WorkersReturned
<1>2. CASE Next
  BY <1>2, RequestsKeepShutdown, WorkersKeepShutdown, MainKeepsShutdown DEF Next
<1> QED BY <1>1, <1>2

\* The pool closes after the workers and after every request that was not
\* cut off (PoolClosesLast).
THEOREM PoolLast == Spec => []PoolClosesLast
<1>1. ShutdownInv => PoolClosesLast
  BY DEF ShutdownInv, Typed, Ordered, PoolClosed, WorkersReturned, PoolClosesLast
<1> QED BY InitShutdown, ShutdownStep, <1>1, PTL DEF Spec

-----------------------------------------------------------------------------
\* The rate limiter

\* What a key could get now: its tokens and what the time since the last
\* refill is worth, counted for requests that are late as well.
Avail(c) ==
    LET most == Requests[c] * (Window[c] + Skew)
        sum == tokens[c] + Requests[c] * refilled[c]
    IN  IF sum < most THEN sum ELSE most

\* The load of a key with an entry leaves room for what it could get now, and
\* is gone when the entry may be dropped.
Fits(c) ==
    /\ c \in buckets => load[c] + (Window[c] - Skew) * Avail(c) <= Burst(c)
    /\ c \in buckets => load[c] = 0 \/ load[c] + Leak(c) * (seen[c] - Skew) <= Burst(c)
    /\ c \notin buckets => load[c] = 0

\* An entry is no older than its window and the last cleanup.
Swept ==
    \A c \in buckets :
        seen[c] < Window[c] + cleaned \/ cleaned >= CleanupInterval + Skew

LimiterInv ==
    /\ LimiterTypeOK /\ IsFiniteSet(buckets)
    /\ \A c \in Clients : Fits(c)
    /\ Swept /\ RefusedWhenInUse

LEMMA TimesMonotone ==
    ASSUME NEW a \in Int, NEW b \in Int, NEW k \in Nat, a <= b
    PROVE  k * a <= k * b
OBVIOUS

LEMMA Squeeze ==
    ASSUME NEW l \in Nat, NEW x \in Int, NEW y \in Int, l + x <= y, y <= x
    PROVE  l = 0
OBVIOUS

LEMMA TimesNat ==
    ASSUME NEW a \in Nat, NEW b \in Nat
    PROVE  a * b \in Nat
OBVIOUS

\* The products that a key's policy makes.
LEMMA Policy ==
    ASSUME NEW c \in Clients
    PROVE  /\ Requests[c] \in Nat \ {0} /\ Window[c] \in Nat \ {0} /\ Skew \in Nat
           /\ Window[c] - Skew \in Nat \ {0}
           /\ Full(c) \in Nat /\ Window[c] <= Full(c)
           /\ Requests[c] * (Window[c] + Skew) = Full(c) + Requests[c] * Skew
           /\ Weight(c) \in Nat /\ Leak(c) \in Nat /\ Burst(c) \in Nat
           /\ Weight(c) = (Window[c] - Skew) * Window[c]
           /\ Leak(c) = Requests[c] * (Window[c] + Skew)
           /\ Burst(c) = Leak(c) * (Window[c] - Skew)
           /\ Burst(c) = (Window[c] - Skew) * Leak(c)
<1>1. /\ Requests[c] \in Nat \ {0} /\ Window[c] \in Nat \ {0} /\ Skew \in Nat
      /\ Skew < Window[c]
  BY RateLimiterAssumption
<1>2. Window[c] - Skew \in Nat \ {0} /\ Window[c] + Skew \in Nat
  BY <1>1
<1>3. Full(c) \in Nat /\ Leak(c) \in Nat /\ Weight(c) \in Nat
  BY <1>1, <1>2, TimesNat DEF Full, Leak, Weight
<1>4. Burst(c) \in Nat
  BY <1>2, <1>3, TimesNat DEF Burst
<1>5. Window[c] <= Full(c)
  <2>1. Window[c] * 1 <= Window[c] * Requests[c]
    BY <1>1, TimesMonotone
  <2> QED
    BY <1>1, <2>1 DEF Full
<1>6. Requests[c] * (Window[c] + Skew) = Full(c) + Requests[c] * Skew
  BY <1>1 DEF Full
<1> QED
  BY <1>1, <1>2, <1>3, <1>4, <1>5, <1>6 DEF Weight, Leak, Burst

\* An entry that is dropped has no load left.
LEMMA DroppedIsIdle ==
    ASSUME LimiterInv, NEW c \in buckets, NEW lag \in 0..Skew, c \notin Kept(lag)
    PROVE  load[c] = 0
<1>1. c \in Clients /\ seen[c] \in Nat /\ load[c] \in Nat /\ lag \in Nat
  BY RateLimiterAssumption DEF LimiterInv, LimiterTypeOK
<1>2. /\ Leak(c) \in Nat /\ Burst(c) = Leak(c) * (Window[c] - Skew) /\ Skew \in Nat
      /\ Window[c] \in Nat
  BY <1>1, Policy
<1>3. seen[c] - Skew >= Window[c] - Skew
  BY <1>1, <1>2 DEF Kept, Idle
<1>4. Leak(c) * (Window[c] - Skew) <= Leak(c) * (seen[c] - Skew)
  BY <1>1, <1>2, <1>3, TimesMonotone
<1>5. Leak(c) * (seen[c] - Skew) \in Int /\ Leak(c) * (Window[c] - Skew) \in Int
  BY <1>1, <1>2
<1>6. load[c] = 0 \/ load[c] + Leak(c) * (seen[c] - Skew) <= Leak(c) * (Window[c] - Skew)
  BY <1>1, <1>2 DEF LimiterInv, Fits
<1> QED
  BY <1>1, <1>4, <1>5, <1>6, Squeeze

LEMMA KeptFinite ==
    ASSUME LimiterInv, NEW lag \in 0..Skew
    PROVE  /\ Kept(lag) \in SUBSET buckets /\ IsFiniteSet(Kept(lag))
           /\ Cardinality(Kept(lag)) \in Nat /\ Cardinality(Kept(lag)) <= MaxEntries
<1>1. Kept(lag) \in SUBSET buckets
  BY DEF Kept
<1>2. /\ IsFiniteSet(Kept(lag)) /\ Cardinality(Kept(lag)) <= Cardinality(buckets)
      /\ Cardinality(Kept(lag)) \in Nat /\ Cardinality(buckets) \in Nat
  BY <1>1, FS_Subset, FS_CardinalityType DEF LimiterInv
<1> QED
  BY <1>1, <1>2, RateLimiterAssumption DEF LimiterInv, LimiterTypeOK

\* What a request finds after the refill is covered by the load.
LEMMA RefillFits ==
    ASSUME LimiterInv, NEW c \in Clients, NEW lag \in 0..Skew, NEW r \in Nat,
           r = IF c \in Kept(lag) /\ refilled[c] <= lag THEN refilled[c] ELSE lag
    PROVE  /\ Refill(c, lag) \in Nat /\ Refill(c, lag) <= Full(c)
           /\ load[c] + (Window[c] - Skew) * (Refill(c, lag) + Requests[c] * r) <= Burst(c)
<1> DEFINE R == Requests[c]
           W == Window[c]
           V == Window[c] - Skew
           most == R * (W + Skew)
           rest == tokens[c] + R * refilled[c]
           now == Refill(c, lag)
<1>1. /\ R \in Nat \ {0} /\ W \in Nat \ {0} /\ Skew \in Nat /\ V \in Nat
      /\ Full(c) \in Nat /\ most = Full(c) + R * Skew
      /\ Burst(c) = V * most /\ Leak(c) \in Nat /\ Burst(c) = Leak(c) * V
  BY Policy
<1>2. /\ tokens[c] \in Nat /\ tokens[c] <= Full(c) /\ refilled[c] \in Nat
      /\ seen[c] \in Nat /\ load[c] \in Nat /\ lag \in Nat /\ lag <= Skew
  BY <1>1 DEF LimiterInv, LimiterTypeOK
<1>3. R * lag \in Nat /\ R * lag <= R * Skew /\ R * refilled[c] \in Nat /\ R * Skew \in Nat
  BY <1>1, <1>2, TimesMonotone, TimesNat
<1>4. CASE c \notin Kept(lag)
  <2>1. now = Full(c) /\ r = lag
    BY <1>4 DEF Refill
  <2>2. load[c] = 0
    <3>1. CASE c \notin buckets
      BY <3>1 DEF LimiterInv, Fits
    <3>2. CASE c \in buckets
      BY <1>4, <3>2, DroppedIsIdle
    <3> QED
      BY <3>1, <3>2
  <2>3. now + R * r <= most /\ now + R * r \in Nat /\ most \in Nat
    BY <1>1, <1>3, <2>1
  <2>4. V * (now + R * r) <= V * most
    BY <1>1, <2>3, TimesMonotone
  <2>5. V * (now + R * r) \in Int
    BY <1>1, <2>3
  <2> HIDE DEF V, now, R, most
  <2>6. load[c] + V * (now + R * r) <= Burst(c) /\ now \in Nat /\ now <= Full(c)
    BY <1>1, <2>1, <2>2, <2>4, <2>5
  <2> QED
    BY <2>6 DEF V, now, R
<1>5. CASE c \in Kept(lag)
  <2>1. c \in buckets
    BY <1>5 DEF Kept, Idle
  <2>2. load[c] + V * Avail(c) <= Burst(c)
    BY <2>1 DEF LimiterInv, Fits
  <2>3. Avail(c) = (IF rest < most THEN rest ELSE most) /\ Avail(c) \in Nat
    BY <1>1, <1>2, <1>3 DEF Avail
  <2>4. now \in Nat /\ now <= Full(c) /\ now + R * r <= Avail(c)
    <3>1. CASE refilled[c] <= lag
      <4>1. now = tokens[c] /\ r = refilled[c]
        BY <1>2, <1>5, <3>1 DEF Refill
      <4>2. R * refilled[c] <= R * Skew
        BY <1>1, <1>2, <3>1, TimesMonotone
      <4> QED
        BY <1>1, <1>2, <1>3, <2>3, <4>1, <4>2
    <3>2. CASE refilled[c] > lag
      <4>1. /\ r = lag
            /\ now = IF tokens[c] + (refilled[c] - lag) * R < Full(c)
                     THEN tokens[c] + (refilled[c] - lag) * R ELSE Full(c)
        BY <1>2, <1>5, <3>2 DEF Refill
      <4>2. (refilled[c] - lag) * R = R * refilled[c] - R * lag
        BY <1>1, <1>2
      <4>3. (refilled[c] - lag) * R \in Nat
        BY <1>1, <1>2, <3>2, TimesNat
      <4> QED
        BY <1>1, <1>2, <1>3, <2>3, <4>1, <4>2, <4>3
    <3> QED
      BY <1>2, <3>1, <3>2
  <2>5. V * (now + R * r) <= V * Avail(c)
    BY <1>1, <2>3, <2>4, TimesMonotone
  <2>6. V * (now + R * r) \in Int /\ V * Avail(c) \in Int
    BY <1>1, <2>3, <2>4
  <2> HIDE DEF V, now, R
  <2>7. load[c] + V * (now + R * r) <= Burst(c)
    BY <1>1, <1>2, <2>2, <2>5, <2>6
  <2> QED
    BY <2>4, <2>7 DEF V, now, R
<1> QED
  BY <1>4, <1>5

\* A request that is answered from the bucket, let through or not.
LEMMA TouchFits ==
    ASSUME LimiterInv, NEW c \in Clients, NEW lag \in 0..Skew,
           HasRoom(c, lag), Touch(c, lag),
           \/ /\ Refill(c, lag) >= Window[c]
              /\ tokens' = [tokens EXCEPT ![c] = Refill(c, lag) - Window[c]]
              /\ load' = [load EXCEPT ![c] = @ + Weight(c)]
           \/ /\ tokens' = [tokens EXCEPT ![c] = Refill(c, lag)]
              /\ load' = load,
           answer' \in {"allowed", "limited"}
    PROVE  LimiterInv'
<1> DEFINE R == Requests[c]
           V == Window[c] - Skew
           now == Refill(c, lag)
<1>1. /\ R \in Nat \ {0} /\ Window[c] \in Nat \ {0} /\ Skew \in Nat /\ V \in Nat \ {0}
      /\ Leak(c) \in Nat /\ Burst(c) \in Nat /\ Weight(c) \in Nat
      /\ Weight(c) = V * Window[c] /\ lag \in Nat /\ lag <= Skew
  BY Policy
<1>2. /\ buckets' = Kept(lag) \cup {c} /\ Kept(lag) \subseteq buckets
      /\ refilled'[c] = IF c \in Kept(lag) /\ refilled[c] <= lag THEN refilled[c] ELSE lag
      /\ refilled' \in [Clients -> Nat] /\ refilled'[c] \in Nat
      /\ seen' \in [Clients -> Nat] /\ seen'[c] = lag
      /\ cleaned' \in Nat /\ cleaned' = (IF CleanupDue(lag) THEN lag ELSE cleaned)
      /\ \A d \in Clients \ {c} : refilled'[d] = refilled[d] /\ seen'[d] = seen[d]
  BY <1>1 DEF LimiterInv, LimiterTypeOK, Touch, Cleanup, Kept, Idle
<1>3. /\ now \in Nat /\ now <= Full(c)
      /\ load[c] + V * (now + R * refilled'[c]) <= Burst(c)
  BY <1>2, RefillFits
<1>4. /\ tokens' \in [Clients -> Nat] /\ tokens'[c] <= Full(c)
      /\ load' \in [Clients -> Nat] /\ load[c] \in Nat /\ tokens[c] \in Nat
      /\ \A d \in Clients \ {c} : tokens'[d] = tokens[d] /\ load'[d] = load[d]
  BY <1>1, <1>3, Policy DEF LimiterInv, LimiterTypeOK
<1>5. load'[c] + V * (tokens'[c] + R * refilled'[c]) <= Burst(c)
  <2>1. R * refilled'[c] \in Nat
    BY <1>1, <1>2, TimesNat
  <2>2. CASE tokens'[c] = now - Window[c] /\ load'[c] = load[c] + V * Window[c]
    <3>1. V * (tokens'[c] + R * refilled'[c])
            = V * (now + R * refilled'[c]) - V * Window[c]
      BY <1>1, <1>3, <2>1, <2>2
    <3>2. V * (now + R * refilled'[c]) \in Int /\ V * Window[c] \in Int
      BY <1>1, <1>3, <2>1
    <3> HIDE DEF V, R, now
    <3> QED
      BY <1>1, <1>3, <1>4, <2>2, <3>1, <3>2
  <2>3. CASE tokens'[c] = now /\ load'[c] = load[c]
    BY <1>3, <2>3
  <2> HIDE DEF V, R, now
  <2>4. \/ tokens'[c] = now - Window[c] /\ load'[c] = load[c] + V * Window[c]
        \/ tokens'[c] = now /\ load'[c] = load[c]
    BY <1>1, <1>4 DEF LimiterInv, LimiterTypeOK, now
  <2> QED
    BY <2>2, <2>3, <2>4
<1>6. Fits(c)'
  <2>1. R * refilled'[c] \in Nat /\ tokens'[c] \in Nat /\ load'[c] \in Nat
    BY <1>1, <1>2, <1>4, TimesNat
  <2>2. Avail(c)' \in Nat /\ Avail(c)' <= tokens'[c] + R * refilled'[c]
    BY <1>1, <2>1, TimesNat DEF Avail
  <2>3. V * Avail(c)' <= V * (tokens'[c] + R * refilled'[c])
    BY <1>1, <2>1, <2>2, TimesMonotone
  <2>4. V * Avail(c)' \in Nat /\ V * (tokens'[c] + R * refilled'[c]) \in Nat
    BY <1>1, <2>1, <2>2, TimesNat
  <2>5. load'[c] + V * Avail(c)' <= Burst(c) /\ load'[c] <= Burst(c)
    <3> HIDE DEF V, R
    <3> QED
      BY <1>1, <1>5, <2>1, <2>3, <2>4
  <2>6. Leak(c) * (seen'[c] - Skew) <= Leak(c) * 0
    BY <1>1, <1>2, TimesMonotone
  <2>7. load'[c] + Leak(c) * (seen'[c] - Skew) <= Burst(c)
    <3>1. Leak(c) * (seen'[c] - Skew) \in Int /\ Leak(c) * (seen'[c] - Skew) <= 0
      BY <1>1, <1>2, <2>6
    <3> QED
      BY <1>1, <2>1, <2>5, <3>1
  <2> QED
    BY <1>2, <2>5, <2>7 DEF Fits, Leak, Burst
<1>7. \A d \in Clients \ {c} : Fits(d)'
  <2> SUFFICES ASSUME NEW d \in Clients \ {c} PROVE Fits(d)'
    OBVIOUS
  <2>1. Avail(d)' = Avail(d) /\ load'[d] = load[d] /\ seen'[d] = seen[d]
    BY <1>2, <1>4 DEF Avail
  <2>2. d \in buckets' => d \in buckets
    BY <1>2
  <2>3. CASE d \in buckets /\ d \notin buckets'
    BY <1>2, <2>1, <2>3, DroppedIsIdle DEF Fits
  <2> QED
    BY <2>1, <2>2, <2>3 DEF LimiterInv, Fits, Burst, Leak
<1>8. Swept'
  BY <1>1, <1>2, RateLimiterAssumption
  DEF LimiterInv, LimiterTypeOK, Swept, Kept, Idle, CleanupDue
<1>9. IsFiniteSet(buckets') /\ Cardinality(buckets') <= MaxEntries /\ buckets' \subseteq Clients
  <2>1. /\ IsFiniteSet(Kept(lag)) /\ Cardinality(Kept(lag)) \in Nat
        /\ Cardinality(Kept(lag)) <= MaxEntries
    BY KeptFinite
  <2>2. /\ IsFiniteSet(Kept(lag) \cup {c})
        /\ Cardinality(Kept(lag) \cup {c}) =
              IF c \in Kept(lag) THEN Cardinality(Kept(lag)) ELSE Cardinality(Kept(lag)) + 1
    BY <2>1, FS_AddElement
  <2>3. c \in Kept(lag) \/ Cardinality(Kept(lag)) < MaxEntries
    BY DEF HasRoom
  <2>4. Cardinality(Kept(lag) \cup {c}) <= MaxEntries
    BY <2>1, <2>2, <2>3, RateLimiterAssumption
  <2> QED
    BY <1>2, <2>2, <2>4 DEF LimiterInv, LimiterTypeOK
<1> QED
  BY <1>2, <1>4, <1>6, <1>7, <1>8, <1>9
  DEF LimiterInv, LimiterTypeOK, RefusedWhenInUse, Full

\* A request that is refused sweeps the table all the same.
LEMMA RefusedFits ==
    ASSUME LimiterInv, NEW c \in Clients, NEW lag \in 0..Skew, Refused(c, lag)
    PROVE  LimiterInv'
<1>1. /\ buckets' = Kept(lag) /\ Kept(lag) \subseteq buckets /\ lag \in Nat /\ lag <= Skew
      /\ cleaned' = (IF CleanupDue(lag) THEN lag ELSE cleaned) /\ cleaned' \in Nat
      /\ UNCHANGED <<tokens, refilled, seen, load>>
  BY RateLimiterAssumption DEF Refused, Cleanup, Kept, LimiterInv, LimiterTypeOK
<1>2. LimiterTypeOK' /\ IsFiniteSet(buckets')
  BY <1>1, KeptFinite DEF Refused, LimiterInv, LimiterTypeOK
<1>3. ASSUME NEW d \in Clients PROVE Fits(d)'
  <2>1. Avail(d)' = Avail(d)
    BY <1>1 DEF Avail
  <2>2. d \in buckets /\ d \notin Kept(lag) => load[d] = 0
    BY DroppedIsIdle
  <2> QED
    BY <1>1, <2>1, <2>2 DEF LimiterInv, Fits, Burst, Leak
<1>4. Swept'
  BY <1>1, RateLimiterAssumption DEF LimiterInv, LimiterTypeOK, Swept, Kept, Idle, CleanupDue
<1>5. RefusedWhenInUse'
  <2> SUFFICES ASSUME NEW d \in buckets'
               PROVE  seen'[d] < Window[d] + CleanupInterval + Skew
    BY DEF RefusedWhenInUse
  <2>1. /\ d \in Clients /\ seen[d] \in Nat /\ Window[d] \in Nat /\ cleaned \in Nat
        /\ Skew \in Nat /\ CleanupInterval \in Nat \ {0} /\ seen' = seen
    BY <1>1, RateLimiterAssumption DEF LimiterInv, LimiterTypeOK
  <2>2. CASE CleanupDue(lag)
    BY <1>1, <2>1, <2>2 DEF Kept, Idle
  <2>3. CASE ~CleanupDue(lag)
    BY <1>1, <2>1, <2>3 DEF LimiterInv, Swept, CleanupDue
  <2> QED
    BY <2>2, <2>3
<1> QED
  BY <1>2, <1>3, <1>4, <1>5 DEF LimiterInv

\* A tick is worth more to the leak than to the bucket.
LEMMA TickFits ==
    ASSUME LimiterInv, LimiterTick
    PROVE  LimiterInv'
<1>1. /\ UNCHANGED <<buckets, tokens>> /\ answer' = "none"
      /\ cleaned' = Later(cleaned, CleanupInterval + Skew) /\ cleaned' \in Nat
  BY RateLimiterAssumption DEF LimiterTick, LimiterInv, LimiterTypeOK, Later
<1>2. ASSUME NEW c \in Clients
      PROVE  /\ refilled'[c] \in Nat /\ refilled'[c] <= refilled[c] + 1
             /\ seen'[c] \in Nat /\ seen'[c] <= seen[c] + 1
             /\ load'[c] = (IF load[c] > Leak(c) THEN load[c] - Leak(c) ELSE 0)
             /\ load'[c] \in Nat /\ load[c] \in Nat
             /\ refilled[c] \in Nat /\ seen[c] \in Nat /\ tokens[c] \in Nat
  BY Policy DEF LimiterTick, LimiterInv, LimiterTypeOK, Later
<1>3. /\ refilled' \in [Clients -> Nat] /\ seen' \in [Clients -> Nat]
      /\ load' \in [Clients -> Nat]
  <2>1. /\ refilled' = [c \in Clients |-> refilled'[c]] /\ seen' = [c \in Clients |-> seen'[c]]
        /\ load' = [c \in Clients |-> load'[c]]
    BY DEF LimiterTick
  <2> QED
    BY <1>2, <2>1
<1>4. LimiterTypeOK' /\ IsFiniteSet(buckets') /\ RefusedWhenInUse'
  BY <1>1, <1>3 DEF LimiterInv, LimiterTypeOK, RefusedWhenInUse, Full
<1>5. ASSUME NEW c \in Clients PROVE Fits(c)'
  <2> DEFINE R == Requests[c]
             V == Window[c] - Skew
             most == R * (Window[c] + Skew)
  <2>1. /\ R \in Nat /\ V \in Nat /\ most \in Nat /\ most = Leak(c) /\ Leak(c) \in Nat
        /\ Burst(c) \in Nat /\ Burst(c) = V * most /\ Window[c] \in Nat /\ Skew \in Nat
        /\ V <= Window[c] + Skew
    BY Policy
  <2>2. CASE c \in buckets
    <3>1. Avail(c) \in Nat /\ Avail(c)' \in Nat /\ Avail(c)' <= most
      BY <1>1, <1>2, <2>1, TimesNat DEF Avail
    <3>2. Avail(c)' <= Avail(c) + R
      <4>1. R * refilled'[c] <= R * (refilled[c] + 1)
        BY <1>2, <2>1, TimesMonotone
      <4>2. R * (refilled[c] + 1) = R * refilled[c] + R
        BY <1>2, <2>1
      <4>3. R * refilled'[c] \in Nat /\ R * refilled[c] \in Nat
        BY <1>2, <2>1, TimesNat
      <4>4. tokens'[c] = tokens[c]
        BY <1>1
      <4> QED
        BY <1>2, <2>1, <4>1, <4>2, <4>3, <4>4 DEF Avail
    <3>3. V * Avail(c)' <= V * most /\ V * Avail(c)' <= V * (Avail(c) + R)
      BY <2>1, <3>1, <3>2, TimesMonotone
    <3>4. V * (Avail(c) + R) = V * Avail(c) + V * R /\ V * R <= most
      <4>1. R * V <= R * (Window[c] + Skew)
        BY <2>1, TimesMonotone
      <4> QED
        BY <2>1, <3>1, <4>1
    <3>5. /\ V * Avail(c)' \in Nat /\ V * Avail(c) \in Nat /\ V * R \in Nat
          /\ load[c] + V * Avail(c) <= Burst(c)
      BY <2>1, <2>2, <3>1, TimesNat DEF LimiterInv, Fits
    <3>6. load'[c] + V * Avail(c)' <= Burst(c)
      <4> HIDE DEF V, R, most
      <4> QED
        BY <1>2, <2>1, <3>3, <3>4, <3>5
    <3>7. load'[c] = 0 \/ load'[c] + Leak(c) * (seen'[c] - Skew) <= Burst(c)
      <4>1. Leak(c) * (seen'[c] - Skew) <= Leak(c) * (seen[c] - Skew + 1)
        BY <1>2, <2>1, TimesMonotone
      <4>2. Leak(c) * (seen[c] - Skew + 1) = Leak(c) * (seen[c] - Skew) + Leak(c)
        BY <1>2, <2>1
      <4>3. Leak(c) * (seen'[c] - Skew) \in Int /\ Leak(c) * (seen[c] - Skew) \in Int
        BY <1>2, <2>1
      <4>4. load[c] = 0 \/ load[c] + Leak(c) * (seen[c] - Skew) <= Burst(c)
        BY <2>2 DEF LimiterInv, Fits
      <4> QED
        BY <1>2, <2>1, <4>1, <4>2, <4>3, <4>4
    <3> QED
      BY <1>1, <2>2, <3>6, <3>7 DEF Fits, Burst, Leak
  <2>3. CASE c \notin buckets
    BY <1>1, <1>2, <2>1, <2>3 DEF LimiterInv, Fits
  <2> QED
    BY <2>2, <2>3
<1>6. Swept'
  <2> SUFFICES ASSUME NEW c \in buckets
               PROVE  seen'[c] < Window[c] + cleaned' \/ cleaned' >= CleanupInterval + Skew
    BY <1>1 DEF Swept
  <2>1. /\ c \in Clients /\ Window[c] \in Nat /\ cleaned \in Nat /\ Skew \in Nat
        /\ CleanupInterval \in Nat
    BY RateLimiterAssumption DEF LimiterInv, LimiterTypeOK
  <2>2. seen[c] < Window[c] + cleaned \/ cleaned >= CleanupInterval + Skew
    BY DEF LimiterInv, Swept
  <2> QED
    BY <1>1, <1>2, <2>1, <2>2 DEF Later
<1> QED
  BY <1>4, <1>5, <1>6 DEF LimiterInv

LEMMA InitLimiter == Init => LimiterInv
<1> SUFFICES ASSUME Init PROVE LimiterInv
  OBVIOUS
<1>1. IsFiniteSet({}) /\ Cardinality({}) = 0
  BY FS_EmptySet
<1>2. \A c \in Clients : Full(c) \in Nat
  BY Policy
<1> QED
  BY <1>1, <1>2, RateLimiterAssumption
  DEF Init, LimiterInit, LimiterInv, LimiterTypeOK, Fits, Swept, RefusedWhenInUse

LEMMA LimiterStep == LimiterInv /\ [Next]_vars => LimiterInv'
<1> SUFFICES ASSUME LimiterInv, [Next]_vars PROVE LimiterInv'
  OBVIOUS
<1>1. CASE UNCHANGED limiterVars
  BY <1>1 DEF limiterVars, LimiterInv, LimiterTypeOK, Fits, Avail, Swept, RefusedWhenInUse,
              Full, Burst, Leak
<1>2. CASE \E c \in Clients, lag \in 0..Skew : Admit(c, lag) \/ Reject(c, lag)
  <2> PICK c \in Clients, lag \in 0..Skew : Admit(c, lag) \/ Reject(c, lag)
    BY <1>2
  <2>1. CASE Refused(c, lag)
    BY <2>1, RefusedFits
  <2>2. CASE Allow(c, lag)
    BY <2>2, TouchFits DEF Allow
  <2>3. CASE Limited(c, lag)
    BY <2>3, TouchFits DEF Limited
  <2> QED
    BY <2>1, <2>2, <2>3 DEF Admit, Reject
<1>3. CASE Tick
  BY <1>3, TickFits DEF Tick
<1> QED
  BY <1>1, <1>2, <1>3
  DEF Next, vars, AcquireConnection, ReleaseConnection, HandlerReturns, RunOnce, RunEnds,
      WorkerReturns, Signal, ServerFails, BeginShutdown, EndDrain, ClosePool, Exit

\* Neither a table that forgets nor requests that overtake each other let a
\* key through more often than the policy and the skew allow (RateIsLimited).
THEOREM RateLimited == Spec => []RateIsLimited
<1>1. LimiterInv => RateIsLimited
  <2> SUFFICES ASSUME LimiterInv, NEW c \in Clients PROVE load[c] <= Burst(c)
    BY DEF RateIsLimited
  <2>1. /\ load[c] \in Nat /\ Burst(c) \in Nat /\ tokens[c] \in Nat /\ refilled[c] \in Nat
        /\ Window[c] - Skew \in Nat /\ Requests[c] * (Window[c] + Skew) \in Nat
        /\ Requests[c] \in Nat
    BY Policy DEF LimiterInv, LimiterTypeOK
  <2>2. Avail(c) \in Nat
    BY <2>1, TimesNat DEF Avail
  <2>3. (Window[c] - Skew) * Avail(c) \in Nat
    BY <2>1, <2>2, TimesNat
  <2> QED
    BY <2>1, <2>3 DEF LimiterInv, Fits
<1> QED
  BY InitLimiter, LimiterStep, <1>1, PTL DEF Spec

\* A full table is full of keys in use (RefusedWhenInUse).
THEOREM RefusedOnlyWhenInUse == Spec => []RefusedWhenInUse
<1>1. LimiterInv => RefusedWhenInUse
  BY DEF LimiterInv
<1> QED
  BY InitLimiter, LimiterStep, <1>1, PTL DEF Spec

Flags == cancelled \in BOOLEAN /\ failed \in BOOLEAN /\ forced \in BOOLEAN

LEMMA FlagsStep == (Init => Flags) /\ (Flags /\ [Next]_vars => Flags')
<1>1. Init => Flags
  BY DEF Init, Flags
<1>2. ASSUME Flags, Next PROVE Flags'
  BY <1>2 DEF Flags, Next, processVars, Admit, Reject, AcquireConnection, ReleaseConnection,
              HandlerReturns, RunOnce, RunEnds, WorkerReturns, Signal, ServerFails,
              BeginShutdown, EndDrain, ClosePool, Exit, Tick
<1>3. ASSUME Flags, UNCHANGED vars PROVE Flags'
  BY <1>3 DEF Flags, vars, processVars
<1> QED
  BY <1>1, <1>2, <1>3

\* The types of limiter and process (TypeOK); the table never holds more
\* than its size, and no bucket more than its policy.
THEOREM TypeCorrect == Spec => []TypeOK
<1>1. LimiterInv /\ ShutdownInv /\ Flags => TypeOK
  <2> SUFFICES ASSUME LimiterInv, ShutdownInv, Flags PROVE TypeOK
    OBVIOUS
  <2>1. /\ phase \in {"serving", "draining", "waiting", "closing", "exited"}
        /\ worker \in [Workers -> {"waiting", "running", "returned"}]
    BY DEF ShutdownInv, Typed
  <2>2. busy \in 0..MaxHandlers /\ using \in 0..MaxHandlers /\ drained \in 0..Grace
    BY ShutdownAssumption DEF ShutdownInv, Typed
  <2> QED
    BY <2>1, <2>2 DEF LimiterInv, Flags, TypeOK
<1> QED
  BY InitLimiter, LimiterStep, InitShutdown, ShutdownStep, FlagsStep, <1>1, PTL DEF Spec

=============================================================================
