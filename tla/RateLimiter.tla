------------------------------ MODULE RateLimiter ------------------------------
(***************************************************************************)
(* The rate limiter in front of the authentication handlers: one token     *)
(* bucket per scope and address in a table of limited size, all under one  *)
(* mutex.  A request reads the clock before it waits for the mutex, so the *)
(* time it works with may be older than what earlier requests have stored. *)
(*                                                                         *)
(* Times are distances from the present, no longer than anything asks for. *)
(* A token is worth Window[c] units and a tick brings Requests[c] of them, *)
(* which is what the code computes with fractions.                         *)
(***************************************************************************)
EXTENDS Integers, FiniteSets

CONSTANTS
    Clients,           \* keys: a scope and an address
    Requests, Window,  \* the policy of a key's scope
    CleanupInterval,
    MaxEntries,        \* of the table
    Skew               \* longest wait between the clock and the mutex: a bound

VARIABLES
    buckets,           \* keys with an entry in the table
    tokens,            \* what each bucket holds
    refilled, seen,    \* since lastRefill and lastSeen
    cleaned,           \* since lastCleanup
    load,              \* ghost: what each key has been let through, leaking
    answer             \* ghost: the answer of this moment's last request

limiterVars == <<buckets, tokens, refilled, seen, cleaned, load, answer>>

\* NewIPRateLimiter refuses other policies and intervals.
ASSUME RateLimiterAssumption ==
    /\ \A c \in Clients : Requests[c] \in Nat \ {0} /\ Window[c] \in Nat \ {0}
    /\ CleanupInterval \in Nat \ {0} /\ MaxEntries \in Nat \ {0} /\ Skew \in Nat
    /\ \A c \in Clients : Skew < Window[c]

Full(c) == Requests[c] * Window[c]

\* Ghost: what a request adds to the load of its key, what a tick takes away,
\* and the most that may be there.
Weight(c) == Window[c] * (Window[c] - Skew)
Leak(c) == Requests[c] * (Window[c] + Skew)
Burst(c) == Leak(c) * (Window[c] - Skew)

Later(d, cap) == IF d < cap THEN d + 1 ELSE d

LimiterTypeOK ==
    /\ buckets \subseteq Clients /\ Cardinality(buckets) <= MaxEntries
    /\ tokens \in [Clients -> Nat] /\ \A c \in Clients : tokens[c] <= Full(c)
    /\ refilled \in [Clients -> Nat] /\ seen \in [Clients -> Nat] /\ cleaned \in Nat
    /\ load \in [Clients -> Nat]
    /\ answer \in {"none", "allowed", "limited", "refused"}

LimiterInit ==
    /\ buckets = {} /\ tokens = [c \in Clients |-> 0]
    /\ refilled = [c \in Clients |-> 0] /\ seen = [c \in Clients |-> 0]
    /\ cleaned = CleanupInterval + Skew
    /\ load = [c \in Clients |-> 0] /\ answer = "none"

-----------------------------------------------------------------------------

CleanupDue(lag) == cleaned - lag >= CleanupInterval

\* Mutant of Idle: the interval of the cleanup instead of the key's window.
IdleForInterval(lag) == {c \in buckets : seen[c] - lag >= CleanupInterval}

Idle(lag) == {c \in buckets : seen[c] - lag >= Window[c]}

Kept(lag) == IF CleanupDue(lag) THEN buckets \ Idle(lag) ELSE buckets

\* Mutant of Cleanup: lastCleanup moves with every request.
CleanupRestarted(lag) == cleaned' = lag

\* cleanupLocked, whatever becomes of the request.
Cleanup(lag) == cleaned' = IF CleanupDue(lag) THEN lag ELSE cleaned

\* What the bucket of c holds for a request at this time; a new one is full,
\* and a time older than the last refill brings nothing.
Refill(c, lag) ==
    LET elapsed == refilled[c] - lag
        sum == tokens[c] + elapsed * Requests[c]
    IN  IF c \notin Kept(lag) THEN Full(c)
        ELSE IF elapsed <= 0 THEN tokens[c]
        ELSE IF sum < Full(c) THEN sum ELSE Full(c)

Touch(c, lag) ==
    /\ Cleanup(lag)
    /\ buckets' = Kept(lag) \cup {c}
    /\ refilled' = IF c \in Kept(lag) /\ refilled[c] <= lag THEN refilled
                   ELSE [refilled EXCEPT ![c] = lag]
    /\ seen' = [seen EXCEPT ![c] = lag]

HasRoom(c, lag) == c \in Kept(lag) \/ Cardinality(Kept(lag)) < MaxEntries

Allow(c, lag) ==
    /\ HasRoom(c, lag) /\ Refill(c, lag) >= Window[c]
    /\ Touch(c, lag)
    /\ tokens' = [tokens EXCEPT ![c] = Refill(c, lag) - Window[c]]
    /\ load' = [load EXCEPT ![c] = @ + Weight(c)]
    /\ answer' = "allowed"

Limited(c, lag) ==
    /\ HasRoom(c, lag) /\ Refill(c, lag) < Window[c]
    /\ Touch(c, lag)
    /\ tokens' = [tokens EXCEPT ![c] = Refill(c, lag)]
    /\ answer' = "limited" /\ UNCHANGED load

\* The table is full and c is not in it.
Refused(c, lag) ==
    /\ ~HasRoom(c, lag)
    /\ Cleanup(lag) /\ buckets' = Kept(lag)
    /\ answer' = "refused" /\ UNCHANGED <<tokens, refilled, seen, load>>

LimiterTick ==
    /\ refilled' = [c \in Clients |-> Later(refilled[c], Window[c] + Skew)]
    /\ seen' = [c \in Clients |-> Later(seen[c], Window[c] + CleanupInterval + Skew)]
    /\ cleaned' = Later(cleaned, CleanupInterval + Skew)
    /\ load' = [c \in Clients |-> IF load[c] > Leak(c) THEN load[c] - Leak(c) ELSE 0]
    /\ answer' = "none" /\ UNCHANGED <<buckets, tokens>>

-----------------------------------------------------------------------------

\* A key gets its Requests through, and as much again in Window - Skew ticks,
\* each time with a share of Skew / Window on top for requests that overtake
\* each other: in t ticks no more than Requests * (1 + Skew / Window) *
\* (1 + t / (Window - Skew)).  An entry that is cleaned up and made anew is
\* not worth another burst.
RateIsLimited == \A c \in Clients : load[c] <= Burst(c)

\* A newcomer is refused only while every entry of the table has been used
\* within its window and one cleanup interval: an address that has left does
\* not take its place for ever, though nothing but requests cleans up.
RefusedWhenInUse ==
    answer = "refused" =>
        \A c \in buckets : seen[c] < Window[c] + CleanupInterval + Skew

=============================================================================
