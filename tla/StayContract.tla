----------------------------- MODULE StayContract -----------------------------
(***************************************************************************)
(* What the booking core promises, without its mechanism: no counters, no  *)
(* provider events, no workers.  A guest holds rooms, pays, and stays or   *)
(* gets the money back; the rooms in use on a night, counted from the      *)
(* bookings themselves, fit in what the hotel sells.                       *)
(***************************************************************************)
EXTENDS Integers, FiniteSets

CONSTANTS
    Guests,       \* one booking each
    Legacy,       \* guests whose booking was paid outside the system
    Stays,        \* [in, out, rooms]
    Dates,
    MaxRooms

VARIABLES
    stage,        \* "none", "held", "booked", "stayed" or "released"
    wants,        \* each guest's stay, once there is one
    money,        \* "unpaid", "captured" or "returned"
    rooms,        \* the rooms of the hotel
    withheld      \* rooms not for sale on each night

contractVars == <<stage, wants, money, rooms, withheld>>

InUse(S, f, d) ==
    Cardinality({u \in S \X (1..MaxRooms) :
        d \in f[u[1]].in .. (f[u[1]].out - 1) /\ u[2] <= f[u[1]].rooms})

TakesRooms(f) == {g \in Guests : f[g] \in {"held", "booked", "stayed"}}

\* The rooms of the bookings and the rooms withheld fit in the hotel.
Fits(st, w, r, wh) == \A d \in Dates : InUse(TakesRooms(st), w, d) + wh[d] <= r

Init ==
    /\ stage = [g \in Guests |-> IF g \in Legacy THEN "booked" ELSE "none"]
    /\ wants \in [Guests -> Stays]
    /\ money = [g \in Guests |-> "unpaid"]
    /\ rooms \in Nat
    /\ withheld = [d \in Dates |-> 0]
    /\ Fits(stage, wants, rooms, withheld)

Move(S, from, to) ==
    /\ S # {}
    /\ \A g \in S : stage[g] = from
    /\ stage' = [g \in Guests |-> IF g \in S THEN to ELSE stage[g]]

\* A guest gets rooms only if every night still fits.
Hold(g) ==
    /\ Move({g}, "none", "held")
    /\ \E s \in Stays : wants' = [wants EXCEPT ![g] = s]
    /\ UNCHANGED <<money, rooms, withheld>>
    /\ Fits(stage', wants', rooms, withheld)

\* The provider takes the money of a guest who holds rooms or held them.
Capture(g) ==
    /\ stage[g] \in {"held", "released"}
    /\ money[g] = "unpaid"
    /\ money' = [money EXCEPT ![g] = "captured"]
    /\ UNCHANGED <<stage, wants, rooms, withheld>>

\* Only a guest who has paid is booked.
Book(g) ==
    /\ money[g] = "captured"
    /\ Move({g}, "held", "booked")
    /\ UNCHANGED <<wants, money, rooms, withheld>>

\* Rooms are given up before the stay, by the guest, the hotel or the clock.
Release(S, from) ==
    /\ Move(S, from, "released")
    /\ UNCHANGED <<wants, money, rooms, withheld>>

Stay(S) ==
    /\ Move(S, "booked", "stayed")
    /\ UNCHANGED <<wants, money, rooms, withheld>>

\* Money goes back once, and only for rooms that were given up.
Return(g) ==
    /\ stage[g] = "released" /\ money[g] = "captured"
    /\ money' = [money EXCEPT ![g] = "returned"]
    /\ UNCHANGED <<stage, wants, rooms, withheld>>

\* The hotel changes its rooms or withholds some, never under a booking.
Rearrange ==
    /\ rooms' \in Nat /\ withheld' \in [Dates -> Nat]
    /\ UNCHANGED <<stage, wants, money>>
    /\ Fits(stage, wants, rooms', withheld')

Next ==
    \/ Rearrange
    \/ \E S \in SUBSET Guests : Stay(S) \/ Release(S, "held") \/ Release(S, "booked")
    \/ \E g \in Guests : Hold(g) \/ Capture(g) \/ Book(g) \/ Return(g)

Spec == Init /\ [][Next]_contractVars

=============================================================================
