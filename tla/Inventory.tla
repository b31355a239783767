------------------------------ MODULE Inventory ------------------------------
(***************************************************************************)
(* The nightly inventory of one room type: its room_types row and its      *)
(* room_type_availability rows, one per night.  Every statement of the     *)
(* code names a single room_type_id, so the inventories of two room types  *)
(* never meet and one of them is modelled.  The operators below are the    *)
(* parts of a transaction that touch these rows; BookingService and        *)
(* PaymentService put them in the transactions that call them.  An absent  *)
(* availability row behaves as a row of zeros: the code inserts it before  *)
(* it locks it.                                                            *)
(***************************************************************************)
EXTENDS Integers, FiniteSets

CONSTANTS
    Dates,       \* the nights the inventory has rows for, numbers of days
    MaxRooms,    \* the largest rooms_count of a booking in the model
    Stays        \* the stays guests ask for: [in, out, rooms]

VARIABLES
    total,       \* room_types.total_rooms
    active,      \* room_types.is_active and hotels.is_active
    booked,      \* rooms_booked of each night
    blocked      \* rooms_blocked of each night

inventoryVars == <<total, active, booked, blocked>>

\* The nights of a stay: check_in up to the day before check_out.
Nights(s) == s.in .. (s.out - 1)

\* What validateStayDates and the row constraints let through.
ASSUME InventoryAssumption ==
    /\ Dates \subseteq Nat
    /\ MaxRooms \in Nat
    /\ Stays \subseteq [in : Nat, out : Nat, rooms : 1..MaxRooms]
    /\ \A s \in Stays : s.in < s.out /\ Nights(s) \subseteq Dates

\* The rooms that the bookings in S, with stays f, take on night d, one
\* element per room; their number is what rooms_booked must be.
RoomUnits(S, f, d) ==
    {u \in S \X (1..MaxRooms) : d \in Nights(f[u[1]]) /\ u[2] <= f[u[1]].rooms}

RoomsTaken(S, f, d) == Cardinality(RoomUnits(S, f, d))

InventoryTypeOK ==
    /\ total \in Nat
    /\ active \in BOOLEAN
    /\ booked \in [Dates -> Nat]
    /\ blocked \in [Dates -> Nat]

-----------------------------------------------------------------------------

\* Mutant of IncrementAvailability: the UPDATE forgets rooms_blocked.
IncrementUnblocked(s) ==
    /\ active
    /\ \A d \in Nights(s) : booked[d] + s.rooms <= total
    /\ booked' = [d \in Dates |-> IF d \in Nights(s)
                                  THEN booked[d] + s.rooms ELSE booked[d]]
    /\ UNCHANGED <<total, active, blocked>>

\* CreateBooking's check of the locked rows, which looks at rooms_booked
\* only, and IncrementAvailability, whose guard also counts blocked rooms.
IncrementAvailability(s) ==
    /\ active
    /\ s.rooms <= total
    /\ \A d \in Nights(s) : booked[d] <= total - s.rooms
    /\ \A d \in Nights(s) : booked[d] + blocked[d] + s.rooms <= total
    /\ booked' = [d \in Dates |-> IF d \in Nights(s)
                                  THEN booked[d] + s.rooms ELSE booked[d]]
    /\ UNCHANGED <<total, active, blocked>>

\* Mutant of DecrementAvailability: date > check_in instead of >=.
DecrementAfterCheckIn(S, f) ==
    /\ booked' = [d \in Dates |-> booked[d] -
          RoomsTaken({b \in S : d > f[b].in}, f, d)]
    /\ UNCHANGED <<total, active, blocked>>

\* DecrementAvailability for every booking of S in one transaction.  A row
\* it cannot lower makes the caller roll the whole transaction back.
DecrementAvailability(S, f) ==
    /\ \A d \in Dates : RoomsTaken(S, f, d) <= booked[d]
    /\ booked' = [d \in Dates |-> booked[d] - RoomsTaken(S, f, d)]
    /\ UNCHANGED <<total, active, blocked>>

\* SetBlockedInventory: n rooms out of sale on the nights from .. to - 1.
SetBlockedInventory(from, to, n, today) ==
    /\ active
    /\ today <= from
    /\ from < to
    /\ from .. (to - 1) \subseteq Dates
    /\ \A d \in from .. (to - 1) : booked[d] + n <= total
    /\ blocked' = [d \in Dates |-> IF d \in from .. (to - 1)
                                   THEN n ELSE blocked[d]]
    /\ UNCHANGED <<total, active, booked>>

\* Mutant of UpdateRoomType: the fullest night by rooms_booked alone.
UpdateRoomTypeOverBlocks(n) ==
    /\ active
    /\ n > 0
    /\ \A d \in Dates : booked[d] <= n
    /\ total' = n
    /\ UNCHANGED <<active, booked, blocked>>

\* UpdateRoomType: the new total must cover the fullest night.
UpdateRoomType(n) ==
    /\ active
    /\ n > 0
    /\ \A d \in Dates : booked[d] + blocked[d] <= n
    /\ total' = n
    /\ UNCHANGED <<active, booked, blocked>>

\* DeactivateRoomType or DeactivateHotel: no statement sets is_active again.
Deactivate ==
    /\ active
    /\ active' = FALSE
    /\ UNCHANGED <<total, booked, blocked>>

=============================================================================
