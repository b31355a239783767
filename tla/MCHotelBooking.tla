---------------------------- MODULE MCHotelBooking ----------------------------
(* Finite instances of HotelBooking for TLC; the .cfg files pick from them. *)
EXTENDS HotelBooking, TLC

\* A one-night stay on day 2, a stay of the nights 1 and 2 with two rooms.
ShortStay == [in |-> 2, out |-> 3, rooms |-> 1]
LongStay == [in |-> 1, out |-> 3, rooms |-> 2]

TwoStays == {ShortStay, LongStay}
OneStay == {ShortStay}

AllOutcomes == {"captured", "declined", "canceled"}

KeySymmetry == Permutations(Keys)
Symmetry == Permutations(Keys) \cup Permutations(Bookings \ Legacy)
=============================================================================
