------------------------------ MODULE MCRowLocks ------------------------------
(* Finite instances of RowLocks for TLC; the .cfg files give the values. *)
EXTENDS RowLocks, TLC

CONSTANTS b1, b2

\* The last night only, and both nights.
TwoStays == b1 :> <<2, 2>> @@ b2 :> <<1, 2>>
OneStay == b1 :> <<1, 2>>

Symmetry == Permutations(Procs)
=============================================================================
