---------------------------- MODULE MCEmailOutbox ----------------------------
(* Finite instances of EmailOutbox for TLC; the .cfg files give the values. *)
EXTENDS EmailOutbox, TLC

Symmetry == Permutations(Workers)
=============================================================================
