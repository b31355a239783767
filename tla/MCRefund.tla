------------------------------- MODULE MCRefund -------------------------------
(* Finite instances of Refund for TLC; the .cfg files give the values. *)
EXTENDS Refund, TLC

Symmetry == Permutations(Workers) \cup Permutations(Payments)
=============================================================================
