--------------------------- MODULE MCPasswordReset ---------------------------
(* Finite instances of PasswordReset for TLC; the .cfg files give the values. *)
EXTENDS PasswordReset, TLC

Symmetry == Permutations(Procs) \cup Permutations(Tokens)
=============================================================================
