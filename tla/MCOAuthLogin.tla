----------------------------- MODULE MCOAuthLogin -----------------------------
(* Finite instances of OAuthLogin for TLC; the .cfg files give the values. *)
EXTENDS OAuthLogin, TLC

Symmetry == Permutations(Procs) \cup Permutations(Users) \cup Permutations(Subjects)
                \cup Permutations(Emails) \cup Permutations(Codes)
=============================================================================
