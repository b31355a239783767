------------------------------ MODULE MCShutdown ------------------------------
(* Finite instances of Shutdown for TLC; the .cfg files give the values. *)
EXTENDS Shutdown, TLC

CONSTANTS c1, c2

\* Two keys: three requests in two ticks, so that a tick that is counted twice
\* is worth a request, and one in four.
PolicyRequests == c1 :> 3 @@ c2 :> 1
PolicyWindows == c1 :> 2 @@ c2 :> 4

Symmetry == Permutations(Workers)
=============================================================================
