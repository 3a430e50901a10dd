---------------------------- MODULE MCManagedServer ----------------------------
(* ManagedServer for TLC. *)
EXTENDS ManagedServer, TLC

\* Threads are interchangeable; API threads are so in the manual mode, where none of
\* them is the server's own, and the symmetry is used with that mode only.
Symmetry ==
  Permutations(Handles) \cup Permutations(Steppers) \cup Permutations(ApiThreads)
=============================================================================
