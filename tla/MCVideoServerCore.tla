--------------------------- MODULE MCVideoServerCore ---------------------------
(* VideoServerCore for TLC: the pushing threads are interchangeable. *)
EXTENDS VideoServerCore, TLC

Symmetry == Permutations(Pushers)
=============================================================================
