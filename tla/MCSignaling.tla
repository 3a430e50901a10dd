------------------------------ MODULE MCSignaling ------------------------------
(* Signaling for TLC. *)
EXTENDS Signaling
=============================================================================
