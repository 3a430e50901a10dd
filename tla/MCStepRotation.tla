---------------------------- MODULE MCStepRotation ----------------------------
(* StepRotation for TLC. *)
EXTENDS StepRotation
=============================================================================
