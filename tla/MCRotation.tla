----------------------------- MODULE MCRotation -----------------------------
(* Rotation with two key presses at a time. *)
EXTENDS Rotation

CONSTANTS k1, k2
=============================================================================
