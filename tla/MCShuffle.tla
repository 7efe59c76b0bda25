------------------------------ MODULE MCShuffle ------------------------------
(* Shuffle with three profiles: a pool can lose the connected one and keep two. *)
EXTENDS Shuffle

CONSTANTS a, b, c
=============================================================================
