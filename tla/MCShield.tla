------------------------------ MODULE MCShield ------------------------------
(* Shield with one key beside the routing manager, and enough listeners. *)
EXTENDS Shield, TLC

CONSTANTS k1, s1, s2, s3, s4, s5, o1, o2

Symmetric == Permutations(Servers)
=============================================================================
