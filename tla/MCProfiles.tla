----------------------------- MODULE MCProfiles -----------------------------
(* An instance of Profiles for TLC: a configuration, a descriptor that carries the *)
(* same, and a file that is neither.                                                *)
EXTENDS Profiles, TLC

TheTexts == {"config", "descriptor", "bad"}
Contains(t) == IF t = "descriptor" THEN "config" ELSE t
HasServer(t) == t # "bad"
HasMarkers(t) == t # "bad"

Symmetric == Permutations(Ids)
=============================================================================
