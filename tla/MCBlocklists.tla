---------------------------- MODULE MCBlocklists ----------------------------
(* An instance of Blocklists for TLC: a list of the user's, an address whose list *)
(* has a name of its own and one whose list takes the name of his.                *)
EXTENDS Blocklists, TLC

NameOf(u) == IF u = "clash" THEN "ads" ELSE "fetched"

Symmetric == Permutations(Jobs)
=============================================================================
