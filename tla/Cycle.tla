-------------------------------- MODULE Cycle --------------------------------
(***************************************************************************)
(* What ShuffleEngine (vpn/shuffle.py) promises whoever asks it for the    *)
(* next profile, with no queue in it.  Under the algorithms that give      *)
(* turns, the profile handed over is one that this cycle has still to use, *)
(* and it is used up by that; when none is left a new cycle has the whole  *)
(* pool.  Under the others it is any profile of the pool, and no turn is   *)
(* taken.                                                                  *)
(***************************************************************************)
CONSTANTS Profiles, None

VARIABLES
  inTurn,  \* the algorithm gives turns: round_robin, no_repeat
  pool,    \* the profiles to rotate through
  left,    \* those of them that this cycle has not used yet
  handed   \* the profile handed over and not yet connected, or None

vars == <<inTurn, pool, left, handed>>

Init == inTurn \in BOOLEAN /\ pool = {} /\ left = {} /\ handed = None

(* What is left, or the whole pool when nothing is. *)
OrAll(rest, all) == IF rest = {} THEN all ELSE rest

(* A turn: what is handed over is what the cycle loses. *)
Use(p) ==
  /\ inTurn /\ p \in left
  /\ handed' = p /\ left' = OrAll(left \ {p}, pool)
  /\ UNCHANGED <<inTurn, pool>>

Choose(p) == ~inTurn /\ p \in pool /\ handed' = p /\ UNCHANGED <<inTurn, pool, left>>

(* The switch that asked is over. *)
Connected == handed # None /\ handed' = None /\ UNCHANGED <<inTurn, pool, left>>

(* Another algorithm starts another cycle. *)
StartOver == inTurn' \in BOOLEAN /\ left' = pool /\ UNCHANGED <<pool, handed>>

(* A change of the pool does not give anyone who stays a second turn. *)
Change(S) == pool' = S /\ left' = OrAll(left \cap S, S) /\ UNCHANGED <<inTurn, handed>>

Next ==
  \/ StartOver \/ Connected
  \/ \E p \in Profiles : Use(p) \/ Choose(p)
  \/ \E S \in SUBSET Profiles : Change(S)

Spec == Init /\ [][Next]_vars
=============================================================================
