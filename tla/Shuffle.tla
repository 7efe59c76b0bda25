------------------------------- MODULE Shuffle -------------------------------
(***************************************************************************)
(* The choice of the next VPN profile: ShuffleEngine (vpn/shuffle.py), its *)
(* pool and algorithm as the settings change them, and the part of         *)
(* VPNEngine.switch (vpn/manager.py) that asks it, twice when the answer   *)
(* is the profile already connected.                                       *)
(*                                                                         *)
(* The queue only holds profiles of the pool, and some whenever there is a *)
(* pool (ShuffleTypeOK), so the code's answers to an empty queue and to an *)
(* unknown id are left out.  So are the counters and the history, which    *)
(* are only shown.                                                         *)
(***************************************************************************)
EXTENDS Naturals, Sequences, FiniteSets

CONSTANTS Profiles, None

ASSUME ProfilesAssumption == IsFiniteSet(Profiles) /\ None \notin Profiles

InTurn == {"round_robin", "no_repeat"}  \* the two that take from the queue
Algorithms == {"random", "sequential"} \cup InTurn

VARIABLES
  algorithm,  \* ShuffleEngine._algorithm
  profiles,   \* ShuffleEngine._profiles
  queue,      \* ShuffleEngine._queue
  current,    \* VPNEngine._current
  target,     \* what a switch in progress connects to
  again       \* the switch was given the connected profile and asks once more

asked == <<target, again>>
shuffleVars == <<algorithm, profiles, queue, current, asked>>

Elems(s) == {s[i] : i \in DOMAIN s}
Distinct(s) == \A i, j \in DOMAIN s : s[i] = s[j] => i = j
Orders(S) == {s \in [1..Cardinality(S) -> S] : Elems(s) = S /\ Distinct(s)}
Lists == UNION {Orders(S) : S \in SUBSET Profiles}

ShuffleTypeOK ==
  /\ algorithm \in Algorithms
  /\ profiles \in Seq(Profiles) /\ Distinct(profiles)
  /\ queue \in Seq(Profiles) /\ Distinct(queue)
  /\ Elems(queue) \subseteq Elems(profiles) /\ (queue = <<>> => profiles = <<>>)
  /\ current \in Profiles \cup {None} /\ target \in Profiles \cup {None}
  /\ again \in BOOLEAN

ShuffleInit ==
  /\ algorithm \in Algorithms /\ profiles = <<>> /\ queue = <<>>
  /\ current = None /\ target = None /\ again = FALSE

-----------------------------------------------------------------------------
(* _reseed: the pool, in its order or shuffled. *)
Reseed(a, ps) == queue' \in IF a = "no_repeat" THEN Orders(Elems(ps)) ELSE {ps}

SetAlgorithm(a) ==
  /\ ~again /\ a # algorithm
  /\ algorithm' = a /\ Reseed(a, profiles)
  /\ UNCHANGED <<profiles, current, asked>>

(* Keeps the order of q. *)
Before(q, x, y) == \E i, j \in DOMAIN q : i < j /\ q[i] = x /\ q[j] = y
InOrderOf(s, q) == \A i, j \in DOMAIN s : i < j => Before(q, s[i], s[j])

Surviving(ps) == Elems(queue) \cap Elems(ps)

(* set_pool: the queue keeps what is still in the pool. *)
SetPool(ps) ==
  /\ ~again
  /\ profiles' = ps
  /\ IF Surviving(ps) = {} THEN Reseed(algorithm, ps)
     ELSE queue' \in {s \in Orders(Surviving(ps)) : InOrderOf(s, queue)}
  /\ UNCHANGED <<algorithm, current, asked>>

-----------------------------------------------------------------------------
(* next(current). *)

PickRandom(p) ==
  algorithm = "random" /\ p \in Elems(profiles) \ {current} /\ UNCHANGED queue

Follows(i) == (i % Len(profiles)) + 1
PickSequential(p) ==
  /\ algorithm = "sequential" /\ UNCHANGED queue
  /\ IF current \in Elems(profiles)
     THEN \E i \in DOMAIN profiles : profiles[i] = current /\ p = profiles[Follows(i)]
     ELSE p = Head(profiles)

(* The connected profile goes to the end of the queue, unless it is all there is. *)
Turned ==
  IF Len(queue) > 1 /\ Head(queue) = current THEN Append(Tail(queue), Head(queue)) ELSE queue

Pop ==
  IF Len(queue) = 1 THEN Reseed(algorithm, profiles) ELSE queue' = Tail(Turned)

PickUnturned(p) == algorithm \in InTurn /\ p = Head(queue) /\ Pop
PickQueued(p) == algorithm \in InTurn /\ p = Head(Turned) /\ Pop

Select(p) ==
  /\ profiles # <<>>
  /\ IF Len(profiles) = 1 THEN p = Head(profiles) /\ UNCHANGED queue
     ELSE PickRandom(p) \/ PickSequential(p) \/ PickQueued(p)
  /\ UNCHANGED <<algorithm, profiles, current>>

-----------------------------------------------------------------------------
(* VPNEngine.switch: the two questions are one step of the code, which nothing *)
(* but the second follows the first.                                           *)
NoRepeat(p) == FALSE
Repeat(p) == p = current /\ Len(profiles) > 1

Switch ==
  /\ target = None /\ ~again
  /\ \E p \in Profiles :
       Select(p) /\ IF Repeat(p) THEN again' = TRUE /\ UNCHANGED target
                                 ELSE target' = p /\ UNCHANGED again

SwitchAgain ==
  /\ again /\ again' = FALSE
  /\ \E p \in Profiles : Select(p) /\ target' = p

(* It connects, or falls back and keeps what it had; a tunnel lost is forgotten. *)
Switched ==
  /\ target # None /\ target' = None
  /\ current' \in {target, current}
  /\ UNCHANGED <<algorithm, profiles, queue, again>>

(* The routing manager connects a profile of its own choice, or disconnects. *)
Connect ==
  /\ target = None /\ ~again
  /\ current' \in Profiles \cup {None}
  /\ UNCHANGED <<algorithm, profiles, queue, asked>>

ShuffleNext ==
  \/ \E a \in Algorithms : SetAlgorithm(a)
  \/ \E ps \in Lists : SetPool(ps)
  \/ Switch \/ SwitchAgain \/ Switched \/ Connect

ShuffleSpec == ShuffleInit /\ [][ShuffleNext]_shuffleVars
-----------------------------------------------------------------------------
(* What a switch has been handed and has not connected yet: the profile it is    *)
(* to connect, or the connected one it has just been given and asks to replace.  *)
Handed == IF again THEN current ELSE target

(* Under round_robin and no_repeat every profile that is handed to a switch is   *)
(* one that had no turn in this cycle, and exactly it loses its turn; a cycle    *)
(* ends only when nobody of the pool has one left; so each has one turn per      *)
(* cycle, whatever the order, the profile that is connected and the changes of   *)
(* the pool in the middle of a cycle.  Under random and sequential it is some    *)
(* profile of the pool and the cycle stands still (shuffle.py:16-23, 118-124).   *)
C == INSTANCE Cycle WITH inTurn <- algorithm \in InTurn, pool <- Elems(profiles),
                         left <- Elems(queue), handed <- Handed
OncePerCycle == C!Spec

(* A switch never reconnects the profile that is connected when the pool has     *)
(* another one, also when a cycle ends or the pool shrinks around it             *)
(* (manager.py:330-340, shuffle.py:165-168).                                     *)
NeverSame ==
  [][target = None /\ target' # None /\ Len(profiles) > 1 => target' # current]_shuffleVars
=============================================================================
