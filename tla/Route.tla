-------------------------------- MODULE Route --------------------------------
(***************************************************************************)
(* What RoutingManager promises (routing/manager.py), without its tasks,   *)
(* its lock and its awaits: one route at a time.  Its hops come up in the  *)
(* order its mode prescribes, it serves with all the hops the mode needs,  *)
(* and whether it served or failed on its way up, everything is taken down *)
(* in reverse order before another route is begun.                         *)
(***************************************************************************)
EXTENDS RoutingMode

VARIABLES
  phase,  \* "down", "building", "live" or "tearing"
  goal,   \* the mode being built or live
  hops    \* what is up

vars == <<phase, goal, hops>>

Hops == {"tor", "vpn", "redirect", "shield"}

(* A route may also come up without the redirect and without the Shield. *)
Needed(m) ==
  {h \in {"tor", "vpn"} : (h = "tor" => UsesTor(m)) /\ (h = "vpn" => UsesVpn(m))}

(* The hops h goes through. *)
Under(m, h) ==
  {g \in Needed(m) : \/ h = "redirect"
                     \/ m = "tor_over_vpn" /\ h = "tor" /\ g = "vpn"
                     \/ m = "vpn_over_tor" /\ h = "vpn" /\ g = "tor"}

(* The hops that are taken down before h. *)
Above(h) ==
  {g \in Hops : \/ g = "redirect" /\ h # "redirect"
                \/ g = "shield" /\ h \in {"vpn", "tor"}
                \/ g = "vpn" /\ h = "tor"}

Init == phase = "down" /\ goal = "none" /\ hops = {}

Start(m) == phase = "down" /\ phase' = "building" /\ goal' = m /\ UNCHANGED hops

Add(h) ==
  /\ phase = "building" /\ UNCHANGED <<phase, goal>>
  /\ h \in Needed(goal) \/ (h = "redirect" /\ WithTor(goal))
  /\ Under(goal, h) \subseteq hops /\ hops' = hops \cup {h}

Serve ==
  /\ phase = "building" /\ phase' = "live" /\ UNCHANGED goal
  /\ Needed(goal) \subseteq hops /\ hops' \in {hops, hops \cup {"shield"}}

(* What fails may be left up, or be gone. *)
Fail ==
  /\ phase = "building" /\ phase' = "tearing" /\ goal' = "none"
  /\ \E h \in Needed(goal) : hops' \in {hops, hops \cup {h}, hops \ {h}}

(* A route that is replaced, disconnected or rejected; or there is none. *)
Close ==
  /\ phase \in {"down", "live"} /\ phase' = "tearing" /\ goal' = "none"
  /\ UNCHANGED hops

TakeDown(h) ==
  /\ phase = "tearing" /\ UNCHANGED <<phase, goal>>
  /\ Above(h) \cap hops = {} /\ hops' = hops \ {h}

(* Tor is the last to go. *)
Finish ==
  /\ phase = "tearing" /\ hops \subseteq {"tor"} /\ hops' = {}
  /\ \/ phase' = "down" /\ goal' = "none"
     \/ phase' = "building" /\ goal' \in Modes

Next ==
  \/ \E m \in Modes : Start(m)
  \/ \E h \in Hops : Add(h) \/ TakeDown(h)
  \/ Serve \/ Fail \/ Close \/ Finish

Spec == Init /\ [][Next]_vars
=============================================================================
