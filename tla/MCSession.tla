----------------------------- MODULE MCSession -----------------------------
(* Instances of Session for TLC: two or three request tasks.  With them, the         *)
(* verdict the session rests on, over every network with two addresses.              *)
EXTENDS Session, Verification, TLC

TwoModes == {"tor_only", "vpn_only"}

Symmetric == Permutations(Tasks)

Addresses == {"here", "there"}
AllOn == [enabled |-> TRUE, check_routing |-> TRUE, check_dns_leak |-> TRUE,
          check_ipv6_leak |-> TRUE]
Networks == {n \in Network(Addresses) : n.lookups /\ ~n.ipv6}
Memories == {k \in Memory(Addresses) : k.lastIp = None}
AllRuns ==
  [torRunning |-> TRUE, bootstrapped |-> TRUE, socksOpen |-> TRUE, tunnelUp |-> TRUE,
   shield |-> "tor", selfTest |-> TRUE, servers |-> {"shield"}, answering |-> {}, raises |-> {}]
Passes(m, n, k) == ReportPassed(VerifyReport(m, AllOn, n, AllRuns, k))

(* With the baseline and the tunnel's address of this very network a report that  *)
(* passed is right (verification.py:267-359).                                     *)
ASSUME PassedIsProven ==
  \A m \in Modes, n \in Networks, k \in Memories :
    Plausible(m, n) /\ Fresh(n, k) /\ Passes(m, n, k) => Proven(m, n, AllRuns)

(* Neither can be left out: with a baseline that was taken elsewhere, or none, an   *)
(* unprotected machine passes as one behind its VPN; and each mode can pass at all. *)
ASSUME FreshIsNeeded ==
  /\ \E n \in Networks, k \in Memories :
       /\ ~n.routed /\ ~n.redirect /\ k.vpnIp = Unredirected(n)
       /\ Passes("vpn_only", n, k)
  /\ \A m \in Modes : \E n \in Networks, k \in Memories : Fresh(n, k) /\ Passes(m, n, k)
=============================================================================
