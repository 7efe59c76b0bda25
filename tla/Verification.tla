---------------------------- MODULE Verification ----------------------------
(***************************************************************************)
(* The checklist that decides whether a route is Connected                 *)
(* (core/verification.py, diagnostics/leaks.py), over what its probes find *)
(* of the network and what the state remembers of it.                      *)
(*                                                                         *)
(* A pass is one look at one world: that the world changes while the eight *)
(* probes are under way is left out, and so are the wording of a report    *)
(* and the time limits of the probes.                                      *)
(***************************************************************************)
EXTENDS RoutingMode

None == "none"

Checks == {"Tor bootstrap", "VPN tunnel", "SOCKS proxy", "Public IP", "Routing correctness",
           "DNS functionality", "DNS leak", "IPv6 leak"}

(* The program's own resolver and other local ones; those of a private network. *)
Nameservers == {"shield", "stub", "private", "public"}
Loopback == {"shield", "stub"}

VerificationSettings ==
  [enabled : BOOLEAN, check_routing : BOOLEAN, check_dns_leak : BOOLEAN, check_ipv6_leak : BOOLEAN]

(* Where traffic can leave, over the addresses A ... *)
Network(A) ==
  [home : A, vpnExit : A, torExit : A,  \* the address each way out shows
   routed : BOOLEAN,                    \* the tunnel has the routes
   torWorks : BOOLEAN,                  \* Tor carries traffic
   redirect : BOOLEAN,                  \* the transparent redirect is in the kernel
   lookups : BOOLEAN,                   \* the services that are asked for addresses answer
   ipv6 : BOOLEAN]                      \* and so they do over IPv6
(* ... what runs ... *)
Running ==
  [torRunning : BOOLEAN, bootstrapped : BOOLEAN, socksOpen : BOOLEAN, tunnelUp : BOOLEAN,
   shield : {"off", "direct", "tor"}, selfTest : BOOLEAN,
   servers : SUBSET Nameservers, answering : SUBSET Nameservers,
   raises : SUBSET Checks]              \* checks whose probe raises an exception
(* ... and what is remembered of earlier. *)
Memory(A) ==
  [vpnIp : A \cup {None},    \* AppState.vpn.public_ip, seen when the tunnel came up
   lastIp : A \cup {None},   \* AppState.public_ip
   baseline : A \cup {None}] \* the first address ever seen
-----------------------------------------------------------------------------
(* Where traffic leaves that nobody redirects, that applications send, and that is *)
(* handed to the SOCKS port.                                                       *)
Unredirected(n) == IF n.routed THEN n.vpnExit ELSE n.home
ThroughTor(n) == IF n.torWorks THEN n.torExit ELSE None
Ordinary(n) == IF n.redirect THEN ThroughTor(n) ELSE Unredirected(n)

PublicIp(mode, n) ==
  IF ~n.lookups THEN None ELSE IF mode = "tor_only" THEN ThroughTor(n) ELSE Ordinary(n)
StatePublicIp(mode, n, r, k) ==
  IF PublicIp(mode, n) = None \/ "Public IP" \in r.raises THEN k.lastIp ELSE PublicIp(mode, n)

(* The Tor Project is asked from where ordinary traffic leaves if that is redirected, *)
(* and otherwise through the proxy: either way it is Tor's exit, if there is one.     *)
IsTor(n) == n.torWorks /\ n.lookups

VpnIsUsed(mode, n, r, k) ==
  LET ip == IF k.vpnIp # None THEN k.vpnIp ELSE StatePublicIp(mode, n, r, k)
  IN ip # None /\ ip # k.baseline

RoutingCorrect(mode, n, r, k) ==
  /\ mode = "vpn_only" => VpnIsUsed(mode, n, r, k)
  /\ UsesTor(mode) => IsTor(n)
  /\ mode = "tor_only" => n.redirect
  /\ mode = "tor_over_vpn" => k.vpnIp # n.torExit
  /\ mode = "vpn_over_tor" => k.vpnIp \notin {None, n.torExit, k.baseline}

DnsFunctions(r) ==
  IF r.shield # "off" THEN r.selfTest
  ELSE (IF r.servers = {} THEN {"public"} ELSE r.servers) \cap r.answering # {}

(* A local resolver that is not the Shield's may ask anyone. *)
DnsLeakFree(r) ==
  \/ r.shield = "tor"
  \/ r.shield = "direct" /\ "shield" \in r.servers
  \/ /\ r.servers # {} /\ (Loopback \cap r.servers = {} \/ "public" \in r.servers)
     /\ "public" \notin r.servers \cap r.answering
-----------------------------------------------------------------------------
(* A check that the mode or the settings do not ask for is skipped. *)
Skipped(c, mode, s) ==
  \/ c \in {"Tor bootstrap", "SOCKS proxy"} /\ ~UsesTor(mode)
  \/ c = "VPN tunnel" /\ ~UsesVpn(mode)
  \/ c = "Routing correctness" /\ ~s.check_routing
  \/ c = "DNS leak" /\ ~s.check_dns_leak
  \/ c = "IPv6 leak" /\ ~s.check_ipv6_leak

Good(c, mode, n, r, k) ==
  /\ c = "Tor bootstrap" => r.torRunning /\ r.bootstrapped
  /\ c = "VPN tunnel" => r.tunnelUp
  /\ c = "SOCKS proxy" => r.socksOpen
  /\ c = "Public IP" => PublicIp(mode, n) # None
  /\ c = "Routing correctness" => RoutingCorrect(mode, n, r, k)
  /\ c = "DNS functionality" => DnsFunctions(r)
  /\ c = "DNS leak" => DnsLeakFree(r)
  /\ c = "IPv6 leak" => ~n.ipv6

(* A leak is a warning, and so is a Tor that only those who ask for its proxy use; *)
(* a probe that raises fails, whichever it is.                                     *)
Required(c, mode, n, r) ==
  \/ c \in r.raises
  \/ c \notin {"DNS leak", "IPv6 leak"} /\ (c = "Routing correctness" /\ mode = "tor_only" => ~IsTor(n))

Result(c, mode, s, n, r, k) ==
  IF ~s.enabled \/ Skipped(c, mode, s) THEN "skipped"
  ELSE IF Good(c, mode, n, r, k) /\ c \notin r.raises THEN "pass"
  ELSE IF Required(c, mode, n, r) THEN "fail" ELSE "warn"

VerifyReport(mode, s, n, r, k) == [c \in Checks |-> Result(c, mode, s, n, r, k)]

ReportPassed(report) == \A c \in Checks : report[c] # "fail"
Warnings(report) == {c \in Checks : report[c] = "warn"}
-----------------------------------------------------------------------------
(* What is remembered is of this network: the baseline is its own unprotected address, *)
(* and the tunnel's address is what traffic showed when the tunnel came up.            *)
Fresh(n, k) == k.baseline = n.home /\ k.vpnIp \in {None, Unredirected(n)}

(* Only Tor's modes are redirected. *)
Plausible(mode, n) == n.redirect => UsesTor(mode)

(* What a report that passed proves of each mode. *)
Proven(mode, n, r) ==
  /\ UsesTor(mode) => n.torWorks /\ r.torRunning /\ r.socksOpen
  /\ UsesVpn(mode) => r.tunnelUp
  /\ mode = "vpn_only" => n.routed /\ Ordinary(n) # n.home
  /\ mode = "vpn_over_tor" => n.routed /\ n.vpnExit \notin {n.home, n.torExit}
=============================================================================
