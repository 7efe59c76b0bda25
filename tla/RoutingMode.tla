---------------------------- MODULE RoutingMode ----------------------------
(* The four routing modes and the hops each has (core/config.py). *)

Modes == {"tor_only", "vpn_only", "tor_over_vpn", "vpn_over_tor"}
UsesTor(m) == m # "vpn_only"
UsesVpn(m) == m # "tor_only"
WithTor(m) == m \in {"tor_only", "tor_over_vpn"}
=============================================================================
