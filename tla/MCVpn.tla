------------------------------- MODULE MCVpn -------------------------------
(* An instance of Vpn for TLC: two profiles of each protocol are too many for *)
(* liveness, one OpenVPN and one WireGuard profile already cross protocols.   *)
EXTENDS Vpn

OneSwitch == {"switch"}
OneOpenVpn == {"o1"}
OneWireGuard == {"w1"}
=============================================================================
