---------------------------- MODULE MCTorDaemon ----------------------------
(* An instance of TorDaemon for TLC: the two preferences and the two ports *)
(* behind them, in ranges that overlap; two processes.                     *)
EXTENDS TorDaemon

TwoPids == {"p1", "p2"}
=============================================================================
