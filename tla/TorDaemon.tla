------------------------------ MODULE TorDaemon ------------------------------
(***************************************************************************)
(* The life of the Tor process: TorDaemon (tor/daemon.py) with its search  *)
(* for free ports (utils/net.py), the controller's connection              *)
(* (tor/controller.py) and the part of TorEngine (tor/engine.py) that      *)
(* starts and stops both for the routing manager, one call at a time.      *)
(*                                                                         *)
(* An action is the code from one await to the next.  Of the four ports    *)
(* the SOCKS port and the ControlPort are kept; a bootstrap has three      *)
(* stages.  A foreign Tor has the configured ControlPort, its SOCKS port   *)
(* is the configured one or elsewhere; one without a ControlPort is any    *)
(* other program.                                                          *)
(***************************************************************************)
EXTENDS Integers

CONSTANTS
  Pids,            \* processes that may be started
  None,
  Socks, Control,  \* config.tor.socks_port, control_port
  Offset, Limit,   \* find_free_port's offset and limit
  LastPort

Ports == 1..LastPort
Pairs == [socks : Ports, control : Ports]
Strangers == {"other", "foreign"}

ASSUME PidAssumption ==
  /\ Pids \cap (Strangers \cup {"free", "linger"}) = {}
  /\ None \notin Pids \cup Strangers \cup {"free", "linger"} /\ None \notin Pairs
ASSUME PortAssumption ==
  /\ LastPort \in Nat /\ Socks \in Ports /\ Control \in Ports /\ Socks # Control
  /\ Offset \in Nat \ {0} /\ Limit \in Nat

VARIABLES
  tenant,    \* per port: who listens there; "linger" cannot be bound and does not answer
  boot,      \* per live process: its stage, 0 to Done
  process,   \* TorDaemon._process
  external,  \* TorDaemon._external
  ports,     \* TorDaemon._ports
  reader,    \* TorDaemon._reader_task: whose output it follows
  stale,     \* readers of processes that were replaced: nobody cancels them
  ready,     \* TorDaemon._ready
  peer,      \* the live Tor TorController._controller talks to
  status,    \* state.tor.status
  step,      \* where TorEngine.start or stop is
  cut        \* history: a start was cancelled

world == <<tenant, boot>>
daemon == <<process, external, ports, reader, stale, ready>>
engine == <<peer, status, step, cut>>
vars == <<world, daemon, engine>>

Done == 2
Alive == DOMAIN boot
Starting == {"probe", "spawn", "bootstrap", "socks", "control", "version"}

TypeOK ==
  /\ tenant \in [Ports -> {"free", "linger"} \cup Strangers \cup Pids]
  /\ Alive \subseteq Pids /\ boot \in [Alive -> 0..Done]
  /\ process \in Pids \cup {None} /\ external \in BOOLEAN
  /\ ports \in Pairs \cup {None}
  /\ reader \in Pids \cup {None} /\ stale \subseteq Pids
  /\ ready \in BOOLEAN
  /\ peer \in {"foreign", None} \cup Pids
  /\ status \in {"idle", "starting", "bootstrapping", "verifying", "active", "stopping", "error"}
  /\ step \in Starting \cup {"idle", "raised", "close", "stop"} /\ cut \in BOOLEAN

Init ==
  /\ tenant = [n \in Ports |-> "free"] /\ boot = <<>>
  /\ process = None /\ external = FALSE /\ ports = None
  /\ reader = None /\ stale = {} /\ ready = FALSE
  /\ peer = None /\ status = "idle" /\ step = "idle" /\ cut = FALSE

Answers(n) == tenant[n] \notin {"free", "linger"}
Connected == peer # None
RunningByController == Connected
Running == external \/ process \in Alive

Configured == [socks |-> Socks, control |-> Control]
Serving == IF ports = None THEN Configured ELSE ports

-----------------------------------------------------------------------------
(* find_free_port: the preference, or the first free port of the range behind it. *)

CanBind(n) == tenant[n] = "free"
Fallbacks(n) == {m \in n + Offset .. n + Offset + Limit - 1 : m \in Ports}
Usable(n, taken) == CanBind(n) /\ n \notin taken
Found(n, m, taken) ==
  IF Usable(n, taken) THEN m = n
  ELSE /\ m \in Fallbacks(n) /\ Usable(m, taken)
       /\ \A k \in Fallbacks(n) : Usable(k, taken) => m <= k

ResolvedAlone ==
  {p \in Pairs : Found(Socks, p.socks, {}) /\ Found(Control, p.control, {})}
Resolved ==
  {p \in Pairs : Found(Socks, p.socks, {}) /\ Found(Control, p.control, {p.socks})}

-----------------------------------------------------------------------------
(* TorEngine.start. *)

(* establish first tears down what runs, unless it is what an aborted route left; *)
(* a live Tor is used as it is.                                                    *)
Start ==
  /\ step = "idle" /\ (~Running \/ (cut /\ ~Connected))
  /\ step' = "probe" /\ status' = "starting"
  /\ UNCHANGED <<world, daemon, peer, cut>>

Raise == step' = "raised" /\ status' = "error" /\ UNCHANGED <<peer, cut>>

(* Something answers on the ControlPort: that is the daemon from now on, with the     *)
(* configured SOCKS port, where nobody looks.                                          *)
Attach ==
  /\ step = "probe" /\ Answers(Control)
  /\ external' = TRUE /\ ports' = Configured /\ ready' = TRUE
  /\ step' = "control" /\ status' = "verifying"
  /\ UNCHANGED <<world, process, reader, stale, peer, cut>>

Prepare ==
  /\ step = "probe" /\ ~Answers(Control)
  /\ ready' = FALSE
  /\ \/ /\ \E p \in Resolved : ports' = p
        /\ step' = "spawn" /\ UNCHANGED <<peer, status, cut>>
     \/ Resolved = {} /\ Raise /\ UNCHANGED ports
  /\ UNCHANGED <<world, process, external, reader, stale>>

(* Tor binds its ports, or finds one of them taken meanwhile and exits.  The reader *)
(* of a process that was left behind goes on beside the new one.                    *)
Spawn(p) ==
  /\ step = "spawn" /\ p \notin Alive
  /\ process' = p /\ reader' = p
  /\ stale' = stale \cup ({reader} \cap Alive)
  /\ IF Answers(ports.socks) \/ Answers(ports.control)
     THEN UNCHANGED world
     ELSE /\ tenant' = [tenant EXCEPT ![ports.socks] = p, ![ports.control] = p]
          /\ boot' = [q \in Alive \cup {p} |-> IF q = p THEN 0 ELSE boot[q]]
  /\ step' = "bootstrap"
  /\ UNCHANGED <<external, ports, ready, peer, status, cut>>

(* A bootstrap line: it may repeat itself.  Whoever's reader reads it, it counts for *)
(* the start in progress, and the engine shows it.                                   *)
Line(p) ==
  /\ p \in Alive /\ boot[p] < Done
  /\ \E n \in {boot[p], boot[p] + 1} :
       /\ boot' = [boot EXCEPT ![p] = n]
       /\ IF p \in stale \cup {reader}
          THEN /\ ready' = (ready \/ n = Done)
               /\ status' = IF n < Done THEN "bootstrapping" ELSE status
          ELSE UNCHANGED <<ready, status>>
  /\ UNCHANGED <<tenant, process, external, ports, reader, stale, peer, step, cut>>

Bootstrapped ==
  /\ step = "bootstrap" /\ ready
  /\ step' = "socks"
  /\ UNCHANGED <<world, daemon, peer, status, cut>>

(* Processes end; their ports linger or are free at once. *)
Ended(gone) ==
  /\ boot' = [p \in Alive \ gone |-> boot[p]]
  /\ \E f \in {"free", "linger"} :
       tenant' = [n \in Ports |-> IF tenant[n] \in gone THEN f ELSE tenant[n]]
  /\ stale' = stale \ gone

(* TorDaemon.stop: the reader is cancelled, then a daemon marked external is only let *)
(* go of, one of our own terminated.                                                  *)
DaemonStop ==
  /\ reader' = None /\ ready' = FALSE
  /\ IF external
     THEN external' = FALSE /\ UNCHANGED <<world, process, stale>>
     ELSE process' = None /\ Ended({process}) /\ UNCHANGED external
  /\ UNCHANGED ports

(* The process died, or one of the two time limits is over: the one on the time *)
(* without progress or, whatever the progress, the one on the whole.             *)
GiveUpOnExit == step = "bootstrap" /\ ~ready /\ process \notin Alive /\ DaemonStop /\ Raise
GiveUp == step = "bootstrap" /\ ~ready /\ DaemonStop /\ Raise

SocksWaited ==
  /\ step = "socks"
  /\ IF Answers(ports.socks)
     THEN step' = "control" /\ status' = "verifying" /\ UNCHANGED <<world, daemon, peer, cut>>
     ELSE DaemonStop /\ Raise

(* controller.connect, on the port the daemon really has: it authenticates with a Tor, *)
(* or the connection is refused.  A live connection is kept.                            *)
ConfiguredPort == Control
ControlPort == Serving.control
ControllerConnect ==
  /\ step = "control"
  /\ \/ /\ Connected \/ tenant[ControlPort] \in Pids \cup {"foreign"}
        /\ peer' = IF Connected THEN peer ELSE tenant[ControlPort]
        /\ step' = "version" /\ UNCHANGED <<status, cut>>
     \/ ~Connected /\ Raise
  /\ UNCHANGED <<world, daemon>>

Started ==
  /\ step = "version" /\ step' = "idle" /\ status' = "active"
  /\ UNCHANGED <<world, daemon, peer, cut>>

(* The key that aborts a connect, also in a later hop: nothing is undone. *)
Cancelled ==
  /\ Pids \ Alive # {}  \* bound: the next start finds a process to spawn
  /\ step \in Starting \/ (step = "idle" /\ status = "active")
  /\ step' = "idle" /\ cut' = TRUE
  /\ UNCHANGED <<world, daemon, peer, status>>

-----------------------------------------------------------------------------
(* The routing manager stops what runs: after a start that raised, or for a teardown. *)

Stop ==
  /\ step \in {"idle", "raised"}
  /\ IF Running THEN step' = "close" /\ status' = "stopping"
                ELSE step = "raised" /\ step' = "idle" /\ UNCHANGED status
  /\ UNCHANGED <<world, daemon, peer, cut>>

Close ==
  /\ step = "close" /\ step' = "stop" /\ peer' = None
  /\ UNCHANGED <<world, daemon, status, cut>>

Stopped ==
  /\ step = "stop" /\ DaemonStop
  /\ step' = "idle" /\ status' = "idle"
  /\ UNCHANGED <<peer, cut>>

-----------------------------------------------------------------------------
(* Outside: other programs, another Tor, crashes of ours. *)

OtherTakes(n) ==
  /\ tenant[n] = "free" /\ tenant' = [tenant EXCEPT ![n] = "other"]
  /\ UNCHANGED <<boot, daemon, engine>>

Freed(n) ==
  /\ tenant[n] \in {"linger", "other"} /\ tenant' = [tenant EXCEPT ![n] = "free"]
  /\ UNCHANGED <<boot, daemon, engine>>

ForeignComes ==
  /\ \E own \in {{Control}, {Control, Socks}} :
       /\ \A n \in own : tenant[n] = "free"
       /\ tenant' = [n \in Ports |-> IF n \in own THEN "foreign" ELSE tenant[n]]
  /\ UNCHANGED <<boot, daemon, engine>>

ForeignGoes ==
  /\ tenant[Control] = "foreign"
  /\ tenant' = [n \in Ports |-> IF tenant[n] = "foreign" THEN "free" ELSE tenant[n]]
  /\ peer' = IF peer = "foreign" THEN None ELSE peer
  /\ UNCHANGED <<boot, daemon, status, step, cut>>

Crash(p) ==
  /\ p \in Alive /\ Ended({p})
  /\ peer' = IF peer = p THEN None ELSE peer
  /\ UNCHANGED <<process, external, ports, reader, ready, status, step, cut>>

-----------------------------------------------------------------------------
Await ==
  \/ Attach \/ Prepare \/ (\E p \in Pids : Spawn(p)) \/ Bootstrapped \/ GiveUp \/ SocksWaited
  \/ ControllerConnect \/ Started \/ Close \/ Stopped

Outside == (\E n \in Ports : OtherTakes(n) \/ Freed(n)) \/ ForeignComes \/ ForeignGoes

Next ==
  \/ Start \/ Await \/ Stop \/ Cancelled
  \/ \E p \in Pids : Line(p) \/ Crash(p)
  \/ Outside

Spec == Init /\ [][Next]_vars

(* Every await has a time limit; a manager whose start raised goes on to its teardown. *)
FairSpec == Spec /\ WF_vars(Await) /\ WF_vars(step = "raised" /\ Stop)
-----------------------------------------------------------------------------
(* Unless a start was cancelled, an engine that is idle or failed leaves no Tor of     *)
(* ours behind, at whatever point its start failed (daemon.py:418-424, 445-462,        *)
(* engine.py:107-119, 135-155).                                                        *)
LeavesNothing == step = "idle" /\ status \in {"idle", "error"} /\ ~cut => Alive = {}

(* Unless a start was cancelled, the Tor whose identity is rotated is the one the      *)
(* SOCKS port leads to when the daemon is our own, whoever takes ports and whenever    *)
(* (daemon.py:310-345, engine.py:110-112).  After an attach it is the one behind the   *)
(* configured ControlPort, never a process of ours, and the SOCKS port does not lead   *)
(* to a process of ours either: it leads to that Tor, or to whoever has the port when  *)
(* that Tor has its SOCKS elsewhere, which nothing looks at (daemon.py:367-373,        *)
(* 542-571).                                                                           *)
SameTor ==
  status = "active" /\ Running /\ Connected /\ ~cut =>
    IF external THEN peer = "foreign" /\ tenant[Serving.socks] \notin Pids
                ELSE tenant[Serving.socks] = peer

(* The ports of a daemon differ also when they had to move (net.py:232-266).           *)
PortsDiffer == ports # None => ports.socks # ports.control

(* A start ends, and a start that failed is cleaned up, also when Tor keeps reporting  *)
(* the same progress for ever (daemon.py:426-472).                                     *)
StartEnds == step \in Starting \cup {"raised"} ~> step = "idle"
=============================================================================
