--------------------------- MODULE TorDaemonProofs ---------------------------
(* Theorems about TorDaemon, for any processes, any range of ports and whatever   *)
(* other programs do to them.                                                     *)
EXTENDS TorDaemon, TLAPS

(* In every state: a server is a live process, the foreign Tor has the ControlPort   *)
(* when it has any, who speaks to it finds it there, and a start has its ports.      *)
ServersLive == \A n \in Ports : tenant[n] \in Pids => tenant[n] \in Alive
OneForeign ==
  /\ \A n \in Ports : tenant[n] = "foreign" => n \in {Socks, Control}
  /\ tenant[Socks] = "foreign" => tenant[Control] = "foreign"
  /\ peer = "foreign" => tenant[Control] = "foreign"
PortsChosen ==
  /\ step \in {"spawn", "bootstrap", "socks"} => ports \in Pairs
  /\ ports # None => ports.socks # ports.control
World == TypeOK /\ ServersLive /\ OneForeign /\ PortsChosen

(* Processes that end leave their ports free, or lingering. *)
LEMMA EndedLeaves ==
  ASSUME World, NEW gone, Ended(gone)
  PROVE  /\ tenant' \in [Ports -> {"free", "linger"} \cup Strangers \cup Pids]
         /\ Alive' = Alive \ gone /\ boot' \in [Alive' -> 0..Done]
         /\ stale' \subseteq Pids
         /\ ("other" \notin gone /\ "foreign" \notin gone) =>
              /\ \A n \in Ports : tenant'[n] \notin {"free", "linger"} => tenant'[n] = tenant[n]
              /\ \A n \in Ports : tenant[n] \notin gone => tenant'[n] = tenant[n]
              /\ ServersLive'
<1>1. boot' = [p \in Alive \ gone |-> boot[p]] /\ stale' = stale \ gone
  BY DEF Ended
<1>2. Alive' = Alive \ gone
  BY <1>1 DEF Alive
<1>3. boot' \in [Alive' -> 0..Done]
  BY <1>1, <1>2 DEF World, TypeOK
<1>4. PICK f \in {"free", "linger"} :
        tenant' = [n \in Ports |-> IF tenant[n] \in gone THEN f ELSE tenant[n]]
  BY DEF Ended
<1>5. tenant' \in [Ports -> {"free", "linger"} \cup Strangers \cup Pids]
  BY <1>4 DEF World, TypeOK
<1>6. /\ \A n \in Ports : tenant'[n] \notin {"free", "linger"} => tenant'[n] = tenant[n]
      /\ \A n \in Ports : tenant[n] \notin gone => tenant'[n] = tenant[n]
  BY <1>4
<1>7. ServersLive'
  <2> SUFFICES ASSUME NEW n \in Ports, tenant'[n] \in Pids PROVE tenant'[n] \in Alive'
    BY DEF ServersLive, Ports
  <2>1. tenant'[n] \notin {"free", "linger"}
    BY PidAssumption
  <2>2. tenant'[n] = tenant[n] /\ tenant[n] \notin gone
    BY <1>4, <2>1
  <2> QED BY <1>2, <2>2 DEF World, ServersLive
<1> QED BY <1>1, <1>2, <1>3, <1>5, <1>6, <1>7 DEF World, TypeOK

(* stop lets go of an external daemon, and ends one of our own. *)
LEMMA StopLeaves ==
  ASSUME World, DaemonStop
  PROVE  /\ tenant' \in [Ports -> {"free", "linger"} \cup Strangers \cup Pids]
         /\ boot' \in [Alive' -> 0..Done] /\ Alive' \subseteq Alive
         /\ stale' \subseteq Pids /\ reader' = None /\ ready' = FALSE /\ ports' = ports
         /\ external' = FALSE /\ process' \in {process, None}
         /\ ~external => Alive' = Alive \ {process}
         /\ ServersLive'
         /\ \A n \in Ports : tenant[n] \notin Pids => tenant'[n] = tenant[n]
         /\ \A n \in Ports : tenant'[n] \notin {"free", "linger"} => tenant'[n] = tenant[n]
<1>1. reader' = None /\ ready' = FALSE /\ ports' = ports
  BY DEF DaemonStop
<1>2. CASE external
  BY <1>1, <1>2 DEF DaemonStop, world, World, TypeOK, ServersLive, Alive
<1>3. CASE ~external
  <2>1. process' = None /\ Ended({process}) /\ external' = FALSE
    BY <1>3 DEF DaemonStop, World, TypeOK
  <2>2. "other" \notin {process} /\ "foreign" \notin {process}
    BY PidAssumption DEF World, TypeOK, Strangers
  <2>3. \A n \in Ports : tenant[n] \notin Pids => tenant[n] \notin {process}
    BY PidAssumption DEF World, TypeOK, Strangers
  <2> QED BY <1>1, <1>3, <2>1, <2>2, <2>3, EndedLeaves
<1> QED BY <1>2, <1>3

(* A found port is one that can be bound and is not taken. *)
LEMMA FoundIsUsable ==
  ASSUME NEW n, NEW m, NEW taken, Found(n, m, taken)
  PROVE  CanBind(m) /\ m \notin taken
BY DEF Found, Usable

LEMMA WorldAtStart ==
  ASSUME Init
  PROVE  World
<1>1. boot \in [Alive -> 0..Done] /\ Alive = {}
  BY DEF Init, Alive
<1>2. TypeOK
  BY <1>1 DEF Init, TypeOK, Starting
<1>3. ServersLive /\ OneForeign /\ PortsChosen
  BY PidAssumption, PortAssumption DEF Init, ServersLive, OneForeign, PortsChosen,
         Strangers
<1> QED BY <1>2, <1>3 DEF World

(* What TorEngine does, step by step, keeps the world as it should be. *)
LEMMA EngineKeepsWorld ==
  ASSUME World, Start \/ Await \/ Stop \/ Cancelled
  PROVE  World'
<1> USE DEF world, daemon, engine, Starting, Alive
<1>w. /\ TypeOK /\ ServersLive /\ OneForeign /\ PortsChosen
      /\ Socks \in Ports /\ Control \in Ports /\ Socks # Control
  BY PortAssumption DEF World
<1>1. CASE Start \/ Stop \/ Cancelled
  <2>1. /\ UNCHANGED <<tenant, boot, process, external, ports, reader, stale, ready, peer>>
        /\ step' \in {"probe", "close", "idle"} /\ cut' \in BOOLEAN
        /\ status' \in {"starting", "stopping", status}
    BY <1>1, <1>w DEF Start, Stop, Cancelled, TypeOK
  <2>2. TypeOK'
    BY <1>w, <2>1 DEF TypeOK
  <2> QED BY <1>w, <2>1, <2>2 DEF World, ServersLive, OneForeign, PortsChosen
<1>2. CASE Attach
  <2>1. /\ UNCHANGED <<tenant, boot, process, reader, stale, peer, cut>>
        /\ step' = "control" /\ status' = "verifying"
        /\ external' = TRUE /\ ready' = TRUE /\ ports' = [socks |-> Socks, control |-> Control]
    BY <1>2 DEF Attach, Configured
  <2>2. TypeOK'
    BY <1>w, <2>1 DEF TypeOK, Pairs
  <2> QED BY <1>w, <2>1, <2>2 DEF World, ServersLive, OneForeign, PortsChosen
<1>3. CASE Prepare
  <2>1. /\ UNCHANGED <<tenant, boot, process, external, reader, stale, peer, cut>>
        /\ ready' = FALSE
    BY <1>3 DEF Prepare, Raise
  <2>2. ASSUME NEW p \in Resolved, ports' = p, step' = "spawn", UNCHANGED status PROVE World'
    <3>1. p \in Pairs /\ p.control # p.socks
      BY <2>2, FoundIsUsable DEF Resolved
    <3>2. TypeOK'
      BY <1>w, <2>1, <2>2, <3>1 DEF TypeOK
    <3> QED BY <1>w, <2>1, <2>2, <3>1, <3>2 DEF World, ServersLive, OneForeign, PortsChosen
  <2>3. CASE ports' = ports /\ step' = "raised" /\ status' = "error"
    <3>1. TypeOK'
      BY <1>w, <2>1, <2>3 DEF TypeOK
    <3> QED BY <1>w, <2>1, <2>3, <3>1 DEF World, ServersLive, OneForeign, PortsChosen
  <2> QED BY <1>3, <2>2, <2>3 DEF Prepare, Raise
<1>4. ASSUME NEW p \in Pids, Spawn(p) PROVE World'
  <2>1. /\ step = "spawn" /\ p \notin Alive /\ ports \in Pairs
        /\ process' = p /\ reader' = p /\ step' = "bootstrap"
        /\ stale' = stale \cup ({reader} \cap Alive)
        /\ UNCHANGED <<external, ports, ready, peer, status, cut>>
    BY <1>4, <1>w DEF Spawn, PortsChosen
  <2>2. CASE UNCHANGED <<tenant, boot>>
    <3>1. TypeOK'
      BY <1>w, <2>1, <2>2 DEF TypeOK
    <3> QED BY <1>w, <2>1, <2>2, <3>1 DEF World, ServersLive, OneForeign, PortsChosen
  <2>3. CASE /\ ~(Answers(ports.socks) \/ Answers(ports.control))
             /\ tenant' = [tenant EXCEPT ![ports.socks] = p, ![ports.control] = p]
             /\ boot' = [q \in Alive \cup {p} |-> IF q = p THEN 0 ELSE boot[q]]
    <3>1. ports.socks \in Ports /\ ports.control \in Ports
      BY <2>1 DEF Pairs
    <3>2. Alive' = Alive \cup {p} /\ boot' \in [Alive' -> 0..Done]
      BY <1>w, <2>3 DEF TypeOK, Done
    <3>3. tenant' \in [Ports -> {"free", "linger"} \cup Strangers \cup Pids]
      BY <1>w, <2>3 DEF TypeOK
    <3>4. \A n \in Ports : tenant'[n] = IF n \in {ports.socks, ports.control} THEN p ELSE tenant[n]
      BY <1>w, <2>3, <3>1 DEF TypeOK
    <3>5. \A n \in {ports.socks, ports.control} : tenant[n] # "foreign"
      BY <2>3 DEF Answers
    <3>6. p # "foreign"
      BY PidAssumption DEF Strangers
    <3>7. TypeOK'
      BY <1>w, <2>1, <3>2, <3>3 DEF TypeOK
    <3>8. ServersLive' /\ OneForeign'
      BY <1>w, <2>1, <3>1, <3>2, <3>4, <3>5, <3>6 DEF ServersLive, OneForeign, Ports
    <3>9. PortsChosen'
      BY <1>w, <2>1 DEF PortsChosen, Pairs
    <3> QED BY <3>7, <3>8, <3>9 DEF World
  <2> QED BY <1>4, <2>2, <2>3 DEF Spawn
<1>5. CASE Bootstrapped \/ Started \/ Close
  <2>1. /\ UNCHANGED <<tenant, boot, process, external, ports, reader, stale, ready, cut>>
        /\ step' \in {"idle", "stop"} \/ (step = "bootstrap" /\ step' = "socks")
        /\ status' \in {"active", status} /\ peer' \in {None, peer}
    BY <1>5 DEF Bootstrapped, Started, Close
  <2>2. TypeOK'
    BY <1>w, <2>1 DEF TypeOK
  <2>3. OneForeign'
    BY <1>w, <2>1, PidAssumption DEF OneForeign, Strangers
  <2> QED BY <1>w, <2>1, <2>2, <2>3 DEF World, ServersLive, PortsChosen
<1>s. ASSUME DaemonStop, step' \in {"raised", "idle"}, status' \in {"error", "idle"},
             UNCHANGED <<peer, cut>>
      PROVE  World'
  <2>1. /\ tenant' \in [Ports -> {"free", "linger"} \cup Strangers \cup Pids]
        /\ boot' \in [Alive' -> 0..Done] /\ Alive' \subseteq Alive
        /\ stale' \subseteq Pids /\ reader' = None /\ ready' = FALSE /\ ports' = ports
        /\ external' = FALSE /\ process' \in {process, None} /\ ServersLive'
        /\ \A n \in Ports : tenant[n] \notin Pids => tenant'[n] = tenant[n]
        /\ \A n \in Ports : tenant'[n] \notin {"free", "linger"} => tenant'[n] = tenant[n]
    BY <1>s, StopLeaves
  <2>2. TypeOK'
    <3>1. Alive' \subseteq Pids
      BY <1>w, <2>1 DEF TypeOK
    <3>2. external' \in BOOLEAN /\ ready' \in BOOLEAN /\ ports' \in Pairs \cup {None}
      BY <1>w, <2>1 DEF TypeOK
    <3>3. /\ reader' \in Pids \cup {None} /\ process' \in Pids \cup {None}
          /\ peer' \in {"foreign", None} \cup Pids
          /\ status' \in {"idle", "error"} /\ step' \in {"idle", "raised"} /\ cut' \in BOOLEAN
      BY <1>w, <1>s, <2>1 DEF TypeOK
    <3> QED BY <2>1, <3>1, <3>2, <3>3 DEF TypeOK
  <2>3. "foreign" \notin Pids
    BY PidAssumption DEF Strangers
  <2>4. OneForeign'
    BY <1>w, <1>s, <2>1, <2>3 DEF OneForeign, Ports
  <2>5. PortsChosen'
    BY <1>w, <1>s, <2>1 DEF PortsChosen
  <2> QED BY <2>1, <2>2, <2>4, <2>5 DEF World
<1>6. CASE GiveUp
  BY <1>6, <1>s DEF GiveUp, Raise
<1>7. CASE SocksWaited
  <2>1. CASE step' = "control" /\ status' = "verifying"
             /\ UNCHANGED <<world, daemon, peer, cut>>
    <3>1. TypeOK'
      BY <1>w, <2>1 DEF TypeOK
    <3> QED BY <1>w, <2>1, <3>1 DEF World, ServersLive, OneForeign, PortsChosen
  <2>2. CASE DaemonStop /\ Raise
    BY <1>s, <2>2 DEF Raise
  <2> QED BY <1>7, <2>1, <2>2 DEF SocksWaited
<1>8. CASE ControllerConnect
  <2>1. UNCHANGED <<tenant, boot, process, external, ports, reader, stale, ready, cut>>
    BY <1>8 DEF ControllerConnect, Raise
  <2>2. ControlPort \in Ports
    BY <1>w DEF ControlPort, Serving, Configured, TypeOK, Pairs
  <2>3. \/ step' = "version" /\ UNCHANGED status
           /\ \/ UNCHANGED peer
              \/ tenant[ControlPort] \in Pids \cup {"foreign"} /\ peer' = tenant[ControlPort]
        \/ step' = "raised" /\ status' = "error" /\ UNCHANGED peer
    BY <1>8 DEF ControllerConnect, Raise
  <2>4. TypeOK'
    BY <1>w, <2>1, <2>3 DEF TypeOK
  <2>5. OneForeign'
    BY <1>w, <2>1, <2>2, <2>3 DEF OneForeign
  <2> QED BY <1>w, <2>1, <2>3, <2>4, <2>5 DEF World, ServersLive, PortsChosen
<1>9. CASE Stopped
  BY <1>9, <1>s DEF Stopped
<1> QED BY <1>1, <1>2, <1>3, <1>4, <1>5, <1>6, <1>7, <1>8, <1>9 DEF Await

(* The processes, other programs and the other Tor. *)
OutsideSteps == (\E p \in Pids : Line(p) \/ Crash(p)) \/ Outside

LEMMA OutsideKeepsWorld ==
  ASSUME World, OutsideSteps
  PROVE  World'
<1> USE DEF world, daemon, engine, Starting
<1>w. /\ TypeOK /\ ServersLive /\ OneForeign /\ PortsChosen
      /\ Socks \in Ports /\ Control \in Ports /\ Socks # Control
  BY PortAssumption DEF World
<1>f. "foreign" \notin Pids /\ "other" \notin Pids /\ None # "foreign"
  BY PidAssumption DEF Strangers
<1>1. ASSUME NEW p \in Pids, Line(p) PROVE World'
  <2>1. /\ p \in Alive
        /\ UNCHANGED <<tenant, process, external, ports, reader, stale, peer, step, cut>>
        /\ status' \in {"bootstrapping", status}
    BY <1>1 DEF Line
  <2>2. PICK n \in {boot[p], boot[p] + 1} : boot' = [boot EXCEPT ![p] = n]
    BY <1>1 DEF Line
  <2>3. n \in 0..Done
    BY <1>1, <1>w, <2>1, <2>2 DEF Line, TypeOK, Done
  <2>4. Alive' = Alive /\ boot' \in [Alive' -> 0..Done]
    BY <1>w, <2>2, <2>3 DEF TypeOK, Alive
  <2>5. ready' \in BOOLEAN
    BY <1>1, <1>w DEF Line, TypeOK
  <2>6. TypeOK'
    BY <1>w, <2>1, <2>4, <2>5 DEF TypeOK
  <2>7. ServersLive'
    BY <1>w, <2>1, <2>4 DEF ServersLive
  <2> QED BY <1>w, <2>1, <2>6, <2>7 DEF World, OneForeign, PortsChosen
<1>2. ASSUME NEW p \in Pids, Crash(p) PROVE World'
  <2>1. /\ Ended({p}) /\ peer' = IF peer = p THEN None ELSE peer
        /\ UNCHANGED <<process, external, ports, reader, ready, status, step, cut>>
    BY <1>2 DEF Crash
  <2>2. /\ tenant' \in [Ports -> {"free", "linger"} \cup Strangers \cup Pids]
        /\ Alive' = Alive \ {p} /\ boot' \in [Alive' -> 0..Done]
        /\ stale' \subseteq Pids /\ ServersLive'
        /\ \A n \in Ports : tenant'[n] \notin {"free", "linger"} => tenant'[n] = tenant[n]
        /\ \A n \in Ports : tenant[n] # p => tenant'[n] = tenant[n]
    BY <1>f, <2>1, EndedLeaves
  <2>3. TypeOK'
    BY <1>w, <2>1, <2>2 DEF TypeOK
  <2>4. OneForeign'
    BY <1>f, <1>w, <2>1, <2>2 DEF OneForeign
  <2> QED BY <1>w, <2>1, <2>2, <2>3, <2>4 DEF World, PortsChosen
<1>t. ASSUME tenant' \in [Ports -> {"free", "linger"} \cup Strangers \cup Pids],
             UNCHANGED <<boot, process, external, ports, reader, stale, ready, status, step, cut>>,
             peer' \in {peer, None},
             \A n \in Ports : tenant'[n] \in Pids => tenant'[n] = tenant[n],
             OneForeign'
      PROVE  World'
  <2>1. TypeOK'
    BY <1>t, <1>w DEF TypeOK, Alive
  <2>2. ServersLive'
    BY <1>t, <1>w DEF ServersLive, Alive
  <2> QED BY <1>t, <1>w, <2>1, <2>2 DEF World, PortsChosen
<1>3. ASSUME NEW n \in Ports, OtherTakes(n) \/ Freed(n) PROVE World'
  <2>1. PICK v \in {"other", "free"} : tenant' = [tenant EXCEPT ![n] = v]
    BY <1>3 DEF OtherTakes, Freed
  <2>2. tenant[n] # "foreign"
    BY <1>3 DEF OtherTakes, Freed
  <2>3. /\ tenant' \in [Ports -> {"free", "linger"} \cup Strangers \cup Pids]
        /\ \A m \in Ports : tenant'[m] = IF m = n THEN v ELSE tenant[m]
    BY <1>w, <2>1 DEF TypeOK, Strangers
  <2>4. UNCHANGED <<boot, process, external, ports, reader, stale, ready, peer, status, step, cut>>
    BY <1>3 DEF OtherTakes, Freed
  <2>5. v \notin Pids /\ v # "foreign"
    BY PidAssumption DEF Strangers
  <2>6. OneForeign'
    BY <1>w, <2>2, <2>3, <2>4, <2>5 DEF OneForeign
  <2> QED BY <1>t, <2>3, <2>4, <2>5, <2>6
<1>4. CASE ForeignComes
  <2>1. PICK own \in {{Control}, {Control, Socks}} :
          /\ \A n \in own : tenant[n] = "free"
          /\ tenant' = [n \in Ports |-> IF n \in own THEN "foreign" ELSE tenant[n]]
    BY <1>4 DEF ForeignComes
  <2>2. UNCHANGED <<boot, process, external, ports, reader, stale, ready, peer, status, step, cut>>
    BY <1>4 DEF ForeignComes
  <2>3. /\ tenant' \in [Ports -> {"free", "linger"} \cup Strangers \cup Pids]
        /\ \A m \in Ports : tenant'[m] = IF m \in own THEN "foreign" ELSE tenant[m]
    BY <1>w, <2>1 DEF TypeOK, Strangers
  <2>4. OneForeign'
    BY <1>w, <2>1, <2>2, <2>3 DEF OneForeign, Ports
  <2> QED BY <1>f, <1>t, <2>2, <2>3, <2>4
<1>5. CASE ForeignGoes
  <2>1. /\ tenant' = [n \in Ports |-> IF tenant[n] = "foreign" THEN "free" ELSE tenant[n]]
        /\ peer' = IF peer = "foreign" THEN None ELSE peer
        /\ UNCHANGED <<boot, process, external, ports, reader, stale, ready, status, step, cut>>
    BY <1>5 DEF ForeignGoes
  <2>2. tenant' \in [Ports -> {"free", "linger"} \cup Strangers \cup Pids]
    BY <1>w, <2>1 DEF TypeOK
  <2>3. \A m \in Ports : tenant'[m] = IF tenant[m] = "foreign" THEN "free" ELSE tenant[m]
    BY <2>1
  <2>4. OneForeign'
    BY <1>f, <1>w, <2>1, <2>3 DEF OneForeign
  <2>5. "free" \notin Pids
    BY PidAssumption
  <2> QED BY <1>t, <2>1, <2>2, <2>3, <2>4, <2>5
<1> QED BY <1>1, <1>2, <1>3, <1>4, <1>5 DEF OutsideSteps, Outside

LEMMA WorldAlways == Spec => []World
<1>1. Init => World
  BY WorldAtStart
<1>2. World /\ [Next]_vars => World'
  <2> SUFFICES ASSUME World, [Next]_vars PROVE World'
    OBVIOUS
  <2>1. CASE Start \/ Await \/ Stop \/ Cancelled
    BY <2>1, EngineKeepsWorld
  <2>2. CASE OutsideSteps
    BY <2>2, OutsideKeepsWorld
  <2>3. CASE UNCHANGED vars
    <3> USE <2>3 DEF vars, world, daemon, engine
    <3>1. TypeOK'
      BY DEF World, TypeOK, Alive
    <3> QED BY <3>1 DEF World, ServersLive, OneForeign, PortsChosen, Alive
  <2> QED BY <2>1, <2>2, <2>3 DEF Next, OutsideSteps
<1> QED BY <1>1, <1>2, PTL DEF Spec

(* The ports a daemon reports differ, also when both had to move to another (net.py:232-266). *)
THEOREM PortsAreDifferent == Spec => []PortsDiffer
<1>1. World => PortsDiffer
  BY DEF World, PortsChosen, PortsDiffer
<1> QED BY <1>1, WorldAlways, PTL

(* Unless a start was cut: no Tor of ours lives but the recorded one, none beside a *)
(* foreign one, and none while nothing runs; the one that lives holds the ports it  *)
(* was given; and the controller is silent until it is told to connect, and then    *)
(* speaks to the Tor that runs.                                                      *)
Alone ==
  /\ Alive \subseteq {process}
  /\ external => Alive = {} /\ ports = Configured
  /\ step \in {"probe", "spawn"} => Alive = {}
  /\ step \in {"probe", "spawn", "bootstrap", "socks"} => ~external
  /\ step = "idle" /\ status \in {"idle", "error"} => Alive = {}
Served ==
  ~external /\ process \in Alive =>
    /\ ports \in Pairs /\ tenant[ports.socks] = process /\ tenant[ports.control] = process
    /\ peer \in {None, process}
Speaks ==
  /\ step \in {"spawn", "bootstrap", "socks", "stop"} => peer = None
  /\ peer \in Pids => peer \in Alive
Calm == ~cut => Alone /\ Served /\ Speaks

LEMMA CalmKept ==
  ASSUME World, World', Calm, [Next]_vars
  PROVE  Calm'
<1> USE DEF world, daemon, engine, Starting
<1>w. /\ TypeOK /\ ServersLive /\ OneForeign /\ PortsChosen
      /\ Socks \in Ports /\ Control \in Ports
  BY PortAssumption DEF World
<1>f. /\ "foreign" \notin Pids /\ "other" \notin Pids /\ "free" \notin Pids /\ "linger" \notin Pids
      /\ None \notin Pids /\ None # "foreign" /\ None \notin Pairs
  BY PidAssumption DEF Strangers
<1> SUFFICES ASSUME ~cut' PROVE Alone' /\ Served' /\ Speaks'
  BY DEF Calm
<1>c. ~cut => Alone /\ Served /\ Speaks
  BY DEF Calm
<1>1. CASE Start
  <2>1. /\ ~cut /\ ~external /\ process \notin Alive /\ step' = "probe"
        /\ status' = "starting"
        /\ UNCHANGED <<tenant, boot, process, external, ports, peer>>
    BY <1>1 DEF Start, Running
  <2> QED BY <1>c, <2>1 DEF Alone, Served, Speaks, Alive
<1>2. CASE Stop
  <2>1. /\ ~cut /\ UNCHANGED <<tenant, boot, process, external, ports, peer>>
        /\ \/ step' = "close"
           \/ ~external /\ process \notin Alive /\ step' = "idle"
    BY <1>2 DEF Stop, Running
  <2> QED BY <1>c, <2>1 DEF Alone, Served, Speaks, Alive
<1>3. CASE Cancelled
  BY <1>3 DEF Cancelled
<1>4. CASE Attach
  <2>1. /\ ~cut /\ step = "probe" /\ step' = "control" /\ external' = TRUE
        /\ ports' = Configured
        /\ UNCHANGED <<tenant, boot, process, peer>>
    BY <1>4 DEF Attach
  <2> QED BY <1>c, <2>1 DEF Alone, Served, Speaks, Alive, Configured
<1>5. CASE Prepare
  <2>1. /\ ~cut /\ step = "probe" /\ ~Answers(Control)
        /\ UNCHANGED <<tenant, boot, process, external, peer>>
        /\ step' \in {"spawn", "raised"}
    BY <1>5 DEF Prepare, Raise
  <2>2. peer = None
    <3>1. peer # "foreign"
      BY <1>w, <2>1 DEF OneForeign, Answers
    <3>2. peer \notin Pids
      BY <1>c, <2>1 DEF Alone, Speaks
    <3> QED BY <1>w, <3>1, <3>2 DEF TypeOK
  <2> QED BY <1>c, <1>f, <2>1, <2>2 DEF Alone, Served, Speaks, Alive
<1>6. ASSUME NEW p \in Pids, Spawn(p) PROVE Alone' /\ Served' /\ Speaks'
  <2>1. /\ ~cut /\ step = "spawn" /\ step' = "bootstrap" /\ process' = p
        /\ UNCHANGED <<external, ports, peer>> /\ ports \in Pairs
    BY <1>6, <1>w DEF Spawn, PortsChosen
  <2>2. Alive = {} /\ ~external /\ peer = None
    BY <1>c, <2>1 DEF Alone, Speaks
  <2>3. CASE UNCHANGED <<tenant, boot>>
    BY <1>f, <2>1, <2>2, <2>3 DEF Alone, Served, Speaks, Alive
  <2>4. CASE /\ tenant' = [tenant EXCEPT ![ports.socks] = p, ![ports.control] = p]
             /\ boot' = [q \in Alive \cup {p} |-> IF q = p THEN 0 ELSE boot[q]]
    <3>1. Alive' = {p}
      BY <2>2, <2>4 DEF Alive
    <3>2. tenant'[ports.socks] = p /\ tenant'[ports.control] = p
      BY <1>w, <2>1, <2>4 DEF TypeOK, Pairs
    <3> QED BY <1>f, <2>1, <2>2, <3>1, <3>2 DEF Alone, Served, Speaks
  <2> QED BY <1>6, <2>3, <2>4 DEF Spawn
<1>7. CASE Bootstrapped \/ Started \/ Close
  <2>1. /\ ~cut /\ UNCHANGED <<tenant, boot, process, external, ports>>
        /\ \/ step = "bootstrap" /\ step' = "socks" /\ UNCHANGED peer
           \/ step' = "idle" /\ status' = "active" /\ UNCHANGED peer
           \/ step' = "stop" /\ peer' = None
    BY <1>7 DEF Bootstrapped, Started, Close
  <2> QED BY <1>c, <1>f, <2>1 DEF Alone, Served, Speaks, Alive
<1>s. ASSUME DaemonStop, step \in {"bootstrap", "socks", "stop"},
             step' \in {"raised", "idle"}, UNCHANGED <<peer, cut>>
      PROVE  Alone' /\ Served' /\ Speaks'
  <2>1. Alive' = {} /\ external' = FALSE
    <3>1. Alive' \subseteq Alive /\ external' = FALSE
          /\ (~external => Alive' = Alive \ {process})
      BY <1>s, StopLeaves
    <3>2. Alone
      BY <1>c, <1>s
    <3>3. CASE external
      BY <3>1, <3>2, <3>3 DEF Alone
    <3>4. CASE ~external
      BY <3>1, <3>2, <3>4 DEF Alone
    <3> QED BY <3>1, <3>3, <3>4
  <2>2. peer' = None
    BY <1>c, <1>s DEF Speaks
  <2> QED BY <1>f, <1>s, <2>1, <2>2 DEF Alone, Served, Speaks
<1>8. CASE GiveUp
  BY <1>8, <1>s DEF GiveUp, Raise
<1>9. CASE SocksWaited
  <2>1. CASE step' = "control" /\ UNCHANGED <<world, daemon, peer, cut>>
    BY <1>c, <2>1 DEF Alone, Served, Speaks, Alive
  <2>2. CASE DaemonStop /\ Raise
    BY <1>9, <1>s, <2>2 DEF SocksWaited, Raise
  <2> QED BY <1>9, <2>1, <2>2 DEF SocksWaited
<1>10. CASE ControllerConnect
  <2>1. /\ ~cut /\ step = "control" /\ step' \in {"version", "raised"}
        /\ UNCHANGED <<tenant, boot, process, external, ports>>
    BY <1>10 DEF ControllerConnect, Raise
  <2>2. ControlPort \in Ports
    BY <1>w DEF ControlPort, Serving, Configured, TypeOK, Pairs
  <2>3. peer' = peer \/ (peer' = tenant[ControlPort] /\ peer' \in Pids \cup {"foreign"})
    BY <1>10 DEF ControllerConnect, Raise
  <2>4. Alone'
    BY <1>c, <2>1 DEF Alone, Alive
  <2>5. Speaks'
    BY <1>c, <1>w, <2>1, <2>2, <2>3, <1>f DEF Speaks, ServersLive, Alive
  <2>6. Served'
    <3> SUFFICES ASSUME ~external, process \in Alive PROVE Served'
      BY <2>1 DEF Served, Alive
    <3>1. Served /\ ports \in Pairs /\ tenant[ports.control] = process
          /\ peer \in {None, process}
      BY <1>c, <2>1 DEF Served
    <3>2. ControlPort = ports.control
      BY <1>f, <3>1 DEF ControlPort, Serving
    <3> QED BY <2>1, <2>3, <3>1, <3>2 DEF Served, Alive
  <2> QED BY <2>4, <2>5, <2>6
<1>11. CASE Stopped
  BY <1>11, <1>s DEF Stopped
<1>12. ASSUME NEW p \in Pids, Line(p) PROVE Alone' /\ Served' /\ Speaks'
  <2>1. /\ p \in Alive /\ Alive' = Alive
        /\ UNCHANGED <<tenant, process, external, ports, peer, step, cut>>
        /\ status' \in {"bootstrapping", status}
    BY <1>12, <1>w DEF Line, Alive, TypeOK
  <2> QED BY <1>c, <2>1 DEF Alone, Served, Speaks
<1>13. ASSUME NEW p \in Pids, Crash(p) PROVE Alone' /\ Served' /\ Speaks'
  <2>1. /\ Ended({p}) /\ peer' = (IF peer = p THEN None ELSE peer)
        /\ UNCHANGED <<process, external, ports, reader, ready, status, step, cut>>
    BY <1>13 DEF Crash
  <2>2. /\ Alive' = Alive \ {p}
        /\ \A n \in Ports : tenant[n] # p => tenant'[n] = tenant[n]
    BY <1>f, <2>1, EndedLeaves
  <2>3. Alone' /\ Speaks'
    BY <1>c, <1>f, <2>1, <2>2 DEF Alone, Speaks
  <2>4. Served'
    BY <1>c, <1>f, <2>1, <2>2 DEF Served, Pairs
  <2> QED BY <2>3, <2>4
<1>t. ASSUME UNCHANGED <<boot, process, external, ports, status, step, cut>>,
             peer' = peer \/ (peer = "foreign" /\ peer' = None),
             \A n \in Ports : tenant[n] \in Pids => tenant'[n] = tenant[n]
      PROVE  Alone' /\ Served' /\ Speaks'
  <2>1. Alone' /\ Speaks'
    BY <1>c, <1>f, <1>t DEF Alone, Speaks, Alive
  <2>2. Served'
    BY <1>c, <1>f, <1>t, <1>w DEF Served, Alive, Pairs, TypeOK
  <2> QED BY <2>1, <2>2
<1>14. ASSUME NEW n \in Ports, OtherTakes(n) \/ Freed(n)
       PROVE  Alone' /\ Served' /\ Speaks'
  <2>1. \A m \in Ports : tenant[m] \in Pids => tenant'[m] = tenant[m]
    BY <1>14, <1>f, <1>w DEF OtherTakes, Freed, TypeOK
  <2> QED BY <1>14, <1>t, <2>1 DEF OtherTakes, Freed
<1>15. CASE ForeignComes
  <2>1. \A m \in Ports : tenant[m] \in Pids => tenant'[m] = tenant[m]
    BY <1>15, <1>f, <1>w DEF ForeignComes, TypeOK
  <2> QED BY <1>15, <1>t, <2>1 DEF ForeignComes
<1>16. CASE ForeignGoes
  <2>2. \A m \in Ports : tenant[m] \in Pids => tenant'[m] = tenant[m]
    BY <1>16, <1>f, <1>w DEF ForeignGoes, TypeOK
  <2> QED BY <1>16, <1>t, <2>2 DEF ForeignGoes
<1>17. CASE UNCHANGED vars
  BY <1>17, <1>t DEF vars
<1> QED BY <1>1, <1>2, <1>3, <1>4, <1>5, <1>6, <1>7, <1>8, <1>9, <1>10, <1>11, <1>12, <1>13, <1>14,
           <1>15, <1>16, <1>17 DEF Next, Await, Outside

LEMMA CalmAlways == Spec => [](World /\ Calm)
<1>1. Init => Calm
  BY PidAssumption DEF Init, Calm, Alone, Served, Speaks, Alive
<1>2. World /\ World' /\ Calm /\ [Next]_vars => Calm'
  BY CalmKept
<1> QED BY <1>1, <1>2, WorldAlways, PTL DEF Spec

(* Unless a start was cancelled, an engine that is idle or failed leaves no Tor of *)
(* ours behind, for any number of processes and ports and wherever its start       *)
(* failed (daemon.py:418-424, 445-462, engine.py:107-119, 135-155).                *)
THEOREM NoTorIsLeft == Spec => []LeavesNothing
<1>1. Calm => LeavesNothing
  BY DEF Calm, Alone, LeavesNothing
<1> QED BY <1>1, CalmAlways, PTL

(* Unless a start was cancelled, the Tor whose identity is rotated is the one the  *)
(* SOCKS port leads to when the daemon is our own, whoever takes ports and         *)
(* whenever; after an attach it is the one of the configured ControlPort, and the  *)
(* SOCKS port leads to no process of ours (daemon.py:310-345, 367-373, 542-571,    *)
(* engine.py:110-112).                                                             *)
THEOREM RotatesTheTorInUse == Spec => []SameTor
<1>1. World /\ Calm => SameTor
  <2> SUFFICES ASSUME World, Calm, ~cut, Running, Connected
               PROVE  IF external THEN peer = "foreign" /\ tenant[Serving.socks] \notin Pids
                                  ELSE tenant[Serving.socks] = peer
    BY DEF SameTor
  <2>1. Alone /\ Served /\ Speaks
    BY DEF Calm
  <2>2. CASE external
    <3>1. peer = "foreign" /\ ports = Configured /\ Alive = {}
      BY <2>1, <2>2 DEF Alone, Speaks, World, TypeOK, Connected
    <3>2. Serving.socks = Socks
      BY <3>1 DEF Serving, Configured
    <3>3. tenant[Socks] \notin Pids
      BY <3>1, PortAssumption DEF World, ServersLive
    <3> QED BY <2>2, <3>1, <3>2, <3>3
  <2>3. CASE ~external
    <3>1. /\ peer = process /\ ports \in Pairs /\ tenant[ports.socks] = process
      BY <2>1, <2>3 DEF Served, Running, Connected
    <3>2. Serving = ports
      BY <3>1, PidAssumption DEF Serving
    <3> QED BY <2>3, <3>1, <3>2
  <2> QED BY <2>2, <2>3
<1> QED BY <1>1, CalmAlways, PTL
=============================================================================
