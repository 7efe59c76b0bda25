--------------------------- MODULE SessionProofs ---------------------------
(***************************************************************************)
(* Proofs about Session for any set of tasks and every value of its        *)
(* switches.  LockDiscipline carries the argument: whoever is inside       *)
(* establish or teardown is alone there, so what it left behind at one     *)
(* step is what it finds at the next.  The last part is about the verdict  *)
(* itself: what a verification that passed proves, over any addresses.     *)
(***************************************************************************)
EXTENDS Session, Verification, TLAPS

-----------------------------------------------------------------------------
(* Types. *)

(* The names a step may move to are program counters. *)
LEMMA PcNames ==
  /\ {"idle", "stop", "wait"} \subseteq PCs
  /\ {"tor", "bootstrap", "socks", "vpn", "tunnelling", "tunnel"} \subseteq PCs
  /\ {"transparent", "shield", "verify", "passed", "failed", "persist"} \subseteq PCs
  /\ {"td_transparent", "td_shield", "td_vpn", "td_tor"} \subseteq PCs
  /\ \A m : {First(m), AfterTor(m), AfterVpn(m)} \subseteq PCs
BY DEF PCs, Critical, Building, Tearing, First, AfterTor, AfterVpn

(* Go keeps the types of the tasks and of the route. *)
LEMMA GoType ==
  ASSUME TypeOK, NEW t \in Tasks, NEW next \in PCs, Go(t, next)
  PROVE  TasksOK' /\ RouteOK'
BY DEF Go, TypeOK, TasksOK, RouteOK, route

(* So does Raise. *)
LEMMA RaiseType ==
  ASSUME TypeOK, NEW t \in Tasks, Raise(t) PROVE TasksOK' /\ RouteOK'
BY PcNames DEF Raise, TypeOK, TasksOK, RouteOK

(* So does Begin, of what it writes. *)
LEMMA BeginType ==
  ASSUME TypeOK, NEW t \in Tasks, Begin(t)
  PROVE  pc' \in [Tasks -> PCs] /\ status' = "starting" /\ passed' = FALSE
BY PcNames DEF Begin, TypeOK, TasksOK

(* The lock is handed to a task or freed. *)
LEMMA HandOverType == ASSUME NEW gone, HandOver(gone) PROVE lock' \in Tasks \cup {NoTask}
BY DEF HandOver

(* A slot whose coroutine is gone keeps the type of its locals. *)
LEMMA ForgottenType ==
  ASSUME NEW S, NEW first \in S, NEW gone, NEW local \in [Tasks -> S]
  PROVE  Forgotten(local, gone, first) \in [Tasks -> S]
BY DEF Forgotten

(* What a request leaves when it is cut short, and what a tunnel leaves that goes, *)
(* is of the type of strays.                                                       *)
LEMMA StraysType ==
  ASSUME TypeOK
  PROVE  /\ \A gone : CutShort(gone) => strays' \subseteq {"tunnel", "switch", "tor"}
         /\ SwitchLeft \subseteq {"switch"} /\ Standing \subseteq strays
         /\ strays \subseteq {"tunnel", "switch", "tor"}
BY DEF CutShort, SwitchLeft, TunnelLeft, Standing, TypeOK, LifeOK

LEMMA InitType == Init => TypeOK
BY PcNames DEF Init, TypeOK, TasksOK, RouteOK, HopsOK, PeriodicOK, LifeOK, Modes

(* Types are kept by every request. *)
LEMMA RequestType == ASSUME TypeOK, NEW t \in Tasks, Request(t) PROVE TypeOK'
<1> USE PickAssumption, PcNames
    DEF TypeOK, TasksOK, RouteOK, HopsOK, PeriodicOK, LifeOK,
        dns, rules, vpnVars, torVars, scheds, life, dog, route
<1>1. ASSUME NEW m \in Picks, UserConnect(t, m) PROVE TypeOK'
  <2>1. lock' \in Tasks \cup {NoTask}
    BY <1>1, HandOverType DEF UserConnect, AbortedUnlock
  <2>2. strays' \subseteq {"tunnel", "switch", "tor"}
    BY <1>1, StraysType DEF UserConnect
  <2>3. /\ Forgotten(want, Aborted, "tor_only") \in [Tasks -> Modes]
        /\ Forgotten(ret, Aborted, "release") \in [Tasks -> {"begin", "raise", "release"}]
    BY ForgottenType DEF Modes
  <2>4. TasksOK'
    BY <1>1, <2>1, <2>3 DEF UserConnect
  <2>. QED BY <1>1, <2>2, <2>4 DEF UserConnect
<1>2. ASSUME NEW m \in Picks, UserSwitch(t, m) PROVE TypeOK'
  BY <1>2 DEF UserSwitch, StopWatchdog
<1>3. CASE UserDisconnect(t)
  BY <1>3 DEF UserDisconnect, StopWatchdog
<1>4. CASE UserQuit(t)
  BY <1>4 DEF UserQuit, StopWatchdog
<1>. QED BY <1>1, <1>2, <1>3, <1>4 DEF Request

(* Types are kept by what a task does between its awaits. *)
LEMMA WorkType == ASSUME TypeOK, NEW t \in Tasks, Work(t) PROVE TypeOK'
<1> USE DEF tasks, dns, rules, vpnVars, torVars, scheds, life, dog
<1>1. CASE StopSchedulers(t)
  <2>1. TasksOK' /\ RouteOK'
    BY <1>1, PcNames, GoType DEF StopSchedulers
  <2>2. HopsOK' /\ LifeOK'
    BY <1>1 DEF StopSchedulers, TypeOK, HopsOK, LifeOK
  <2>3. PeriodicOK'
    BY <1>1 DEF StopSchedulers, SchedulersDown, TypeOK, PeriodicOK
  <2>. QED BY <2>1, <2>2, <2>3 DEF TypeOK
<1>2. CASE Enter(t)
  <2>1. TasksOK' /\ RouteOK'
    BY <1>2, PcNames, BeginType DEF Enter, TypeOK, TasksOK, RouteOK
  <2>2. HopsOK' /\ PeriodicOK' /\ LifeOK'
    BY <1>2 DEF Enter, TypeOK, HopsOK, PeriodicOK, LifeOK
  <2>. QED BY <2>1, <2>2 DEF TypeOK
<1>3. CASE TorAlready(t) \/ TorAttach(t) \/ TorSpawn(t) \/ TorBootstrapped(t) \/ TorStalled(t)
  <2> USE DEF TorAlready, TorAttach, TorSpawn, TorBootstrapped, TorStalled
  <2>1. TasksOK' /\ RouteOK'
    BY <1>3, PcNames, GoType, RaiseType
  <2>2. torProc' \in {"none", "booting", "up"} /\ torExt' \in BOOLEAN
    BY <1>3 DEF DaemonStop, TypeOK, HopsOK
  <2>3. HopsOK'
    BY <1>3, <2>2 DEF TypeOK, HopsOK
  <2>4. PeriodicOK'
    BY <1>3 DEF TypeOK, PeriodicOK
  <2>5. LifeOK'
    BY <1>3 DEF TypeOK, LifeOK
  <2>. QED BY <2>1, <2>3, <2>4, <2>5 DEF TypeOK
<1>4. CASE EngageTransparent(t)
  <2>1. TasksOK' /\ RouteOK'
    BY <1>4, PcNames, GoType DEF EngageTransparent
  <2>2. HopsOK' /\ PeriodicOK' /\ LifeOK'
    BY <1>4 DEF EngageTransparent, TypeOK, HopsOK, PeriodicOK, LifeOK
  <2>. QED BY <2>1, <2>2 DEF TypeOK
<1>5. CASE CheckSocks(t) \/ VpnSpawn(t) \/ VpnUp(t) \/ VpnFailed(t) \/ CheckTunnel(t)
  <2> USE DEF CheckSocks, VpnSpawn, VpnUp, VpnFailed, CheckTunnel
  <2>1. TasksOK' /\ RouteOK'
    BY <1>5, PcNames, GoType, RaiseType
  <2>2. vpnProc' \in BOOLEAN /\ vpnCur' \in BOOLEAN
    BY <1>5 DEF TunnelGone, TypeOK, HopsOK
  <2>3. ks' \in {"off", "stale", "on"}
    BY <1>5 DEF TypeOK, HopsOK
  <2>4. HopsOK'
    BY <1>5, <2>2, <2>3 DEF TypeOK, HopsOK
  <2>5. PeriodicOK' /\ LifeOK'
    <3>1. strays' \subseteq {"tunnel", "switch", "tor"}
      BY <1>5, StraysType DEF life
    <3>. QED BY <1>5, <3>1 DEF TypeOK, PeriodicOK, LifeOK
  <2>. QED BY <2>1, <2>4, <2>5 DEF TypeOK
<1>6. CASE StartShield(t)
  <2>1. TasksOK' /\ RouteOK'
    BY <1>6, PcNames DEF StartShield, TypeOK, TasksOK, RouteOK
  <2>2. HopsOK' /\ PeriodicOK' /\ LifeOK'
    BY <1>6 DEF StartShield, TypeOK, HopsOK, PeriodicOK, LifeOK
  <2>. QED BY <2>1, <2>2 DEF TypeOK
<1>7. CASE Verify(t) \/ Judge(t)
  <2>1. TasksOK' /\ RouteOK'
    BY <1>7, PcNames, RaiseType DEF Verify, Judge, Accept, TypeOK, TasksOK, RouteOK
  <2>2. HopsOK' /\ PeriodicOK'
    BY <1>7 DEF Verify, Judge, TypeOK, HopsOK, PeriodicOK
  <2>3. LifeOK'
    BY <1>7 DEF Verify, Judge, TypeOK, LifeOK
  <2>. QED BY <2>1, <2>2, <2>3 DEF TypeOK
<1>8. CASE Persist(t)
  <2>1. TasksOK' /\ RouteOK'
    <3>1. want' \in [Tasks -> Modes] /\ ret' \in [Tasks -> {"begin", "raise", "release"}]
      BY <1>8, ForgottenType DEF Persist, TypeOK, TasksOK, Modes
    <3>. QED BY <1>8, <3>1, PcNames, HandOverType DEF Persist, TypeOK, TasksOK, RouteOK, route
  <2>2. PeriodicOK'
    BY <1>8 DEF Persist, TypeOK, PeriodicOK
  <2>3. HopsOK' /\ LifeOK'
    BY <1>8 DEF Persist, TypeOK, HopsOK, LifeOK
  <2>. QED BY <2>1, <2>2, <2>3 DEF TypeOK
<1>9. CASE TdTransparent(t) \/ TdShield(t) \/ TdVpn(t)
  <2> USE DEF TdTransparent, TdShield, TdVpn
  <2>1. TasksOK' /\ RouteOK'
    BY <1>9, PcNames, GoType
  <2>2. vpnProc' \in BOOLEAN /\ vpnCur' \in BOOLEAN
    BY <1>9 DEF TunnelDown, TunnelGone, TypeOK, HopsOK
  <2>3. HopsOK'
    BY <1>9, <2>2 DEF ReleaseRedirect, ShieldOff, TypeOK, HopsOK
  <2>4. PeriodicOK' /\ LifeOK'
    <3>1. strays' \subseteq {"tunnel", "switch", "tor"}
      BY <1>9, StraysType DEF life
    <3>. QED BY <1>9, <3>1 DEF TypeOK, PeriodicOK, LifeOK
  <2>. QED BY <2>1, <2>3, <2>4 DEF TypeOK
<1>10. CASE TdTor(t)
  <2>1. torProc' \in {"none", "booting", "up"} /\ torExt' \in BOOLEAN
    BY <1>10 DEF TdTor, DaemonStop, TypeOK, HopsOK
  <2>2. HopsOK' /\ PeriodicOK'
    BY <1>10, <2>1 DEF TdTor, TypeOK, HopsOK, PeriodicOK
  <2>3. TasksOK' /\ RouteOK'
    <3>1. ret' \in [Tasks -> {"begin", "raise", "release"}]
      BY <1>10, ForgottenType DEF TdTor, TypeOK, TasksOK
    <3>2. Forgotten(want, {t}, "tor_only") \in [Tasks -> Modes]
      BY ForgottenType DEF TypeOK, TasksOK, Modes
    <3>3. want' \in [Tasks -> Modes]
      BY <1>10, <3>2 DEF TdTor, TypeOK, TasksOK
    <3>. QED BY <1>10, <3>1, <3>3, PcNames, BeginType, HandOverType
             DEF TdTor, ModeOff, TypeOK, TasksOK, RouteOK
  <2>4. LifeOK'
    BY <1>10 DEF TdTor, AfterShutdown, TypeOK, LifeOK
  <2>. QED BY <2>2, <2>3, <2>4 DEF TypeOK
<1>. QED BY <1>1, <1>2, <1>3, <1>4, <1>5, <1>6, <1>7, <1>8, <1>9, <1>10
         DEF Work, Build, TearDown

(* Types are kept by everything that runs outside the request tasks. *)
LEMMA OtherType ==
  ASSUME TypeOK, (\E t \in Tasks : Exit(t)) \/ Background \/ Environment \/ UNCHANGED vars
  PROVE  TypeOK'
<1> USE PcNames
    DEF TypeOK, TasksOK, RouteOK, HopsOK, PeriodicOK, LifeOK,
        tasks, dns, rules, vpnVars, torVars, scheds, life, dog, route
<1>1. ASSUME NEW t \in Tasks, Exit(t) PROVE TypeOK'
  <2>1. /\ Forgotten(want, Tasks, "tor_only") \in [Tasks -> Modes]
        /\ Forgotten(ret, Tasks, "release") \in [Tasks -> {"begin", "raise", "release"}]
        /\ Forgotten(kind, Tasks, "connect")
             \in [Tasks -> {"connect", "disconnect", "switch", "shutdown"}]
    BY ForgottenType DEF Modes
  <2>2. TasksOK'
    BY <1>1, <2>1 DEF Exit
  <2>3. LifeOK'
    BY <1>1, StraysType DEF Exit
  <2>. QED BY <1>1, <2>2, <2>3 DEF Exit, StopWatchdog
<1>2. CASE BootTransparent \/ BootKillSwitch
  <2>1. HopsOK'
    BY <1>2 DEF BootTransparent, BootKillSwitch
  <2>2. strays' \subseteq strays
    BY <1>2 DEF BootTransparent, BootKillSwitch
  <2>3. LifeOK'
    BY <1>2, <2>2 DEF BootTransparent, BootKillSwitch
  <2>. QED BY <1>2, <2>1, <2>3 DEF BootTransparent, BootKillSwitch
<1>3. CASE WatchdogTick
  BY <1>3 DEF WatchdogTick
<1>4. CASE WatchdogVerdict
  BY <1>4 DEF WatchdogVerdict
<1>5. CASE WatchdogJudge
  BY <1>5 DEF WatchdogJudge
<1>6. CASE ShieldToggled
  <2>1. HopsOK'
    BY <1>6 DEF ShieldToggled
  <2>. QED BY <1>6, <2>1 DEF ShieldToggled
<1>7. CASE Environment
  <2> USE DEF Environment, ToggleRotation, ToggleShuffle, ToggleShield, TorCrash
  <2>1. PeriodicOK'
    BY <1>7
  <2>2. HopsOK'
    BY <1>7
  <2>4. LifeOK'
    BY <1>7
  <2>3. TasksOK' /\ RouteOK'
    BY <1>7
  <2>. QED BY <2>1, <2>2, <2>3, <2>4
<1>8. CASE UNCHANGED vars
  BY <1>8 DEF vars
<1>. QED BY <1>1, <1>2, <1>3, <1>4, <1>5, <1>6, <1>7, <1>8 DEF Background

LEMMA NextType == TypeOK /\ [Next]_vars => TypeOK'
BY RequestType, WorkType, OtherType DEF Next, Closed

(* Every variable keeps its type along every behaviour. *)
THEOREM TypeCorrect == Spec => []TypeOK
<1>1. Init => TypeOK
  BY InitType
<1>2. TypeOK /\ [Next]_vars => TypeOK'
  BY NextType
<1>. QED BY <1>1, <1>2, PTL DEF Spec

-----------------------------------------------------------------------------
(* The lock. *)

(* A step that moves one task from t's critical section, keeping the lock, *)
(* keeps the discipline.                                                   *)
LEMMA HolderMoves ==
  ASSUME TypeOK, LockDiscipline, NEW t \in Tasks, pc[t] \in Critical,
         lock' = lock, NEW next, pc' = [pc EXCEPT ![t] = next]
  PROVE  LockDiscipline'
BY DEF TypeOK, TasksOK, LockDiscipline

(* So does leaving it. *)
LEMMA HolderLeaves ==
  ASSUME TypeOK, LockDiscipline, NEW t \in Tasks, pc[t] \in Critical,
         NEW next \in {"idle", "wait"}, pc' = [pc EXCEPT ![t] = next]
  PROVE  LockDiscipline'
BY DEF TypeOK, TasksOK, LockDiscipline, Critical, Building, Tearing

(* So does a move outside it. *)
LEMMA OutsideMoves ==
  ASSUME TypeOK, LockDiscipline, NEW t \in Tasks, lock' = lock,
         NEW next \in {"stop", "wait"}, pc' = [pc EXCEPT ![t] = next]
  PROVE  LockDiscipline'
BY DEF TypeOK, TasksOK, LockDiscipline, Critical, Building, Tearing

LEMMA LockStep == ASSUME TypeOK, LockDiscipline, [Next]_vars PROVE LockDiscipline'
<1>1. ASSUME NEW t \in Tasks, NEW m \in Picks, UserConnect(t, m) PROVE LockDiscipline'
  <2>1. SUFFICES ASSUME NEW u \in Tasks, pc'[u] \in Critical PROVE lock' = u
    BY DEF LockDiscipline
  <2>2. u # t /\ u \notin Aborted /\ pc[u] \in Critical
    BY <1>1, <2>1 DEF UserConnect, Critical, Building, Tearing
  <2>3. lock = u
    BY <2>2 DEF LockDiscipline
  <2>. QED BY <1>1, <2>2, <2>3 DEF UserConnect, AbortedUnlock
<1>2. ASSUME NEW t \in Tasks, NEW m \in Picks, UserSwitch(t, m) PROVE LockDiscipline'
  BY <1>2, OutsideMoves DEF UserSwitch
<1>3. ASSUME NEW t \in Tasks, UserDisconnect(t) \/ UserQuit(t) \/ StopSchedulers(t)
      PROVE  LockDiscipline'
  BY <1>3, OutsideMoves DEF UserDisconnect, UserQuit, StopSchedulers, Go
<1>4. ASSUME NEW t \in Tasks, Exit(t) PROVE LockDiscipline'
  BY <1>4 DEF Exit, LockDiscipline, Critical, Building, Tearing
<1>5. ASSUME NEW t \in Tasks, Enter(t) PROVE LockDiscipline'
  <2>1. \A u \in Tasks : pc[u] \notin Critical
    BY <1>5, TaskAssumption DEF Enter, MayEnter, LockDiscipline, Critical, Building, Tearing
  <2>2. lock' = t /\ \A u \in Tasks \ {t} : pc'[u] = pc[u]
    BY <1>5 DEF Enter, Begin, TypeOK, TasksOK
  <2>. QED BY <2>1, <2>2 DEF LockDiscipline
<1>6. ASSUME NEW t \in Tasks, Build(t) PROVE LockDiscipline'
  <2>1. pc[t] \in Critical
    BY <1>6 DEF Build, TorAlready, TorAttach, TorSpawn, TorBootstrapped, TorStalled,
       EngageTransparent, CheckSocks, VpnSpawn, VpnUp, VpnFailed, CheckTunnel, StartShield,
       Verify, Judge, Persist, Critical, Building
  <2>2. CASE Persist(t)
    BY <2>1, <2>2, HolderLeaves DEF Persist
  <2>3. CASE ~Persist(t)
    <3>1. lock' = lock /\ \E next \in PCs : pc' = [pc EXCEPT ![t] = next]
      BY <1>6, <2>3, PcNames
      DEF Build, TorAlready, TorAttach, TorSpawn, TorBootstrapped, TorStalled,
          EngageTransparent, CheckSocks, VpnSpawn, VpnUp, VpnFailed, CheckTunnel, StartShield,
          Verify, Judge, Go, Raise
    <3>. QED BY <2>1, <3>1, HolderMoves
  <2>. QED BY <2>2, <2>3
<1>7. ASSUME NEW t \in Tasks, TearDown(t) PROVE LockDiscipline'
  <2>1. pc[t] \in Critical
    BY <1>7 DEF TearDown, TdTransparent, TdShield, TdVpn, TdTor, Critical, Tearing
  <2>2. CASE TdTor(t) /\ ret[t] # "begin"
    BY <2>1, <2>2, HolderLeaves DEF TdTor
  <2>3. CASE TdTor(t) /\ ret[t] = "begin"
    BY <2>1, <2>3, HolderMoves DEF TdTor, Begin
  <2>4. CASE ~TdTor(t)
    BY <1>7, <2>1, <2>4, HolderMoves DEF TearDown, TdTransparent, TdShield, TdVpn, Go
  <2>. QED BY <2>2, <2>3, <2>4
<1>8. CASE Background \/ Environment \/ UNCHANGED vars
  BY <1>8 DEF Background, BootTransparent, BootKillSwitch, WatchdogTick, WatchdogVerdict,
     WatchdogJudge, ShieldToggled, Environment, ToggleRotation, ToggleShuffle, ToggleShield,
     TorCrash, LockDiscipline, vars, tasks
<1>. QED BY <1>1, <1>2, <1>3, <1>4, <1>5, <1>6, <1>7, <1>8
         DEF Next, Request, Work, Closed

(* At most one task is inside establish or teardown, and it holds the lock. *)
THEOREM OneAtATime == Spec => []LockDiscipline
<1>1. Init => LockDiscipline
  BY DEF Init, LockDiscipline, Critical, Building, Tearing
<1>2. TypeOK /\ LockDiscipline /\ [Next]_vars => LockDiscipline'
  BY LockStep
<1>. QED BY <1>1, <1>2, TypeCorrect, PTL DEF Spec

-----------------------------------------------------------------------------
(* What the steps of a request have in common. *)

(* Who builds or tears down is inside the lock, alone, and moves only itself. *)
LEMMA HolderActs ==
  ASSUME TypeOK, LockDiscipline, NEW t \in Tasks, Build(t) \/ TearDown(t)
  PROVE  /\ pc[t] \in Critical
         /\ \A u \in Tasks \ {t} : pc[u] \notin Critical /\ pc'[u] = pc[u]
         /\ \A u \in Tasks : pc'[u] # "idle" => want'[u] = want[u]
<1> USE DEF Build, TorAlready, TorAttach, TorSpawn, TorBootstrapped, TorStalled,
      EngageTransparent, CheckSocks, VpnSpawn, VpnUp, VpnFailed, CheckTunnel, StartShield,
      Verify, Judge, Persist, TearDown, TdTransparent, TdShield, TdVpn, TdTor
<1>1. pc[t] \in Critical
  BY DEF Critical, Building, Tearing
<1>2. \A u \in Tasks : pc'[u] # "idle" => want'[u] = want[u]
  BY DEF Go, Raise, Begin, Forgotten, TypeOK, TasksOK
<1>3. \E next : pc' = [pc EXCEPT ![t] = next]
  BY DEF Go, Raise, Begin
<1>4. \A u \in Tasks \ {t} : pc[u] \notin Critical
  BY <1>1 DEF LockDiscipline
<1>. QED BY <1>1, <1>2, <1>3, <1>4 DEF TypeOK, TasksOK

(* Who enters finds nobody inside. *)
LEMMA EntersAlone ==
  ASSUME TypeOK, LockDiscipline, NEW t \in Tasks, Enter(t)
  PROVE  /\ \A u \in Tasks : pc[u] \notin Critical
         /\ \A u \in Tasks \ {t} : pc'[u] = pc[u]
         /\ want' = want
<1>1. \A u \in Tasks : pc[u] \notin Critical
  BY TaskAssumption DEF Enter, MayEnter, LockDiscipline, Critical, Building, Tearing
<1>. QED BY <1>1 DEF Enter, Begin, TypeOK, TasksOK

(* A request that is made, and one that is on its way to the lock, is not inside it, *)
(* and leaves alone who is; it touches no hop.                                       *)
LEMMA OutsideActs ==
  ASSUME TypeOK,
         (\E t \in Tasks : Request(t) \/ Exit(t) \/ StopSchedulers(t)) \/ Background
           \/ Environment \/ UNCHANGED vars
  PROVE  /\ \A u \in Tasks : pc'[u] \in Critical => pc'[u] = pc[u] /\ want'[u] = want[u]
         /\ mode' = mode
<1> USE DEF TypeOK, TasksOK, Critical, Building, Tearing, tasks, route
<1>1. ASSUME NEW t \in Tasks, NEW m \in Picks, UserConnect(t, m)
      PROVE  /\ \A u \in Tasks : pc'[u] \in Critical => pc'[u] = pc[u] /\ want'[u] = want[u]
             /\ mode' = mode
  BY <1>1 DEF UserConnect, Forgotten
<1>2. ASSUME NEW t \in Tasks, NEW m \in Picks, UserSwitch(t, m)
      PROVE  /\ \A u \in Tasks : pc'[u] \in Critical => pc'[u] = pc[u] /\ want'[u] = want[u]
             /\ mode' = mode
  BY <1>2 DEF UserSwitch
<1>3. ASSUME NEW t \in Tasks, UserDisconnect(t) \/ UserQuit(t) \/ Exit(t) \/ StopSchedulers(t)
      PROVE  /\ \A u \in Tasks : pc'[u] \in Critical => pc'[u] = pc[u] /\ want'[u] = want[u]
             /\ mode' = mode
  BY <1>3 DEF UserDisconnect, UserQuit, Exit, StopSchedulers, Go
<1>4. CASE Background \/ Environment \/ UNCHANGED vars
  BY <1>4 DEF Background, BootTransparent, BootKillSwitch, WatchdogTick, WatchdogVerdict,
     WatchdogJudge, ShieldToggled, Environment, ToggleRotation, ToggleShuffle, ToggleShield,
     TorCrash, vars
<1>. QED BY <1>1, <1>2, <1>3, <1>4 DEF Request

(* Next, by who acts. *)
LEMMA Actors ==
  [Next]_vars =>
    \/ (\E t \in Tasks : Request(t) \/ Exit(t) \/ StopSchedulers(t)) \/ Background
         \/ Environment \/ UNCHANGED vars
    \/ \E t \in Tasks : Enter(t) \/ Build(t) \/ TearDown(t)
BY DEF Next, Work, Closed

-----------------------------------------------------------------------------
(* The itinerary. *)

(* A task only comes to the hops of the mode it builds. *)
Itinerary == \A t \in Tasks :
  /\ pc[t] \in {"tor", "bootstrap"} => UsesTor(want[t])
  /\ pc[t] = "socks" => want[t] = "vpn_over_tor"
  /\ pc[t] = "transparent" => WithTor(want[t])
  /\ pc[t] \in {"vpn", "tunnelling"} => UsesVpn(want[t])
  /\ pc[t] = "tunnel" => want[t] = "tor_over_vpn"

LEMMA ItineraryStep ==
  ASSUME TypeOK, LockDiscipline, Itinerary, [Next]_vars PROVE Itinerary'
<1> USE DEF Itinerary, UsesTor, UsesVpn, WithTor
<1>1. CASE (\E t \in Tasks : Request(t) \/ Exit(t) \/ StopSchedulers(t)) \/ Background
             \/ Environment \/ UNCHANGED vars
  BY <1>1, OutsideActs DEF Critical, Building
<1>2. ASSUME NEW t \in Tasks, Enter(t) PROVE Itinerary'
  <2>1. \A u \in Tasks \ {t} : pc'[u] \notin Critical
    BY <1>2, EntersAlone
  <2>2. pc'[t] \in {First(want[t]), "td_transparent"} /\ want' = want
    BY <1>2 DEF Enter, Begin, TypeOK, TasksOK
  <2>. QED BY <2>1, <2>2 DEF First, Critical, Building
<1>3. ASSUME NEW t \in Tasks, Build(t) \/ TearDown(t) PROVE Itinerary'
  <2>1. /\ \A u \in Tasks : pc'[u] # "idle" => want'[u] = want[u]
        /\ \A u \in Tasks \ {t} : pc'[u] \notin Critical
    BY <1>3, HolderActs
  <2>2. \A u \in Tasks \ {t} : /\ pc'[u] \notin {"tor", "bootstrap", "socks", "transparent"}
                              /\ pc'[u] \notin {"vpn", "tunnelling", "tunnel"}
    BY <2>1 DEF Critical, Building
  <2> USE <2>1, <2>2 DEF Go, Raise, Begin, TypeOK, TasksOK
  <2>3. CASE TorAlready(t) \/ TorAttach(t) \/ TorSpawn(t) \/ TorBootstrapped(t) \/ TorStalled(t)
    BY <2>3 DEF TorAlready, TorAttach, TorSpawn, TorBootstrapped, TorStalled, AfterTor, Modes
  <2>4. CASE EngageTransparent(t) \/ CheckSocks(t) \/ VpnSpawn(t) \/ VpnUp(t)
             \/ VpnFailed(t) \/ CheckTunnel(t)
    BY <2>4 DEF EngageTransparent, CheckSocks, VpnSpawn, VpnUp, VpnFailed, CheckTunnel, AfterVpn
  <2>5. CASE StartShield(t) \/ Verify(t) \/ Judge(t) \/ Persist(t)
    BY <2>5 DEF StartShield, Verify, Judge, Persist
  <2>6. CASE TearDown(t)
    BY <2>6 DEF TearDown, TdTransparent, TdShield, TdVpn, TdTor, First
  <2>. QED BY <1>3, <2>3, <2>4, <2>5, <2>6 DEF Build
<1>. QED BY <1>1, <1>2, <1>3, Actors

LEMMA OnTheWay == Spec => []Itinerary
<1>1. Init => Itinerary
  BY DEF Init, Itinerary
<1>2. TypeOK /\ LockDiscipline /\ Itinerary /\ [Next]_vars => Itinerary'
  BY ItineraryStep
<1>. QED BY <1>1, <1>2, TypeCorrect, OneAtATime, PTL DEF Spec

-----------------------------------------------------------------------------
(* The mode. *)

BeforeMode == {"tor", "bootstrap", "socks", "vpn", "tunnelling", "tunnel", "transparent", "shield"}

(* A route is only built on a free slate. *)
FreshSlate == \A t \in Tasks : pc[t] \in BeforeMode => mode = "none"

(* What Work does to mode and to the program counter of the other tasks. *)
LEMMA WorkMode ==
  ASSUME TypeOK, FreshSlate, NEW t \in Tasks, Work(t)
  PROVE  /\ \A u \in Tasks \ {t} : pc'[u] = pc[u]
         /\ pc'[t] \in BeforeMode => mode' = "none"
         /\ mode' # mode => "none" \in {mode, mode'} /\ pc[t] \in Critical
<1> USE DEF TypeOK, TasksOK, BeforeMode, Critical, Building, Tearing, First, AfterTor, AfterVpn
<1>1. CASE StopSchedulers(t)
  BY <1>1 DEF StopSchedulers, Go, route
<1>2. CASE Enter(t)
  BY <1>2 DEF Enter, Begin, BuildsAtOnce
<1>3. CASE TorAlready(t) \/ TorAttach(t) \/ TorSpawn(t) \/ TorBootstrapped(t) \/ TorStalled(t)
  <2>1. mode' = mode /\ mode = "none" /\ \E next : pc' = [pc EXCEPT ![t] = next]
    BY <1>3 DEF TorAlready, TorAttach, TorSpawn, TorBootstrapped, TorStalled, Go, Raise, route,
       FreshSlate
  <2>. QED BY <2>1
<1>4. CASE EngageTransparent(t) \/ CheckSocks(t) \/ VpnSpawn(t) \/ VpnUp(t) \/ VpnFailed(t)
           \/ CheckTunnel(t)
  <2>1. mode' = mode /\ mode = "none" /\ \E next : pc' = [pc EXCEPT ![t] = next]
    BY <1>4 DEF EngageTransparent, CheckSocks, VpnSpawn, VpnUp, VpnFailed, CheckTunnel,
       Go, Raise, route, FreshSlate
  <2>. QED BY <2>1
<1>5. CASE StartShield(t)
  BY <1>5 DEF StartShield, FreshSlate
<1>6. CASE Verify(t) \/ Judge(t)
  BY <1>6 DEF Verify, Judge, Raise
<1>7. CASE Persist(t)
  BY <1>7 DEF Persist, route
<1>8. CASE TdTransparent(t) \/ TdShield(t) \/ TdVpn(t)
  BY <1>8 DEF TdTransparent, TdShield, TdVpn, Go, route
<1>9. CASE TdTor(t)
  BY <1>9 DEF TdTor, Begin, ModeOff
<1>. QED BY <1>1, <1>2, <1>3, <1>4, <1>5, <1>6, <1>7, <1>8, <1>9 DEF Work, Build, TearDown

LEMMA SlateStep ==
  ASSUME TypeOK, LockDiscipline, FreshSlate, [Next]_vars
  PROVE  FreshSlate' /\ (mode' # mode => "none" \in {mode, mode'})
<1>1. ASSUME NEW t \in Tasks, NEW m \in Picks, UserConnect(t, m)
      PROVE  FreshSlate' /\ mode' = mode
  BY <1>1 DEF UserConnect, FreshSlate, BeforeMode, route
<1>2. ASSUME NEW t \in Tasks, NEW m \in Picks, UserSwitch(t, m)
      PROVE  FreshSlate' /\ mode' = mode
  BY <1>2 DEF UserSwitch, FreshSlate, BeforeMode, route, TypeOK, TasksOK
<1>3. ASSUME NEW t \in Tasks, UserDisconnect(t) \/ UserQuit(t) \/ Exit(t)
      PROVE  FreshSlate' /\ mode' = mode
  BY <1>3 DEF UserDisconnect, UserQuit, Exit, FreshSlate, BeforeMode, route, TypeOK, TasksOK
<1>4. ASSUME NEW t \in Tasks, Work(t)
      PROVE  FreshSlate' /\ (mode' # mode => "none" \in {mode, mode'})
  <2>1. SUFFICES ASSUME NEW u \in Tasks \ {t}, pc'[u] \in BeforeMode PROVE mode' = "none"
    BY <1>4, WorkMode DEF FreshSlate
  <2>2. pc[u] \in BeforeMode /\ mode = "none"
    BY <1>4, <2>1, WorkMode DEF FreshSlate
  <2>3. pc[t] \notin Critical
    BY <2>1, <2>2 DEF LockDiscipline, BeforeMode, Critical, Building
  <2>. QED BY <1>4, <2>2, <2>3, WorkMode
<1>5. CASE Background \/ Environment \/ UNCHANGED vars
  BY <1>5 DEF Background, BootTransparent, BootKillSwitch, WatchdogTick, WatchdogVerdict,
     WatchdogJudge, ShieldToggled, Environment, ToggleRotation, ToggleShuffle, ToggleShield,
     TorCrash, FreshSlate, vars, tasks, route
<1>. QED BY <1>1, <1>2, <1>3, <1>4, <1>5 DEF Next, Request, Closed

LEMMA Slate == Spec => []FreshSlate
<1>1. Init => FreshSlate
  BY DEF Init, FreshSlate, BeforeMode
<1>2. TypeOK /\ LockDiscipline /\ FreshSlate /\ [Next]_vars => FreshSlate'
  BY SlateStep
<1>. QED BY <1>1, <1>2, TypeCorrect, OneAtATime, PTL DEF Spec

(* No step replaces one live route by another: it is torn down first. *)
THEOREM TornDownFirst == Spec => ModeViaNone
<1>1. TypeOK /\ LockDiscipline /\ FreshSlate /\ [Next]_vars
        => [mode' # mode => "none" \in {mode, mode'}]_vars
  BY SlateStep
<1>. QED BY <1>1, TypeCorrect, OneAtATime, Slate, PTL DEF Spec, ModeViaNone

-----------------------------------------------------------------------------
(* The redirect and Tor. *)

(* The strengthening of TransparentNeedsTor: attached means somebody serves the  *)
(* ControlPort, a bootstrap is of our own process, and the redirect is gone once *)
(* a teardown is past its first step.                                            *)
RedirectInv ==
  /\ TransparentNeedsTor
  /\ torExt => ForeignTor \/ torProc # "none"
  /\ \A t \in Tasks : pc[t] = "bootstrap" => torProc = "booting" /\ ~torExt
  /\ \A t \in Tasks : pc[t] \in {"td_shield", "td_vpn", "td_tor"} => trans # "on"

LEMMA RedirectStep ==
  ASSUME TypeOK, LockDiscipline, RedirectInv, [Next]_vars, ~Crashes
  PROVE  RedirectInv'
<1> USE DEF RedirectInv, TransparentNeedsTor, TorUsable
<1>1. ASSUME NEW t \in Tasks, NEW m \in Picks, UserConnect(t, m) PROVE RedirectInv'
  BY <1>1 DEF UserConnect, torVars, rules
<1>2. ASSUME NEW t \in Tasks, NEW m \in Picks, UserSwitch(t, m) PROVE RedirectInv'
  BY <1>2 DEF UserSwitch, torVars, rules, TypeOK, TasksOK
<1>3. ASSUME NEW t \in Tasks, UserDisconnect(t) \/ UserQuit(t) \/ Exit(t) \/ StopSchedulers(t)
      PROVE  RedirectInv'
  BY <1>3 DEF UserDisconnect, UserQuit, Exit, StopSchedulers, Go, torVars, rules, TypeOK, TasksOK
<1>4. ASSUME NEW t \in Tasks, Enter(t) PROVE RedirectInv'
  BY <1>4 DEF Enter, Begin, First, torVars, rules, TypeOK, TasksOK
<1>5. ASSUME NEW t \in Tasks, Build(t) \/ TearDown(t) PROVE RedirectInv'
  <2>1. pc[t] \in Critical
    BY <1>5 DEF Build, TorAlready, TorAttach, TorSpawn, TorBootstrapped, TorStalled,
       EngageTransparent, CheckSocks, VpnSpawn, VpnUp, VpnFailed, CheckTunnel, StartShield,
       Verify, Judge, Persist, TearDown, TdTransparent, TdShield, TdVpn, TdTor,
       Critical, Building, Tearing
  <2>2. \A u \in Tasks \ {t} : pc[u] \notin Critical /\ pc'[u] = pc[u]
    <3>1. \A u \in Tasks \ {t} : pc[u] \notin Critical
      BY <2>1 DEF LockDiscipline
    <3>2. \E next : pc' = [pc EXCEPT ![t] = next]
      BY <1>5 DEF Build, TorAlready, TorAttach, TorSpawn, TorBootstrapped, TorStalled,
         EngageTransparent, CheckSocks, VpnSpawn, VpnUp, VpnFailed, CheckTunnel, StartShield,
         Verify, Judge, Persist, TearDown, TdTransparent, TdShield, TdVpn, TdTor,
         Go, Raise, Begin
    <3>. QED BY <3>1, <3>2 DEF TypeOK, TasksOK
  <2>3. \A u \in Tasks \ {t} : pc'[u] \notin {"bootstrap", "td_shield", "td_vpn", "td_tor"}
    BY <2>2 DEF Critical, Building, Tearing
  <2> USE <2>3 DEF Go, Raise, TypeOK, TasksOK, torVars, rules
  <2>4. CASE TorAlready(t) \/ TorAttach(t)
    BY <2>4 DEF TorAlready, TorAttach, AfterTor
  <2>5. CASE TorSpawn(t)
    BY <2>5 DEF TorSpawn
  <2>6. CASE TorBootstrapped(t)
    BY <2>6 DEF TorBootstrapped, AfterTor
  <2>7. CASE TorStalled(t)
    BY <2>7 DEF TorStalled, DaemonStop
  <2>8. CASE EngageTransparent(t)
    BY <2>8 DEF EngageTransparent
  <2>9. CASE CheckSocks(t) \/ VpnSpawn(t) \/ VpnUp(t) \/ VpnFailed(t) \/ CheckTunnel(t)
    BY <2>9 DEF CheckSocks, VpnSpawn, VpnUp, VpnFailed, CheckTunnel, AfterVpn
  <2>10. CASE StartShield(t) \/ Verify(t) \/ Judge(t) \/ Persist(t)
    BY <2>10 DEF StartShield, Verify, Judge, Persist
  <2>11. CASE TdTransparent(t)
    BY <2>11 DEF TdTransparent, ReleaseRedirect
  <2>12. CASE TdShield(t) \/ TdVpn(t)
    BY <2>12 DEF TdShield, TdVpn
  <2>13. CASE TdTor(t)
    <3>1. trans' = trans /\ trans # "on"
      BY <2>13 DEF TdTor
    <3>2. torExt' => ForeignTor \/ torProc' # "none"
      BY <2>13 DEF TdTor, DaemonStop
    <3>3. pc'[t] \notin {"bootstrap", "td_shield", "td_vpn", "td_tor"}
      BY <2>13 DEF TdTor, Begin, First
    <3>. QED BY <3>1, <3>2, <3>3
  <2>. QED BY <1>5, <2>4, <2>5, <2>6, <2>7, <2>8, <2>9, <2>10, <2>11, <2>12, <2>13
           DEF Build, TearDown
<1>6. CASE BootTransparent
  BY <1>6 DEF BootTransparent, tasks, torVars
<1>7. CASE BootKillSwitch \/ WatchdogTick \/ WatchdogVerdict \/ WatchdogJudge \/ ShieldToggled
  BY <1>7 DEF BootKillSwitch, WatchdogTick, WatchdogVerdict, WatchdogJudge, ShieldToggled,
     tasks, torVars, rules
<1>8. CASE Environment \/ UNCHANGED vars
  BY <1>8 DEF Environment, ToggleRotation, ToggleShuffle, ToggleShield, TorCrash, vars,
     tasks, torVars, rules
<1>. QED BY <1>1, <1>2, <1>3, <1>4, <1>5, <1>6, <1>7, <1>8
         DEF Next, Request, Work, Background, Closed

(* While Tor does not crash, the machine's traffic is never redirected to a Tor *)
(* that is not there: not by an abort, a failed start, a teardown or a clean-up. *)
THEOREM RedirectHasTor == ASSUME ~Crashes PROVE Spec => []TransparentNeedsTor
<1>1. Init => RedirectInv
  BY DEF Init, RedirectInv, TransparentNeedsTor
<1>2. TypeOK /\ LockDiscipline /\ RedirectInv /\ [Next]_vars => RedirectInv'
  BY RedirectStep
<1>3. RedirectInv => TransparentNeedsTor
  BY DEF RedirectInv
<1>. QED BY <1>1, <1>2, <1>3, TypeCorrect, OneAtATime, PTL DEF Spec

-----------------------------------------------------------------------------
(* The Shield and Tor. *)

(* The strengthening of ShieldUpstreamAlive: without a route nothing is forwarded to *)
(* Tor, so a Tor that is stopped while a route is built is nobody's upstream; and    *)
(* whoever is about to start the Shield on Tor has one.                              *)
UpstreamInv ==
  /\ ShieldUpstreamAlive
  /\ shieldAsk = "none"
  /\ mode = "none" => shield # "tor"
  /\ \A t \in Tasks :
       /\ pc[t] \in {"td_vpn", "td_tor"} => shield # "tor"
       /\ pc[t] \in {"transparent", "shield"} /\ WithTor(want[t]) => TorRunning

LEMMA UpstreamStep ==
  ASSUME TypeOK, LockDiscipline, FreshSlate, Itinerary, UpstreamInv, [Next]_vars,
         ~Crashes, ~Toggles
  PROVE  UpstreamInv'
<1> USE DEF UpstreamInv, ShieldUpstreamAlive, TorRunning
<1>1. CASE (\E t \in Tasks : Request(t) \/ Exit(t) \/ StopSchedulers(t)) \/ Background
             \/ Environment \/ UNCHANGED vars
  <2>1. UNCHANGED <<torProc, torExt, shield, shieldAsk>>
    BY <1>1 DEF Request, UserConnect, UserSwitch, UserDisconnect, UserQuit, Exit, StopSchedulers,
       Background, BootTransparent, BootKillSwitch, WatchdogTick, WatchdogVerdict, WatchdogJudge,
       ShieldToggled, Environment, Playing, ToggleRotation, ToggleShuffle, ToggleShield, TorCrash,
       torVars, dns, vars
  <2>2. mode' = mode /\ \A u \in Tasks : pc'[u] \in Critical => pc'[u] = pc[u] /\ want'[u] = want[u]
    BY <1>1, OutsideActs
  <2>. QED BY <2>1, <2>2 DEF Critical, Building, Tearing
<1>2. ASSUME NEW t \in Tasks, Enter(t) PROVE UpstreamInv'
  <2>1. \A u \in Tasks \ {t} : pc'[u] \notin {"td_vpn", "td_tor", "transparent", "shield"}
    BY <1>2, EntersAlone DEF Critical, Building, Tearing
  <2>2. pc'[t] \in {"tor", "vpn", "td_transparent"}
    BY <1>2 DEF Enter, Begin, First, TypeOK, TasksOK
  <2>. QED BY <1>2, <2>1, <2>2 DEF Enter, torVars, dns
<1>3. ASSUME NEW t \in Tasks, Build(t) \/ TearDown(t) PROVE UpstreamInv'
  <2>1. /\ \A u \in Tasks : pc'[u] # "idle" => want'[u] = want[u]
        /\ \A u \in Tasks \ {t} : pc'[u] \notin {"td_vpn", "td_tor", "transparent", "shield"}
    BY <1>3, HolderActs DEF Critical, Building, Tearing
  <2> USE <2>1 DEF Go, Raise, TypeOK, TasksOK, torVars, dns, route
  <2>2. CASE TorAlready(t)
    BY <2>2 DEF TorAlready, TorUsable, AfterTor
  <2>3. CASE TorAttach(t)
    BY <2>3 DEF TorAttach, AfterTor
  <2>4. CASE TorSpawn(t)
    BY <2>4 DEF TorSpawn
  <2>5. CASE TorBootstrapped(t)
    BY <2>5 DEF TorBootstrapped, AfterTor
  <2>6. CASE TorStalled(t)
    <3>1. shield # "tor"
      BY <2>6 DEF TorStalled, FreshSlate, BeforeMode
    <3>. QED BY <2>6, <3>1 DEF TorStalled
  <2>7. CASE EngageTransparent(t)
    BY <2>7 DEF EngageTransparent
  <2>8. CASE CheckSocks(t) \/ VpnSpawn(t) \/ VpnFailed(t) \/ CheckTunnel(t)
    BY <2>8 DEF CheckSocks, VpnSpawn, VpnFailed, CheckTunnel
  <2>9. CASE VpnUp(t)
    <3>1. AfterVpn(want[t]) = "shield" => ~WithTor(want[t])
      BY <2>9 DEF VpnUp, AfterVpn, Itinerary, WithTor, UsesVpn
    <3>2. AfterVpn(want[t]) \in {"tunnel", "shield"}
      BY DEF AfterVpn
    <3>. QED BY <2>9, <3>1, <3>2 DEF VpnUp
  <2>10. CASE StartShield(t)
    <3>1. mode' # "none"
      BY <2>10 DEF StartShield, Modes
    <3>2. shield' = "tor" => TorRunning
      BY <2>10 DEF StartShield
    <3>. QED BY <2>10, <3>1, <3>2 DEF StartShield
  <2>11. CASE Verify(t) \/ Judge(t) \/ Persist(t)
    BY <2>11 DEF Verify, Judge, Persist
  <2>12. CASE TdTransparent(t) \/ TdShield(t) \/ TdVpn(t)
    BY <2>12 DEF TdTransparent, TdShield, ShieldOff, TdVpn
  <2>13. CASE TdTor(t)
    BY <2>13 DEF TdTor, Begin, First
  <2>. QED BY <1>3, <2>2, <2>3, <2>4, <2>5, <2>6, <2>7, <2>8, <2>9, <2>10, <2>11, <2>12, <2>13
           DEF Build, TearDown
<1>. QED BY <1>1, <1>2, <1>3, Actors

(* While Tor does not crash and nobody presses the Shield's own key, the Shield never *)
(* forwards to the DNSPort of a Tor that is not there: a route's Shield is stopped    *)
(* before its Tor, and an aborted connect leaves none.                                *)
THEOREM ShieldHasUpstream ==
  ASSUME ~Crashes, ~Toggles PROVE Spec => []ShieldUpstreamAlive
<1>1. Init => UpstreamInv
  BY DEF Init, UpstreamInv, ShieldUpstreamAlive
<1>2. TypeOK /\ LockDiscipline /\ FreshSlate /\ Itinerary /\ UpstreamInv /\ [Next]_vars
        => UpstreamInv'
  BY UpstreamStep
<1>3. UpstreamInv => ShieldUpstreamAlive
  BY DEF UpstreamInv
<1>. QED BY <1>1, <1>2, <1>3, TypeCorrect, OneAtATime, Slate, OnTheWay, PTL DEF Spec

-----------------------------------------------------------------------------
(* The hops of a route. *)

OnlyHopsOf(m) ==
  /\ UsesTor(m) \/ ~TorRunning
  /\ UsesVpn(m) \/ ~vpnProc
  /\ WithTor(m) \/ trans # "on"

NothingUp == ~TorRunning /\ ~vpnProc /\ trans # "on"

(* The engines' own records are right: a daemon is attached to or ours, a bootstrap is *)
(* of our own, and a tunnel that nobody is bringing up is recorded.                    *)
RecordsTrue ==
  /\ quit # "exiting" /\ "tunnel" \notin strays
  /\ ~(torExt /\ torProc # "none")
  /\ vpnProc => vpnCur \/ \E t \in Tasks : pc[t] = "tunnelling"
  /\ \A t \in Tasks : pc[t] = "bootstrap" => torProc = "booting" /\ ~torExt

(* The strengthening of OnlyItsHops, by where the holder of the lock is. *)
HopsInv ==
  /\ OnlyItsHops
  /\ RecordsTrue
  /\ mode = "none" /\ (\A t \in Tasks : pc[t] \notin Critical) => NothingUp
  /\ \A t \in Tasks :
       /\ pc[t] \in BeforeMode => OnlyHopsOf(want[t])
       /\ pc[t] \in {"verify", "passed", "failed", "persist"} => mode # "none"
       /\ pc[t] = "tor" => ~TorRunning
       /\ pc[t] \in {"vpn", "tunnelling", "tunnel"} /\ want[t] = "tor_over_vpn" => ~TorRunning
       /\ pc[t] \in {"td_shield", "td_vpn", "td_tor"} => trans # "on"
       /\ pc[t] = "td_tor" => ~vpnProc

(* A request of a program does not touch who is inside; nothing cancels it. *)
LEMMA InsideStays ==
  ASSUME TypeOK, quit # "exiting", ~Tui,
         (\E t \in Tasks : Request(t) \/ Exit(t) \/ StopSchedulers(t)) \/ Background
           \/ Environment \/ UNCHANGED vars
  PROVE  \A u \in Tasks : pc[u] \in Critical => pc'[u] = pc[u] /\ want'[u] = want[u]
<1> USE DEF TypeOK, TasksOK, Critical, Building, Tearing, tasks
<1>1. ASSUME NEW t \in Tasks, NEW m \in Picks, UserConnect(t, m)
      PROVE  \A u \in Tasks : pc[u] \in Critical => pc'[u] = pc[u] /\ want'[u] = want[u]
  BY <1>1 DEF UserConnect, Aborted, Forgotten
<1>2. ASSUME NEW t \in Tasks, NEW m \in Picks, UserSwitch(t, m)
      PROVE  \A u \in Tasks : pc[u] \in Critical => pc'[u] = pc[u] /\ want'[u] = want[u]
  BY <1>2 DEF UserSwitch
<1>3. ASSUME NEW t \in Tasks, UserDisconnect(t) \/ UserQuit(t) \/ Exit(t) \/ StopSchedulers(t)
      PROVE  \A u \in Tasks : pc[u] \in Critical => pc'[u] = pc[u] /\ want'[u] = want[u]
  BY <1>3 DEF UserDisconnect, UserQuit, Exit, StopSchedulers, Go
<1>4. CASE Background \/ Environment \/ UNCHANGED vars
  BY <1>4 DEF Background, BootTransparent, BootKillSwitch, WatchdogTick, WatchdogVerdict,
     WatchdogJudge, ShieldToggled, Environment, ToggleRotation, ToggleShuffle, ToggleShield,
     TorCrash, vars
<1>. QED BY <1>1, <1>2, <1>3, <1>4 DEF Request

(* So it keeps what is known of the hops. *)
LEMMA HopsOutside ==
  ASSUME TypeOK, HopsInv, ~Tui,
         (\E t \in Tasks : Request(t) \/ Exit(t) \/ StopSchedulers(t)) \/ Background
           \/ Environment \/ UNCHANGED vars
  PROVE  HopsInv'
<1>1. /\ torExt' = torExt /\ torProc' \in {torProc, "none"} /\ (torProc = "booting" => torProc' = torProc)
      /\ UNCHANGED <<vpnProc, vpnCur>> /\ (trans' = "on" => trans = "on") /\ quit' # "exiting"
      /\ strays' \subseteq strays
  BY DEF CutShort, Aborted, HopsInv, RecordsTrue, Request, UserConnect, UserSwitch, UserDisconnect, UserQuit, Exit,
     StopSchedulers, Background, BootTransparent, BootKillSwitch, WatchdogTick, WatchdogVerdict,
     WatchdogJudge, ShieldToggled, Environment, ToggleRotation, ToggleShuffle, ToggleShield,
     TorCrash, torVars, vpnVars, rules, life, vars
<1>2. mode' = mode /\ \A u \in Tasks : pc'[u] \in Critical => pc'[u] = pc[u] /\ want'[u] = want[u]
  BY OutsideActs
<1>3. \A u \in Tasks : pc[u] \in Critical => pc'[u] = pc[u] /\ want'[u] = want[u]
  BY InsideStays DEF HopsInv, RecordsTrue
<1>4. TorRunning' => TorRunning
  BY <1>1 DEF TorRunning
<1>5. OnlyItsHops' /\ \A m : OnlyHopsOf(m) => OnlyHopsOf(m)'
  BY <1>1, <1>2, <1>4 DEF HopsInv, OnlyItsHops, OnlyHopsOf
<1>6. RecordsTrue'
  BY <1>1, <1>2, <1>3 DEF HopsInv, RecordsTrue, Critical, Building
<1>7. mode' = "none" /\ (\A t \in Tasks : pc'[t] \notin Critical) => NothingUp'
  BY <1>1, <1>2, <1>3, <1>4 DEF HopsInv, NothingUp
<1>8. \A t \in Tasks : pc'[t] \in BeforeMode => OnlyHopsOf(want[t])'
  BY <1>2, <1>5 DEF HopsInv, OnlyHopsOf, BeforeMode, Critical, Building
<1>9. \A t \in Tasks :
        /\ pc'[t] \in {"verify", "passed", "failed", "persist"} => mode' # "none"
        /\ pc'[t] = "tor" => ~TorRunning'
        /\ pc'[t] \in {"vpn", "tunnelling", "tunnel"} /\ want'[t] = "tor_over_vpn" => ~TorRunning'
        /\ pc'[t] \in {"td_shield", "td_vpn", "td_tor"} => trans' # "on"
        /\ pc'[t] = "td_tor" => ~vpnProc'
  BY <1>1, <1>2, <1>4 DEF HopsInv, Critical, Building, Tearing
<1>. QED BY <1>5, <1>6, <1>7, <1>8, <1>9 DEF HopsInv

(* Who enters with no route finds nothing up. *)
LEMMA HopsEnter ==
  ASSUME TypeOK, LockDiscipline, HopsInv, NEW t \in Tasks, Enter(t) PROVE HopsInv'
<1>1. UNCHANGED <<mode, want, torProc, torExt, vpnProc, vpnCur, trans, quit, strays>>
  BY DEF Enter, torVars, vpnVars, rules, life
<1>2. /\ \A u \in Tasks : pc[u] \notin Critical
      /\ \A u \in Tasks \ {t} : pc'[u] \notin Critical
  BY EntersAlone
<1>3. \/ pc'[t] = "td_transparent"
      \/ mode = "none" /\ pc'[t] = First(want[t])
  BY DEF Enter, BuildsAtOnce, Begin, TypeOK, TasksOK
<1>4. mode = "none" => NothingUp
  BY <1>2 DEF HopsInv
<1>5. vpnProc => vpnCur
  BY <1>2 DEF HopsInv, RecordsTrue, Critical, Building
<1>. USE <1>1 DEF TorRunning
<1>6. OnlyItsHops' /\ RecordsTrue'
  BY <1>2, <1>3, <1>5 DEF HopsInv, OnlyItsHops, RecordsTrue, First, Critical, Building
<1>7. pc'[t] \in Critical
  BY <1>3 DEF First, Critical, Building, Tearing
<1>8. \A u \in Tasks \ {t} : pc'[u] \notin BeforeMode
  BY <1>2 DEF BeforeMode, Critical, Building
<1>9. pc'[t] \in BeforeMode => OnlyHopsOf(want[t])' /\ ~TorRunning'
  BY <1>3, <1>4 DEF BeforeMode, NothingUp, OnlyHopsOf
<1>10. pc'[t] \in {"td_transparent", "tor", "vpn"}
  BY <1>3 DEF First
<1>. QED BY <1>2, <1>6, <1>7, <1>8, <1>9, <1>10 DEF HopsInv, BeforeMode, Critical, Building, Tearing

(* The engine recognises a tunnel that came up, wherever the user picks a mode with one. *)
TunnelsSeen == \A m \in Picks : UsesVpn(m) => TargetCheck
SeesTunnels == \A t \in Tasks : UsesVpn(want[t]) => TargetCheck

LEMMA TunnelsAreSeen == ASSUME TunnelsSeen PROVE Spec => []SeesTunnels
<1>1. Init => SeesTunnels
  BY DEF Init, SeesTunnels, UsesVpn
<1>2. TypeOK /\ LockDiscipline /\ SeesTunnels /\ [Next]_vars => SeesTunnels'
  <2>. SUFFICES ASSUME TypeOK, LockDiscipline, SeesTunnels, [Next]_vars PROVE SeesTunnels'
    OBVIOUS
  <2>. USE DEF SeesTunnels
  <2>1. ASSUME NEW t \in Tasks, NEW m \in Picks, UserConnect(t, m) \/ UserSwitch(t, m)
        PROVE  SeesTunnels'
    BY <2>1 DEF UserConnect, UserSwitch, Forgotten, UsesVpn, TunnelsSeen, TypeOK, TasksOK
  <2>2. ASSUME NEW t \in Tasks, UserDisconnect(t) \/ UserQuit(t) \/ Exit(t) \/ StopSchedulers(t)
        PROVE  SeesTunnels'
    BY <2>2 DEF UserDisconnect, UserQuit, Exit, StopSchedulers, Go, Forgotten, UsesVpn
  <2>3. ASSUME NEW t \in Tasks, Enter(t) \/ Build(t) \/ TearDown(t) PROVE SeesTunnels'
    <3>1. \A u \in Tasks : want'[u] \in {want[u], "tor_only"}
      BY <2>3
      DEF Enter, Build, TorAlready, TorAttach, TorSpawn, TorBootstrapped, TorStalled,
          EngageTransparent, CheckSocks, VpnSpawn, VpnUp, VpnFailed, CheckTunnel, StartShield,
          Verify, Judge, Persist, TearDown, TdTransparent, TdShield, TdVpn, TdTor, Go, Raise,
          Forgotten
    <3>. QED BY <3>1 DEF UsesVpn
  <2>4. CASE Background \/ Environment \/ UNCHANGED vars
    BY <2>4 DEF Background, BootTransparent, BootKillSwitch, WatchdogTick, WatchdogVerdict,
       WatchdogJudge, ShieldToggled, Environment, ToggleRotation, ToggleShuffle, ToggleShield,
       TorCrash, tasks, vars
  <2>. QED BY Actors, <2>1, <2>2, <2>3, <2>4 DEF Request
<1>. QED BY <1>1, <1>2, TypeCorrect, OneAtATime, PTL DEF Spec

(* The steps of who builds. *)
LEMMA HopsBuild ==
  ASSUME TypeOK, LockDiscipline, FreshSlate, Itinerary, HopsInv, SeesTunnels,
         NEW t \in Tasks, Build(t)
  PROVE  HopsInv'
<1>1. /\ pc[t] \in Critical /\ \A u \in Tasks : pc'[u] # "idle" => want'[u] = want[u]
      /\ \A u \in Tasks \ {t} : pc[u] \notin Critical /\ pc'[u] \notin Critical
  BY HolderActs
<1>2. \A u \in Tasks \ {t} :
        /\ pc'[u] \notin {"bootstrap", "tunnelling", "tor", "tunnel", "vpn", "td_shield", "td_vpn", "td_tor"}
        /\ pc'[u] \notin {"verify", "passed", "failed", "persist"} /\ pc'[u] \notin BeforeMode
        /\ pc[u] # "tunnelling"
  BY <1>1 DEF BeforeMode, Critical, Building, Tearing
<1>3. mode = "none" \/ pc[t] \notin BeforeMode
  BY DEF FreshSlate
<1>. USE <1>1, <1>2, <1>3
         DEF HopsInv, OnlyItsHops, OnlyHopsOf, RecordsTrue, TorRunning, Go, Raise, BeforeMode,
             TypeOK, TasksOK, torVars, vpnVars, rules, route, life
<1>4. CASE TorAlready(t) \/ TorAttach(t)
  <2>1. ~TorRunning /\ UsesTor(want[t]) /\ pc[t] = "tor"
    BY <1>4 DEF TorAlready, TorAttach, Itinerary
  <2>2. TorAttach(t) /\ torProc = "none" /\ mode = "none"
    BY <1>4, <2>1 DEF TorAlready, TorAttach, TorUsable
  <2>3. pc'[t] \in {"socks", "transparent", "td_transparent"}
    BY <2>2 DEF TorAttach, AfterTor
  <2>4. pc'[t] \in Critical
    BY <2>3 DEF Critical, Building, Tearing
  <2>. QED BY <2>1, <2>2, <2>3, <2>4 DEF TorAttach
<1>5. CASE TorSpawn(t)
  <2>1. UsesTor(want[t]) /\ pc[t] = "tor" /\ mode = "none"
    BY <1>5 DEF TorSpawn, Itinerary
  <2>2. pc'[t] \in {"bootstrap", "td_transparent"}
    BY <1>5 DEF TorSpawn
  <2>3. pc'[t] \in Critical
    BY <2>2 DEF Critical, Building, Tearing
  <2>. QED BY <1>5, <2>1, <2>2, <2>3 DEF TorSpawn
<1>6. CASE TorBootstrapped(t) \/ TorStalled(t)
  <2>1. UsesTor(want[t]) /\ mode = "none" /\ pc[t] = "bootstrap" /\ ~torExt /\ torProc = "booting"
    BY <1>6 DEF TorBootstrapped, TorStalled, Itinerary
  <2>2. pc'[t] \in {"socks", "transparent", "td_transparent"}
    BY <1>6 DEF TorBootstrapped, TorStalled, AfterTor
  <2>3. pc'[t] \in Critical
    BY <2>2 DEF Critical, Building, Tearing
  <2>4. /\ torExt' = FALSE /\ torProc' \in {"up", "none"}
        /\ UNCHANGED <<vpnProc, vpnCur, trans, mode, quit, strays>>
    BY <1>6, <2>1 DEF TorBootstrapped, TorStalled, DaemonStop
  <2>. QED BY <2>1, <2>2, <2>3, <2>4
<1>7. CASE EngageTransparent(t)
  <2>1. WithTor(want[t]) /\ pc[t] = "transparent" /\ mode = "none"
    BY <1>7 DEF EngageTransparent, Itinerary
  <2>2. pc'[t] = "shield" /\ "shield" \in Critical
    BY <1>7 DEF EngageTransparent, Critical, Building
  <2>. QED BY <1>7, <2>1, <2>2 DEF EngageTransparent
<1>8. CASE CheckSocks(t) \/ CheckTunnel(t)
  <2>1. pc[t] \in {"socks", "tunnel"} /\ mode = "none"
        /\ UNCHANGED <<torProc, torExt, vpnProc, vpnCur, trans, mode, quit, strays>>
    BY <1>8 DEF CheckSocks, CheckTunnel
  <2>2. \/ pc'[t] = "td_transparent"
        \/ pc'[t] = "vpn" /\ want[t] = "vpn_over_tor"
        \/ pc'[t] = "tor" /\ want[t] = "tor_over_vpn" /\ pc[t] = "tunnel"
    BY <1>8 DEF CheckSocks, CheckTunnel, Itinerary
  <2>3. pc'[t] \in Critical
    BY <2>2 DEF Critical, Building, Tearing
  <2>. QED BY <2>1, <2>2, <2>3
<1>9. CASE VpnSpawn(t)
  <2>1. UsesVpn(want[t]) /\ pc[t] = "vpn" /\ mode = "none"
    BY <1>9 DEF VpnSpawn, Itinerary
  <2>2. pc'[t] \in {"tunnelling", "td_transparent"} /\ (vpnProc' # vpnProc => pc'[t] = "tunnelling")
    BY <1>9 DEF VpnSpawn
  <2>3. pc'[t] \in Critical
    BY <2>2 DEF Critical, Building, Tearing
  <2>4. UNCHANGED <<torProc, torExt, vpnCur, trans, mode, quit, strays>>
    BY <1>9 DEF VpnSpawn
  <2>. QED BY <2>1, <2>2, <2>3, <2>4
<1>10. CASE VpnUp(t) \/ VpnFailed(t)
  <2>1. UsesVpn(want[t]) /\ pc[t] = "tunnelling" /\ mode = "none"
    BY <1>10 DEF VpnUp, VpnFailed, Itinerary
  <2>2. \/ pc'[t] = "td_transparent"
        \/ pc'[t] = "tunnel" /\ want[t] = "tor_over_vpn"
        \/ pc'[t] = "shield"
    BY <1>10 DEF VpnUp, VpnFailed, AfterVpn
  <2>3. pc'[t] \in Critical
    BY <2>2 DEF Critical, Building, Tearing
  <2>6. VpnFailed(t) => ~vpnProc'
    BY DEF VpnFailed, TunnelGone
  <2>7. VpnUp(t) => vpnProc' = vpnProc /\ vpnCur'
    BY <2>1 DEF VpnUp, SeesTunnels
  <2>4. UNCHANGED <<torProc, torExt, trans, mode, quit>> /\ (vpnProc' => vpnProc /\ vpnCur')
    BY <1>10, <2>6, <2>7 DEF VpnUp, VpnFailed
  <2>5. "tunnel" \notin strays'
    BY <1>10, <2>1 DEF VpnUp, VpnFailed, Standing, SwitchLeft, SeesTunnels
  <2>. QED BY <2>1, <2>2, <2>3, <2>4, <2>5
<1>11. CASE StartShield(t)
  <2>1. mode' = want[t] /\ mode' # "none" /\ pc[t] = "shield" /\ pc'[t] = "verify"
    BY <1>11 DEF StartShield, Modes
  <2>. QED BY <1>11, <2>1 DEF StartShield
<1>12. CASE Verify(t) \/ Judge(t)
  <2>1. pc'[t] \in {"passed", "failed", "persist", "td_transparent"} /\ mode' = mode /\ mode # "none"
        /\ pc[t] \in {"verify", "passed", "failed"}
    BY <1>12 DEF Verify, Judge
  <2>. QED BY <1>12, <2>1 DEF Verify, Judge
<1>13. CASE Persist(t)
  BY <1>13 DEF Persist
<1>. QED BY <1>4, <1>5, <1>6, <1>7, <1>8, <1>9, <1>10, <1>11, <1>12, <1>13 DEF Build

(* A teardown leaves nothing up. *)
LEMMA HopsTearDown ==
  ASSUME TypeOK, LockDiscipline, HopsInv, ~Tui, NEW t \in Tasks, TearDown(t)
  PROVE  HopsInv'
<1>1. /\ pc[t] \in Critical /\ \A u \in Tasks : pc'[u] # "idle" => want'[u] = want[u]
      /\ \A u \in Tasks \ {t} : pc[u] \notin Critical /\ pc'[u] \notin Critical
  BY HolderActs
<1>2. \A u \in Tasks \ {t} :
        /\ pc'[u] \notin {"bootstrap", "tunnelling", "tor", "tunnel", "vpn", "td_shield", "td_vpn", "td_tor"}
        /\ pc'[u] \notin {"verify", "passed", "failed", "persist"} /\ pc'[u] \notin BeforeMode
        /\ pc[u] # "tunnelling"
  BY <1>1 DEF BeforeMode, Critical, Building, Tearing
<1>. USE <1>1, <1>2
         DEF HopsInv, OnlyItsHops, RecordsTrue, TorRunning, Go,
             TypeOK, TasksOK, torVars, vpnVars, rules, route, life
<1>3. CASE TdTransparent(t) \/ TdShield(t) \/ TdVpn(t)
  <2>1. UNCHANGED <<torProc, torExt, mode, quit>> /\ trans' # "on"
    BY <1>3 DEF TdTransparent, ReleaseRedirect, TdShield, TdVpn
  <2>2. vpnProc' => vpnProc /\ vpnCur' /\ ~TdVpn(t)
    BY <1>3 DEF TdTransparent, TdShield, TdVpn, TunnelDown, TunnelGone
  <2>5. "tunnel" \notin strays'
    BY <1>3 DEF TdTransparent, TdShield, TdVpn, Standing
  <2>3. pc'[t] \in {"td_shield", "td_vpn", "td_tor"} /\ (pc'[t] = "td_tor" => ~vpnProc')
    BY <1>3, <2>2 DEF TdTransparent, TdShield, TdVpn
  <2>4. pc'[t] \in Critical /\ pc'[t] \notin BeforeMode
    BY <2>3 DEF BeforeMode, Critical, Tearing
  <2>. QED BY <2>1, <2>2, <2>3, <2>4, <2>5
<1>4. CASE TdTor(t)
  <2>1. ~TorRunning'
    BY <1>4 DEF TdTor, DaemonStop
  <2>2. trans' # "on" /\ ~vpnProc' /\ mode' = "none" /\ quit' # "exiting"
    BY <1>4 DEF TdTor, ModeOff, AfterShutdown
  <2>4. "tunnel" \notin strays'
    BY <1>4 DEF TdTor
  <2>3. pc'[t] \in {"tor", "vpn", "wait", "idle"}
    BY <1>4 DEF TdTor, Begin, First
  <2>. QED BY <1>4, <2>1, <2>2, <2>3, <2>4 DEF TdTor, NothingUp, OnlyHopsOf
<1>. QED BY <1>3, <1>4 DEF TearDown

LEMMA HopsHold ==
  ASSUME ~Tui, TunnelsSeen PROVE Spec => []HopsInv
<1>1. Init => HopsInv
  BY DEF Init, HopsInv, OnlyItsHops, RecordsTrue, NothingUp, TorRunning, BeforeMode
<1>2. TypeOK /\ LockDiscipline /\ FreshSlate /\ Itinerary /\ HopsInv /\ SeesTunnels
       /\ [Next]_vars => HopsInv'
  BY Actors, HopsOutside, HopsEnter, HopsBuild, HopsTearDown
<1>. QED BY <1>1, <1>2, TypeCorrect, OneAtATime, Slate, OnTheWay, TunnelsAreSeen, PTL DEF Spec

(* A program's route never has a hop of another mode: neither of the route it replaced *)
(* nor of one that failed on its way up, whatever else is asked for and whenever Tor   *)
(* dies.  Of the code as it is, where no first tunnel is recognised, this is said for  *)
(* Picks without a tunnel; with the tunnel check repaired, for all modes.              *)
THEOREM NoForeignHops ==
  ASSUME ~Tui, TunnelsSeen PROVE Spec => []OnlyItsHops
<1>1. HopsInv => OnlyItsHops
  BY DEF HopsInv
<1>. QED BY <1>1, HopsHold, PTL

-----------------------------------------------------------------------------
(* The route as a whole. *)

(* What is up at each step of a program's request: who builds has the hops it came    *)
(* through, the Shield is only up beside a live route, and a program's clean-up at    *)
(* start is over before its first request.                                            *)
StageInv ==
  /\ shieldAsk = "none"
  /\ boot # "done" => AllIdle /\ trans # "on"
  /\ mode = "none" /\ (\A t \in Tasks : pc[t] \notin Tearing) => shield = "off"
  /\ \A t \in Tasks :
       /\ pc[t] \in BeforeMode \ {"shield"} => trans # "on"
       /\ pc[t] \in {"socks", "transparent"} => TorRunning
       /\ pc[t] \in {"tunnelling", "tunnel"} => vpnProc
       /\ pc[t] \in {"tor", "bootstrap", "transparent"} /\ want[t] = "tor_over_vpn" => vpnProc
       /\ pc[t] \in {"vpn", "tunnelling"} /\ want[t] = "vpn_over_tor" => TorRunning
       /\ pc[t] = "shield" => (UsesTor(want[t]) => TorRunning) /\ (UsesVpn(want[t]) => vpnProc)
       /\ pc[t] \in {"td_vpn", "td_tor"} => shield = "off"

(* A request of a program that is made, and one that waits, leaves who is inside alone. *)
LEMMA StageOutside ==
  ASSUME TypeOK, HopsInv, StageInv, ~Tui, ~Crashes,
         (\E t \in Tasks : Request(t) \/ Exit(t) \/ StopSchedulers(t)) \/ Background
           \/ Environment \/ UNCHANGED vars
  PROVE  /\ StageInv'
         /\ UNCHANGED <<torProc, torExt, vpnProc, shield>> /\ (trans' = "on" <=> trans = "on")
         /\ mode' = mode
         /\ \A u \in Tasks : pc[u] \in Critical \/ pc'[u] \in Critical
                               => pc'[u] = pc[u] /\ want'[u] = want[u]
<1>1. UNCHANGED <<torProc, torExt, vpnProc, shield, shieldAsk>>
  BY DEF StageInv, HopsInv, RecordsTrue, Request, UserConnect, UserSwitch, UserDisconnect, UserQuit,
     Exit, StopSchedulers, Background, BootTransparent, BootKillSwitch, WatchdogTick,
     WatchdogVerdict, WatchdogJudge, ShieldToggled, Environment, Playing, ToggleRotation,
     ToggleShuffle, ToggleShield, TorCrash, torVars, vpnVars, dns, vars
<1>2. (trans' = "on" <=> trans = "on") /\ (boot' # "done" => boot # "done" /\ AllIdle')
  <2>1. CASE BootTransparent \/ BootKillSwitch
    BY <2>1 DEF BootTransparent, BootKillSwitch, StageInv, AllIdle, tasks
  <2>2. CASE ~(BootTransparent \/ BootKillSwitch)
    <3>1. UNCHANGED <<trans, boot>>
      BY <2>2 DEF HopsInv, RecordsTrue, Request, UserConnect, UserSwitch, UserDisconnect, UserQuit,
         Exit, StopSchedulers, Background, WatchdogTick, WatchdogVerdict, WatchdogJudge,
         ShieldToggled, Environment, ToggleRotation, ToggleShuffle, ToggleShield, TorCrash,
         rules, life, vars
    <3>2. boot # "done" => pc' = pc
      BY <2>2 DEF HopsInv, RecordsTrue, StageInv, AllIdle, Request, UserConnect, MayConnect,
         UserSwitch, UserDisconnect, UserQuit, Exit, StopSchedulers, Background, WatchdogTick,
         WatchdogVerdict, WatchdogJudge, ShieldToggled, Environment, ToggleRotation, ToggleShuffle,
         ToggleShield, TorCrash, tasks, vars
    <3>. QED BY <3>1, <3>2 DEF StageInv, AllIdle
  <2>. QED BY <2>1, <2>2
<1>3. mode' = mode /\ \A u \in Tasks : pc'[u] \in Critical => pc'[u] = pc[u] /\ want'[u] = want[u]
  BY OutsideActs
<1>4. \A u \in Tasks : pc[u] \in Critical => pc'[u] = pc[u] /\ want'[u] = want[u]
  BY InsideStays DEF HopsInv, RecordsTrue
<1>5. TorRunning' = TorRunning
  BY <1>1 DEF TorRunning
<1>6. mode' = "none" /\ (\A t \in Tasks : pc'[t] \notin Tearing) => shield' = "off"
  BY <1>1, <1>3, <1>4 DEF StageInv, Critical
<1>7. \A t \in Tasks :
        /\ pc'[t] \in BeforeMode \ {"shield"} => trans' # "on"
        /\ pc'[t] \in {"socks", "transparent"} => TorRunning'
        /\ pc'[t] \in {"tunnelling", "tunnel"} => vpnProc'
        /\ pc'[t] \in {"tor", "bootstrap", "transparent"} /\ want'[t] = "tor_over_vpn" => vpnProc'
        /\ pc'[t] \in {"vpn", "tunnelling"} /\ want'[t] = "vpn_over_tor" => TorRunning'
        /\ pc'[t] = "shield" => (UsesTor(want'[t]) => TorRunning') /\ (UsesVpn(want'[t]) => vpnProc')
        /\ pc'[t] \in {"td_vpn", "td_tor"} => shield' = "off"
  BY <1>1, <1>2, <1>3, <1>5 DEF StageInv, BeforeMode, Critical, Building, Tearing
<1>. QED BY <1>1, <1>2, <1>3, <1>4, <1>6, <1>7 DEF StageInv

(* Who enters finds nothing up, or takes down what is. *)
LEMMA StageEnter ==
  ASSUME TypeOK, LockDiscipline, HopsInv, StageInv, NEW t \in Tasks, Enter(t)
  PROVE  StageInv'
<1>1. UNCHANGED <<mode, want, torProc, torExt, vpnProc, trans, shield, shieldAsk, boot>>
  BY DEF Enter, torVars, vpnVars, rules, dns, life
<1>2. /\ \A u \in Tasks : pc[u] \notin Critical
      /\ \A u \in Tasks \ {t} : pc'[u] \notin Critical
  BY EntersAlone
<1>3. \/ pc'[t] = "td_transparent"
      \/ mode = "none" /\ pc'[t] = First(want[t])
  BY DEF Enter, BuildsAtOnce, Begin, TypeOK, TasksOK
<1>4. mode = "none" => NothingUp /\ shield = "off"
  BY <1>2 DEF HopsInv, StageInv, Critical
<1>5. boot = "done"
  BY DEF StageInv, Enter, AllIdle
<1>6. \A u \in Tasks \ {t} : /\ pc'[u] \notin BeforeMode /\ pc'[u] \notin {"td_vpn", "td_tor"}
  BY <1>2 DEF BeforeMode, Critical, Building, Tearing
<1>7. pc'[t] = "tor" => want[t] # "tor_over_vpn"
  BY <1>3 DEF First
<1>8. pc'[t] = "vpn" => want[t] # "vpn_over_tor"
  BY <1>3 DEF First
<1>9. pc'[t] \in {"td_transparent", "tor", "vpn"} /\ (pc'[t] # "td_transparent" => trans # "on")
  BY <1>3, <1>4 DEF First, NothingUp
<1>10. mode' = "none" => shield' = "off"
  BY <1>1, <1>4
<1>. QED BY <1>1, <1>5, <1>6, <1>7, <1>8, <1>9, <1>10 DEF StageInv, BeforeMode

(* The steps of who builds. *)
LEMMA StageBuild ==
  ASSUME TypeOK, LockDiscipline, FreshSlate, Itinerary, HopsInv, StageInv, SeesTunnels,
         NEW t \in Tasks, Build(t)
  PROVE  StageInv'
<1>1. /\ pc[t] \in Critical /\ \A u \in Tasks : pc'[u] # "idle" => want'[u] = want[u]
      /\ \A u \in Tasks \ {t} : pc[u] \notin Critical /\ pc'[u] \notin Critical
  BY HolderActs
<1>2. \A u \in Tasks \ {t} : pc'[u] \notin BeforeMode /\ pc'[u] \notin {"td_vpn", "td_tor"}
  BY <1>1 DEF BeforeMode, Critical, Building, Tearing
<1>3. boot = "done" /\ pc[t] \notin Tearing
  <2>1. pc[t] # "idle" /\ pc[t] \notin Tearing
    BY DEF Build, TorAlready, TorAttach, TorSpawn, TorBootstrapped, TorStalled,
       EngageTransparent, CheckSocks, VpnSpawn, VpnUp, VpnFailed, CheckTunnel, StartShield,
       Verify, Judge, Persist, Tearing
  <2>. QED BY <2>1 DEF StageInv, AllIdle
<1>4. mode = "none" => shield = "off"
  <2>1. \A u \in Tasks : pc[u] \notin Tearing
    BY <1>1, <1>3 DEF Critical
  <2>. QED BY <2>1 DEF StageInv
<1>5. pc[t] \in BeforeMode => mode = "none" /\ shield = "off"
  BY <1>4 DEF FreshSlate
<1>. USE <1>1, <1>2, <1>3
         DEF Go, Raise, TypeOK, TasksOK, torVars, vpnVars, rules, dns, route, life
<1>6. ASSUME UNCHANGED <<mode, shield, shieldAsk, boot>>, mode = "none" => shield = "off",
             pc'[t] \in BeforeMode \ {"shield"} => trans' # "on",
             pc'[t] \in {"socks", "transparent"} => TorRunning',
             pc'[t] \in {"tunnelling", "tunnel"} => vpnProc',
             pc'[t] \in {"tor", "bootstrap", "transparent"} /\ want[t] = "tor_over_vpn" => vpnProc',
             pc'[t] \in {"vpn", "tunnelling"} /\ want[t] = "vpn_over_tor" => TorRunning',
             pc'[t] = "shield" => (UsesTor(want[t]) => TorRunning') /\ (UsesVpn(want[t]) => vpnProc'),
             pc'[t] \notin {"td_vpn", "td_tor"}
      PROVE  StageInv'
  <2>1. \A u \in Tasks :
          /\ pc'[u] \in BeforeMode \ {"shield"} => trans' # "on"
          /\ pc'[u] \in {"socks", "transparent"} => TorRunning'
          /\ pc'[u] \in {"tunnelling", "tunnel"} => vpnProc'
          /\ pc'[u] \in {"tor", "bootstrap", "transparent"} /\ want'[u] = "tor_over_vpn" => vpnProc'
          /\ pc'[u] \in {"vpn", "tunnelling"} /\ want'[u] = "vpn_over_tor" => TorRunning'
          /\ pc'[u] = "shield" => (UsesTor(want'[u]) => TorRunning') /\ (UsesVpn(want'[u]) => vpnProc')
          /\ pc'[u] \in {"td_vpn", "td_tor"} => shield' = "off"
    BY <1>6, <1>2 DEF BeforeMode
  <2>. QED BY <1>6, <1>3, <2>1 DEF StageInv
<1>7. CASE TorAlready(t) \/ TorAttach(t)
  <2>1. pc[t] = "tor" /\ (want[t] = "tor_over_vpn" => vpnProc) /\ trans # "on" /\ mode = "none"
        /\ shield = "off" /\ UsesTor(want[t])
    BY <1>5, <1>7 DEF TorAlready, TorAttach, StageInv, BeforeMode, Itinerary
  <2>2. TorRunning' /\ UNCHANGED <<mode, shield, shieldAsk, boot, trans, vpnProc>>
    BY <1>7 DEF TorAlready, TorAttach, TorUsable, TorRunning
  <2>3. pc'[t] \in {"socks", "transparent", "td_transparent"}
    BY <1>7 DEF TorAlready, TorAttach, AfterTor
  <2>. QED BY <1>6, <2>1, <2>2, <2>3 DEF BeforeMode
<1>8. CASE TorSpawn(t)
  <2>1. pc[t] = "tor" /\ (want[t] = "tor_over_vpn" => vpnProc) /\ trans # "on" /\ mode = "none"
        /\ shield = "off"
    BY <1>5, <1>8 DEF TorSpawn, StageInv, BeforeMode
  <2>2. UNCHANGED <<mode, shield, shieldAsk, boot, trans, vpnProc>>
        /\ pc'[t] \in {"bootstrap", "td_transparent"}
    BY <1>8 DEF TorSpawn
  <2>. QED BY <1>6, <2>1, <2>2
<1>9. CASE TorBootstrapped(t) \/ TorStalled(t)
  <2>1. pc[t] = "bootstrap" /\ (want[t] = "tor_over_vpn" => vpnProc) /\ trans # "on" /\ mode = "none"
        /\ shield = "off"
    BY <1>5, <1>9 DEF TorBootstrapped, TorStalled, StageInv, BeforeMode
  <2>2. UNCHANGED <<mode, shield, shieldAsk, boot, trans, vpnProc>>
    BY <1>9 DEF TorBootstrapped, TorStalled
  <2>3. \/ pc'[t] = "td_transparent"
        \/ pc'[t] \in {"socks", "transparent"} /\ TorRunning'
    BY <1>9 DEF TorBootstrapped, TorStalled, AfterTor, TorRunning
  <2>. QED BY <1>6, <2>1, <2>2, <2>3
<1>10. CASE EngageTransparent(t)
  <2>1. /\ pc[t] = "transparent" /\ TorRunning /\ (want[t] = "tor_over_vpn" => vpnProc)
        /\ WithTor(want[t]) /\ mode = "none" /\ shield = "off"
    BY <1>5, <1>10 DEF EngageTransparent, StageInv, BeforeMode, Itinerary
  <2>2. UNCHANGED <<mode, shield, shieldAsk, boot, vpnProc, torProc, torExt>> /\ pc'[t] = "shield"
    BY <1>10 DEF EngageTransparent
  <2>3. TorRunning' /\ (UsesVpn(want[t]) => vpnProc')
    BY <2>1, <2>2 DEF TorRunning, WithTor, UsesVpn
  <2>. QED BY <1>6, <2>1, <2>2, <2>3
<1>11. CASE CheckSocks(t) \/ CheckTunnel(t)
  <2>1. pc[t] \in {"socks", "tunnel"} /\ trans # "on" /\ mode = "none" /\ shield = "off"
    BY <1>5, <1>11 DEF CheckSocks, CheckTunnel, StageInv, BeforeMode
  <2>2. UNCHANGED <<mode, shield, shieldAsk, boot, trans, vpnProc, torProc, torExt>>
    BY <1>11 DEF CheckSocks, CheckTunnel
  <2>3. \/ pc'[t] = "td_transparent"
        \/ pc'[t] = "vpn" /\ TorRunning
        \/ pc'[t] = "tor" /\ vpnProc
    BY <1>11 DEF CheckSocks, CheckTunnel, StageInv
  <2>. QED BY <1>6, <2>1, <2>2, <2>3 DEF TorRunning
<1>12. CASE VpnSpawn(t)
  <2>1. pc[t] = "vpn" /\ trans # "on" /\ mode = "none" /\ shield = "off"
        /\ (want[t] = "vpn_over_tor" => TorRunning)
    BY <1>5, <1>12 DEF VpnSpawn, StageInv, BeforeMode
  <2>2. UNCHANGED <<mode, shield, shieldAsk, boot, trans, torProc, torExt>>
        /\ (pc'[t] = "td_transparent" \/ (pc'[t] = "tunnelling" /\ vpnProc' = TRUE))
    BY <1>12 DEF VpnSpawn
  <2>. QED BY <1>6, <2>1, <2>2 DEF TorRunning
<1>13. CASE VpnUp(t) \/ VpnFailed(t)
  <2>1. pc[t] = "tunnelling" /\ trans # "on" /\ mode = "none" /\ shield = "off" /\ vpnProc
        /\ (want[t] = "vpn_over_tor" => TorRunning) /\ UsesVpn(want[t])
    BY <1>5, <1>13 DEF VpnUp, VpnFailed, StageInv, BeforeMode, Itinerary
  <2>2. UNCHANGED <<mode, shield, shieldAsk, boot, trans, torProc, torExt>>
    BY <1>13 DEF VpnUp, VpnFailed
  <2>3. \/ pc'[t] = "td_transparent"
        \/ vpnProc' = vpnProc /\ pc'[t] = AfterVpn(want[t])
    BY <1>13 DEF VpnUp, VpnFailed
  <2>4. \/ pc'[t] = "td_transparent"
        \/ pc'[t] = "tunnel" /\ vpnProc'
        \/ pc'[t] = "shield" /\ vpnProc' /\ want[t] # "tor_over_vpn"
    BY <2>1, <2>3 DEF AfterVpn
  <2>5. want[t] # "tor_over_vpn" /\ UsesTor(want[t]) => want[t] = "vpn_over_tor"
    BY <2>1 DEF UsesTor, UsesVpn, Modes
  <2>. QED BY <1>6, <2>1, <2>2, <2>4, <2>5 DEF TorRunning
<1>14. CASE StartShield(t)
  <2>1. mode' # "none" /\ pc'[t] = "verify" /\ UNCHANGED <<shieldAsk, boot>>
    BY <1>14 DEF StartShield, Modes
  <2>. QED BY <1>3, <1>2, <2>1 DEF StageInv, BeforeMode
<1>15. CASE Verify(t) \/ Judge(t) \/ Persist(t)
  <2>1. UNCHANGED <<mode, shield, shieldAsk, boot>>
        /\ pc'[t] \in {"passed", "failed", "persist", "td_transparent", "idle"}
    BY <1>15 DEF Verify, Judge, Persist
  <2>. QED BY <1>6, <1>4, <2>1 DEF BeforeMode
<1>. QED BY <1>7, <1>8, <1>9, <1>10, <1>11, <1>12, <1>13, <1>14, <1>15 DEF Build

(* A teardown that is over leaves no Shield, and what it begins has nothing to go through. *)
LEMMA StageTearDown ==
  ASSUME TypeOK, LockDiscipline, HopsInv, StageInv, NEW t \in Tasks, TearDown(t)
  PROVE  StageInv'
<1>1. /\ pc[t] \in Critical /\ \A u \in Tasks : pc'[u] # "idle" => want'[u] = want[u]
      /\ \A u \in Tasks \ {t} : pc[u] \notin Critical /\ pc'[u] \notin Critical
  BY HolderActs
<1>2. \A u \in Tasks \ {t} : pc'[u] \notin BeforeMode /\ pc'[u] \notin {"td_vpn", "td_tor"}
  BY <1>1 DEF BeforeMode, Critical, Building, Tearing
<1>3. boot' = boot /\ boot = "done" /\ shieldAsk' = "none" /\ pc[t] \in Tearing
  BY DEF TearDown, TdTransparent, TdShield, TdVpn, TdTor, dns, life, StageInv, AllIdle, Tearing
<1>. USE DEF Go, TypeOK, TasksOK
<1>4. CASE TdTransparent(t) \/ TdShield(t) \/ TdVpn(t)
  <2>1. pc'[t] \in {"td_shield", "td_vpn", "td_tor"}
        /\ (pc'[t] \in {"td_vpn", "td_tor"} => shield' = "off")
    BY <1>4 DEF TdTransparent, TdShield, ShieldOff, TdVpn, StageInv, dns
  <2>2. pc'[t] \in Tearing /\ pc'[t] \notin BeforeMode
    BY <2>1 DEF Tearing, BeforeMode
  <2>. QED BY <1>1, <1>2, <1>3, <2>1, <2>2 DEF StageInv, BeforeMode
<1>5. CASE TdTor(t)
  <2>1. shield' = "off" /\ trans' # "on"
    BY <1>5 DEF TdTor, StageInv, HopsInv, dns, rules
  <2>2. pc'[t] \in {First(want[t]), "wait", "idle"}
    BY <1>5 DEF TdTor, Begin
  <2>3. pc'[t] \in {"tor", "vpn", "wait", "idle"} /\ (pc'[t] = "tor" => want[t] # "tor_over_vpn")
        /\ (pc'[t] = "vpn" => want[t] # "vpn_over_tor")
    BY <2>2 DEF First
  <2>. QED BY <1>1, <1>2, <1>3, <2>1, <2>3 DEF StageInv, BeforeMode
<1>. QED BY <1>4, <1>5 DEF TearDown

(* What Hops and Stage say of a program's session, at every step. *)
WholeInv ==
  TypeOK /\ LockDiscipline /\ FreshSlate /\ Itinerary /\ HopsInv /\ StageInv

LEMMA WholeHolds ==
  ASSUME ~Tui, TunnelsSeen, ~Crashes PROVE Spec => []WholeInv
<1>1. Init => StageInv
  BY DEF Init, StageInv, AllIdle, BeforeMode, Tearing
<1>2. TypeOK /\ LockDiscipline /\ FreshSlate /\ Itinerary /\ HopsInv /\ StageInv
       /\ SeesTunnels /\ [Next]_vars => StageInv'
  BY Actors, StageOutside, StageEnter, StageBuild, StageTearDown
<1>3. TypeOK /\ LockDiscipline /\ FreshSlate /\ Itinerary /\ HopsInv /\ StageInv => WholeInv
  BY DEF WholeInv
<1>. QED BY <1>1, <1>2, <1>3, TypeCorrect, OneAtATime, Slate, OnTheWay, HopsHold,
   TunnelsAreSeen, PTL DEF Spec

-----------------------------------------------------------------------------
(* Session implements Route. *)

(* The route that is seen, by where the task inside the lock is. *)
Seen ==
  /\ \A t \in Tasks :
       /\ pc[t] \in BeforeMode => Phase = "building" /\ Goal = want[t]
       /\ pc[t] \in Tearing => Phase = "tearing" /\ Goal = "none"
  /\ mode # "none" /\ (\A t \in Tasks : pc[t] \notin Tearing) => Phase = "live" /\ Goal = mode
  /\ mode = "none" /\ (\A t \in Tasks : pc[t] \notin Critical) => Phase = "down" /\ Goal = "none"

LEMMA RouteIsSeen == WholeInv => Seen
<1>. SUFFICES ASSUME WholeInv PROVE Seen
  OBVIOUS
<1>. USE DEF WholeInv
<1>1. ASSUME NEW t \in Tasks, pc[t] \in BeforeMode
      PROVE  Phase = "building" /\ Goal = want[t]
  <2>1. pc[t] \in Building /\ pc[t] \in Critical
    BY <1>1 DEF BeforeMode, Building, Critical
  <2>2. lock = t /\ mode = "none"
    BY <1>1, <2>1 DEF LockDiscipline, FreshSlate
  <2>3. \A u \in Tasks : pc[u] \notin Tearing
    BY <1>1, <2>2 DEF LockDiscipline, Critical, Tearing, BeforeMode
  <2>. QED BY <2>1, <2>2, <2>3 DEF Phase, Goal
<1>2. ASSUME NEW t \in Tasks, pc[t] \in Tearing
      PROVE  Phase = "tearing" /\ Goal = "none"
  BY <1>2 DEF Phase, Goal
<1>3. mode # "none" /\ (\A t \in Tasks : pc[t] \notin Tearing) => Phase = "live" /\ Goal = mode
  BY DEF Phase, Goal
<1>4. mode = "none" /\ (\A t \in Tasks : pc[t] \notin Critical) => Phase = "down" /\ Goal = "none"
  BY DEF Phase, Goal, Critical
<1>. QED BY <1>1, <1>2, <1>3, <1>4 DEF Seen

(* What is up, hop by hop. *)
LEMMA UpIs ==
  /\ Up \subseteq R!Hops
  /\ "tor" \in Up <=> TorRunning
  /\ "vpn" \in Up <=> vpnProc
  /\ "redirect" \in Up <=> trans = "on"
  /\ "shield" \in Up <=> shield # "off"
BY DEF Up, R!Hops

LEMMA NeededIs ==
  ASSUME NEW m
  PROVE  /\ R!Needed(m) \subseteq {"tor", "vpn"}
         /\ "tor" \in R!Needed(m) <=> UsesTor(m)
         /\ "vpn" \in R!Needed(m) <=> UsesVpn(m)
BY DEF R!Needed, R!UsesTor, R!UsesVpn, UsesTor, UsesVpn

(* Who builds adds hops in the order of the mode, serves, or fails. *)
LEMMA BuildIsRoute ==
  ASSUME WholeInv, WholeInv', Seen, Seen', SeesTunnels, NEW t \in Tasks, Build(t)
  PROVE  [R!Next]_(R!vars)
<1>. USE DEF WholeInv
<1>1. /\ pc[t] \in Critical /\ \A u \in Tasks : pc'[u] # "idle" => want'[u] = want[u]
      /\ \A u \in Tasks \ {t} : pc[u] \notin Critical /\ pc'[u] \notin Critical
  BY HolderActs
<1>2. want[t] \in Modes
  BY DEF TypeOK, TasksOK
<1>3. pc[t] \in BeforeMode => Phase = "building" /\ Goal = want[t]
  BY DEF Seen
<1>4. pc'[t] \in BeforeMode => Phase' = "building" /\ Goal' = want[t]
  BY <1>1 DEF Seen, BeforeMode
<1>5. pc'[t] \in Tearing => Phase' = "tearing" /\ Goal' = "none"
  BY DEF Seen
<1>6. ASSUME pc[t] \in BeforeMode, pc'[t] \in BeforeMode, Up' = Up
      PROVE  UNCHANGED R!vars
  BY <1>3, <1>4, <1>6 DEF R!vars
<1>7. ASSUME pc[t] \in BeforeMode, pc'[t] = "td_transparent", NEW h \in R!Needed(want[t]),
             Up' \in {Up, Up \cup {h}, Up \ {h}}
      PROVE  R!Next
  <2>1. Phase' = "tearing" /\ Goal' = "none"
    BY <1>5, <1>7 DEF Tearing
  <2>2. R!Fail
    BY <1>3, <1>7, <2>1 DEF R!Fail
  <2>. QED BY <2>2 DEF R!Next
<1>8. ASSUME NEW h \in R!Hops, pc[t] \in BeforeMode, pc'[t] \in BeforeMode,
             h \in R!Needed(want[t]) \/ (h = "redirect" /\ R!WithTor(want[t])),
             R!Under(want[t], h) \subseteq Up, Up' = Up \cup {h}
      PROVE  R!Next
  <2>1. R!Add(h)
    BY <1>3, <1>4, <1>8 DEF R!Add
  <2>. QED BY <1>8, <2>1 DEF R!Next
<1>. USE DEF Go, Raise, TypeOK, TasksOK, torVars, vpnVars, rules, dns, route
<1>9. CASE TorAlready(t) \/ TorAttach(t) \/ TorSpawn(t)
  <2>1. pc[t] = "tor" /\ ~TorRunning /\ "tor" \in R!Needed(want[t]) /\ pc[t] \in BeforeMode
    BY <1>9, NeededIs DEF TorAlready, TorAttach, TorSpawn, HopsInv, Itinerary, BeforeMode
  <2>2. R!Under(want[t], "tor") \subseteq Up
    BY <2>1, UpIs DEF R!Under, StageInv
  <2>3. UNCHANGED <<vpnProc, trans, shield>>
    BY <1>9 DEF TorAlready, TorAttach, TorSpawn
  <2>4. TorRunning' => Up' = Up \cup {"tor"}
    BY <2>3 DEF Up
  <2>5. ~TorRunning' => Up' = Up
    BY <2>1, <2>3 DEF Up
  <2>6. \/ pc'[t] = "td_transparent"
        \/ TorRunning' /\ pc'[t] \in {"socks", "transparent", "bootstrap"}
    BY <1>9, <2>1 DEF TorAlready, TorUsable, TorAttach, TorSpawn, TorRunning, AfterTor
  <2>. QED BY <1>7, <1>8, <2>1, <2>2, <2>4, <2>5, <2>6 DEF BeforeMode, R!Hops
<1>10. CASE TorBootstrapped(t) \/ TorStalled(t)
  <2>1. pc[t] = "bootstrap" /\ TorRunning /\ "tor" \in R!Needed(want[t]) /\ pc[t] \in BeforeMode
    BY <1>10, NeededIs
    DEF TorBootstrapped, TorStalled, TorRunning, HopsInv, RecordsTrue, Itinerary, BeforeMode
  <2>2. UNCHANGED <<vpnProc, trans, shield>>
    BY <1>10 DEF TorBootstrapped, TorStalled
  <2>3. Up' \in {Up, Up \ {"tor"}}
    BY <2>2, <2>1 DEF Up
  <2>4. \/ pc'[t] = "td_transparent"
        \/ TorRunning' /\ pc'[t] \in {"socks", "transparent"}
    BY <1>10 DEF TorBootstrapped, TorStalled, TorRunning, AfterTor
  <2>5. TorRunning' => Up' = Up
    BY <2>1, <2>2 DEF Up
  <2>. QED BY <1>6, <1>7, <2>1, <2>3, <2>4, <2>5 DEF BeforeMode
<1>11. CASE EngageTransparent(t)
  <2>1. /\ pc[t] = "transparent" /\ TorRunning /\ (want[t] = "tor_over_vpn" => vpnProc)
        /\ WithTor(want[t]) /\ trans # "on" /\ pc[t] \in BeforeMode /\ pc'[t] = "shield"
    BY <1>11 DEF EngageTransparent, StageInv, Itinerary, BeforeMode
  <2>2. UNCHANGED <<torProc, torExt, vpnProc, shield>>
    BY <1>11 DEF EngageTransparent
  <2>3. Up' = Up \/ Up' = Up \cup {"redirect"}
    BY <2>1, <2>2 DEF Up, TorRunning
  <2>4. R!Needed(want[t]) \subseteq Up
    BY <2>1, NeededIs, UpIs DEF WithTor, UsesVpn
  <2>5. R!Under(want[t], "redirect") \subseteq Up
    BY <2>4 DEF R!Under
  <2>6. R!WithTor(want[t])
    BY <2>1 DEF R!WithTor, WithTor
  <2>. QED BY <1>6, <1>8, <2>1, <2>3, <2>5, <2>6 DEF BeforeMode, R!Hops
<1>12. CASE CheckSocks(t) \/ CheckTunnel(t)
  <2>1. pc[t] \in {"socks", "tunnel"} /\ pc[t] \in BeforeMode
        /\ pc'[t] \in {"vpn", "tor", "td_transparent"}
    BY <1>12 DEF CheckSocks, CheckTunnel, BeforeMode
  <2>2. Up' = Up
    BY <1>12 DEF CheckSocks, CheckTunnel, Up, TorRunning
  <2>3. "tor" \in R!Needed(want[t])
    BY <2>1, NeededIs DEF Itinerary, UsesTor
  <2>. QED BY <1>6, <1>7, <2>1, <2>2, <2>3 DEF BeforeMode
<1>13. CASE VpnSpawn(t)
  <2>1. pc[t] = "vpn" /\ "vpn" \in R!Needed(want[t]) /\ pc[t] \in BeforeMode
        /\ (want[t] = "vpn_over_tor" => TorRunning)
    BY <1>13, NeededIs DEF VpnSpawn, StageInv, Itinerary, BeforeMode
  <2>2. R!Under(want[t], "vpn") \subseteq Up
    BY <2>1, UpIs DEF R!Under
  <2>3. UNCHANGED <<torProc, torExt, trans, shield>>
    BY <1>13 DEF VpnSpawn
  <2>4. CASE pc'[t] = "td_transparent"
    <3>1. Up' = Up
      BY <1>13, <2>3, <2>4 DEF VpnSpawn, Up, TorRunning
    <3>. QED BY <1>7, <2>1, <2>4, <3>1
  <2>5. CASE pc'[t] # "td_transparent"
    <3>1. vpnProc' = TRUE /\ pc'[t] = "tunnelling"
      BY <1>13, <2>5 DEF VpnSpawn
    <3>2. Up' = Up \cup {"vpn"}
      BY <2>3, <3>1 DEF Up, TorRunning
    <3>. QED BY <1>8, <2>1, <2>2, <3>1, <3>2 DEF BeforeMode, R!Hops
  <2>. QED BY <2>4, <2>5
<1>14. CASE VpnUp(t) \/ VpnFailed(t)
  <2>1. pc[t] = "tunnelling" /\ "vpn" \in R!Needed(want[t]) /\ pc[t] \in BeforeMode
    BY <1>14, NeededIs DEF VpnUp, VpnFailed, Itinerary, BeforeMode
  <2>2. UNCHANGED <<torProc, torExt, trans, shield>>
    BY <1>14 DEF VpnUp, VpnFailed
  <2>3. \/ vpnProc' = FALSE /\ pc'[t] = "td_transparent"
        \/ vpnProc' = vpnProc /\ pc'[t] \in {"tunnel", "shield"}
    BY <1>14, <2>1, NeededIs
    DEF SeesTunnels, VpnUp, VpnFailed, TunnelGone, HopsInv, RecordsTrue, AfterVpn
  <2>4. vpnProc' = FALSE => Up' = Up \ {"vpn"}
    BY <2>2 DEF Up, TorRunning
  <2>5. vpnProc' = vpnProc => Up' = Up
    BY <2>2 DEF Up, TorRunning
  <2>. QED BY <1>6, <1>7, <2>1, <2>3, <2>4, <2>5 DEF BeforeMode
<1>15. CASE StartShield(t)
  <2>1. pc[t] = "shield" /\ pc[t] \in BeforeMode /\ mode' = want[t] /\ mode' # "none"
        /\ pc'[t] = "verify"
    BY <1>2, <1>15 DEF StartShield, BeforeMode, Modes
  <2>2. \A u \in Tasks : pc'[u] \notin Tearing
    BY <1>1, <2>1 DEF Critical, Tearing
  <2>3. Phase' = "live" /\ Goal' = want[t]
    BY <2>1, <2>2 DEF Seen
  <2>4. R!Needed(want[t]) \subseteq Up
    BY <2>1, NeededIs, UpIs DEF StageInv
  <2>5. UNCHANGED <<torProc, torExt, vpnProc, trans>> /\ shield = "off"
    BY <1>15, <2>1, <1>1 DEF StartShield, StageInv, FreshSlate, Critical, Tearing
  <2>6. Up' \in {Up, Up \cup {"shield"}}
    BY <2>5 DEF Up, TorRunning
  <2>7. R!Serve
    BY <1>3, <2>1, <2>3, <2>4, <2>6 DEF R!Serve
  <2>. QED BY <2>7 DEF R!Next
<1>16. CASE Verify(t) \/ Judge(t) \/ Persist(t)
  <2>1. pc[t] \in {"verify", "passed", "failed", "persist"} /\ mode' = mode /\ mode # "none"
        /\ pc'[t] \in {"passed", "failed", "persist", "idle", "td_transparent"}
    BY <1>16 DEF Verify, Judge, Persist, HopsInv
  <2>2. Up' = Up
    BY <1>16 DEF Verify, Judge, Persist, Up, TorRunning
  <2>3. \A u \in Tasks : pc[u] \notin Tearing
    BY <1>1, <2>1 DEF Critical, Tearing
  <2>4. Phase = "live" /\ Goal = mode
    BY <2>1, <2>3 DEF Seen
  <2>5. CASE pc'[t] = "td_transparent"
    <3>1. R!Close
      BY <1>5, <2>2, <2>4, <2>5 DEF R!Close, Tearing
    <3>. QED BY <3>1 DEF R!Next
  <2>6. CASE pc'[t] # "td_transparent"
    <3>1. \A u \in Tasks : pc'[u] \notin Tearing
      BY <1>1, <2>1, <2>6 DEF Critical, Tearing
    <3>2. Phase' = "live" /\ Goal' = mode
      BY <2>1, <3>1 DEF Seen
    <3>. QED BY <2>2, <2>4, <3>2 DEF R!vars
  <2>. QED BY <2>5, <2>6
<1>. QED BY <1>9, <1>10, <1>11, <1>12, <1>13, <1>14, <1>15, <1>16 DEF Build

(* Who tears down takes the hops in the reverse order, and ends with none. *)
LEMMA TearDownIsRoute ==
  ASSUME WholeInv, WholeInv', Seen, Seen', NEW t \in Tasks, TearDown(t)
  PROVE  [R!Next]_(R!vars)
<1>. USE DEF WholeInv
<1>1. /\ pc[t] \in Critical /\ \A u \in Tasks : pc'[u] # "idle" => want'[u] = want[u]
      /\ \A u \in Tasks \ {t} : pc[u] \notin Critical /\ pc'[u] \notin Critical
  BY HolderActs
<1>2. pc[t] \in Tearing
  BY DEF TearDown, TdTransparent, TdShield, TdVpn, TdTor, Tearing
<1>3. Phase = "tearing" /\ Goal = "none"
  BY <1>2 DEF Seen
<1>. USE DEF Go, TypeOK, TasksOK, torVars, vpnVars, rules, dns, route
<1>4. ASSUME NEW h \in R!Hops, R!Above(h) \cap Up = {}, Up' = Up \ {h},
             pc'[t] \in {"td_shield", "td_vpn", "td_tor"}
      PROVE  R!Next
  <2>1. Phase' = "tearing" /\ Goal' = "none"
    BY <1>4 DEF Seen, Tearing
  <2>2. R!TakeDown(h)
    BY <1>3, <1>4, <2>1 DEF R!TakeDown
  <2>. QED BY <1>4, <2>2 DEF R!Next
<1>5. CASE TdTransparent(t)
  <2>1. Up' = Up \ {"redirect"} /\ pc'[t] = "td_shield"
    BY <1>5 DEF TdTransparent, ReleaseRedirect, Up, TorRunning
  <2>2. R!Above("redirect") = {}
    BY DEF R!Above, R!Hops
  <2>. QED BY <1>4, <2>1, <2>2 DEF R!Hops
<1>6. CASE TdShield(t)
  <2>1. Up' = Up \ {"shield"} /\ pc'[t] = "td_vpn"
    BY <1>6 DEF TdShield, ShieldOff, Up, TorRunning
  <2>2. R!Above("shield") = {"redirect"} /\ trans # "on"
    BY <1>6 DEF R!Above, R!Hops, TdShield, HopsInv
  <2>. QED BY <1>4, <2>1, <2>2, UpIs DEF R!Hops
<1>7. CASE TdVpn(t)
  <2>1. vpnProc' = FALSE /\ UNCHANGED <<torProc, torExt, trans, shield>> /\ pc'[t] = "td_tor"
    <3>1. vpnProc => vpnCur
      BY <1>1, <1>7 DEF TdVpn, HopsInv, RecordsTrue, Critical, Building
    <3>2. vpnProc \in BOOLEAN
      BY DEF HopsOK
    <3>. QED BY <1>7, <3>1, <3>2 DEF TdVpn, TunnelDown, TunnelGone, HopsInv, RecordsTrue
  <2>2. Up' = Up \ {"vpn"}
    BY <2>1 DEF Up, TorRunning
  <2>3. R!Above("vpn") = {"redirect", "shield"}
    BY DEF R!Above, R!Hops
  <2>4. trans # "on" /\ shield = "off"
    BY <1>7 DEF TdVpn, HopsInv, StageInv
  <2>. QED BY <1>4, <2>1, <2>2, <2>3, <2>4, UpIs DEF R!Hops
<1>8. CASE TdTor(t)
  <2>1. trans # "on" /\ shield = "off" /\ ~vpnProc
    BY <1>8 DEF TdTor, HopsInv, StageInv
  <2>2. ~TorRunning' /\ UNCHANGED <<vpnProc, trans, shield>>
    BY <1>8 DEF TdTor, DaemonStop, TorRunning, HopsInv, RecordsTrue
  <2>3. Up \subseteq {"tor"} /\ Up' = {}
    BY <2>1, <2>2 DEF Up
  <2>4. mode' = "none" /\ pc'[t] \in {"tor", "vpn", "wait", "idle"}
    BY <1>8 DEF TdTor, ModeOff, Begin, First
  <2>5. CASE pc'[t] \in {"tor", "vpn"}
    <3>1. Phase' = "building" /\ Goal' \in Modes
      BY <1>1, <2>5 DEF Seen, BeforeMode
    <3>2. R!Finish
      BY <1>3, <2>3, <3>1 DEF R!Finish, R!Modes, Modes
    <3>. QED BY <3>2 DEF R!Next
  <2>6. CASE pc'[t] \in {"wait", "idle"}
    <3>1. \A u \in Tasks : pc'[u] \notin Critical
      BY <1>1, <2>6 DEF Critical, Building, Tearing
    <3>2. Phase' = "down" /\ Goal' = "none"
      BY <2>4, <3>1 DEF Seen
    <3>3. R!Finish
      BY <1>3, <2>3, <3>2 DEF R!Finish
    <3>. QED BY <3>3 DEF R!Next
  <2>. QED BY <2>4, <2>5, <2>6
<1>. QED BY <1>5, <1>6, <1>7, <1>8 DEF TearDown

(* Who enters starts a route where there is none, or closes what there is. *)
LEMMA EnterIsRoute ==
  ASSUME WholeInv, WholeInv', Seen, Seen', NEW t \in Tasks, Enter(t)
  PROVE  R!Next
<1>. USE DEF WholeInv
<1>1. /\ \A u \in Tasks : pc[u] \notin Critical
      /\ want' = want
  BY EntersAlone
<1>2. \/ mode # "none" /\ Phase = "live"
      \/ mode = "none" /\ Phase = "down"
  BY <1>1 DEF Seen, Critical
<1>3. Up' = Up
  BY DEF Enter, torVars, vpnVars, rules, dns, Up, TorRunning
<1>4. \/ pc'[t] = "td_transparent"
      \/ mode = "none" /\ pc'[t] \in {"tor", "vpn"}
  BY DEF Enter, BuildsAtOnce, Begin, First, TypeOK, TasksOK
<1>5. CASE pc'[t] = "td_transparent"
  <2>1. Phase' = "tearing" /\ Goal' = "none"
    BY <1>5 DEF Seen, Tearing
  <2>2. R!Close
    BY <1>2, <1>3, <2>1 DEF R!Close
  <2>. QED BY <2>2 DEF R!Next
<1>6. CASE mode = "none" /\ pc'[t] \in {"tor", "vpn"}
  <2>1. Phase' = "building" /\ Goal' = want[t] /\ want[t] \in Modes
    BY <1>1, <1>6 DEF Seen, BeforeMode, TypeOK, TasksOK
  <2>2. R!Start(want[t])
    BY <1>2, <1>3, <1>6, <2>1 DEF R!Start
  <2>. QED BY <2>1, <2>2 DEF R!Next, R!Modes, Modes
<1>. QED BY <1>4, <1>5, <1>6

(* Nobody else is seen. *)
LEMMA OutsideIsNotRoute ==
  ASSUME WholeInv, WholeInv', Seen, Seen', ~Tui, ~Crashes,
         (\E t \in Tasks : Request(t) \/ Exit(t) \/ StopSchedulers(t)) \/ Background
           \/ Environment \/ UNCHANGED vars
  PROVE  UNCHANGED R!vars
<1>. USE DEF WholeInv
<1>1. /\ UNCHANGED <<torProc, torExt, vpnProc, shield>> /\ (trans' = "on" <=> trans = "on")
      /\ mode' = mode
      /\ \A u \in Tasks : pc[u] \in Critical \/ pc'[u] \in Critical
                            => pc'[u] = pc[u] /\ want'[u] = want[u]
  BY StageOutside
<1>2. Up' = Up
  BY <1>1 DEF Up, TorRunning
<1>3. CASE \E t \in Tasks : pc[t] \in Tearing
  BY <1>1, <1>2, <1>3 DEF Seen, Critical, R!vars
<1>4. CASE mode # "none" /\ \A t \in Tasks : pc[t] \notin Tearing
  <2>1. \A t \in Tasks : pc'[t] \notin Tearing
    BY <1>1, <1>4 DEF Critical
  <2>. QED BY <1>1, <1>2, <1>4, <2>1 DEF Seen, R!vars
<1>5. ASSUME NEW t \in Tasks, pc[t] \in Building, mode = "none" PROVE UNCHANGED R!vars
  <2>1. pc[t] \in BeforeMode
    BY <1>5 DEF HopsInv, Building, BeforeMode
  <2>2. pc'[t] = pc[t] /\ want'[t] = want[t]
    BY <1>1, <1>5 DEF Critical
  <2>. QED BY <1>2, <2>1, <2>2 DEF Seen, R!vars
<1>6. CASE mode = "none" /\ \A t \in Tasks : pc[t] \notin Critical
  <2>1. \A t \in Tasks : pc'[t] \notin Critical
    BY <1>1, <1>6
  <2>. QED BY <1>1, <1>2, <1>6, <2>1 DEF Seen, R!vars
<1>. QED BY <1>3, <1>4, <1>5, <1>6 DEF Critical

(* A program's session whose Tor does not die is a Route: whatever is asked for, and   *)
(* wherever a connect fails, one route at a time is built in its order, serves whole,  *)
(* and is taken down as a whole in reverse.  Picks as in NoForeignHops.                *)
THEOREM ImplementsRoute ==
  ASSUME ~Tui, TunnelsSeen, ~Crashes PROVE Spec => OneRoute
<1>1. Init => R!Init
  <2>. SUFFICES ASSUME Init PROVE R!Init
    OBVIOUS
  <2>1. mode = "none" /\ \A t \in Tasks : pc[t] = "idle"
    BY DEF Init
  <2>2. Phase = "down" /\ Goal = "none"
    BY <2>1 DEF Phase, Goal, Building, Tearing
  <2>3. Up = {}
    BY DEF Init, Up, TorRunning
  <2>. QED BY <2>2, <2>3 DEF R!Init
<1>2. WholeInv /\ WholeInv' /\ Seen /\ Seen' /\ SeesTunnels /\ [Next]_vars
        => [R!Next]_(R!vars)
  BY Actors, BuildIsRoute, TearDownIsRoute, EnterIsRoute, OutsideIsNotRoute
<1>. QED BY <1>1, <1>2, WholeHolds, RouteIsSeen, TunnelsAreSeen, PTL DEF Spec, OneRoute, R!Spec

-----------------------------------------------------------------------------
(* The verdict. *)

(* The strengthening of ConnectedIsVerified: nobody but the task that verifies writes   *)
(* the status or the verdict while it does, and in the interface a watchdog that looks  *)
(* at a route is alone: a key that disturbs the route stops it first.                   *)
VerdictInv ==
  /\ ConnectedIsVerified
  /\ wd \in {"checking", "passed", "failed"} =>
       /\ LongSession /\ AllIdle /\ mode # "none"
       /\ wd = "checking" => status = "verifying"
       /\ wd = "passed" => passed
       /\ wd = "failed" => status # "active"
  /\ \A t \in Tasks : pc[t] = "verify" => status = "verifying"
  /\ \A t \in Tasks : pc[t] = "passed" => passed

LEMMA VerdictStep ==
  ASSUME TypeOK, LockDiscipline, VerdictInv, [Next]_vars, LongSession => Tui
  PROVE  VerdictInv'
<1> USE DEF VerdictInv, ConnectedIsVerified, Connected
<1>1. ASSUME NEW t \in Tasks, NEW m \in Picks, UserConnect(t, m) PROVE VerdictInv'
  <2>1. wd \in {"off", "sleep"}
    BY <1>1 DEF UserConnect, MayConnect, TypeOK, PeriodicOK
  <2>. QED BY <1>1, <2>1 DEF UserConnect, route, dog
<1>2. ASSUME NEW t \in Tasks, NEW m \in Picks, UserSwitch(t, m) PROVE VerdictInv'
  BY <1>2 DEF UserSwitch, StopWatchdog, route, TypeOK, TasksOK
<1>3. ASSUME NEW t \in Tasks, UserDisconnect(t) \/ UserQuit(t) \/ Exit(t) PROVE VerdictInv'
  BY <1>3 DEF UserDisconnect, UserQuit, Exit, StopWatchdog, route, TypeOK, TasksOK
<1>4. ASSUME NEW t \in Tasks, StopSchedulers(t) PROVE VerdictInv'
  BY <1>4 DEF StopSchedulers, Go, route, dog, AllIdle, TypeOK, TasksOK
<1>5. ASSUME NEW t \in Tasks, Enter(t) PROVE VerdictInv'
  <2>1. \A u \in Tasks : pc[u] \notin Critical /\ ~AllIdle
    BY <1>5, EntersAlone DEF Enter, AllIdle
  <2>2. \A u \in Tasks : pc'[u] \notin {"verify", "passed"}
    BY <1>5, <2>1 DEF Enter, Begin, First, TypeOK, TasksOK, Critical, Building
  <2>. QED BY <1>5, <2>1, <2>2 DEF Enter, Begin, dog
<1>6. ASSUME NEW t \in Tasks, Build(t) \/ TearDown(t) PROVE VerdictInv'
  <2>1. pc[t] \in Critical /\ \A u \in Tasks \ {t} : pc'[u] \notin {"verify", "passed"}
    BY <1>6, HolderActs DEF Critical, Building
  <2>2. wd \notin {"checking", "passed", "failed"}
    BY <2>1 DEF AllIdle, Critical, Building, Tearing
  <2> USE <2>1, <2>2 DEF Go, Raise, route, dog, TypeOK, TasksOK
  <2>3. CASE TorAlready(t) \/ TorAttach(t) \/ TorSpawn(t) \/ TorBootstrapped(t) \/ TorStalled(t)
    BY <2>3 DEF TorAlready, TorAttach, TorSpawn, TorBootstrapped, TorStalled, AfterTor
  <2>4. CASE EngageTransparent(t) \/ CheckSocks(t) \/ VpnSpawn(t) \/ VpnUp(t)
             \/ VpnFailed(t) \/ CheckTunnel(t)
    BY <2>4 DEF EngageTransparent, CheckSocks, VpnSpawn, VpnUp, VpnFailed, CheckTunnel, AfterVpn
  <2>5. CASE StartShield(t)
    BY <2>5 DEF StartShield
  <2>6. CASE Verify(t)
    BY <2>6 DEF Verify
  <2>7. CASE Judge(t)
    BY <2>7 DEF Judge, Rejected, Accept
  <2>8. CASE Persist(t)
    BY <2>8 DEF Persist
  <2>9. CASE TdTransparent(t) \/ TdShield(t) \/ TdVpn(t)
    BY <2>9 DEF TdTransparent, TdShield, TdVpn
  <2>10. CASE TdTor(t)
    BY <2>10 DEF TdTor, Begin, First, ModeOff
  <2>. QED BY <1>6, <2>3, <2>4, <2>5, <2>6, <2>7, <2>8, <2>9, <2>10 DEF Build, TearDown
<1>7. CASE WatchdogTick
  <2>1. AllIdle
    BY <1>7, TaskAssumption
    DEF WatchdogTick, LockDiscipline, AllIdle, Critical, PCs, TypeOK, TasksOK
  <2>. QED BY <1>7, <2>1 DEF WatchdogTick, AllIdle, tasks
<1>8. CASE WatchdogVerdict \/ WatchdogJudge
  BY <1>8 DEF WatchdogVerdict, WatchdogJudge, AllIdle, tasks
<1>9. CASE BootTransparent \/ BootKillSwitch \/ ShieldToggled
  BY <1>9 DEF BootTransparent, BootKillSwitch, ShieldToggled, AllIdle, tasks, route, dog
<1>10. CASE Environment \/ UNCHANGED vars
  BY <1>10 DEF Environment, ToggleRotation, ToggleShuffle, ToggleShield, TorCrash, vars,
     AllIdle, tasks, route, dog
<1>. QED BY <1>1, <1>2, <1>3, <1>4, <1>5, <1>6, <1>7, <1>8, <1>9, <1>10
         DEF Next, Request, Work, Background, Closed

(* In the interface, however long the session, and in a program whose session is too    *)
(* short for the watchdog to look again, Connected means that the last verdict passed.  *)
THEOREM VerifiedFirst == ASSUME LongSession => Tui PROVE Spec => []ConnectedIsVerified
<1>1. Init => VerdictInv
  BY DEF Init, VerdictInv, ConnectedIsVerified, Connected
<1>2. TypeOK /\ LockDiscipline /\ VerdictInv /\ [Next]_vars => VerdictInv'
  BY VerdictStep
<1>3. VerdictInv => ConnectedIsVerified
  BY DEF VerdictInv
<1>. QED BY <1>1, <1>2, <1>3, TypeCorrect, OneAtATime, PTL DEF Spec

-----------------------------------------------------------------------------
(* The end of the program. *)

(* t is shutting the program down. *)
Shuts(t) == kind[t] = "shutdown" /\ pc[t] # "idle"

(* From here on nothing new is asked for: the interface is gone, or the coroutine of *)
(* the command line has come to its end.                                             *)
LastTask == quit = "final" \/ (quit = "asked" /\ ~Tui)

(* Only one task shuts down, it only tears down, and nobody is left beside the last. *)
OneShuts ==
  /\ quit \in {"no", "exiting", "closed"} => \A t \in Tasks : ~Shuts(t)
  /\ \A t, u \in Tasks : Shuts(t) /\ Shuts(u) => t = u
  /\ \A t \in Tasks : Shuts(t) =>
       pc[t] \in {"stop", "wait"} \cup Tearing /\ (pc[t] \in Tearing => ret[t] = "release")
  /\ quit = "closed" => AllIdle
  /\ LastTask => \A u \in Tasks : pc[u] # "idle" => Shuts(u)

(* A tunnel or a kill switch that the engine has no record of is being brought up or *)
(* was left by a request that was cut short.                                         *)
StraysKnown ==
  ~vpnCur => /\ vpnProc => "tunnel" \in strays \/ \E t \in Tasks : pc[t] = "tunnelling"
             /\ ks = "on" => "switch" \in strays \/ \E t \in Tasks : pc[t] = "tunnelling"

LEMMA StraysStep == TypeOK /\ StraysKnown /\ [Next]_vars => StraysKnown'
<1> SUFFICES ASSUME TypeOK, StraysKnown, [Next]_vars PROVE StraysKnown'
  OBVIOUS
<1> USE DEF StraysKnown, TypeOK, TasksOK, tasks, torVars, vpnVars, rules, life
<1>1. ASSUME NEW t \in Tasks, NEW m \in Picks, UserConnect(t, m) PROVE StraysKnown'
  <2>1. ASSUME NEW u \in Tasks, pc[u] = "tunnelling", u \notin Aborted PROVE pc'[u] = "tunnelling"
    BY <1>1, <2>1 DEF UserConnect
  <2>. QED BY <1>1, <2>1 DEF UserConnect, CutShort, TunnelLeft, SwitchLeft
<1>2. ASSUME NEW t \in Tasks, Exit(t) PROVE StraysKnown'
  BY <1>2 DEF Exit, CutShort, TunnelLeft, SwitchLeft
<1>3. ASSUME NEW t \in Tasks,
             (\E m \in Picks : UserSwitch(t, m)) \/ UserDisconnect(t) \/ UserQuit(t)
      PROVE  StraysKnown'
  BY <1>3 DEF UserSwitch, UserDisconnect, UserQuit
<1>4. ASSUME NEW t \in Tasks, StopSchedulers(t) \/ Enter(t) PROVE StraysKnown'
  BY <1>4 DEF StopSchedulers, Go, Enter, Begin
<1>5. ASSUME NEW t \in Tasks, VpnSpawn(t) PROVE StraysKnown'
  BY <1>5 DEF VpnSpawn, Go, Raise
<1>6. ASSUME NEW t \in Tasks, VpnUp(t) PROVE StraysKnown'
  BY <1>6 DEF VpnUp, CutShort, TunnelLeft, SwitchLeft
<1>7. ASSUME NEW t \in Tasks, VpnFailed(t) PROVE StraysKnown'
  BY <1>7 DEF VpnFailed, TunnelGone, Standing, SwitchLeft
<1>8. ASSUME NEW t \in Tasks,
             \/ TorAlready(t) \/ TorAttach(t) \/ TorSpawn(t) \/ TorBootstrapped(t) \/ TorStalled(t)
             \/ EngageTransparent(t) \/ CheckSocks(t) \/ CheckTunnel(t) \/ StartShield(t)
             \/ Verify(t) \/ Judge(t) \/ Persist(t)
      PROVE  StraysKnown'
  BY <1>8 DEF TorAlready, TorAttach, TorSpawn, TorBootstrapped, TorStalled, EngageTransparent,
     CheckSocks, CheckTunnel, StartShield, Verify, Judge, Persist, Go, Raise
<1>9. ASSUME NEW t \in Tasks, TearDown(t) PROVE StraysKnown'
  <2>1. \A u \in Tasks : pc[u] = "tunnelling" => pc'[u] = "tunnelling"
    BY <1>9 DEF TearDown, TdTransparent, TdShield, TdVpn, TdTor, Go, Begin
  <2>2. CASE TdVpn(t)
    BY <2>1, <2>2 DEF TdVpn, TunnelDown, TunnelGone, Standing
  <2>. QED BY <1>9, <2>1, <2>2 DEF TearDown, TdTransparent, TdShield, TdTor
<1>10. CASE Background \/ Environment \/ UNCHANGED vars
  BY <1>10 DEF Background, BootTransparent, BootKillSwitch, WatchdogTick, WatchdogVerdict,
     WatchdogJudge, ShieldToggled, Environment, ToggleRotation, ToggleShuffle, ToggleShield,
     TorCrash, vars
<1>11. ASSUME NEW t \in Tasks, Request(t) PROVE StraysKnown'
  BY <1>1, <1>3, <1>11 DEF Request
<1>12. ASSUME NEW t \in Tasks, Build(t) PROVE StraysKnown'
  BY <1>5, <1>6, <1>7, <1>8, <1>12 DEF Build
<1>. QED BY <1>2, <1>4, <1>9, <1>10, <1>11, <1>12, Actors

LEMMA StraysAreKnown == Spec => []StraysKnown
<1>1. Init => StraysKnown
  BY DEF Init, StraysKnown
<1>. QED BY <1>1, StraysStep, TypeCorrect, PTL DEF Spec

(* The strengthening of CleanExit: how far the last task has got. *)
QuitInv ==
  /\ CleanExit
  /\ ~Tui \/ quit = "closed" => shieldAsk = "none"
  /\ OneShuts
  /\ LastTask =>
       /\ wd = "off" /\ shieldAsk = "none"
       /\ \A t \in Tasks : Shuts(t) =>
            /\ pc[t] # "stop" => ~torSched /\ ~vpnSched
            /\ pc[t] \in {"td_shield", "td_vpn", "td_tor"} => trans # "on"
            /\ pc[t] \in {"td_vpn", "td_tor"} => shield = "off"
            /\ pc[t] = "td_tor" => ~vpnCur

(* The steps of the request that is not the last, and of those beside the requests. *)
LEMMA QuitOutside ==
  ASSUME TypeOK, QuitInv,
         (\E t \in Tasks : Request(t) \/ Exit(t) \/ StopSchedulers(t)) \/ Background
           \/ Environment \/ UNCHANGED vars
  PROVE  QuitInv'
<1> USE DEF QuitInv, OneShuts, CleanExit, Shuts, LastTask, Tearing,
            tasks, route, torVars, vpnVars, rules, dns, scheds, dog, life
<1>1. ASSUME NEW t \in Tasks, NEW m \in Picks, UserConnect(t, m) PROVE QuitInv'
  <2>1. /\ quit \in {"no", "asked"} /\ ~LastTask /\ quit' = quit
        /\ \A u \in Tasks : Shuts(u)' => Shuts(u) /\ pc'[u] = pc[u] /\ ret'[u] = ret[u]
    BY <1>1 DEF UserConnect, MayConnect, Open, Forgotten, TypeOK, TasksOK
  <2>. QED BY <1>1, <2>1 DEF UserConnect
<1>2. ASSUME NEW t \in Tasks, NEW m \in Picks, UserSwitch(t, m) PROVE QuitInv'
  <2>1. /\ quit = "no" /\ quit' = quit
        /\ \A u \in Tasks : Shuts(u)' => Shuts(u)
    BY <1>2 DEF UserSwitch, TypeOK, TasksOK
  <2>. QED BY <1>2, <2>1 DEF UserSwitch
<1>3. ASSUME NEW t \in Tasks, UserDisconnect(t) PROVE QuitInv'
  <2>1. /\ quit \in {"no", "asked"} /\ ~LastTask /\ quit' = quit
        /\ \A u \in Tasks : Shuts(u)' => Shuts(u) /\ pc'[u] = pc[u] /\ ret'[u] = ret[u]
    BY <1>3 DEF UserDisconnect, Open, TypeOK, TasksOK
  <2>. QED BY <1>3, <2>1 DEF UserDisconnect
<1>4. ASSUME NEW t \in Tasks, UserQuit(t) PROVE QuitInv'
  <2>1. /\ quit = "no" /\ quit' = "asked" /\ wd' = "off" /\ shieldAsk' = shieldAsk
        /\ \A u \in Tasks : Shuts(u)' => u = t
        /\ pc'[t] = "stop" /\ kind'[t] = "shutdown"
        /\ ~Tui => \A u \in Tasks \ {t} : pc'[u] = "idle"
    BY <1>4 DEF UserQuit, StopWatchdog, AllIdle, TypeOK, TasksOK
  <2>. QED BY <2>1
<1>5. ASSUME NEW t \in Tasks, Exit(t) PROVE QuitInv'
  <2>1. /\ quit' = "final" /\ wd' = "off" /\ shieldAsk' = "none"
        /\ \A u \in Tasks : Shuts(u)' => u = t
        /\ pc'[t] = "stop" /\ kind'[t] = "shutdown"
        /\ \A u \in Tasks \ {t} : pc'[u] = "idle"
    BY <1>5 DEF Exit, StopWatchdog, Forgotten, TypeOK, TasksOK
  <2>. QED BY <2>1
<1>6. ASSUME NEW t \in Tasks, StopSchedulers(t) PROVE QuitInv'
  <2>1. /\ pc[t] = "stop" /\ pc' = [pc EXCEPT ![t] = "wait"]
        /\ UNCHANGED <<kind, ret, mode, quit, wd, shield, shieldAsk, trans, vpnCur>>
        /\ torSched' = FALSE /\ vpnSched' = FALSE
    BY <1>6 DEF StopSchedulers, Go, SchedulersDown
  <2>. QED BY <2>1 DEF AllIdle, TypeOK, TasksOK
<1>7. CASE Background
  <2>1. CASE BootTransparent \/ BootKillSwitch
    BY <2>1 DEF BootTransparent, BootKillSwitch, AllIdle
  <2>2. CASE WatchdogTick \/ WatchdogVerdict \/ WatchdogJudge
    BY <2>2 DEF WatchdogTick, WatchdogVerdict, WatchdogJudge, AllIdle
  <2>3. CASE ShieldToggled
    BY <2>3 DEF ShieldToggled, AllIdle
  <2>. QED BY <1>7, <2>1, <2>2, <2>3 DEF Background
<1>8. CASE Environment \/ UNCHANGED vars
  BY <1>8 DEF Environment, Playing, Open, ToggleRotation, ToggleShuffle, ToggleShield, TorCrash,
     vars, AllIdle
<1>. QED BY <1>1, <1>2, <1>3, <1>4, <1>5, <1>6, <1>7, <1>8 DEF Request

(* The steps of who holds the lock. *)
LEMMA QuitInside ==
  ASSUME TypeOK, LockDiscipline, StraysKnown, QuitInv,
         NEW t \in Tasks, Enter(t) \/ Build(t) \/ TearDown(t)
  PROVE  QuitInv'
<1>1. pc[t] # "idle" /\ \A u \in Tasks \ {t} : pc'[u] = pc[u]
  BY HolderActs, EntersAlone DEF Enter, Critical, Building, Tearing
<1>2. quit # "closed"
  BY <1>1 DEF QuitInv, OneShuts, AllIdle
<1>3. \A u \in Tasks \ {t} : kind'[u] = kind[u] /\ ret'[u] = ret[u]
  BY DEF Enter, Begin, Build, TorAlready, TorAttach, TorSpawn, TorBootstrapped, TorStalled,
     EngageTransparent, CheckSocks, VpnSpawn, VpnUp, VpnFailed, CheckTunnel, StartShield,
     Verify, Judge, Persist, TearDown, TdTransparent, TdShield, TdVpn, TdTor, Go, Raise,
     Forgotten, TypeOK, TasksOK
<1>4. CASE ~Shuts(t)
  <2>1. ~LastTask
    BY <1>1, <1>4 DEF QuitInv, OneShuts
  <2>2. ~Shuts(t)' /\ quit' = quit /\ shieldAsk' = shieldAsk
    BY <1>1, <1>4
    DEF Shuts, Enter, Begin, Build, TorAlready, TorAttach, TorSpawn, TorBootstrapped, TorStalled,
        EngageTransparent, CheckSocks, VpnSpawn, VpnUp, VpnFailed, CheckTunnel, StartShield,
        Verify, Judge, Persist, TearDown, TdTransparent, TdShield, TdVpn, TdTor, Go, Raise,
        TypeOK, TasksOK, dns, life
  <2>3. \A u \in Tasks : Shuts(u)' => Shuts(u) /\ pc'[u] = pc[u] /\ ret'[u] = ret[u]
    BY <1>1, <1>3, <2>2 DEF Shuts
  <2>. QED BY <1>2, <2>1, <2>2, <2>3 DEF QuitInv, OneShuts, CleanExit, LastTask
<1>5. CASE Shuts(t)
  <2>1. quit \in {"asked", "final"} /\ \A u \in Tasks \ {t} : ~Shuts(u) /\ ~Shuts(u)'
    BY <1>1, <1>3, <1>5 DEF QuitInv, OneShuts, Shuts, TypeOK, LifeOK
  <2>2. kind[t] = "shutdown" /\ (pc[t] \in Tearing => ret[t] = "release")
    BY <1>5 DEF QuitInv, OneShuts, Shuts
  <2>3. LastTask => \A u \in Tasks \ {t} : pc[u] = "idle" /\ pc'[u] = "idle"
    BY <1>1, <2>1 DEF QuitInv, OneShuts
  <2> USE <2>1, <2>2, <2>3
          DEF QuitInv, OneShuts, CleanExit, LastTask, Shuts, Tearing, TypeOK, TasksOK,
              route, vpnVars, rules, dns, scheds, dog, life
  <2>4. CASE Enter(t)
    <3>1. pc[t] = "wait" /\ pc' = [pc EXCEPT ![t] = "td_transparent"]
          /\ ret' = [ret EXCEPT ![t] = "release"] /\ kind' = kind
      BY <2>4 DEF Enter, BuildsAtOnce
    <3>. QED BY <1>1, <2>4, <3>1 DEF Enter
  <2>5. CASE Build(t)
    <3>1. pc[t] \in Building
      BY <2>5 DEF Build, TorAlready, TorAttach, TorSpawn, TorBootstrapped, TorStalled,
         EngageTransparent, CheckSocks, VpnSpawn, VpnUp, VpnFailed, CheckTunnel, StartShield,
         Verify, Judge, Persist, Building
    <3>. QED BY <1>5, <3>1 DEF Building
  <2>6. CASE TdTransparent(t)
    BY <1>1, <2>6 DEF TdTransparent, ReleaseRedirect, Go
  <2>7. CASE TdShield(t)
    BY <1>1, <2>7 DEF TdShield, ShieldOff, Go
  <2>8. CASE TdVpn(t)
    BY <1>1, <2>8 DEF TdVpn, TunnelDown, Go
  <2>9. CASE TdTor(t)
    <3>1. /\ pc[t] = "td_tor" /\ pc' = [pc EXCEPT ![t] = "idle"] /\ mode' = "none"
          /\ quit' = IF Tui /\ quit = "asked" THEN "exiting" ELSE "closed"
          /\ UNCHANGED <<wd, trans, ks, vpnProc, vpnCur, shield, shieldAsk, torSched, vpnSched>>
      BY <2>9 DEF TdTor, ModeOff, AfterShutdown
    <3>2. quit' = "closed" => ~torExt' /\ (torProc' # "none" => "tor" \in strays')
      BY <2>9 DEF TdTor, DaemonStop, TorRunning, LetGo, torVars, HopsOK
    <3>3. LastTask => \A u \in Tasks : pc[u] # "tunnelling"
      BY <3>1
    <3>4. quit' = "closed" => LastTask /\ strays \subseteq strays'
      BY <2>9, <3>1 DEF TdTor
    <3>5. LastTask => (vpnProc => "tunnel" \in strays) /\ (ks = "on" => "switch" \in strays)
      BY <3>1, <3>3 DEF StraysKnown
    <3>. QED BY <1>1, <3>1, <3>2, <3>4, <3>5 DEF AllIdle
  <2>. QED BY <2>4, <2>5, <2>6, <2>7, <2>8, <2>9 DEF TearDown
<1>. QED BY <1>4, <1>5

(* When the program ends no route and nothing periodic is left, whatever is switched,   *)
(* toggled, aborted or asked for meanwhile, and however the parts fail.                 *)
THEOREM ExitIsClean == Spec => []CleanExit
<1>1. Init => QuitInv
  BY DEF Init, QuitInv, OneShuts, CleanExit, Shuts, LastTask, AllIdle
<1>2. TypeOK /\ LockDiscipline /\ StraysKnown /\ QuitInv /\ [Next]_vars => QuitInv'
  BY Actors, QuitOutside, QuitInside
<1>3. QuitInv => CleanExit
  BY DEF QuitInv
<1>. QED BY <1>1, <1>2, <1>3, TypeCorrect, OneAtATime, StraysAreKnown, PTL DEF Spec

-----------------------------------------------------------------------------
(* What a verdict proves. *)

(* A required check of a report that passed was skipped or good (verification.py:85-98). *)
LEMMA RequiredAreGood ==
  ASSUME NEW m, NEW s, NEW n, NEW r, NEW k, s.enabled,
         ReportPassed(VerifyReport(m, s, n, r, k)),
         NEW c \in Checks, ~Skipped(c, m, s), Required(c, m, n, r)
  PROVE  Good(c, m, n, r, k)
  BY DEF ReportPassed, VerifyReport, Result

(* A report that passed is right about the path, as far as it goes, when baseline    *)
(* and tunnel address are those of the network it looked at: Tor carries traffic in  *)
(* a mode with Tor, the tunnel is up in one with a tunnel, and where the tunnel's    *)
(* address was compared, traffic really leaves through it (verification.py:267-359). *)
THEOREM PassedIsRight ==
  ASSUME NEW A, None \notin A, NEW m \in Modes,
         NEW s \in VerificationSettings, s.enabled, s.check_routing,
         NEW n \in Network(A), NEW r \in Running, NEW k \in Memory(A),
         Plausible(m, n), Fresh(n, k),
         ReportPassed(VerifyReport(m, s, n, r, k))
  PROVE  Proven(m, n, r)
<1>1. /\ UsesTor(m) => Good("Tor bootstrap", m, n, r, k) /\ Good("SOCKS proxy", m, n, r, k)
      /\ UsesVpn(m) => Good("VPN tunnel", m, n, r, k)
      /\ Good("Public IP", m, n, r, k)
  BY RequiredAreGood DEF Checks, Skipped, Required
<1>2. UsesTor(m) => n.torWorks
  <2>1. IsTor(n) \/ Required("Routing correctness", m, n, r)
    BY DEF Required
  <2>2. IsTor(n) \/ Good("Routing correctness", m, n, r, k)
    BY <2>1, RequiredAreGood DEF Checks, Skipped
  <2> QED BY <2>2 DEF Good, RoutingCorrect, IsTor
<1>3. m # "tor_only" => RoutingCorrect(m, n, r, k)
  <2>1. m # "tor_only" => Required("Routing correctness", m, n, r)
    BY DEF Required
  <2> QED BY <2>1, RequiredAreGood DEF Checks, Skipped, Good
<1>4. ASSUME m = "vpn_only" PROVE n.routed /\ Ordinary(n) # n.home
  <2>1. ~n.redirect
    BY <1>4 DEF Plausible, UsesTor
  <2>2. VpnIsUsed(m, n, r, k)
    BY <1>3, <1>4 DEF RoutingCorrect
  <2>3. PublicIp(m, n) = Unredirected(n)
    BY <1>1, <1>4, <2>1 DEF Good, PublicIp, Ordinary
  <2>4. "Public IP" \notin r.raises
    BY <1>1 DEF ReportPassed, VerifyReport, Result, Required, Skipped, Checks
  <2>5. Unredirected(n) # n.home
    BY <1>1, <2>2, <2>3, <2>4 DEF Good, VpnIsUsed, StatePublicIp, Fresh
  <2> QED BY <2>1, <2>5 DEF Ordinary, Unredirected
<1>5. ASSUME m = "vpn_over_tor" PROVE n.routed /\ n.vpnExit \notin {n.home, n.torExit}
  <2>1. k.vpnIp \notin {None, n.torExit, k.baseline}
    BY <1>3, <1>5 DEF RoutingCorrect
  <2> QED BY <2>1 DEF Unredirected, Fresh
<1> QED BY <1>1, <1>2, <1>4, <1>5 DEF Proven, Good

(* Tor Only without a warning means that every application's traffic leaves through  *)
(* Tor, and not only that of those that use its proxy (verification.py:343-359).     *)
THEOREM TorForAll ==
  ASSUME NEW A, NEW s \in VerificationSettings, s.enabled, s.check_routing,
         NEW n \in Network(A), NEW r \in Running, NEW k \in Memory(A),
         ReportPassed(VerifyReport("tor_only", s, n, r, k)),
         Warnings(VerifyReport("tor_only", s, n, r, k)) = {}
  PROVE  n.torWorks /\ Ordinary(n) = n.torExit
<1>1. "Routing correctness" \in Checks /\ ~Skipped("Routing correctness", "tor_only", s)
  BY DEF Checks, Skipped
<1>2. Result("Routing correctness", "tor_only", s, n, r, k) \notin {"fail", "warn"}
  BY <1>1 DEF ReportPassed, Warnings, VerifyReport
<1>3. Good("Routing correctness", "tor_only", n, r, k)
  BY <1>1, <1>2 DEF Result
<1>4. IsTor(n) /\ n.redirect
  BY <1>3 DEF Good, RoutingCorrect, UsesTor
<1> QED BY <1>4 DEF IsTor, Ordinary, ThroughTor
=============================================================================
