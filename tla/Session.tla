------------------------------ MODULE Session ------------------------------
(***************************************************************************)
(* A NEXTRON session: the routing modes, who may change them and in which  *)
(* order (routing/manager.py, core/runtime.py, tui/app.py).                *)
(*                                                                         *)
(* One asyncio event loop runs request tasks (connect, disconnect, switch, *)
(* shutdown), the health watchdog, the boot task and a Shield toggle.      *)
(* What a task does between two awaits is atomic, so an action below is    *)
(* the code from one await to the next.  The engines appear by contract:   *)
(* a start returns or raises.  Firewall commands succeed here; the module  *)
(* Firewall lets them fail.  verification.enabled, dns.prefer_tor_dns and  *)
(* tor.manage_daemon keep their defaults (true), dns.enabled starts true   *)
(* and the rotation pool has two profiles.                                 *)
(*                                                                         *)
(* An operator that stands above the one it resembles and that nothing     *)
(* uses is a plausible wrong version of it: the mutation runs put it in    *)
(* the other's place and a property must notice.                           *)
(***************************************************************************)
EXTENDS Naturals, FiniteSets, RoutingMode

CONSTANTS
  Tasks,        \* slots for the coroutines a request may run in
  NoTask,       \* the lock's holder when it is free
  Picks,        \* modes the user may select
  Tui,          \* requests come from the interface, which cancels a connect in progress
  Strict,       \* config.verification.strict
  KillSwitch,   \* config.vpn.killswitch_enabled
  TargetCheck,  \* FALSE is the code: VPNEngine.connected reads _current; TRUE reads the target
  ForeignTor,   \* another Tor serves the ControlPort of the configuration
  LongSession,  \* the session lasts until a watchdog tick re-verifies
  Toggles,      \* the user toggles schedulers and Shield
  MaxToggled,   \* bound: shuffle on and Shield off count one each
  Crashes       \* the Tor process may die

ASSUME TaskAssumption == NoTask \notin Tasks
ASSUME PickAssumption == Picks \subseteq Modes
ASSUME SwitchAssumption ==
  /\ Tui \in BOOLEAN /\ Strict \in BOOLEAN /\ KillSwitch \in BOOLEAN
  /\ TargetCheck \in BOOLEAN /\ ForeignTor \in BOOLEAN /\ LongSession \in BOOLEAN
  /\ Toggles \in BOOLEAN /\ Crashes \in BOOLEAN
ASSUME BoundAssumption == MaxToggled \in Nat

VARIABLES
  pc, kind, want, ret,  \* per task: next step, request, mode asked for, where a teardown returns
  lock,                 \* RoutingManager._lock: its holder or the waiter it was handed to
  mode,                 \* RoutingManager._mode
  status, passed,       \* AppState.route_status, AppState.verification_passed
  torProc, torExt,      \* TorDaemon._process, TorDaemon._external
  vpnProc, vpnCur,      \* a tunnel process exists; VPNEngine._current is set
  trans, ks,            \* rules in the kernel: "on" when this session's flag says so, else "stale"
  shield, shieldOn,     \* DNSShield's listener and its upstream; config.dns.enabled
  shieldAsk,            \* a toggle in flight, with the upstream it captured
  torSched, vpnSched,   \* the scheduler tasks
  rotate, shuffle,      \* config.tor.rotation_enabled, config.vpn.shuffle_enabled
  wd, wdMode,           \* the watchdog task and the mode it is verifying
  boot, quit,           \* runtime.start's clean-up; progress of leaving the program
  strays                \* what requests that were cut short have left, and nobody removed

tasks == <<pc, kind, want, ret, lock>>
route == <<mode, status, passed>>
torVars == <<torProc, torExt>>
vpnVars == <<vpnProc, vpnCur>>
rules == <<trans, ks>>
dns == <<shield, shieldOn, shieldAsk>>
scheds == <<torSched, vpnSched, rotate, shuffle>>
dog == <<wd, wdMode>>
life == <<boot, quit, strays>>
vars == <<tasks, route, torVars, vpnVars, rules, dns, scheds, dog, life>>

Building == {"tor", "bootstrap", "socks", "vpn", "tunnelling", "tunnel",
             "transparent", "shield", "verify", "passed", "failed", "persist"}
Tearing == {"td_transparent", "td_shield", "td_vpn", "td_tor"}
Critical == Building \cup Tearing
PCs == {"idle", "stop", "wait"} \cup Critical

(* The order in which a mode's hops are built; the value is the next pc. *)
First(m) == IF m \in {"tor_only", "vpn_over_tor"} THEN "tor" ELSE "vpn"
AfterTor(m) == IF m = "vpn_over_tor" THEN "socks" ELSE "transparent"
AfterVpn(m) == IF m = "tor_over_vpn" THEN "tunnel" ELSE "shield"

TorRunning == torExt \/ torProc # "none"
TorUsable == torExt \/ torProc = "up"
VpnConnected == vpnCur /\ vpnProc

TasksOK ==
  /\ pc \in [Tasks -> PCs]
  /\ kind \in [Tasks -> {"connect", "disconnect", "switch", "shutdown"}]
  /\ want \in [Tasks -> Modes]
  /\ ret \in [Tasks -> {"begin", "raise", "release"}]
  /\ lock \in Tasks \cup {NoTask}
RouteOK ==
  /\ mode \in Modes \cup {"none"}
  /\ status \in {"idle", "starting", "verifying", "active", "stopping", "error"}
  /\ passed \in BOOLEAN
HopsOK ==
  /\ torProc \in {"none", "booting", "up"} /\ torExt \in BOOLEAN
  /\ vpnProc \in BOOLEAN /\ vpnCur \in BOOLEAN
  /\ trans \in {"off", "stale", "on"} /\ ks \in {"off", "stale", "on"}
  /\ shield \in {"off", "direct", "tor"} /\ shieldOn \in BOOLEAN
PeriodicOK ==
  /\ torSched \in BOOLEAN /\ vpnSched \in BOOLEAN
  /\ rotate \in BOOLEAN /\ shuffle \in BOOLEAN
  /\ wd \in {"off", "sleep", "checking", "passed", "failed"} /\ wdMode \in Modes
LifeOK ==
  /\ shieldAsk \in {"none", "stop", "direct", "tor"}
  /\ boot \in {"trans", "trans_release", "ks", "ks_release", "done"}
  /\ quit \in {"no", "asked", "exiting", "final", "closed"}
  /\ strays \subseteq {"tunnel", "switch", "tor"}

TypeOK == TasksOK /\ RouteOK /\ HopsOK /\ PeriodicOK /\ LifeOK

Init ==
  /\ pc = [t \in Tasks |-> "idle"]
  /\ kind = [t \in Tasks |-> "connect"]
  /\ want = [t \in Tasks |-> "tor_only"]
  /\ ret = [t \in Tasks |-> "release"]
  /\ lock = NoTask
  /\ mode = "none" /\ status = "idle" /\ passed = FALSE
  /\ torProc = "none" /\ torExt = FALSE
  /\ vpnProc = FALSE /\ vpnCur = FALSE
  /\ trans \in {"off", "stale"} /\ ks \in {"off", "stale"}
  /\ shield = "off" /\ shieldOn = TRUE /\ shieldAsk = "none"
  /\ torSched = FALSE /\ vpnSched = FALSE
  /\ rotate = TRUE /\ shuffle = FALSE
  /\ wd = "off" /\ wdMode = "tor_only"
  /\ boot = "trans" /\ quit = "no" /\ strays = {}

-----------------------------------------------------------------------------
(* Steps of the program counter.  Go and Raise fix tasks and route. *)

Go(t, next) ==
  /\ pc' = [pc EXCEPT ![t] = next]
  /\ UNCHANGED <<kind, want, ret, lock, route>>

(* establish's except clause and its strict rejection: error, then a quiet teardown. *)
Raise(t) ==
  /\ pc' = [pc EXCEPT ![t] = "td_transparent"]
  /\ ret' = [ret EXCEPT ![t] = "raise"]
  /\ status' = "stopping"
  /\ UNCHANGED <<kind, want, lock, mode, passed>>

Begin(t) ==
  /\ pc' = [pc EXCEPT ![t] = First(want[t])]
  /\ status' = "starting" /\ passed' = FALSE

(* asyncio.Lock hands itself to a waiter; the tasks of gone no longer wait. *)
HandOverForgotten(gone) == UNCHANGED lock
HandOver(gone) ==
  LET waiters == {u \in Tasks \ gone : pc[u] = "wait"}
  IN  lock' \in IF waiters = {} THEN {NoTask} ELSE waiters

(* Nothing is left of the locals of a coroutine that has ended or was cancelled: its *)
(* slot is as it was at first.                                                       *)
Forgotten(local, gone, first) == [u \in Tasks |-> IF u \in gone THEN first ELSE local[u]]

-----------------------------------------------------------------------------
(* Requests. *)

AllIdle == \A t \in Tasks : pc[t] = "idle"
Open == quit \in {"no", "asked"}

MayConnect == IF Tui THEN Open /\ mode = "none" ELSE quit = "no" /\ boot = "done"

(* A worker of the interface's exclusive routing group cancels the connect in progress. *)
Aborted == IF Tui THEN {u \in Tasks : kind[u] = "connect" /\ pc[u] # "idle"} ELSE {}

(* async with releases the lock of a cancelled task. *)
AbortedUnlock(t) ==
  IF lock \in Aborted THEN HandOver(Aborted \cup {t}) ELSE UNCHANGED lock

(* A connect that is cancelled or refused while its tunnel comes up leaves the tunnel *)
(* and the kill switch armed for it; the engine has recorded neither.                 *)
SwitchLeft == IF ks = "on" /\ ~vpnCur THEN {"switch"} ELSE {}
TunnelLeft == IF vpnCur THEN {} ELSE {"tunnel"}
CutShort(gone) ==
  strays' = IF \E u \in gone : pc[u] = "tunnelling"
            THEN strays \cup TunnelLeft \cup SwitchLeft ELSE strays

(* C in the interface with no live route, or runtime.connect awaited by a program. *)
UserConnect(t, m) ==
  /\ MayConnect
  /\ pc[t] = "idle" \/ t \in Aborted
  /\ pc' = [u \in Tasks |-> IF u = t THEN "wait"
                            ELSE IF u \in Aborted THEN "idle" ELSE pc[u]]
  /\ kind' = [kind EXCEPT ![t] = "connect"]
  /\ want' = [Forgotten(want, Aborted, "tor_only") EXCEPT ![t] = m]
  /\ ret' = Forgotten(ret, Aborted, "release")
  /\ AbortedUnlock(t) /\ CutShort(Aborted)
  /\ UNCHANGED <<route, torVars, vpnVars, rules, dns, scheds, dog, boot, quit>>

(* _stop_watchdog. *)
StopWatchdog == wd' = "off"

(* runtime.disconnect, up to its first await: the watchdog is cancelled. *)
UserDisconnect(t) ==
  /\ IF Tui THEN Open /\ mode # "none" ELSE quit = "no" /\ boot = "done"
  /\ pc[t] = "idle"
  /\ pc' = [pc EXCEPT ![t] = "stop"]
  /\ kind' = [kind EXCEPT ![t] = "disconnect"]
  /\ StopWatchdog
  /\ UNCHANGED <<want, ret, lock, route, torVars, vpnVars, rules, dns, scheds, wdMode, life>>

(* runtime.switch_mode: disconnect, then connect.  The interface never calls it. *)
UserSwitch(t, m) ==
  /\ ~Tui /\ quit = "no" /\ boot = "done"
  /\ pc[t] = "idle"
  /\ pc' = [pc EXCEPT ![t] = "stop"]
  /\ kind' = [kind EXCEPT ![t] = "switch"]
  /\ want' = [want EXCEPT ![t] = m]
  /\ StopWatchdog
  /\ UNCHANGED <<ret, lock, route, torVars, vpnVars, rules, dns, scheds, wdMode, life>>

(* The interface's quit worker, or the end of the headless coroutine. *)
UserQuit(t) ==
  /\ quit = "no" /\ pc[t] = "idle"
  /\ Tui \/ (boot = "done" /\ AllIdle)
  /\ pc' = [pc EXCEPT ![t] = "stop"]
  /\ kind' = [kind EXCEPT ![t] = "shutdown"]
  /\ StopWatchdog /\ quit' = "asked"
  /\ UNCHANGED <<want, ret, lock, route, torVars, vpnVars, rules, dns, scheds, wdMode, boot,
                 strays>>

(* App.exit cancels every worker; run_app_async shuts the runtime down again. *)
Exit(t) ==
  /\ quit = "exiting"
  /\ pc' = [u \in Tasks |-> IF u = t THEN "stop" ELSE "idle"]
  /\ kind' = [Forgotten(kind, Tasks, "connect") EXCEPT ![t] = "shutdown"]
  /\ want' = Forgotten(want, Tasks, "tor_only") /\ ret' = Forgotten(ret, Tasks, "release")
  /\ lock' = NoTask /\ CutShort(Tasks)
  /\ StopWatchdog /\ shieldAsk' = "none" /\ boot' = "done" /\ quit' = "final"
  /\ UNCHANGED <<route, torVars, vpnVars, rules, shield, shieldOn, scheds, wdMode>>

(* Both schedulers stop; Scheduler._on_state_change writes running into the config. *)
SchedulersDown ==
  torSched' = FALSE /\ vpnSched' = FALSE /\ rotate' = FALSE /\ shuffle' = FALSE

StopSchedulers(t) ==
  /\ pc[t] = "stop"
  /\ Go(t, "wait")
  /\ SchedulersDown
  /\ UNCHANGED <<torVars, vpnVars, rules, dns, dog, life>>

-----------------------------------------------------------------------------
(* establish and teardown, under the lock. *)

(* establish on a free slate builds at once; everything else tears down first. *)
AnyConnectBuilds(t) == kind[t] = "connect"
BuildsAtOnce(t) == kind[t] = "connect" /\ mode = "none"

EnterWithoutLock(t) == lock \in Tasks \cup {NoTask}
MayEnter(t) == lock \in {NoTask, t}

Enter(t) ==
  /\ pc[t] = "wait" /\ MayEnter(t)
  /\ lock' = t
  /\ IF BuildsAtOnce(t)
     THEN Begin(t) /\ UNCHANGED ret
     ELSE /\ pc' = [pc EXCEPT ![t] = "td_transparent"]
          /\ ret' = [ret EXCEPT ![t] = IF kind[t] = "connect" THEN "begin" ELSE "release"]
          /\ status' = "stopping" /\ UNCHANGED passed
  /\ UNCHANGED <<kind, want, mode, torVars, vpnVars, rules, dns, scheds, dog, life>>

(* TorEngine.start returns at once when Tor and its controller are live. *)
TorAlready(t) ==
  /\ pc[t] = "tor" /\ TorUsable
  /\ Go(t, AfterTor(want[t]))
  /\ UNCHANGED <<torVars, vpnVars, rules, dns, scheds, dog, life>>

(* The ControlPort answers, so TorDaemon.start attaches to whatever serves it, *)
(* the process an aborted connect left behind included; it may refuse us.      *)
TorAttach(t) ==
  /\ pc[t] = "tor" /\ (ForeignTor \/ torProc # "none")
  /\ torExt' = TRUE
  /\ Go(t, AfterTor(want[t])) \/ Raise(t)
  /\ UNCHANGED <<torProc, vpnVars, rules, dns, scheds, dog, life>>

(* Nothing answers on the ControlPort: a process is spawned, or cannot be.  The new *)
(* process is the daemon's; one that was still booting is forgotten, here as there. *)
TorSpawn(t) ==
  /\ pc[t] = "tor" /\ ~ForeignTor
  /\ torProc = "none" \/ (torProc = "booting" /\ ~torExt)
  /\ \/ torProc' = "booting" /\ Go(t, "bootstrap")
     \/ UNCHANGED torProc /\ Raise(t)
  /\ UNCHANGED <<torExt, vpnVars, rules, dns, scheds, dog, life>>

(* 100% bootstrapped, then the ControlPort is opened or refuses. *)
TorBootstrapped(t) ==
  /\ pc[t] = "bootstrap"
  /\ torProc' = "up"
  /\ Go(t, AfterTor(want[t])) \/ Raise(t)
  /\ UNCHANGED <<torExt, vpnVars, rules, dns, scheds, dog, life>>

(* TorDaemon.stop: a daemon marked external is only let go of, the session's own too. *)
DaemonStop ==
  IF torExt
  THEN torExt' = FALSE /\ UNCHANGED torProc
  ELSE torProc' = "none" /\ UNCHANGED torExt

(* The bootstrap stalls (the daemon is stopped) or the process exits. *)
TorStalled(t) ==
  /\ pc[t] = "bootstrap"
  /\ DaemonStop \/ (torProc' = "none" /\ torExt' = FALSE)
  /\ Raise(t)
  /\ UNCHANGED <<vpnVars, rules, dns, scheds, dog, life>>

(* _engage_transparent: Tor's ports are probed first; the ruleset may be unusable. *)
EngageTransparent(t) ==
  /\ pc[t] = "transparent"
  /\ \/ TorUsable /\ trans' = "on"
     \/ TorUsable /\ trans' \in IF trans = "off" THEN {"off"} ELSE {"off", "stale"}
     \/ UNCHANGED trans
  /\ Go(t, "shield")
  /\ UNCHANGED <<torVars, vpnVars, ks, dns, scheds, dog, life>>

(* VPN over Tor: the SOCKS port must answer. *)
CheckSocks(t) ==
  /\ pc[t] = "socks"
  /\ Go(t, "vpn") \/ Raise(t)
  /\ UNCHANGED <<torVars, vpnVars, rules, dns, scheds, dog, life>>

(* VPNEngine.connect finds no usable profile, or arms the kill switch and spawns. *)
VpnSpawn(t) ==
  /\ pc[t] = "vpn"
  /\ \/ Raise(t) /\ UNCHANGED <<ks, vpnProc>>
     \/ /\ Go(t, "tunnelling")
        /\ vpnProc' = TRUE
        /\ ks' = IF KillSwitch /\ want[t] # "vpn_over_tor" THEN "on" ELSE ks
  /\ UNCHANGED <<torVars, vpnCur, trans, dns, scheds, dog, life>>

(* The tunnel came up: recorded only if "connected" can see it.  Else it raises. *)
VpnUp(t) ==
  /\ pc[t] = "tunnelling"
  /\ IF TargetCheck \/ vpnCur
     THEN vpnCur' = TRUE /\ Go(t, AfterVpn(want[t])) /\ UNCHANGED strays
     ELSE UNCHANGED vpnCur /\ Raise(t) /\ CutShort({t})
  /\ UNCHANGED <<torVars, vpnProc, rules, dns, scheds, dog, boot, quit>>

(* The tunnel in hand goes; one that an earlier connect left may outlive it. *)
TunnelGone == vpnProc' \in IF "tunnel" \in strays THEN BOOLEAN ELSE {FALSE}
Standing == IF vpnProc' THEN strays ELSE strays \ {"tunnel"}

VpnFailed(t) ==
  /\ pc[t] = "tunnelling"
  /\ TunnelGone /\ strays' = Standing \cup SwitchLeft
  /\ Raise(t)
  /\ UNCHANGED <<torVars, vpnCur, rules, dns, scheds, dog, boot, quit>>

(* Tor over VPN: the tunnel is checked before Tor is started inside it. *)
CheckTunnel(t) ==
  /\ pc[t] = "tunnel"
  /\ (VpnConnected /\ Go(t, "tor")) \/ Raise(t)
  /\ UNCHANGED <<torVars, vpnVars, rules, dns, scheds, dog, life>>

(* _start_dns_shield, then the mode is recorded and verify begins. *)
StartShield(t) ==
  /\ pc[t] = "shield"
  /\ IF shieldOn
     THEN shield' \in {IF WithTor(want[t]) THEN "tor" ELSE "direct"}
                        \cup (IF shield = "off" THEN {"off"} ELSE {})
     ELSE UNCHANGED shield
  /\ mode' = want[t] /\ status' = "verifying"
  /\ pc' = [pc EXCEPT ![t] = "verify"]
  /\ UNCHANGED <<kind, want, ret, lock, passed, torVars, vpnVars, rules,
                 shieldOn, shieldAsk, scheds, dog, life>>

Verify(t) ==
  /\ pc[t] = "verify"
  /\ passed' \in BOOLEAN
  /\ pc' = [pc EXCEPT ![t] = IF passed' THEN "passed" ELSE "failed"]
  /\ UNCHANGED <<kind, want, ret, lock, mode, status, torVars, vpnVars, rules, dns,
                 scheds, dog, life>>

NeverRejected(t) == FALSE
Rejected(t) == pc[t] = "failed" /\ Strict

Accept == status' = "active"

Judge(t) ==
  /\ pc[t] \in {"passed", "failed"}
  /\ IF Rejected(t)
     THEN Raise(t)
     ELSE /\ pc' = [pc EXCEPT ![t] = "persist"] /\ Accept
          /\ UNCHANGED <<kind, want, ret, lock, mode, passed>>
  /\ UNCHANGED <<torVars, vpnVars, rules, dns, scheds, dog, life>>

(* The lock is released and runtime.connect starts schedulers and watchdog. *)
Persist(t) ==
  /\ pc[t] = "persist"
  /\ pc' = [pc EXCEPT ![t] = "idle"]
  /\ HandOver({t})
  /\ torSched' = (torSched \/ (UsesTor(want[t]) /\ rotate))
  /\ vpnSched' = (vpnSched \/ (UsesVpn(want[t]) /\ shuffle))
  /\ wd' = IF wd = "off" THEN "sleep" ELSE wd
  /\ kind' = [kind EXCEPT ![t] = "connect"]
  /\ want' = Forgotten(want, {t}, "tor_only") /\ ret' = Forgotten(ret, {t}, "release")
  /\ UNCHANGED <<route, torVars, vpnVars, rules, dns, rotate, shuffle, wdMode, life>>

RedirectKept == UNCHANGED trans
ReleaseRedirect == trans' = IF trans = "on" THEN "off" ELSE trans

TdTransparent(t) ==
  /\ pc[t] = "td_transparent"
  /\ ReleaseRedirect
  /\ Go(t, "td_shield")
  /\ UNCHANGED <<torVars, vpnVars, ks, dns, scheds, dog, life>>

ShieldKept == UNCHANGED shield
ShieldOff == shield' = "off"

TdShield(t) ==
  /\ pc[t] = "td_shield"
  /\ ShieldOff
  /\ Go(t, "td_vpn")
  /\ UNCHANGED <<torVars, vpnVars, rules, shieldOn, shieldAsk, scheds, dog, life>>

TunnelDown == TunnelGone /\ vpnCur' = FALSE

(* A tunnel the engine has not recorded is not torn down, nor its kill switch. *)
TdVpn(t) ==
  /\ pc[t] = "td_vpn"
  /\ IF vpnCur
     THEN TunnelDown /\ strays' = Standing \ {"switch"} /\ ks' = IF ks = "on" THEN "off" ELSE ks
     ELSE UNCHANGED <<vpnVars, ks, strays>>
  /\ Go(t, "td_tor")
  /\ UNCHANGED <<torVars, trans, dns, scheds, dog, boot, quit>>

ModeOff == mode' = "none"

(* The interface exits after its shutdown, and run_app_async shuts down once more. *)
OneShutdown == "closed"
AfterShutdown == IF Tui /\ quit = "asked" THEN "exiting" ELSE "closed"

(* The session's own Tor, taken for a foreign one: stop only takes that mark away.  A *)
(* later stop ends it, but after the last shutdown there is none.                     *)
LetGo == torExt /\ torProc # "none"

(* Tor is stopped if it runs; then the caller goes on, raises or returns. *)
TdTor(t) ==
  /\ pc[t] = "td_tor"
  /\ IF TorRunning THEN DaemonStop ELSE UNCHANGED torVars
  /\ ModeOff
  /\ ret' = Forgotten(ret, {t}, "release")
  /\ IF ret[t] = "begin"
     THEN Begin(t) /\ UNCHANGED <<kind, want, lock, quit>>
     ELSE LET again == kind[t] = "switch" /\ ret[t] = "release"
          IN  /\ status' = "idle" /\ passed' = FALSE
              /\ pc' = [pc EXCEPT ![t] = IF again THEN "wait" ELSE "idle"]
              /\ kind' = [kind EXCEPT ![t] = "connect"]
              /\ want' = IF again THEN want ELSE Forgotten(want, {t}, "tor_only")
              /\ HandOver({t})
              /\ quit' = IF kind[t] = "shutdown" THEN AfterShutdown ELSE quit
  /\ strays' = IF LetGo /\ quit' = "closed" THEN strays \cup {"tor"} ELSE strays
  /\ UNCHANGED <<vpnVars, rules, dns, scheds, dog, boot>>

-----------------------------------------------------------------------------
(* runtime.start's cleanup_stale_rules: looks, then removes.  It takes no lock. *)

BootTransparent ==
  /\ \/ boot = "trans" /\ boot' = (IF trans = "off" THEN "ks" ELSE "trans_release")
        /\ UNCHANGED trans
     \/ boot = "trans_release" /\ boot' = "ks" /\ trans' = "off"
  /\ UNCHANGED <<tasks, route, torVars, vpnVars, ks, dns, scheds, dog, quit, strays>>

BootKillSwitch ==
  /\ \/ boot = "ks" /\ boot' = (IF ks = "off" THEN "done" ELSE "ks_release")
        /\ UNCHANGED <<ks, strays>>
     \/ boot = "ks_release" /\ boot' = "done" /\ ks' = "off" /\ strays' = strays \ {"switch"}
  /\ UNCHANGED <<tasks, route, torVars, vpnVars, trans, dns, scheds, dog, quit>>

(* The watchdog re-verifies a live route when the lock is free.  It sleeps 30 s  *)
(* before a tick, so a request on its way to a free lock gets there first.       *)
WatchdogTick ==
  /\ LongSession /\ wd = "sleep" /\ mode # "none"
  /\ lock = NoTask /\ \A t \in Tasks : pc[t] \notin {"stop", "wait"}
  /\ wd' = "checking" /\ wdMode' = mode /\ status' = "verifying"
  /\ UNCHANGED <<tasks, mode, passed, torVars, vpnVars, rules, dns, scheds, life>>

WatchdogVerdict ==
  /\ wd = "checking"
  /\ passed' \in BOOLEAN
  /\ wd' = IF passed' THEN "passed" ELSE "failed"
  /\ UNCHANGED <<tasks, mode, status, torVars, vpnVars, rules, dns, scheds, wdMode, life>>

(* revalidate: a failure is an error, a pass only clears an earlier error. *)
WatchdogJudge ==
  /\ wd \in {"passed", "failed"}
  /\ status' = IF wd = "failed" THEN "error"
               ELSE IF status = "error" THEN "active" ELSE status
  /\ wd' = "sleep"
  /\ UNCHANGED <<tasks, mode, passed, torVars, vpnVars, rules, dns, scheds, wdMode, life>>

Playing == Toggles /\ Tui /\ Open

(* Shuffle and Shield where they are not at their default, or one is on its way. *)
Toggled ==
  {s \in {"shuffle", "shield"} :
     \/ s = "shuffle" /\ shuffle
     \/ s = "shield" /\ (~shieldOn \/ shieldAsk # "none")}
FewToggled == Cardinality(Toggled) <= MaxToggled

ToggleRotation ==
  /\ Playing /\ (mode = "none" \/ UsesTor(mode))
  /\ torSched' = ~torSched /\ rotate' = ~torSched
  /\ UNCHANGED <<tasks, route, torVars, vpnVars, rules, dns, vpnSched, shuffle, dog, life>>

ToggleShuffle ==
  /\ Playing /\ (mode = "none" \/ UsesVpn(mode))
  /\ vpnSched' = ~vpnSched /\ shuffle' = ~vpnSched
  /\ UNCHANGED <<tasks, route, torVars, vpnVars, rules, dns, torSched, rotate, dog, life>>
  /\ FewToggled'

(* toggle_dns_shield reads Tor's port, then awaits the toggle. *)
ToggleShield ==
  /\ Playing /\ shieldAsk = "none"
  /\ shieldAsk' = IF shield # "off" THEN "stop" ELSE IF TorRunning THEN "tor" ELSE "direct"
  /\ UNCHANGED <<tasks, route, torVars, vpnVars, rules, shield, shieldOn, scheds, dog, life>>
  /\ FewToggled'

ShieldToggled ==
  /\ shieldAsk # "none"
  /\ shieldAsk' = "none"
  /\ \/ /\ shield' = IF shieldAsk = "stop" THEN "off" ELSE shieldAsk
        /\ shieldOn' = (shieldAsk # "stop")
     \/ shieldAsk # "stop" /\ UNCHANGED <<shield, shieldOn>>
  /\ UNCHANGED <<tasks, route, torVars, vpnVars, rules, scheds, dog, life>>

TorCrash ==
  /\ Crashes /\ torProc = "up" /\ quit # "closed"
  /\ torProc' = "none"
  /\ UNCHANGED <<tasks, route, torExt, vpnVars, rules, dns, scheds, dog, life>>

Closed == quit = "closed" /\ UNCHANGED vars

-----------------------------------------------------------------------------
Build(t) ==
  \/ TorAlready(t) \/ TorAttach(t) \/ TorSpawn(t) \/ TorBootstrapped(t) \/ TorStalled(t)
  \/ EngageTransparent(t) \/ CheckSocks(t) \/ VpnSpawn(t) \/ VpnUp(t) \/ VpnFailed(t)
  \/ CheckTunnel(t) \/ StartShield(t) \/ Verify(t) \/ Judge(t) \/ Persist(t)

TearDown(t) == TdTransparent(t) \/ TdShield(t) \/ TdVpn(t) \/ TdTor(t)

Work(t) == StopSchedulers(t) \/ Enter(t) \/ Build(t) \/ TearDown(t)

Request(t) ==
  \/ \E m \in Picks : UserConnect(t, m) \/ UserSwitch(t, m)
  \/ UserDisconnect(t) \/ UserQuit(t)

Background ==
  \/ BootTransparent \/ BootKillSwitch
  \/ WatchdogTick \/ WatchdogVerdict \/ WatchdogJudge \/ ShieldToggled

Environment == ToggleRotation \/ ToggleShuffle \/ ToggleShield \/ TorCrash

Next ==
  \/ \E t \in Tasks : Request(t) \/ Exit(t) \/ Work(t)
  \/ Background \/ Environment \/ Closed

Spec == Init /\ [][Next]_vars

(* Every await the code makes ends (each has a timeout), and asyncio runs what is *)
(* ready.  Nothing is assumed of the user, of crashes or of a verdict.            *)
Fairness ==
  /\ \A t \in Tasks : WF_vars(Work(t)) /\ WF_vars(Exit(t))
  /\ WF_vars(BootTransparent) /\ WF_vars(BootKillSwitch) /\ WF_vars(ShieldToggled)
  /\ WF_vars(WatchdogTick) /\ WF_vars(WatchdogVerdict \/ WatchdogJudge)

FairSpec == Spec /\ Fairness
-----------------------------------------------------------------------------
(* What the session promises. *)

Connected == mode # "none" /\ status = "active"

(* One task at a time is inside establish or teardown, and it holds the lock: *)
(* hand-over, aborts and App.exit never let two in (manager.py:84, 279).      *)
LockDiscipline == \A t \in Tasks : pc[t] \in Critical => lock = t

(* The dashboard never says Connected on a route whose last verdict failed,    *)
(* whatever the watchdog, a pending request or an abort do in between          *)
(* (strict verification, manager.py:122-146).                                  *)
ConnectedIsVerified == Connected /\ Strict => passed

(* A redirect never points at a Tor that is not there, in any order of aborts, *)
(* failed starts and teardowns (manager.py:216-219, 288-295).                  *)
TransparentNeedsTor == trans = "on" => TorUsable

(* The Shield never forwards to the DNSPort of a Tor that is gone              *)
(* (manager.py:264-273, 290-295).                                              *)
ShieldUpstreamAlive == shield = "tor" => TorRunning

(* The route as Route has it: where the task inside the lock is, and what is up. *)
Phase ==
  IF \E t \in Tasks : pc[t] \in Tearing THEN "tearing"
  ELSE IF mode # "none" THEN "live"
  ELSE IF \E t \in Tasks : pc[t] \in Building THEN "building" ELSE "down"
Goal == IF Phase = "live" THEN mode ELSE IF Phase = "building" THEN want[lock] ELSE "none"
Up ==
  {h \in {"tor", "vpn", "redirect", "shield"} :
     \/ h = "tor" /\ TorRunning
     \/ h = "vpn" /\ vpnProc
     \/ h = "redirect" /\ trans = "on"
     \/ h = "shield" /\ shield # "off"}

R == INSTANCE Route WITH phase <- Phase, goal <- Goal, hops <- Up

(* Called by a program, the manager keeps one route at a time: its hops come up in *)
(* order, it serves with all it needs, and it is taken down as a whole, in reverse *)
(* order, before the next (manager.py:84-146, 148-202, 282-298).                   *)
OneRoute == R!Spec

(* The mode never changes directly from one route to another: the old one is   *)
(* torn down first (manager.py:85-86).                                         *)
ModeViaNone == [][mode' # mode => "none" \in {mode, mode'}]_vars

(* A live route has none of the hops of another mode: nothing is left of a     *)
(* route that was replaced or that failed on its way up (manager.py:282-298).  *)
OnlyItsHops ==
  mode # "none" => /\ UsesTor(mode) \/ ~TorRunning
                   /\ UsesVpn(mode) \/ ~vpnProc
                   /\ WithTor(mode) \/ trans # "on"

(* When the program ends, what shutdown is for is done (tui/app.py:240-242): no     *)
(* route, redirect or Shield, nothing periodic, and no Tor, no tunnel and no kill   *)
(* switch of this session, except those the program had lost before: the tunnel and *)
(* the kill switch of a connect that was cancelled or refused while its tunnel came *)
(* up, the kill switch of one that failed, a Tor of its own taken for a foreign one.*)
CleanExit ==
  quit = "closed" =>
    /\ mode = "none" /\ trans # "on" /\ shield = "off"
    /\ ~torSched /\ ~vpnSched /\ wd = "off"
    /\ ~vpnCur /\ (vpnProc => "tunnel" \in strays) /\ (ks = "on" => "switch" \in strays)
    /\ ~torExt /\ (torProc # "none" => "tor" \in strays)

(* A shutdown ends, behind whatever holds the lock when it is asked for and whatever *)
(* the user presses while it waits.                                                  *)
ShutdownEnds == quit = "asked" ~> quit = "closed"
=============================================================================
