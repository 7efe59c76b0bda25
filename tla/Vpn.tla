--------------------------------- MODULE Vpn ---------------------------------
(***************************************************************************)
(* The VPN engine (vpn/manager.py) and its two backends (vpn/openvpn.py,   *)
(* vpn/wireguard.py) under the callers that share its lock: the routing    *)
(* manager, the shuffle timer, the user's "connect this profile" and the   *)
(* health watchdog.                                                        *)
(*                                                                         *)
(* An action is the code from one await to the next; the step is that of   *)
(* the caller that holds the lock.  What a command does to the kernel is   *)
(* taken to happen when the command starts.  The kill switch is armed with *)
(* nft, by a command that deletes its table and one that loads it again:   *)
(* each may fail, and a caller may be cancelled in between; its release    *)
(* succeeds (Firewall lets it fail).  The shuffle pool holds every         *)
(* profile; which one it picks is Shuffle's subject.                       *)
(***************************************************************************)
EXTENDS Naturals, Sequences

CONSTANTS
  OpenVpn, WireGuard,  \* profiles by protocol
  None,
  Switches,            \* slots for the switches in flight, the timer's or the user's
  KillSwitch,          \* config.vpn.killswitch_enabled
  Retries,             \* config.vpn.reconnect_retries
  Checks               \* what "connected" reads after a bring-up: "current" is the code,
                       \* "target" the repaired check, with which a tunnel can come up

Profiles == OpenVpn \cup WireGuard
Callers == {"route", "dog"} \cup Switches

ASSUME ProfileAssumption == OpenVpn \cap WireGuard = {} /\ None \notin Profiles
ASSUME CallerAssumption == Switches \cap {"route", "dog"} = {}
ASSUME SettingAssumption == Retries \in Nat /\ Checks \subseteq {"current", "target"} /\ KillSwitch \in BOOLEAN

VARIABLES
  queue,    \* VPNEngine._lock, a FIFO of calls <<caller, profile>>: its holder, then who waits
  step,     \* where the holder is
  goal,     \* target of the _connect_locked in progress
  back,     \* the profile a switch in progress falls back to
  tries,    \* failed attempts of the bring-up in progress
  route,    \* what the routing manager is doing
  socks,    \* VPNEngine._socks_proxy is set
  checking, \* the watchdog awaits a handshake's age
  current,  \* VPNEngine._current
  status,   \* state.vpn.status
  ks,       \* the rules loaded last: <<phase, profile let through>>, or <<>> with none in the kernel
  proc,     \* profile of the live process in OpenVPNBackend._process
  ready,    \* OpenVPNBackend._result.ready
  iface,    \* WireGuardBackend._interface
  links,    \* WireGuard interfaces in the kernel
  reads,    \* the one of Checks this engine has
  lost,     \* history: a cancelled call left a tunnel nobody records
  unseen,   \* history: the check took a tunnel that was up for none
  late,     \* history: the recorded tunnel was brought up by a switch without a live route
  rearm     \* history: the last re-arm was "whole", left "older" rules too, or left it "open"

locals == <<goal, back, tries>>
calls == <<queue, step, locals, checking>>
manager == <<route, socks>>
shown == <<current, status>>
tunnels == <<proc, ready, iface, links>>
history == <<reads, lost, unseen, late, rearm>>
vars == <<calls, manager, shown, ks, tunnels, history>>

TypeOK ==
  /\ queue \in Seq(Callers \X (Profiles \cup {None}))
  /\ step \in {"enter", "guard", "drop", "up", "wait", "wgup", "check", "steady", "observe", "release"}
  /\ goal \in Profiles \cup {None} /\ back \in Profiles \cup {None} /\ tries \in 0..Retries /\ checking \in BOOLEAN
  /\ route \in {"down", "cut", "building", "failed", "live", "stopping", "stopped"} /\ socks \in BOOLEAN
  /\ current \in Profiles \cup {None}
  /\ status \in {"idle", "starting", "verifying", "active", "stopping", "error"}
  /\ ks \in ({"transition", "steady"} \X Profiles) \cup {<<>>}
  /\ proc \in OpenVpn \cup {None} /\ ready \in BOOLEAN
  /\ iface \in WireGuard \cup {None} /\ links \subseteq WireGuard
  /\ reads \in Checks /\ lost \in BOOLEAN /\ unseen \in BOOLEAN /\ late \in BOOLEAN
  /\ rearm \in {"whole", "older", "open"}

Init ==
  /\ queue = <<>> /\ step = "enter" /\ goal = None
  /\ back = None /\ tries = 0 /\ checking = FALSE
  /\ route = "down" /\ socks = FALSE
  /\ current = None /\ status = "idle" /\ ks = <<>>
  /\ proc = None /\ ready = FALSE /\ iface = None /\ links = {}
  /\ reads \in Checks /\ lost = FALSE /\ unseen = FALSE /\ late = FALSE /\ rearm = "whole"

BackendUp(p) ==
  IF p \in WireGuard THEN iface # None /\ iface \in links ELSE proc # None /\ ready
Connected == current # None /\ BackendUp(current)

(* The profile's backend disconnects; the other one is left alone. *)
BackendDown(p) ==
  IF p \in WireGuard
  THEN links' = links \ {iface} /\ iface' = None /\ UNCHANGED <<proc, ready>>
  ELSE proc' = None /\ ready' = FALSE /\ UNCHANGED <<iface, links>>

Holder == queue[1][1]
Asked == queue[1][2]
At(s) == queue # <<>> /\ step = s
Calling(c) == \E i \in DOMAIN queue : queue[i][1] = c
Without(gone) ==
  LET kept[i \in 0..Len(queue)] ==
        IF i = 0 THEN <<>>
        ELSE IF queue[i][1] \in gone THEN kept[i - 1] ELSE Append(kept[i - 1], queue[i])
  IN  kept[Len(queue)]
Return == step' = "enter" /\ goal' = None /\ back' = None /\ tries' = 0

-----------------------------------------------------------------------------
(* Requests. *)

Ask(c, p) ==
  /\ ~Calling(c)
  /\ queue' = Append(queue, <<c, p>>)
  /\ UNCHANGED <<step, locals>>

(* establish reaches its VPN hop; s says whether the hop goes through Tor. *)
RouteConnect(p, s) ==
  /\ route \in {"down", "cut"} /\ Ask("route", p)
  /\ route' = "building" /\ socks' = s
  /\ UNCHANGED <<checking, shown, ks, tunnels, history>>

(* The timer asks for a switch to any profile, or a key to this one; with or *)
(* without a live route.                                                     *)
Switch(c, p) ==
  /\ Ask(c, p)
  /\ UNCHANGED <<checking, manager, shown, ks, tunnels, history>>

(* Tasks are cancelled wherever they wait.  A child goes on without its parent:  *)
(* wg-quick still brings its interface up, OpenVPN still runs.  A re-arm that is *)
(* cut short leaves the rules that its deletion did.                             *)
Left == IF step = "wgup" THEN {links, links \cup {goal}} ELSE {links}
Orphaned == step \in {"wait", "wgup", "check"}
Rearming == step \in {"guard", "steady"}
CutShort == IF ks = <<>> THEN "open" ELSE "older"
Timers == {c \in Switches : \E i \in DOMAIN queue : queue[i] = <<c, None>>}
Cancel(gone) ==
  LET interrupted == queue # <<>> /\ Holder \in gone /\ step # "enter"
  IN  /\ queue' = Without(gone)
      /\ links' \in IF interrupted THEN Left ELSE {links}
      /\ lost' = (lost \/ (interrupted /\ Orphaned))
      /\ rearm' = IF interrupted /\ Rearming THEN CutShort ELSE rearm
      /\ IF interrupted THEN Return ELSE UNCHANGED <<step, locals>>
      /\ UNCHANGED <<shown, ks, proc, ready, iface, reads, unseen, late>>

(* The key that aborts a connect in progress, and the toggle that stops the timer. *)
Abort ==
  /\ route = "building" /\ Calling("route")
  /\ Cancel({"route"}) /\ route' = "cut"
  /\ UNCHANGED <<socks, checking>>
StopTimer ==
  /\ Timers # {} /\ Cancel(Timers)
  /\ UNCHANGED <<manager, checking>>

(* runtime.disconnect cancels the watchdog and the timer before the teardown. *)
DisconnectKeepsDog == Cancel(Timers) /\ UNCHANGED checking
CancelPeriodic == Cancel(Timers \cup {"dog"}) /\ checking' = FALSE

RouteDisconnect ==
  /\ route = "live" /\ CancelPeriodic
  /\ route' = "failed" /\ UNCHANGED socks

(* The teardown, also of a route that failed, asks the engine only if it records a tunnel. *)
RouteTeardown ==
  /\ route = "failed"
  /\ IF current # None
     THEN Ask("route", None) /\ route' = "stopping"
     ELSE route' = "stopped" /\ UNCHANGED <<queue, step, locals>>
  /\ UNCHANGED <<checking, socks, shown, ks, tunnels, history>>

RouteDown ==
  /\ route = "stopped" /\ route' = "down" /\ socks' = FALSE
  /\ UNCHANGED <<calls, shown, ks, tunnels, history>>

-----------------------------------------------------------------------------
(* _connect_locked, by the holder of the lock. *)

Disconnecting == Holder = "route" /\ route = "stopping"

(* Who asks for the connected profile gets another one of the pool. *)
Targets ==
  CASE Holder \in {"route", "dog"} -> {Asked}
    [] Asked \notin {None, current} -> {Asked}
    [] OTHER -> IF Profiles = {current} THEN {current} ELSE Profiles \ {current}

Armed == KillSwitch /\ ~socks

(* engage deletes the table, and loads the new one whatever came of that.        *)
Rearm == \/ ks' = <<>> /\ rearm' = "whole"
         \/ ks # <<>> /\ ks' = ks /\ rearm' = "older"
Load(phase) == \/ ks' = <<phase, goal>> /\ UNCHANGED rearm
               \/ UNCHANGED ks /\ rearm' = CutShort

(* _guard_transition arms the kill switch for p; then the old tunnel may go. *)
Begin(p) ==
  /\ goal' = p /\ tries' = 0 /\ status' = "starting"
  /\ IF Armed THEN step' = "guard" /\ Rearm ELSE step' = "drop" /\ UNCHANGED <<ks, rearm>>

Enter ==
  /\ At("enter") /\ ~Disconnecting
  /\ \E p \in Targets : Begin(p)
  /\ back' = IF Holder \in Switches THEN current ELSE None
  /\ UNCHANGED <<queue, checking, manager, current, tunnels, reads, lost, unseen, late>>

Guarded ==
  /\ At("guard") /\ Load("transition") /\ step' = "drop"
  /\ UNCHANGED <<queue, locals, checking, manager, shown, tunnels, reads, lost, unseen, late>>

Drop ==
  /\ At("drop") /\ step' = "up"
  /\ IF Connected THEN BackendDown(current) ELSE UNCHANGED tunnels
  /\ UNCHANGED <<queue, locals, checking, manager, shown, ks, history>>

RetryForgotten == step' = "up" /\ UNCHANGED tries
Retry == IF tries < Retries THEN step' = "up" /\ tries' = tries + 1
                            ELSE step' = "check" /\ UNCHANGED tries

held == <<queue, goal, back, checking>>
outside == <<manager, shown, ks, history>>

(* openvpn is started, in place of a process still running; or it cannot be: no    *)
(* credentials (not tried again), no binary, a UDP profile behind a SOCKS hop.     *)
Spawn ==
  /\ At("up") /\ goal \in OpenVpn
  /\ \/ proc' = goal /\ ready' = FALSE /\ step' = "wait" /\ UNCHANGED tries
     \/ /\ proc' = None /\ ready' = FALSE
        /\ Retry \/ (step' = "check" /\ UNCHANGED tries)
  /\ UNCHANGED <<iface, links, held, outside>>

Ready ==
  /\ At("wait") /\ proc = goal
  /\ ready' = TRUE /\ step' = "check"
  /\ UNCHANGED <<tries, proc, iface, links, held, outside>>

(* A fatal line, an exit or the time limit: the process is terminated. *)
NotReadyRuns ==
  /\ At("wait") /\ Retry
  /\ ready' = FALSE
  /\ UNCHANGED <<proc, iface, links, held, outside>>
NotReady ==
  /\ At("wait") /\ Retry
  /\ proc' = None /\ ready' = FALSE
  /\ UNCHANGED <<iface, links, held, outside>>

(* wg-quick up, after the down of an interface still recorded; never behind Tor. *)
WgRefused ==
  /\ At("up") /\ goal \in WireGuard /\ socks /\ Retry
  /\ UNCHANGED <<tunnels, held, outside>>
WgStart ==
  /\ At("up") /\ goal \in WireGuard /\ ~socks
  /\ BackendDown(goal) /\ step' = "wgup"
  /\ UNCHANGED <<tries, held, outside>>
WgUp ==
  /\ At("wgup") /\ step' = "check"
  /\ links' = links \cup {goal} /\ iface' = goal
  /\ UNCHANGED <<tries, proc, ready, held, outside>>
WgFailed ==
  /\ At("wgup") /\ Retry
  /\ UNCHANGED <<tunnels, held, outside>>

RouteTo(r) == route' = IF Holder = "route" THEN r ELSE route

(* The tunnel is recorded, and the kill switch re-armed around its interface. *)
Recognised == IF reads = "target" THEN BackendUp(goal) ELSE Connected
Accepted ==
  /\ At("check") /\ Recognised
  /\ current' = goal /\ status' = "verifying"
  /\ late' = (Holder \in Switches /\ route # "live")
  /\ IF Armed THEN step' = "steady" /\ Rearm ELSE step' = "observe" /\ UNCHANGED <<ks, rearm>>
  /\ UNCHANGED <<tries, tunnels, held, manager, reads, lost, unseen>>

SteadyWithoutInterface == Load("transition")
LoadSteady == Load("steady")

Steady ==
  /\ At("steady") /\ LoadSteady /\ step' = "observe"
  /\ UNCHANGED <<tries, tunnels, held, manager, shown, reads, lost, unseen, late>>

Observed ==
  /\ At("observe")
  /\ status' = "active" /\ Return
  /\ queue' = Tail(queue) /\ RouteTo("live")
  /\ UNCHANGED <<checking, socks, current, ks, tunnels, history>>

FailureReleases == ks' = <<>> /\ UNCHANGED rearm
FailureKeeps == UNCHANGED <<ks, rearm>>

(* No tunnel: a switch falls back once to the profile it left; others raise.  A *)
(* tunnel that is up and not recognised is left as it is.                       *)
Rejected ==
  /\ At("check") /\ ~Recognised
  /\ unseen' = (unseen \/ BackendUp(goal))
  /\ IF back # None
     THEN Begin(back) /\ back' = None /\ UNCHANGED <<queue, route>>
     ELSE /\ status' = "error" /\ Return /\ FailureKeeps
          /\ queue' = Tail(queue) /\ RouteTo("failed")
  /\ UNCHANGED <<checking, socks, current, tunnels, reads, lost, late>>

(* disconnect. *)
Disconnect ==
  /\ At("enter") /\ Disconnecting
  /\ step' = "release"
  /\ IF current # None THEN status' = "stopping" /\ BackendDown(current)
                       ELSE UNCHANGED <<status, tunnels>>
  /\ UNCHANGED <<held, tries, manager, current, ks, history>>

Disconnected ==
  /\ At("release")
  /\ current' = None /\ status' = "idle" /\ ks' = <<>> /\ late' = FALSE /\ rearm' = "whole"
  /\ queue' = Tail(queue) /\ Return /\ route' = "stopped"
  /\ UNCHANGED <<checking, socks, tunnels, reads, lost, unseen>>

-----------------------------------------------------------------------------
(* The watchdog: it asks for the profile that is current when it has its verdict, *)
(* and for the default one when there is none.                                    *)

Reconnect ==
  /\ \E p \in IF current = None THEN Profiles ELSE {current} : Ask("dog", p)
  /\ checking' = FALSE

(* OpenVPN's verdict and that of a vanished interface need no await. *)
DogFindsItDead ==
  /\ route = "live" /\ ~checking /\ current # None /\ ~Connected
  /\ Reconnect
  /\ UNCHANGED <<manager, shown, ks, tunnels, history>>
DogAsks ==
  /\ route = "live" /\ ~checking /\ current \in WireGuard /\ Connected /\ ~Calling("dog")
  /\ checking' = TRUE
  /\ UNCHANGED <<queue, step, locals, manager, shown, ks, tunnels, history>>
DogAnswered ==
  /\ checking
  /\ \/ Reconnect
     \/ checking' = FALSE /\ UNCHANGED <<queue, step, locals>>
  /\ UNCHANGED <<manager, shown, ks, tunnels, history>>

TunnelDies ==
  /\ \/ proc # None /\ proc' = None /\ UNCHANGED links
     \/ \E p \in links : links' = links \ {p} /\ UNCHANGED proc
  /\ UNCHANGED <<calls, manager, shown, ks, ready, iface, history>>

-----------------------------------------------------------------------------
Hold ==
  \/ Enter \/ Guarded \/ Drop \/ Spawn \/ Ready \/ NotReady \/ WgRefused \/ WgStart \/ WgUp \/ WgFailed
  \/ Accepted \/ Steady \/ Observed \/ Rejected \/ Disconnect \/ Disconnected

Route == RouteDisconnect \/ RouteTeardown \/ RouteDown \/ Abort

Next ==
  \/ Hold \/ Route \/ StopTimer
  \/ \E p \in Profiles, s \in BOOLEAN : RouteConnect(p, s)
  \/ \E c \in Switches, p \in Profiles \cup {None} : Switch(c, p)
  \/ DogFindsItDead \/ DogAsks \/ DogAnswered
  \/ TunnelDies

Spec == Init /\ [][Next]_vars

(* Every await of the holder ends: each has a time limit. *)
FairSpec == Spec /\ WF_vars(Hold)
-----------------------------------------------------------------------------
(* A tunnel that lives while nobody works on it is one the next disconnect finds: *)
(* whatever failed, fell back or crashed, its backend is the one of the recorded  *)
(* profile (manager.py:182-183, 282-288), unless a call was cancelled while it    *)
(* brought a tunnel up (lost), or the check, which reads the recorded profile and *)
(* not the target (manager.py:72-78, 210), took one for down that was up (unseen).*)
TunnelsAccounted ==
  queue = <<>> /\ ~lost /\ ~unseen =>
    /\ proc # None => current \in OpenVpn
    /\ links # {} => current \in WireGuard /\ links = {iface}

(* The kill switch of a live route is open only while a re-arm has deleted its    *)
(* table and not yet loaded it (killswitch.py:228-234, which its comment calls    *)
(* atomic), or when the last re-arm was cancelled there or its load refused: no   *)
(* failure, fall-back or reconnect opens it (manager.py:180, 210-222, 237).       *)
NeverOpen ==
  route = "live" /\ Armed /\ ~Rearming /\ rearm # "open" => ks # <<>>

(* An active tunnel is the one the kill switch lets through, and no other, when   *)
(* both commands of the last re-arm succeeded (manager.py:224-240).               *)
SteadyFollows ==
  route = "live" /\ status = "active" /\ Armed /\ rearm = "whole" => ks = <<"steady", current>>

(* No reconnect of the watchdog, behind a switch or not, brings a tunnel back     *)
(* behind a route that was torn down; only a switch can that gets the lock after  *)
(* the teardown (late; runtime.py:481-487, manager.py:290-316).                   *)
DownIsDown ==
  route = "down" /\ queue = <<>> /\ ~lost /\ ~unseen /\ ~late =>
    current = None /\ proc = None /\ links = {}

(* Every call ends, however many wait before it (manager.py:156, 294, 322).       *)
CallsEnd == \A c \in Callers : Calling(c) ~> ~Calling(c)
=============================================================================
