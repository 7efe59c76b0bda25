------------------------------- MODULE Shield -------------------------------
(***************************************************************************)
(* The DNS Shield (dns/shield.py) and its listener (dns/resolver.py        *)
(* DNSServer): start, stop and toggle, called by the routing manager and   *)
(* by key presses, beside each other and without a lock; /etc/resolv.conf  *)
(* and its backup, which outlive the program.                              *)
(*                                                                         *)
(* All are coroutines of one event loop: an action is the code between two *)
(* awaits, and what a child process does to resolv.conf is a step of its   *)
(* own.  The statistics and the TCP listener are left out; queries,        *)
(* upstream and lists are in Resolver.                                     *)
(*                                                                         *)
(* An operator that nothing uses is a plausible wrong version of the one   *)
(* below it.                                                               *)
(***************************************************************************)
EXTENDS Naturals, FiniteSets

CONSTANTS
  Keys,        \* key presses of D that can be in progress at a time
  Route,       \* the routing manager, whose calls its lock serialises
  Servers,     \* listener objects
  Origs,       \* contents of resolv.conf that are not the program's
  MaxFaults,   \* bound: failures of the file operations
  MaxChanges   \* bound: changes of resolv.conf from outside

Callers == Keys \cup {Route}
Own == "shield"          \* resolv.conf names the Shield
Public == "public"       \* resolv.conf names the configured public resolvers
None == "none"
Contents == Origs \cup {Own, Public}
Ports == {"main", "fallback"}

ASSUME CallersAssumption == Route \notin Keys
ASSUME ContentsAssumption == Origs \cap {Own, Public, None} = {} /\ Origs # {}
ASSUME BoundsAssumption == MaxFaults \in Nat /\ MaxChanges \in Nat

VARIABLES
  pc,        \* per caller: the await it is in
  mine,      \* per caller: the listener its start made
  current,   \* DNSShield._server
  port,      \* per listener: the UDP port it holds
  managed,   \* DNSShield._resolv_managed
  status,    \* AppState.dns.status
  enabled,   \* config.dns.enabled
  resolv,    \* /etc/resolv.conf
  backup,    \* its copy in the runtime directory, which is never removed
  astray,    \* history: since the last clean stop, a call was cut short or overlapped,
             \* or a write that counts as failed was made
  tangled,   \* history: ever, calls overlapped or a backup failed
  faults, changes  \* bounds: failures and changes so far

history == <<astray, tangled>>
disk == <<resolv, backup, faults, changes>>
vars == <<pc, mine, current, port, managed, status, enabled, disk, history>>

TypeOK ==
  /\ pc \in [Callers -> {"idle", "reload", "load", "bind", "tcp", "tcpFallback",
                         "copy", "tee", "teed", "flush", "untee", "unteed", "close"}]
  /\ mine \in [Callers -> Servers] /\ current \in Servers
  /\ port \in [Servers -> Ports \cup {None}]
  /\ managed \in BOOLEAN /\ enabled \in BOOLEAN /\ astray \in BOOLEAN /\ tangled \in BOOLEAN
  /\ status \in {"disabled", "starting", "active", "stopping", "error"}
  /\ resolv \in Contents /\ backup \in Contents \cup {None}
  /\ faults \in 0..MaxFaults /\ changes \in 0..MaxChanges

Running == port[current] # None
Quiet == \A a \in Callers : pc[a] = "idle"
Free(p) == \A s \in Servers : port[s] # p

Init ==
  /\ pc = [a \in Callers |-> "idle"] /\ current \in Servers
  /\ mine = [a \in Callers |-> current]
  /\ port = [s \in Servers |-> None] /\ managed = FALSE
  /\ status = "disabled" /\ enabled = TRUE
  /\ resolv \in Origs /\ backup = None
  /\ astray = FALSE /\ tangled = FALSE
  /\ faults = 0 /\ changes = 0

Goto(a, l) == pc' = [pc EXCEPT ![a] = l]
Fault == faults < MaxFaults /\ faults' = faults + 1

-----------------------------------------------------------------------------
(* start. *)

AlreadyForgotten == FALSE
Already == Running

BeginStart(a) ==
  /\ IF Already THEN Goto(a, "reload") /\ UNCHANGED status
     ELSE Goto(a, "load") /\ status' = "starting"
  /\ UNCHANGED <<mine, current, port, managed, enabled, disk>>

(* A running Shield only loads its lists again. *)
Reloaded(a) ==
  /\ pc[a] = "reload" /\ Goto(a, "idle")
  /\ enabled' = (enabled \/ a \in Keys)
  /\ UNCHANGED <<mine, current, port, managed, status, disk, history>>

(* The lists are loaded: a new listener takes the place of the old one. *)
Fresh(s) ==
  /\ s # current /\ port[s] = None
  /\ \A b \in Callers : pc[b] = "bind" => mine[b] # s

Loaded(a) ==
  /\ pc[a] = "load" /\ Goto(a, "bind")
  /\ \E s \in Servers : Fresh(s) /\ current' = s /\ mine' = [mine EXCEPT ![a] = s]
  /\ UNCHANGED <<port, managed, status, enabled, disk, history>>

(* The main port needs a privilege and may be taken; then the fallback is tried. *)
Bound(a) ==
  /\ pc[a] = "bind"
  /\ \/ /\ Free("main") /\ port' = [port EXCEPT ![mine[a]] = "main"]
        /\ Goto(a, "tcp") /\ UNCHANGED status
     \/ /\ Free("fallback") /\ port' = [port EXCEPT ![mine[a]] = "fallback"]
        /\ Goto(a, "tcpFallback") /\ UNCHANGED status
     \/ /\ Goto(a, "idle") /\ status' = "error" /\ UNCHANGED port
  /\ UNCHANGED <<mine, current, managed, enabled, disk, history>>

Activate(a) ==
  /\ Goto(a, "idle") /\ status' = "active"
  /\ enabled' = (enabled \/ a \in Keys)

(* On the main port, and with the privilege, the system is pointed at the Shield; *)
(* a backup made before is kept.                                                  *)
BackUpAgain == "copy"
BackUpOnce == IF backup = None THEN "copy" ELSE "tee"

Listening(a) ==
  /\ \/ /\ pc[a] \in {"tcp", "tcpFallback"} /\ Activate(a)
     \/ /\ pc[a] = "tcp" /\ Goto(a, BackUpOnce)
        /\ UNCHANGED <<status, enabled>>
  /\ UNCHANGED <<mine, current, port, managed, disk, history>>

(* A backup that cannot be made does not stop the take-over. *)
Copied(a) ==
  /\ pc[a] = "copy" /\ Goto(a, "tee")
  /\ \/ backup' = resolv /\ UNCHANGED <<faults, history>>
     \/ Fault /\ astray' = TRUE /\ tangled' = TRUE /\ UNCHANGED backup
  /\ UNCHANGED <<mine, current, port, managed, status, enabled, resolv, changes>>

TakenOver(a) ==
  /\ pc[a] = "tee" /\ Goto(a, "teed") /\ resolv' = Own
  /\ UNCHANGED <<mine, current, port, managed, status, enabled, backup, faults, changes, history>>

(* A child that failed or was killed at its timeout may have written the file first. *)
NotTakenOver(a) ==
  /\ pc[a] = "tee" /\ Fault /\ Activate(a)
  /\ resolv' \in {resolv, Own} /\ astray' = (astray \/ resolv' = Own)
  /\ UNCHANGED <<mine, current, port, managed, backup, changes, tangled>>

StaysUnmanaged == UNCHANGED managed
NowManaged == managed' = TRUE

Started(a) ==
  /\ pc[a] = "teed" /\ NowManaged /\ Activate(a)
  /\ UNCHANGED <<mine, current, port, disk, history>>

-----------------------------------------------------------------------------
(* stop. *)

BeginStop(a) ==
  /\ Goto(a, "flush") /\ status' = "stopping"
  /\ UNCHANGED <<mine, current, port, managed, enabled, disk>>

(* The listener closes at once, and then waits. *)
Close(a) ==
  /\ port' = [port EXCEPT ![current] = None] /\ Goto(a, "close")

(* The statistics are written: resolv.conf is next, if it is ours. *)
Flushed(a) ==
  /\ pc[a] = "flush"
  /\ IF managed THEN Goto(a, "untee") /\ UNCHANGED port ELSE Close(a)
  /\ UNCHANGED <<mine, current, managed, status, enabled, disk, history>>

(* The backup, or the configured resolvers where there is none. *)
Saved == IF backup = None THEN Public ELSE backup

(* A stop that nothing overlaps and that restores a good copy sets all right again. *)
Clean(a) ==
  /\ backup # Own
  /\ \A b \in Callers \ {a} : pc[b] = "idle"
  /\ \A s \in Servers \ {current} : port[s] = None

Restored(a) ==
  /\ pc[a] = "untee" /\ Goto(a, "unteed")
  /\ \/ /\ resolv' = Saved
        /\ astray' = (astray /\ ~Clean(a)) /\ UNCHANGED faults
     \/ Fault /\ astray' = TRUE /\ resolv' \in {resolv, Saved}
  /\ UNCHANGED <<tangled, mine, current, port, managed, status, enabled, backup, changes>>

Closing(a) ==
  /\ pc[a] = "unteed" /\ managed' = FALSE /\ Close(a)
  /\ UNCHANGED <<mine, current, status, enabled, disk, history>>

StillStopping == UNCHANGED status
ShownDisabled == status' = "disabled"

Stopped(a) ==
  /\ pc[a] = "close" /\ Goto(a, "idle") /\ ShownDisabled
  /\ enabled' = (enabled /\ a \notin Keys)
  /\ UNCHANGED <<mine, current, port, managed, disk, history>>

-----------------------------------------------------------------------------
(* The callers. *)

(* Two calls at a time: nothing keeps them apart. *)
Begins == astray' = (astray \/ ~Quiet) /\ tangled' = (tangled \/ ~Quiet)

(* D: toggle looks at running. *)
Toggle(k) ==
  /\ pc[k] = "idle" /\ Begins
  /\ IF Running THEN BeginStop(k) ELSE BeginStart(k)

(* establish starts an enabled Shield; teardown stops a running one. *)
RouteUp == pc[Route] = "idle" /\ enabled /\ Begins /\ BeginStart(Route)
RouteDown == pc[Route] = "idle" /\ Running /\ Begins /\ BeginStop(Route)

(* A child process goes on by itself when its caller is gone. *)
LeftToWrite(S) ==
  {resolv} \cup {Own : a \in {b \in S : pc[b] = "tee"}}
           \cup {Saved : a \in {b \in S : pc[b] = "untee"}}

ChildEnds(S) ==
  /\ resolv' \in LeftToWrite(S)
  /\ backup' \in {backup} \cup {resolv : a \in {b \in S : pc[b] = "copy"}}

(* The next routing key cancels the call. *)
RouteCancelled ==
  /\ pc[Route] # "idle" /\ Goto(Route, "idle") /\ astray' = TRUE
  /\ ChildEnds({Route})
  /\ UNCHANGED <<mine, current, port, managed, status, enabled, faults, changes, tangled>>

(* The program dies; what it wrote to disk is still there when it starts again. *)
Crash ==
  /\ pc' = [a \in Callers |-> "idle"] /\ port' = [s \in Servers |-> None]
  /\ managed' = FALSE /\ status' = "disabled"
  /\ ChildEnds(Callers) /\ astray' = (astray \/ resolv' = Own)
  /\ UNCHANGED <<mine, current, enabled, faults, changes, tangled>>

(* The system writes the file, as when it joins another network. *)
NetworkChanges ==
  /\ changes < MaxChanges /\ changes' = changes + 1
  /\ resolv' \in Origs \ {resolv}
  /\ UNCHANGED <<pc, mine, current, port, managed, status, enabled, backup, faults, history>>

Step(a) ==
  \/ Reloaded(a) \/ Loaded(a) \/ Bound(a) \/ Listening(a)
  \/ Copied(a) \/ TakenOver(a) \/ NotTakenOver(a) \/ Started(a)
  \/ Flushed(a) \/ Restored(a) \/ Closing(a) \/ Stopped(a)

Next ==
  \/ \E a \in Callers : Step(a)
  \/ \E k \in Keys : Toggle(k)
  \/ RouteUp \/ RouteDown \/ RouteCancelled \/ Crash \/ NetworkChanges

Spec == Init /\ [][Next]_vars
-----------------------------------------------------------------------------
(* When the Shield is down and no call is in progress, the system's DNS does not *)
(* point at it, unless since the last stop that ran alone calls overlapped or    *)
(* were cut short, or a write that was taken for failed had reached the file     *)
(* (shield.py:141-165, 300-367).                                                 *)
DownMeansForeign == Quiet /\ ~Running /\ ~astray => resolv # Own

(* The backup is never a copy of the Shield's own file, though a crash leaves    *)
(* that file behind and the next start finds it, unless calls overlapped or a    *)
(* backup failed (shield.py:316-322).                                            *)
NeverBackupOwn == ~tangled => backup # Own

(* A call leaves no listener behind that the Shield has lost sight of            *)
(* (shield.py:85-104, resolver.py:327-386).                                      *)
OneListener == Quiet /\ ~astray => \A s \in Servers : port[s] # None => s = current

(* The status shown and the switch that is saved agree with the listener         *)
(* (shield.py:120-134, 158-176).                                                 *)
ShownActive ==
  Quiet /\ ~astray => (status = "active" <=> Running) /\ (Running => enabled)

=============================================================================
