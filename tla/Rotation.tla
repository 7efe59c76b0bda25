------------------------------ MODULE Rotation ------------------------------
(***************************************************************************)
(* The Tor rotation scheduler (scheduler/base.py, tor_scheduler.py) and    *)
(* the rotation it fires (tor/engine.py rotate), beside a manual rotation, *)
(* toggles from the keyboard and the session that starts and stops both.   *)
(*                                                                         *)
(* All are coroutines of one event loop: an action is the code between two *)
(* awaits.  Cancelling the scheduler's task takes effect at once, as it    *)
(* only unwinds; the rest of stop() runs later.  pause and resume have no  *)
(* caller in the program and are left out.  The mode uses Tor.             *)
(*                                                                         *)
(* As in Session, an operator that nothing uses is a plausible wrong       *)
(* version of the one below it.                                            *)
(***************************************************************************)
EXTENDS Naturals, FiniteSets

CONSTANTS
  Keys,         \* key presses of R that can be in progress at a time
  Runtime,      \* the session itself, when it stops the scheduler
  Intervals,    \* intervals the user chooses from, in ticks of a second
  Step,         \* seconds of back-off per consecutive failure (5 in the code)
  MaxFailures,  \* bound: consecutive failures counted
  MaxChanges    \* bound: changes of the interval

ASSUME KeysAssumption == Runtime \notin Keys
ASSUME IntervalsAssumption == Intervals \subseteq Nat \ {0} /\ Intervals # {}
ASSUME NumbersAssumption ==
  Step \in Nat \ {0} /\ MaxFailures \in Nat \ {0} /\ MaxChanges \in Nat

Actors == Keys \cup {Runtime}
Rotators == {"scheduled", "manual"}

VARIABLES
  loop,      \* the scheduler's task: counting, acting, backing off, or none
  interval, remaining, trigger, failures, backoff,
  tails,     \* actors that wait for the cancelled task before they finish stop()
  enabled,   \* config.tor.rotation_enabled
  route,     \* the session around it
  tor,       \* Tor runs and its ControlPort is connected
  lock,      \* TorEngine._rotation_lock: who rotates
  phase,     \* per rotation: the await it is in
  status,    \* AppState.tor.status
  since,     \* history: ticks since the countdown was last restarted
  cut,       \* history: a rotation was cancelled, or outlived its Tor
  changes    \* bound: interval changes so far

timer == <<interval, remaining, trigger, failures, backoff, since, changes>>
engine == <<tor, lock, phase, status, cut>>
vars == <<loop, timer, tails, enabled, route, engine>>

Running == loop # "off"

TimerOK ==
  /\ loop \in {"off", "count", "act", "backoff"}
  /\ interval \in Intervals /\ remaining \in Nat /\ since \in Nat
  /\ remaining <= interval
  /\ trigger \in BOOLEAN /\ failures \in 0..MaxFailures /\ backoff \in Nat
  /\ changes \in 0..MaxChanges
EngineOK ==
  /\ tails \in SUBSET Actors /\ enabled \in BOOLEAN
  /\ route \in {"down", "starting", "up", "stopping", "closing"}
  /\ tor \in BOOLEAN /\ lock \in Rotators \cup {"none"}
  /\ phase \in [Rotators -> {"none", "newnym", "exit", "refresh"}]
  /\ status \in {"idle", "active", "rotating", "stopping"} /\ cut \in BOOLEAN

TypeOK == TimerOK /\ EngineOK

Init ==
  /\ loop = "off" /\ interval \in Intervals /\ remaining = interval
  /\ trigger = FALSE /\ failures = 0 /\ backoff = 0 /\ since = 0 /\ changes = 0
  /\ tails = {} /\ enabled = TRUE
  /\ route = "down" /\ tor = FALSE /\ lock = "none"
  /\ phase = [r \in Rotators |-> "none"] /\ status = "idle" /\ cut = FALSE

-----------------------------------------------------------------------------
(* start and stop of the scheduler. *)

StartStale ==
  /\ loop' = "count" /\ since' = 0 /\ enabled' = TRUE
  /\ UNCHANGED remaining
Start ==
  /\ loop' = "count" /\ remaining' = interval /\ since' = 0
  /\ enabled' = TRUE

(* stop up to its await: the task is forgotten and cancelled, with its rotation. *)
Cancel(a) ==
  /\ loop' = "off"
  /\ tails' = tails \cup {a}
  /\ phase' = [phase EXCEPT !["scheduled"] = "none"]
  /\ lock' = IF lock = "scheduled" THEN "none" ELSE lock
  /\ cut' = (cut \/ lock = "scheduled")
  /\ UNCHANGED <<timer, enabled, tor, status>>

(* The rest of stop records what runs now, which may be a new task. *)
Record == enabled' = Running

StopTail(a) ==
  /\ a \in tails
  /\ tails' = tails \ {a}
  /\ remaining' = interval
  /\ Record
  /\ UNCHANGED <<loop, interval, trigger, failures, backoff, since, changes, route, engine>>

(* R: toggle looks at running and starts or stops. *)
Toggle(k) ==
  /\ k \notin tails
  /\ \/ Running /\ Cancel(k)
     \/ /\ ~Running /\ Start
        /\ UNCHANGED <<interval, trigger, failures, backoff, changes, tails, engine>>
  /\ UNCHANGED route

(* The stepper: the countdown restarts. *)
RestartCountdown(i) == remaining' = i /\ since' = 0

SetInterval(i) ==
  /\ changes < MaxChanges /\ i # interval
  /\ interval' = i /\ RestartCountdown(i) /\ changes' = changes + 1
  /\ UNCHANGED <<loop, trigger, failures, backoff, tails, enabled, route, engine>>

-----------------------------------------------------------------------------
(* The scheduler's loop. *)

(* A second passes without a trigger; a trigger set in the very iteration that *)
(* ends the second would be seen a second later and is left out.               *)
Tick ==
  /\ loop = "count" /\ remaining > 1 /\ ~trigger
  /\ remaining' = remaining - 1 /\ since' = since + 1
  /\ UNCHANGED <<loop, interval, trigger, failures, backoff, changes, tails, enabled,
                 route, engine>>

(* rotate refuses without a ControlPort or beside another rotation. *)
MayRotateWhileLocked == tor
MayRotate == tor /\ lock = "none"

BeginRotation(r) ==
  /\ lock' = r /\ phase' = [phase EXCEPT ![r] = "newnym"] /\ status' = "rotating"
  /\ UNCHANGED <<tor, cut>>

(* A failed action waits, never longer than an interval. *)
Fail ==
  /\ failures' = IF failures < MaxFailures THEN failures + 1 ELSE failures
  /\ backoff' = IF Step * failures' < interval THEN Step * failures' ELSE interval
  /\ loop' = "backoff"

(* The last second ends, or the trigger is set: fire. *)
TriggerKept == trigger /\ UNCHANGED <<trigger, remaining, since>>
TakeTrigger == trigger /\ trigger' = FALSE /\ UNCHANGED <<remaining, since>>

LastTick ==
  /\ remaining = 1 /\ ~trigger
  /\ remaining' = 0 /\ since' = since + 1 /\ UNCHANGED trigger

Fire ==
  /\ loop = "count"
  /\ LastTick \/ TakeTrigger
  /\ \/ /\ MayRotate /\ BeginRotation("scheduled") /\ loop' = "act"
        /\ UNCHANGED <<failures, backoff>>
     \/ ~MayRotate /\ Fail /\ UNCHANGED engine
  /\ UNCHANGED <<interval, changes, tails, enabled, route>>

BackoffStuck == UNCHANGED <<loop, backoff, remaining, since>>
BackoffStep ==
  IF backoff > 0
  THEN backoff' = backoff - 1 /\ UNCHANGED <<loop, remaining, since>>
  ELSE loop' = "count" /\ remaining' = interval /\ since' = 0 /\ UNCHANGED backoff

Backoff ==
  /\ loop = "backoff"
  /\ BackoffStep
  /\ UNCHANGED <<interval, trigger, failures, changes, tails, enabled, route, engine>>

-----------------------------------------------------------------------------
(* A rotation, scheduled or manual. *)

(* Space: through the running scheduler, or at once. *)
RotateNow ==
  /\ tor
  /\ \/ /\ Running /\ trigger' = TRUE
        /\ UNCHANGED <<loop, interval, remaining, failures, backoff, since, changes, engine>>
     \/ /\ ~Running /\ MayRotate /\ phase["manual"] = "none"
        /\ BeginRotation("manual") /\ UNCHANGED <<loop, timer>>
  /\ UNCHANGED <<tails, enabled, route>>

(* The rotation returns; a scheduled one goes back to its loop. *)
Return(r, success) ==
  /\ lock' = "none" /\ phase' = [phase EXCEPT ![r] = "none"]
  /\ cut' = ~tor
  /\ \/ r = "manual" /\ UNCHANGED <<loop, timer>>
     \/ /\ r = "scheduled" /\ success
        /\ failures' = 0 /\ loop' = "count" /\ remaining' = interval /\ since' = 0
        /\ UNCHANGED <<interval, trigger, backoff, changes>>
     \/ /\ r = "scheduled" /\ ~success /\ Fail
        /\ UNCHANGED <<interval, remaining, trigger, since, changes>>

StillRotating == UNCHANGED status
BackToActive == status' = "active"

(* NEWNYM is refused, always so once the ControlPort is closed. *)
Refused(r) ==
  /\ phase[r] = "newnym"
  /\ Return(r, FALSE) /\ BackToActive
  /\ UNCHANGED <<tails, enabled, route, tor>>

(* NEWNYM went out; then the exit address is polled and the circuit refreshed. *)
Proceed(r) ==
  /\ \/ phase[r] = "newnym" /\ tor /\ phase' = [phase EXCEPT ![r] = "exit"]
     \/ phase[r] = "exit" /\ phase' = [phase EXCEPT ![r] = "refresh"]
  /\ UNCHANGED <<loop, timer, tails, enabled, route, tor, lock, status, cut>>

Rotated(r) ==
  /\ phase[r] = "refresh"
  /\ Return(r, TRUE) /\ status' = "active"
  /\ UNCHANGED <<tails, enabled, route, tor>>

-----------------------------------------------------------------------------
(* The session: connect starts Tor, then the scheduler; disconnect the reverse. *)

TorStarted ==
  /\ route = "down"
  /\ route' = "starting" /\ tor' = TRUE /\ status' = "active" /\ cut' = FALSE
  /\ UNCHANGED <<loop, timer, tails, enabled, lock, phase>>

Connected ==
  /\ route = "starting" /\ route' = "up"
  /\ IF enabled /\ ~Running
     THEN Start /\ UNCHANGED <<interval, trigger, failures, backoff, changes>>
     ELSE UNCHANGED <<loop, timer, enabled>>
  /\ UNCHANGED <<tails, engine>>

Disconnect ==
  /\ route = "up" /\ route' = "stopping"
  /\ \/ Running /\ Cancel(Runtime)
     \/ /\ ~Running /\ remaining' = interval /\ enabled' = FALSE
        /\ UNCHANGED <<loop, interval, trigger, failures, backoff, since, changes,
                       tails, engine>>

(* TorEngine.stop: the ControlPort is closed, then the daemon stopped. *)
TorClosing ==
  /\ route = "stopping" /\ Runtime \notin tails
  /\ route' = "closing" /\ tor' = FALSE /\ status' = "stopping" /\ cut' = (lock # "none")
  /\ UNCHANGED <<loop, timer, tails, enabled, lock, phase>>

TorStopped ==
  /\ route = "closing"
  /\ route' = "down" /\ status' = "idle" /\ cut' = (lock # "none")
  /\ UNCHANGED <<loop, timer, tails, enabled, tor, lock, phase>>

-----------------------------------------------------------------------------
LoopStep == Tick \/ Fire \/ Backoff
RotationStep(r) == Refused(r) \/ Proceed(r) \/ Rotated(r)
SessionStep == TorStarted \/ Connected \/ Disconnect \/ TorClosing \/ TorStopped

Next ==
  \/ \E k \in Keys : Toggle(k)
  \/ \E a \in Actors : StopTail(a)
  \/ \E i \in Intervals : SetInterval(i)
  \/ \E r \in Rotators : RotationStep(r)
  \/ LoopStep \/ RotateNow \/ SessionStep

Spec == Init /\ [][Next]_vars

(* asyncio runs what is ready, and every await in a rotation has a time limit. *)
Fairness ==
  /\ WF_vars(LoopStep)
  /\ \A r \in Rotators : WF_vars(RotationStep(r))
  /\ \A a \in Actors : WF_vars(StopTail(a))

FairSpec == Spec /\ Fairness
-----------------------------------------------------------------------------
(* A countdown is never short of its interval, whatever toggles, changes of the *)
(* interval and half-finished stops it went through (base.py:98-130, 157-185).  *)
NeverEarly == loop = "count" => remaining + since >= interval

(* Once no stop is half done, the configuration says whether the scheduler runs *)
(* (base.py:116-127, tor_scheduler.py:46-49).                                   *)
EnabledFollows == tails = {} /\ route \in {"up", "stopping"} => enabled = Running

(* At most one rotation is under way, and it holds the lock (engine.py:163-169). *)
OneRotation == \A r \in Rotators : phase[r] # "none" => lock = r

(* The status shown for Tor is right whenever nothing rotates, unless the last  *)
(* rotation was cancelled or outlived its Tor (engine.py:135-153, 172-208).     *)
StatusIsRight ==
  lock = "none" /\ ~cut =>
    status = IF tor THEN "active" ELSE IF route = "closing" THEN "stopping" ELSE "idle"

(* The scheduler fires again and again until it is stopped, also when its       *)
(* action fails (base.py:157-215).                                              *)
KeepsFiring ==
  /\ loop = "count" ~> loop # "count"
  /\ loop \in {"act", "backoff"} ~> loop \in {"count", "off"}

(* A manual trigger is not lost: the scheduler takes it unless it is stopped    *)
(* first (base.py:151-153, 176-184).                                            *)
TriggerTaken == trigger /\ Running ~> ~trigger \/ ~Running
=============================================================================
