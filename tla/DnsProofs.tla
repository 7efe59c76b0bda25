------------------------------ MODULE DnsProofs ------------------------------
(***************************************************************************)
(* The proofs about DNS.  Shield, for any number of keys, listeners,       *)
(* foreign contents of resolv.conf, failures and changes from outside.     *)
(* Resolver, for any lists and names, any upstreams and any number of      *)
(* queries, loads and changes.                                             *)
(***************************************************************************)
EXTENDS Shield, Resolver, SequenceTheorems, TLAPS

-----------------------------------------------------------------------------
(* Shield. *)

(* Next, one disjunct per action. *)
LEMMA ShieldCases ==
  ASSUME Next
  PROVE  \/ \E a \in Callers : Step(a)
         \/ \E k \in Keys : Toggle(k) /\ BeginStart(k)
         \/ \E k \in Keys : Toggle(k) /\ BeginStop(k)
         \/ RouteUp \/ RouteDown \/ RouteCancelled \/ Crash \/ NetworkChanges
  BY DEF Next, Toggle

LEMMA Faulted ==
  ASSUME TypeOK, Fault
  PROVE  faults' \in 0..MaxFaults
  BY BoundsAssumption DEF TypeOK, Fault

LEMMA SavedContents == TypeOK => Saved \in Contents
  BY DEF TypeOK, Saved, Contents

LEMMA LeftContents ==
  ASSUME TypeOK, NEW S, ChildEnds(S)
  PROVE  resolv' \in Contents /\ backup' \in Contents \cup {None}
  BY SavedContents DEF ChildEnds, LeftToWrite, TypeOK, Contents

LEMMA StepType ==
  ASSUME TypeOK, NEW a \in Callers, Step(a)
  PROVE  TypeOK'
<1> USE DEF TypeOK, Goto, disk, history
<1>1. CASE Reloaded(a)
  BY <1>1 DEF Reloaded
<1>2. CASE Loaded(a)
  BY <1>2 DEF Loaded
<1>3. CASE Bound(a)
  BY <1>3 DEF Bound, Ports
<1>4. CASE Listening(a)
  BY <1>4 DEF Listening, Activate, BackUpOnce
<1>5. CASE Copied(a)
  BY <1>5, Faulted DEF Copied
<1>6. CASE TakenOver(a)
  BY <1>6 DEF TakenOver, Contents
<1>7. CASE NotTakenOver(a)
  BY <1>7, Faulted DEF NotTakenOver, Activate, Contents
<1>8. CASE Started(a)
  BY <1>8 DEF Started, NowManaged, Activate
<1>9. CASE Flushed(a)
  BY <1>9 DEF Flushed, Close
<1>10. CASE Restored(a)
  BY <1>10, Faulted, SavedContents DEF Restored
<1>11. CASE Closing(a)
  BY <1>11 DEF Closing, Close
<1>12. CASE Stopped(a)
  BY <1>12 DEF Stopped, ShownDisabled
<1> QED BY <1>1, <1>2, <1>3, <1>4, <1>5, <1>6, <1>7, <1>8, <1>9, <1>10, <1>11, <1>12 DEF Step

(* Every variable keeps its type, for any number of keys, listeners, failures and *)
(* changes (dns/shield.py:60-176).                                                *)
THEOREM ShieldTypeCorrect == Spec => []TypeOK
<1>1. Init => TypeOK
  <2>1. 0 \in 0..MaxFaults /\ 0 \in 0..MaxChanges
    BY BoundsAssumption
  <2> QED BY <2>1 DEF Init, TypeOK, Contents
<1>2. TypeOK /\ [Next]_vars => TypeOK'
  <2> SUFFICES ASSUME TypeOK, [Next]_vars PROVE TypeOK'
    OBVIOUS
  <2> USE DEF TypeOK, Goto, disk, history, Begins
  <2>1. CASE \E a \in Callers : Step(a)
    BY <2>1, StepType
  <2>2. CASE \E k \in Keys : Toggle(k) /\ BeginStart(k)
    BY <2>2 DEF Toggle, BeginStart, Callers
  <2>3. CASE \E k \in Keys : Toggle(k) /\ BeginStop(k)
    BY <2>3 DEF Toggle, BeginStop, Callers
  <2>4. CASE RouteUp
    BY <2>4 DEF RouteUp, BeginStart, Callers
  <2>5. CASE RouteDown
    BY <2>5 DEF RouteDown, BeginStop, Callers
  <2>6. CASE RouteCancelled
    BY <2>6, LeftContents DEF RouteCancelled
  <2>7. CASE Crash
    BY <2>7, LeftContents DEF Crash
  <2>8. CASE NetworkChanges
    BY <2>8, BoundsAssumption DEF NetworkChanges, Contents
  <2>9. CASE UNCHANGED vars
    BY <2>9 DEF vars
  <2> QED BY <2>1, <2>2, <2>3, <2>4, <2>5, <2>6, <2>7, <2>8, <2>9, ShieldCases
<1> QED BY <1>1, <1>2, PTL DEF Spec

-----------------------------------------------------------------------------
(* The backup.  Until calls overlap or a backup fails, one call at most is in    *)
(* progress, a copy is only made where there is none, and the Shield's own file  *)
(* is only written once there is a copy.                                         *)
Alone == \A a, b \in Callers : pc[a] # "idle" /\ pc[b] # "idle" => a = b

BackupFirst ==
  /\ backup # Own
  /\ resolv = Own => backup # None
  /\ \A a \in Callers : /\ pc[a] = "copy" => backup = None
                        /\ pc[a] = "tee" => backup # None
Untangled == ~tangled => Alone /\ BackupFirst

LEMMA SavedForeign == backup # Own => Saved # Own
  BY DEF Saved, Own, Public

LEMMA LeftForeign ==
  ASSUME TypeOK, BackupFirst, NEW S \in SUBSET Callers, ChildEnds(S)
  PROVE  backup' # Own /\ (resolv' = Own => backup' # None)
<1>1. backup' # Own /\ (backup # None => backup' # None)
  BY ContentsAssumption DEF TypeOK, Contents, BackupFirst, ChildEnds
<1> QED BY <1>1, SavedForeign DEF BackupFirst, ChildEnds, LeftToWrite

LEMMA BackupStep ==
  ASSUME TypeOK, Untangled, Next, ~tangled'
  PROVE  Alone' /\ BackupFirst'
<1> USE DEF TypeOK, Untangled, Alone, BackupFirst, Goto, disk, history, Own, Public, None
<1>1. ASSUME NEW a \in Callers, Step(a)
      PROVE  Alone' /\ BackupFirst'
  <2>0. ~tangled
    BY <1>1 DEF Step, Reloaded, Loaded, Bound, Listening, Copied, TakenOver, NotTakenOver,
                Started, Flushed, Restored, Closing, Stopped
  <2>1. Alone'
    BY <1>1, <2>0 DEF Step, Reloaded, Loaded, Bound, Listening, Activate, Copied, TakenOver,
                NotTakenOver, Started, Flushed, Close, Restored, Closing, Stopped
  <2>2. CASE Listening(a)
    BY <2>0, <2>2 DEF Listening, Activate, BackUpOnce
  <2>3. CASE Copied(a)
    <3>1. pc[a] = "copy" /\ backup' = resolv /\ resolv' = resolv
      BY <2>3 DEF Copied
    <3>2. backup = None /\ resolv # Own /\ resolv # None
      BY <2>0, <3>1, ContentsAssumption DEF Contents
    <3> QED BY <2>0, <2>1, <2>3, <3>1, <3>2 DEF Copied
  <2>4. CASE TakenOver(a)
    BY <2>0, <2>1, <2>4 DEF TakenOver
  <2>5. CASE NotTakenOver(a)
    BY <2>0, <2>1, <2>5 DEF NotTakenOver, Activate
  <2>6. CASE Restored(a)
    BY <2>0, <2>1, <2>6, SavedForeign DEF Restored
  <2> QED BY <1>1, <2>0, <2>1, <2>2, <2>3, <2>4, <2>5, <2>6
          DEF Step, Reloaded, Loaded, Bound, Activate, Started, Flushed, Close, Closing, Stopped
<1>2. ASSUME NEW a \in Callers, Begins, BeginStart(a) \/ BeginStop(a)
      PROVE  Alone' /\ BackupFirst'
  <2>1. ~tangled /\ (\A b \in Callers : pc[b] = "idle")
    BY <1>2 DEF Begins, Quiet
  <2>2. /\ \A b \in Callers \ {a} : pc'[b] = "idle"
        /\ pc'[a] \in {"reload", "load", "flush"}
        /\ backup' = backup /\ resolv' = resolv
    BY <1>2, <2>1 DEF BeginStart, BeginStop
  <2> QED BY <2>1, <2>2
<1>3. CASE RouteCancelled
  <2>1. ~tangled
    BY <1>3 DEF RouteCancelled
  <2>2. backup' # Own /\ (resolv' = Own => backup' # None)
    BY <1>3, <2>1, LeftForeign DEF RouteCancelled, Callers
  <2>3. Alone'
    BY <1>3, <2>1 DEF RouteCancelled
  <2>4. \A a \in Callers : pc'[a] = pc[a] \/ pc'[a] = "idle"
    BY <1>3 DEF RouteCancelled
  <2>5. \A a \in Callers : pc'[a] = "idle"
    BY <1>3, <2>1, <2>4 DEF RouteCancelled, Callers
  <2> QED BY <1>3, <2>1, <2>2, <2>3, <2>5
<1>4. CASE Crash
  BY <1>4, LeftForeign DEF Crash
<1>5. CASE NetworkChanges
  BY <1>5, ContentsAssumption DEF NetworkChanges
<1> QED BY <1>1, <1>2, <1>3, <1>4, <1>5, ShieldCases
        DEF Toggle, RouteUp, RouteDown, Callers

(* The backup is never a copy of the Shield's own file, whatever crashes and restarts *)
(* lie between the take-over and the next start (shield.py:316-322).                  *)
THEOREM BackupIsForeign == Spec => []NeverBackupOwn
<1>1. Init => Untangled
  BY ContentsAssumption DEF Init, Untangled, Alone, BackupFirst, None, Own
<1>2. TypeOK /\ Untangled /\ [Next]_vars => Untangled'
  BY BackupStep DEF vars, disk, history, Untangled, Alone, BackupFirst
<1>3. Untangled => NeverBackupOwn
  BY DEF Untangled, BackupFirst, NeverBackupOwn
<1> QED BY ShieldTypeCorrect, <1>1, <1>2, <1>3, PTL DEF Spec

-----------------------------------------------------------------------------
(* The rest.  Until something is cut short or overlaps, and again after a stop   *)
(* that ran alone: what is true when the Shield rests, and at each await of the  *)
(* one call in progress.                                                         *)
Resting ==
  /\ resolv = Own => managed
  /\ managed => Running
  /\ status = "active" <=> Running
  /\ Running => enabled

ForStart(a) == ~managed /\ (enabled \/ a \in Keys)

AtAwait(a) ==
  /\ pc[a] = "reload" => Resting /\ Running
  /\ pc[a] \in {"load", "bind"} =>
       ForStart(a) /\ resolv # Own /\ ~Running /\ status = "starting"
  /\ pc[a] = "bind" => mine[a] = current
  /\ pc[a] \in {"tcp", "tcpFallback", "copy", "tee"} =>
       ForStart(a) /\ resolv # Own /\ Running
  /\ pc[a] = "teed" => ForStart(a) /\ Running
  /\ pc[a] = "flush" => (resolv = Own => managed)
  /\ pc[a] \in {"unteed", "close"} => resolv # Own
  /\ pc[a] = "close" => ~managed /\ ~Running

OnlyCurrent == \A s \in Servers : port[s] # None => s = current

StraightNow ==
  /\ Alone /\ backup # Own /\ OnlyCurrent
  /\ Quiet => Resting
  /\ \A a \in Callers : AtAwait(a)
Straight == ~astray => StraightNow

(* What is left to show of a step of a, the one call in progress. *)
LEMMA Focus ==
  ASSUME NEW a \in Callers,
         \A b \in Callers \ {a} : pc'[b] = "idle",
         AtAwait(a)', OnlyCurrent', backup' # Own, pc'[a] = "idle" => Resting'
  PROVE  StraightNow'
<1>1. \A b \in Callers \ {a} : AtAwait(b)'
  BY DEF AtAwait
<1>2. Alone' /\ (Quiet' => Resting')
  BY DEF Alone, Quiet
<1> QED BY <1>1, <1>2 DEF StraightNow

LEMMA StraightStart ==
  ASSUME TypeOK, StraightNow, NEW a \in Callers,
         Reloaded(a) \/ Loaded(a) \/ Bound(a) \/ Listening(a), ~astray'
  PROVE  StraightNow'
<1> USE DEF TypeOK, Goto, disk, history, AtAwait, ForStart, OnlyCurrent, Resting, Running,
           Own, None
<1>0. /\ pc[a] # "idle" /\ (\A b \in Callers \ {a} : pc[b] = "idle" /\ pc'[b] = "idle")
      /\ AtAwait(a) /\ OnlyCurrent /\ backup' = backup /\ backup # Own /\ resolv' = resolv
  BY DEF StraightNow, Alone, Reloaded, Loaded, Bound, Listening, Activate
<1>1. CASE Reloaded(a)
  <2>1. pc'[a] = "idle" /\ Resting'
    BY <1>0, <1>1 DEF Reloaded
  <2> QED BY <1>0, <1>1, <2>1, Focus DEF Reloaded
<1>2. CASE Loaded(a)
  <2>1. port' = port /\ port[current'] = None /\ mine'[a] = current' /\ pc'[a] = "bind"
    BY <1>2 DEF Loaded, Fresh
  <2>2. AtAwait(a)' /\ OnlyCurrent'
    BY <1>0, <1>2, <2>1 DEF Loaded
  <2> QED BY <1>0, <2>1, <2>2, Focus
<1>3. CASE Bound(a)
  <2>1. mine[a] = current /\ current' = current /\ managed' = managed /\ enabled' = enabled
    BY <1>0, <1>3 DEF Bound
  <2>2. CASE pc'[a] = "idle"
    <3>1. port' = port /\ status' = "error"
      BY <1>3, <2>2 DEF Bound
    <3>2. Resting' /\ AtAwait(a)' /\ OnlyCurrent'
      BY <1>0, <1>3, <2>1, <2>2, <3>1 DEF Bound
    <3> QED BY <1>0, <3>2, Focus
  <2>3. CASE pc'[a] # "idle"
    <3>1. PICK p \in Ports : port' = [port EXCEPT ![current] = p]
      BY <1>3, <2>1, <2>3 DEF Bound, Ports
    <3>2. Running' /\ OnlyCurrent' /\ pc'[a] \in {"tcp", "tcpFallback"}
      BY <1>0, <1>3, <2>1, <2>3, <3>1 DEF Bound, Ports
    <3>3. AtAwait(a)'
      BY <1>0, <1>3, <2>1, <3>2 DEF Bound
    <3> QED BY <1>0, <2>3, <3>2, <3>3, Focus
  <2> QED BY <2>2, <2>3
<1>4. CASE Listening(a)
  <2>1. port' = port /\ current' = current /\ managed' = managed
    BY <1>4 DEF Listening
  <2>2. ForStart(a) /\ Running /\ resolv # Own
    BY <1>0, <1>4 DEF Listening
  <2>3. CASE Activate(a)
    <3>1. pc'[a] = "idle" /\ status' = "active" /\ enabled'
      BY <1>0, <2>2, <2>3 DEF Activate
    <3>2. AtAwait(a)' /\ OnlyCurrent' /\ Resting'
      BY <1>0, <2>1, <2>2, <3>1
    <3> QED BY <1>0, <3>2, Focus
  <2>4. CASE pc[a] = "tcp" /\ Goto(a, BackUpOnce) /\ UNCHANGED <<status, enabled>>
    <3>1. pc'[a] \in {"copy", "tee"}
      BY <2>4 DEF BackUpOnce
    <3>2. AtAwait(a)' /\ OnlyCurrent'
      BY <1>0, <2>1, <2>2, <2>4, <3>1
    <3> QED BY <1>0, <3>1, <3>2, Focus
  <2> QED BY <1>4, <2>3, <2>4 DEF Listening
<1> QED BY <1>1, <1>2, <1>3, <1>4

LEMMA StraightTakeOver ==
  ASSUME TypeOK, StraightNow, NEW a \in Callers,
         Copied(a) \/ TakenOver(a) \/ NotTakenOver(a) \/ Started(a), ~astray'
  PROVE  StraightNow'
<1> USE DEF TypeOK, Goto, disk, history, AtAwait, ForStart, OnlyCurrent, Resting, Running,
           Own, None
<1>0. /\ pc[a] # "idle" /\ (\A b \in Callers \ {a} : pc[b] = "idle" /\ pc'[b] = "idle")
      /\ AtAwait(a) /\ OnlyCurrent /\ backup # Own /\ port' = port /\ current' = current
  BY DEF StraightNow, Alone, Copied, TakenOver, NotTakenOver, Started, Activate
<1>1. CASE Copied(a)
  BY <1>0, <1>1, Focus DEF Copied
<1>2. CASE TakenOver(a)
  BY <1>0, <1>2, Focus DEF TakenOver
<1>3. CASE NotTakenOver(a)
  <2>1. AtAwait(a)' /\ Resting' /\ backup' = backup
    BY <1>0, <1>3 DEF NotTakenOver, Activate
  <2> QED BY <1>0, <2>1, Focus
<1>4. CASE Started(a)
  <2>1. AtAwait(a)' /\ Resting' /\ backup' = backup
    BY <1>0, <1>4 DEF Started, NowManaged, Activate
  <2> QED BY <1>0, <2>1, Focus
<1> QED BY <1>1, <1>2, <1>3, <1>4

LEMMA StraightStop ==
  ASSUME TypeOK, StraightNow, NEW a \in Callers,
         Flushed(a) \/ Closing(a) \/ Stopped(a), ~astray'
  PROVE  StraightNow'
<1> USE DEF TypeOK, Goto, disk, history, AtAwait, ForStart, OnlyCurrent, Resting, Running,
           Own, None
<1>0. /\ pc[a] # "idle" /\ (\A b \in Callers \ {a} : pc[b] = "idle" /\ pc'[b] = "idle")
      /\ AtAwait(a) /\ OnlyCurrent /\ backup' = backup /\ backup # Own /\ resolv' = resolv
      /\ current' = current
  BY DEF StraightNow, Alone, Flushed, Closing, Stopped, Close
<1>1. CASE Flushed(a)
  <2>1. AtAwait(a)' /\ OnlyCurrent' /\ pc'[a] # "idle"
    BY <1>0, <1>1 DEF Flushed, Close
  <2> QED BY <1>0, <2>1, Focus
<1>2. CASE Closing(a)
  <2>1. AtAwait(a)' /\ OnlyCurrent' /\ pc'[a] # "idle"
    BY <1>0, <1>2 DEF Closing, Close
  <2> QED BY <1>0, <2>1, Focus
<1>3. CASE Stopped(a)
  <2>1. AtAwait(a)' /\ OnlyCurrent' /\ Resting'
    BY <1>0, <1>3 DEF Stopped, ShownDisabled
  <2> QED BY <1>0, <2>1, Focus
<1> QED BY <1>1, <1>2, <1>3

(* The step that sets all right again needs nothing of what was before. *)
LEMMA StraightRestored ==
  ASSUME TypeOK, Straight, NEW a \in Callers, Restored(a), ~astray'
  PROVE  StraightNow'
<1> USE DEF TypeOK, Goto, disk, Straight, StraightNow
<1>1. /\ resolv' = Saved /\ (~astray \/ Clean(a)) /\ backup' = backup
      /\ port' = port /\ current' = current
      /\ pc'[a] = "unteed" /\ pc[a] # "idle"
      /\ \A b \in Callers \ {a} : pc'[b] = pc[b]
  BY DEF Restored, Fault
<1>2. /\ backup # Own /\ OnlyCurrent
      /\ \A b \in Callers \ {a} : pc[b] = "idle"
  BY <1>1 DEF Clean, Alone, OnlyCurrent
<1>3. OnlyCurrent' /\ AtAwait(a)'
  BY <1>1, <1>2, SavedForeign DEF OnlyCurrent, AtAwait
<1> QED BY <1>1, <1>2, <1>3, Focus

LEMMA StraightBegins ==
  ASSUME TypeOK, StraightNow, NEW a \in Callers, Quiet,
         \/ BeginStart(a) /\ (enabled \/ a \in Keys)
         \/ BeginStop(a) /\ Running
  PROVE  StraightNow'
<1> USE DEF TypeOK, Goto, disk, AtAwait, ForStart, OnlyCurrent, Resting, Running
<1>1. /\ Resting /\ OnlyCurrent /\ backup # Own
      /\ UNCHANGED <<port, current, managed, enabled, resolv, backup>>
      /\ \A b \in Callers \ {a} : pc'[b] = "idle"
  BY DEF StraightNow, Quiet, BeginStart, BeginStop
<1>2. AtAwait(a)' /\ pc'[a] # "idle"
  BY <1>1 DEF BeginStart, BeginStop, Already
<1> QED BY <1>1, <1>2, Focus

LEMMA StraightStep ==
  ASSUME TypeOK, Straight, [Next]_vars, ~astray'
  PROVE  StraightNow'
<1> USE DEF Straight
<1>1. ASSUME NEW a \in Callers, Step(a)
      PROVE  StraightNow'
  <2>1. CASE Restored(a)
    BY <2>1, StraightRestored
  <2>2. CASE Copied(a)
    <3>1. StraightNow
      BY <2>2 DEF Copied, history
    <3> QED BY <2>2, <3>1, StraightTakeOver
  <2>3. CASE Reloaded(a) \/ Loaded(a) \/ Bound(a) \/ Listening(a)
    BY <2>3, StraightStart DEF Reloaded, Loaded, Bound, Listening, history
  <2>4. CASE TakenOver(a) \/ NotTakenOver(a) \/ Started(a)
    BY <2>4, StraightTakeOver DEF TakenOver, NotTakenOver, Started, history
  <2>5. CASE Flushed(a) \/ Closing(a) \/ Stopped(a)
    BY <2>5, StraightStop DEF Flushed, Closing, Stopped, history
  <2> QED BY <1>1, <2>1, <2>2, <2>3, <2>4, <2>5 DEF Step
<1>2. CASE \E k \in Keys : Toggle(k)
  BY <1>2, StraightBegins DEF Toggle, Begins, Callers
<1>3. CASE RouteUp \/ RouteDown
  BY <1>3, StraightBegins DEF RouteUp, RouteDown, Begins, Callers
<1>4. CASE Crash
  <2>1. ~astray /\ resolv' # Own /\ ~managed' /\ status' = "disabled"
    BY <1>4 DEF Crash
  <2>2. \A a \in Callers : pc'[a] = "idle"
    BY <1>4 DEF Crash
  <2>3. \A s \in Servers : port'[s] = None
    BY <1>4 DEF Crash
  <2>4. ~Running'
    BY <1>4, <2>3 DEF Crash, TypeOK, Running
  <2>5. backup' # Own
    BY <1>4, <2>1 DEF Crash, ChildEnds, StraightNow, AtAwait
  <2> QED BY <2>1, <2>2, <2>3, <2>4, <2>5
          DEF StraightNow, Alone, OnlyCurrent, Quiet, Resting, AtAwait
<1>5. CASE NetworkChanges
  <2>1. resolv' # Own
    BY <1>5, ContentsAssumption DEF NetworkChanges
  <2>2. ~astray /\ UNCHANGED <<pc, mine, current, port, managed, status, enabled, backup>>
    BY <1>5 DEF NetworkChanges, history
  <2>3. \A a \in Callers : AtAwait(a)'
    BY <2>1, <2>2 DEF StraightNow, AtAwait, ForStart, Resting, Running
  <2> QED BY <2>1, <2>2, <2>3 DEF StraightNow, Alone, OnlyCurrent, Quiet, Resting, Running
<1>6. CASE UNCHANGED vars
  BY <1>6 DEF vars, disk, history, StraightNow, Alone, OnlyCurrent, Quiet, Resting, AtAwait,
              ForStart, Running
<1> QED BY <1>1, <1>2, <1>3, <1>4, <1>5, <1>6 DEF Next, RouteCancelled

LEMMA StraightHolds == Spec => []Straight
<1>1. Init => Straight
  BY ContentsAssumption
  DEF Init, Straight, StraightNow, Alone, OnlyCurrent, Quiet, Resting, AtAwait, Running,
      None, Own
<1>2. TypeOK /\ Straight /\ [Next]_vars => Straight'
  BY StraightStep DEF Straight
<1> QED BY ShieldTypeCorrect, <1>1, <1>2, PTL DEF Spec

(* When the Shield is down the system does not point at it, after any sequence of *)
(* starts, stops, changes of network and crashes (shield.py:141-165, 300-367).    *)
THEOREM DownIsForeign == Spec => []DownMeansForeign
<1>1. Straight => DownMeansForeign
  BY DEF Straight, StraightNow, Resting, DownMeansForeign
<1> QED BY StraightHolds, <1>1, PTL

(* No listener is lost sight of (shield.py:85-104, resolver.py:327-386). *)
THEOREM NoListenerLost == Spec => []OneListener
<1>1. Straight => OneListener
  BY DEF Straight, StraightNow, OnlyCurrent, OneListener
<1> QED BY StraightHolds, <1>1, PTL

(* The status and the switch that is saved agree with the listener                *)
(* (shield.py:120-134, 158-176).                                                  *)
THEOREM StatusIsShown == Spec => []ShownActive
<1>1. Straight => ShownActive
  BY DEF Straight, StraightNow, Resting, ShownActive
<1> QED BY StraightHolds, <1>1, PTL

-----------------------------------------------------------------------------
(* Resolver. *)

(* Next, one disjunct per action. *)
LEMMA ResolverCases ==
  ASSUME ResolverNext
  PROVE  \/ \E l \in Loads : Reload(l)
         \/ \E l \in Loads : Discover(l)
         \/ \E l \in Loads : Clear(l)
         \/ \E l \in Loads, f \in Lists : ReadFile(l, f)
         \/ \E l \in Loads : ClearWhitelist(l)
         \/ \E l \in Loads : ReadWhitelist(l)
         \/ \E l \in Loads : Merge(l)
         \/ \E l \in Loads : LoadReturns(l)
         \/ \E l \in Loads, f \in Lists : SelectList(l, f)
         \/ LoopDiscovers
         \/ \E n \in Names : WhitelistAdd(n)
         \/ WhitelistAdded
         \/ \E n \in Names : Expires(n)
         \/ \E u \in Upstreams : SetUpstream(u)
         \/ \E q \in Queries : Answered(q)
         \/ \E q \in Queries : TimedOut(q)
         \/ \E q \in Queries, n \in Names : Forward(q, n)
  BY DEF ResolverNext, LoadStep

LEMMA ListChanged ==
  ASSUME ResolverTypeOK, Changes
  PROVE  listChanges' \in 0..MaxListChanges
  BY ListsAssumption DEF ResolverTypeOK, ListsOK, Changes

LEMMA BeginKeeps ==
  ASSUME ResolverTypeOK, NEW l \in Loads, NEW S \in SUBSET Lists, BeginLoad(l, S)
  PROVE  /\ present' = present /\ todo' = todo /\ read' = read
         /\ at' \in [Loads -> {"idle", "discover", "clear", "files", "read", "merge",
                              "loaded"}]
         /\ choice' \in [Loads -> SUBSET Lists] /\ mixed' \in BOOLEAN
         /\ \A m \in Loads : at[m] \in {"read", "merge"} => at'[m] = at[m]
  BY DEF BeginLoad, MoveTo, Idle, Chosen, ResolverTypeOK, ListsOK

(* A load or a change of the lists keeps the types of what they are about; the *)
(* upstream and the queries only lose what is cached.                          *)
LEMMA ListsTypeStep ==
  ASSUME ResolverTypeOK, [ResolverNext]_resolverVars
  PROVE  ListsOK'
<1> USE DEF ResolverTypeOK, ListsOK
<1>1. CASE \E l \in Loads : Reload(l)
  <2>1. PICK l \in Loads : Reload(l)
    BY <1>1
  <2> QED BY <2>1, BeginKeeps DEF Reload, sets, settings
<1>2. CASE \E l \in Loads : Discover(l)
  BY <1>2 DEF Discover, MoveTo, sets, settings
<1>3. CASE \E l \in Loads : Clear(l)
  BY <1>3 DEF Clear, Emptied, MoveTo, settings
<1>4. CASE \E l \in Loads, f \in Lists : ReadFile(l, f)
  BY <1>4, ListsAssumption DEF ReadFile, settings
<1>5. CASE \E l \in Loads : ClearWhitelist(l)
  BY <1>5 DEF ClearWhitelist, MoveTo, settings
<1>6. CASE \E l \in Loads : ReadWhitelist(l)
  BY <1>6 DEF ReadWhitelist, MoveTo, sets, settings
<1>7. CASE \E l \in Loads : Merge(l)
  BY <1>7 DEF Merge, MergeAdds, MoveTo, settings
<1>8. CASE \E l \in Loads : LoadReturns(l)
  BY <1>8 DEF LoadReturns, MoveTo, sets, settings
<1>9. CASE \E l \in Loads, f \in Lists : SelectList(l, f)
  <2>1. PICK l \in Loads, f \in Lists : SelectList(l, f)
    BY <1>9
  <2>2. PICK S \in {selected \cup {f}, selected \ {f}} \ {selected} :
          selected' = S /\ BeginLoad(l, S)
    BY <2>1 DEF SelectList
  <2>3. S \in SUBSET Lists
    BY <2>2
  <2>4. listChanges' \in 0..MaxListChanges
    BY <2>1, ListChanged DEF SelectList
  <2> QED BY <2>1, <2>2, <2>3, <2>4, BeginKeeps DEF SelectList, sets
<1>10. CASE \E n \in Names : WhitelistAdd(n)
  <2>1. PICK n \in Names : WhitelistAdd(n)
    BY <1>10
  <2>2. listChanges' \in 0..MaxListChanges
    BY <2>1, ListChanged DEF WhitelistAdd
  <2> QED BY <2>1, <2>2 DEF WhitelistAdd, sets, loads
<1>11. CASE WhitelistAdded
  BY <1>11 DEF WhitelistAdded, LoopFree, settings, loads
<1>12. CASE \E n \in Names : Expires(n)
  BY <1>12 DEF Expires, sets, settings, loads
<1>13. CASE \E u \in Upstreams : SetUpstream(u)
  BY <1>13 DEF SetUpstream, sets, settings, loads
<1>14. CASE \E q \in Queries : Answered(q)
  BY <1>14 DEF Answered, sets, settings, loads
<1>15. CASE \E q \in Queries : TimedOut(q)
  BY <1>15 DEF TimedOut, sets, settings, loads
<1>16. CASE \E q \in Queries, n \in Names : Forward(q, n)
  BY <1>16 DEF Forward, sets, settings, loads
<1>17. CASE LoopDiscovers
  BY <1>17, ListChanged DEF LoopDiscovers, sets
<1>18. CASE UNCHANGED resolverVars
  BY <1>18 DEF resolverVars, sets, settings, loads
<1> QED
  BY <1>1, <1>2, <1>3, <1>4, <1>5, <1>6, <1>7, <1>8, <1>9, <1>10, <1>11, <1>12, <1>13,
     <1>14, <1>15, <1>16, <1>17, <1>18, ResolverCases

LEMMA SeqEnds ==
  ASSUME NEW s \in Seq(NameServers) \ {<<>>}
  PROVE  /\ Head(s) \in NameServers /\ 1 \in DOMAIN s /\ Head(s) = s[1]
         /\ Len(s) > 1 => Tail(s) \in Seq(NameServers) \ {<<>>}
         /\ \A i \in DOMAIN Tail(s) : i + 1 \in DOMAIN s /\ Tail(s)[i] = s[i + 1]
<1>1. Len(s) \in Nat /\ Len(s) # 0 /\ DOMAIN s = 1..Len(s)
  OBVIOUS
<1>2. Tail(s) \in Seq(NameServers) /\ Len(Tail(s)) = Len(s) - 1
  BY <1>1
<1>3. Len(s) > 1 => Tail(s) # <<>>
  <2>1. Len(s) > 1 => Len(Tail(s)) # 0
    BY <1>1, <1>2
  <2> QED BY <2>1, EmptySeq, Zenon
<1>4. \A i \in DOMAIN Tail(s) : i + 1 \in DOMAIN s /\ Tail(s)[i] = s[i + 1]
  BY <1>1, <1>2
<1> QED BY <1>1, <1>2, <1>3, <1>4

(* The steps that touch no query and leave the upstream alone. *)
LEMMA OnlyLists ==
  ASSUME \/ \E l \in Loads : Reload(l) \/ Discover(l) \/ Clear(l) \/ Merge(l)
         \/ \E l \in Loads : ClearWhitelist(l) \/ ReadWhitelist(l)
         \/ \E l \in Loads, f \in Lists : ReadFile(l, f) \/ SelectList(l, f)
         \/ \E n \in Names : WhitelistAdd(n)
         \/ LoopDiscovers \/ UNCHANGED resolverVars
  PROVE  UNCHANGED <<upstream, cache, asked, rest, late>>
  BY DEF Reload, Discover, Clear, Merge, ClearWhitelist, ReadWhitelist, ReadFile,
         SelectList, WhitelistAdd, LoopDiscovers, queries, resolverVars

LEMMA FinishKeeps ==
  ASSUME ResolverTypeOK, NEW q \in Queries, Finish(q)
  PROVE  /\ asked' \in [Queries -> Names \cup {Nameless}]
         /\ rest' \in [Queries -> Seq(NameServers) \ {<<>>}]
         /\ asked'[q] = Nameless
         /\ \A p \in Queries \ {q} : asked'[p] = asked[p] /\ rest'[p] = rest[p]
<1>1. Plain \in Seq(NameServers) \ {<<>>}
  BY UpstreamAssumption DEF Upstreams
<1> QED BY <1>1 DEF Finish, ResolverTypeOK, QueriesOK

LEMMA QueriesTypeStep ==
  ASSUME ResolverTypeOK, [ResolverNext]_resolverVars
  PROVE  QueriesOK'
<1>0. QueriesOK /\ Upstreams \subseteq Seq(NameServers) \ {<<>>}
  BY UpstreamAssumption DEF ResolverTypeOK
<1>1. CASE UNCHANGED <<upstream, cache, asked, rest, late>>
  BY <1>0, <1>1 DEF QueriesOK
<1>2. CASE \E l \in Loads : LoadReturns(l)
  BY <1>0, <1>2 DEF QueriesOK, LoadReturns
<1>3. CASE WhitelistAdded
  BY <1>0, <1>3 DEF QueriesOK, WhitelistAdded
<1>4. CASE \E n \in Names : Expires(n)
  BY <1>0, <1>4 DEF QueriesOK, Expires
<1>5. CASE \E u \in Upstreams : SetUpstream(u)
  BY <1>0, <1>5 DEF QueriesOK, SetUpstream, CacheCleared
<1>6. CASE \E q \in Queries : Answered(q)
  <2>1. PICK q \in Queries : Answered(q)
    BY <1>6
  <2>2. asked[q] \in Names /\ Head(rest[q]) \in NameServers
    BY <1>0, <2>1, SeqEnds DEF QueriesOK, Answered
  <2> QED BY <1>0, <2>1, <2>2, FinishKeeps DEF QueriesOK, Answered
<1>7. CASE \E q \in Queries : TimedOut(q)
  <2>1. PICK q \in Queries : TimedOut(q)
    BY <1>7
  <2>2. CASE Len(rest[q]) > 1 /\ NextServer(q)
    <3>1. Tail(rest[q]) \in Seq(NameServers) \ {<<>>}
      BY <1>0, <2>2, SeqEnds DEF QueriesOK
    <3> QED BY <1>0, <2>1, <2>2, <3>1 DEF QueriesOK, TimedOut, NextServer
  <2>3. CASE GiveUp(q)
    BY <1>0, <2>1, <2>3, FinishKeeps DEF QueriesOK, TimedOut, GiveUp
  <2> QED BY <2>1, <2>2, <2>3 DEF TimedOut
<1>8. CASE \E q \in Queries, n \in Names : Forward(q, n)
  BY <1>0, <1>8 DEF QueriesOK, Forward
<1> QED
  BY <1>1, <1>2, <1>3, <1>4, <1>5, <1>6, <1>7, <1>8, ResolverCases, OnlyLists

LEMMA ResolverTypeInit == ResolverInit => ResolverTypeOK
<1>1. /\ Plain \in Upstreams /\ Plain \in Seq(NameServers) \ {<<>>}
      /\ ListedBy(Lists) \subseteq Names /\ ExceptedBy(Lists) \subseteq Names
      /\ 0 \in 0..MaxListChanges
  BY UpstreamAssumption, ListsAssumption DEF Upstreams, ListedBy, ExceptedBy
<1> QED BY <1>1 DEF ResolverInit, ResolverTypeOK, ListsOK, QueriesOK

(* Every variable keeps its type, for any lists, names and upstreams (dns/resolver.py, *)
(* dns/blocklist.py:44-62).                                                            *)
THEOREM ResolverTypeCorrect == ResolverSpec => []ResolverTypeOK
<1>1. ResolverTypeOK /\ [ResolverNext]_resolverVars => ResolverTypeOK'
  BY ListsTypeStep, QueriesTypeStep DEF ResolverTypeOK
<1> QED BY ResolverTypeInit, <1>1, PTL DEF ResolverSpec

-----------------------------------------------------------------------------
(* The whitelist.  A name of the file that the library does not hold is on its *)
(* way there: its addition is half done, or a load has read it and not merged  *)
(* it yet, or is about to read it.                                             *)
OnItsWay(m) ==
  \/ m \in allowed
  \/ adding = m
  \/ \E l \in Loads : at[l] = "read" \/ (at[l] = "merge" /\ m \in read[l])
WhiteKept == \A m \in white : OnItsWay(m)

LEMMA CoverIsAncestor ==
  ASSUME NEW m \in Names, NEW n \in Names, Covers(m, n)
  PROVE  m \in Ancestors(n)
<1> DEFINE i == Len(n) - Len(m) + 1
<1>1. Len(m) \in Nat \ {0} /\ Len(n) \in Nat \ {0}
  BY NamesAssumption
<1>2. i \in 1..(IF Len(n) > 1 THEN Len(n) - 1 ELSE 1) /\ m = SubSeq(n, i, Len(n))
  BY <1>1 DEF Covers
<1> QED BY <1>2 DEF Ancestors

LEMMA WhiteStep ==
  ASSUME ResolverTypeOK, WhiteKept, [ResolverNext]_resolverVars
  PROVE  WhiteKept'
<1> SUFFICES ASSUME NEW m \in white'
             PROVE  OnItsWay(m)'
  BY DEF WhiteKept
<1> USE DEF ResolverTypeOK, ListsOK, OnItsWay, WhiteKept, Nameless
<1>1. CASE \E l \in Loads : Reload(l)
  <2>1. PICK l \in Loads : Reload(l)
    BY <1>1
  <2> QED BY <2>1, BeginKeeps DEF Reload, sets, settings
<1>2. CASE \E l \in Loads : Discover(l)
  BY <1>2 DEF Discover, MoveTo, sets, settings
<1>3. CASE \E l \in Loads : Clear(l)
  BY <1>3 DEF Clear, MoveTo, settings
<1>4. CASE \E l \in Loads, f \in Lists : ReadFile(l, f)
  BY <1>4 DEF ReadFile, settings
<1>5. CASE \E l \in Loads : ClearWhitelist(l)
  BY <1>5 DEF ClearWhitelist, MoveTo, settings
<1>6. CASE \E l \in Loads : ReadWhitelist(l)
  BY <1>6 DEF ReadWhitelist, MoveTo, sets, settings
<1>7. CASE \E l \in Loads : Merge(l)
  BY <1>7 DEF Merge, MergeAdds, MoveTo, settings
<1>8. CASE \E l \in Loads : LoadReturns(l)
  BY <1>8 DEF LoadReturns, MoveTo, sets, settings
<1>9. CASE \E l \in Loads, f \in Lists : SelectList(l, f)
  <2>1. PICK l \in Loads, f \in Lists : SelectList(l, f)
    BY <1>9
  <2>2. PICK S \in SUBSET Lists : BeginLoad(l, S)
    BY <2>1 DEF SelectList
  <2> QED BY <2>1, <2>2, BeginKeeps DEF SelectList, sets
<1>10. CASE \E n \in Names : WhitelistAdd(n)
  BY <1>10, NamesAssumption DEF WhitelistAdd, LoopFree, sets, loads
<1>11. CASE WhitelistAdded
  BY <1>11 DEF WhitelistAdded, settings, loads
<1>12. CASE LoopDiscovers
  BY <1>12 DEF LoopDiscovers, sets
<1>13. CASE UNCHANGED <<sets, settings, loads, adding>>
  BY <1>13 DEF sets, settings, loads
<1> QED
  BY <1>1, <1>2, <1>3, <1>4, <1>5, <1>6, <1>7, <1>8, <1>9, <1>10, <1>11, <1>12, <1>13,
     ResolverCases
  DEF Expires, SetUpstream, Answered, TimedOut, Forward, resolverVars

(* A name the whitelist file covers is not blocked once no load is in progress: *)
(* OnItsWay leaves it nothing but to be in the library (blocklist.py:170-177,   *)
(* 208-223, 300-318).                                                           *)
THEOREM WhitelistHolds == ResolverSpec => []WhitelistWins
<1>1. ResolverInit => WhiteKept
  BY DEF ResolverInit, WhiteKept
<1>2. ResolverTypeOK /\ WhiteKept /\ [ResolverNext]_resolverVars => WhiteKept'
  BY WhiteStep
<1>3. ResolverTypeOK /\ WhiteKept => WhitelistWins
  <2> SUFFICES ASSUME ResolverTypeOK, WhiteKept, AtRest, LoopFree,
                      NEW n \in Names, NEW m \in white, Covers(m, n)
               PROVE  ~IsBlocked(n)
    BY DEF WhitelistWins
  <2>1. m \in Names /\ m # Nameless
    BY NamesAssumption DEF ResolverTypeOK, ListsOK
  <2>2. m \in allowed
    BY <2>1 DEF WhiteKept, OnItsWay, AtRest, LoopFree, Idle
  <2> QED BY <2>1, <2>2, CoverIsAncestor DEF IsBlocked
<1> QED BY ResolverTypeCorrect, <1>1, <1>2, <1>3, PTL DEF ResolverSpec

-----------------------------------------------------------------------------
(* The upstream.  A question that was not in flight when the upstream changed *)
(* has only servers of this upstream before it.                               *)
AsksNew ==
  \A q \in Queries : asked[q] # Nameless /\ asked[q] \notin late =>
    \A i \in DOMAIN rest[q] : OfUpstream(rest[q][i])
CachesNew == \A n \in Names : cache[n] # Nobody /\ ~OfUpstream(cache[n]) => n \in late
NewOnly == AsksNew /\ CachesNew

LEMMA NewOnlyStep ==
  ASSUME ResolverTypeOK, NewOnly, [ResolverNext]_resolverVars
  PROVE  NewOnly'
<1>0. QueriesOK
  BY DEF ResolverTypeOK
<1>1. CASE UNCHANGED <<upstream, cache, asked, rest, late>>
  BY <1>1 DEF NewOnly, AsksNew, CachesNew, OfUpstream
<1>2. CASE \E l \in Loads : LoadReturns(l)
  BY <1>0, <1>2 DEF LoadReturns, NewOnly, AsksNew, CachesNew, OfUpstream
<1>3. CASE WhitelistAdded
  BY <1>0, <1>3 DEF WhitelistAdded, NewOnly, AsksNew, CachesNew, OfUpstream
<1>4. CASE \E n \in Names : Expires(n)
  BY <1>0, <1>4 DEF QueriesOK, Expires, NewOnly, AsksNew, CachesNew, OfUpstream
<1>5. CASE \E u \in Upstreams : SetUpstream(u)
  BY <1>0, <1>5 DEF QueriesOK, SetUpstream, CacheCleared, NewOnly, AsksNew, CachesNew
<1>6. CASE \E q \in Queries : Answered(q)
  <2>1. PICK q \in Queries : Answered(q)
    BY <1>6
  <2>2. /\ asked[q] \in Names /\ 1 \in DOMAIN rest[q] /\ Head(rest[q]) = rest[q][1]
        /\ upstream' = upstream /\ late' = late
        /\ \A n \in Names : cache'[n] = IF n = asked[q] THEN rest[q][1] ELSE cache[n]
    BY <1>0, <2>1, SeqEnds DEF QueriesOK, Answered
  <2>3. asked[q] \in late \/ OfUpstream(rest[q][1])
    BY <2>1, <2>2 DEF NewOnly, AsksNew, Answered
  <2>4. /\ asked'[q] = Nameless
        /\ \A p \in Queries \ {q} : asked'[p] = asked[p] /\ rest'[p] = rest[p]
    BY <2>1, FinishKeeps DEF Answered
  <2>5. CachesNew'
    BY <2>2, <2>3 DEF NewOnly, CachesNew, OfUpstream
  <2>6. AsksNew'
    BY <2>2, <2>4 DEF NewOnly, AsksNew, OfUpstream
  <2> QED BY <2>5, <2>6 DEF NewOnly
<1>7. CASE \E q \in Queries : TimedOut(q)
  <2>1. PICK q \in Queries : TimedOut(q)
    BY <1>7
  <2>2. upstream' = upstream /\ late' = late /\ cache' = cache
    BY <2>1 DEF TimedOut, NextServer, GiveUp
  <2>3. CASE Len(rest[q]) > 1 /\ NextServer(q)
    <3>1. /\ asked' = asked /\ rest'[q] = Tail(rest[q])
          /\ \A p \in Queries \ {q} : rest'[p] = rest[p]
      BY <1>0, <2>3 DEF QueriesOK, NextServer
    <3>2. \A i \in DOMAIN rest'[q] : i + 1 \in DOMAIN rest[q] /\ rest'[q][i] = rest[q][i + 1]
      BY <1>0, <3>1, SeqEnds DEF QueriesOK
    <3>3. CachesNew'
      BY <2>2 DEF NewOnly, CachesNew, OfUpstream
    <3>4. ASSUME asked[q] # Nameless, asked[q] \notin late
          PROVE  \A i \in DOMAIN rest'[q] : OfUpstream(rest'[q][i])
      BY <3>2, <3>4 DEF NewOnly, AsksNew
    <3>5. AsksNew'
      BY <2>2, <3>1, <3>4 DEF NewOnly, AsksNew, OfUpstream
    <3> QED BY <3>3, <3>5 DEF NewOnly
  <2>4. CASE GiveUp(q)
    <3>1. /\ asked'[q] = Nameless
          /\ \A p \in Queries \ {q} : asked'[p] = asked[p] /\ rest'[p] = rest[p]
      BY <2>4, FinishKeeps DEF GiveUp
    <3> QED BY <2>2, <3>1 DEF NewOnly, AsksNew, CachesNew, OfUpstream
  <2> QED BY <2>1, <2>3, <2>4 DEF TimedOut
<1>8. CASE \E q \in Queries, n \in Names : Forward(q, n)
  BY <1>0, <1>8 DEF QueriesOK, Forward, NewOnly, AsksNew, CachesNew, OfUpstream
<1> QED
  BY <1>1, <1>2, <1>3, <1>4, <1>5, <1>6, <1>7, <1>8, ResolverCases, OnlyLists

(* After a change of the upstream only questions that were in flight then still wait *)
(* for another server or leave its answer in the cache, whatever times out and       *)
(* however many servers each upstream has (resolver.py:127-135, 181-203).            *)
THEOREM OnlyLateLeak == ResolverSpec => []LateOnly
<1>1. ResolverInit => NewOnly
  BY DEF ResolverInit, NewOnly, AsksNew, CachesNew
<1>2. ResolverTypeOK /\ NewOnly /\ [ResolverNext]_resolverVars => NewOnly'
  BY NewOnlyStep
<1>3. ResolverTypeOK /\ NewOnly => LateOnly
  BY SeqEnds DEF ResolverTypeOK, QueriesOK, NewOnly, AsksNew, CachesNew, LateOnly
<1> QED BY ResolverTypeCorrect, <1>1, <1>2, <1>3, PTL DEF ResolverSpec
-----------------------------------------------------------------------------
(* The lists.  While the loads agree, one of those that are past the clearing of *)
(* the sets has added all it is not still to read: it is the last that cleared   *)
(* them.  Another load only adds what the same lists hold, or takes away what    *)
(* the whitelist or an exception takes away.                                     *)
Wanted == Chosen(selected)
PastClear(l) == at[l] \in {"files", "read", "merge", "loaded"}

Agree ==
  ~mixed =>
    \A l \in Loads :
      /\ ~Idle(l) => choice[l] = Wanted
      /\ at[l] = "clear" => present = Wanted
      /\ at[l] = "files" => todo[l] \subseteq Wanted
Ends == \A l \in Loads : at[l] \in {"read", "merge", "loaded"} => todo[l] = {}
Whitelisted ==
  /\ allowed \subseteq white /\ (adding = Nameless \/ adding \in white)
  /\ \A l \in Loads : read[l] \subseteq white

Needs(T) ==
  \A f \in Wanted \ T :
    /\ Listed(f) \subseteq blocked \cup white \cup ExceptedBy(Wanted)
    /\ Excepted(f) \subseteq released
NoneStale == released \subseteq ExceptedBy(Wanted) /\ blocked \subseteq ListedBy(Wanted)
Content ==
  ~mixed =>
    /\ (\E l \in Loads : PastClear(l)) =>
         NoneStale /\ \E l \in Loads : PastClear(l) /\ Needs(todo[l])
    /\ AtRest => NoneStale /\ Needs({})

Matching == Agree /\ Ends /\ Whitelisted /\ Content

(* A load that is asked for agrees with those under way, unless mixed says not. *)
LEMMA BeginAgrees ==
  ASSUME ResolverTypeOK, Agree, NEW l \in Loads, NEW S \in SUBSET Lists, BeginLoad(l, S),
         selected' = S, ~mixed'
  PROVE  /\ \A o \in Loads \ {l} : ~Idle(o) =>
              /\ ~mixed /\ choice[o] = Wanted' /\ Wanted' = Wanted
         /\ choice'[l] = Wanted' /\ at'[l] = "discover"
         /\ \A o \in Loads \ {l} : at'[o] = at[o] /\ choice'[o] = choice[o]
         /\ present' = present /\ todo' = todo /\ read' = read
<1>1. /\ choice'[l] = Wanted' /\ at'[l] = "discover"
      /\ \A o \in Loads \ {l} : at'[o] = at[o] /\ choice'[o] = choice[o]
      /\ present' = present /\ todo' = todo /\ read' = read
  BY DEF BeginLoad, MoveTo, Wanted, Chosen, ResolverTypeOK, ListsOK
<1>2. \A o \in Loads \ {l} : ~Idle(o) => ~mixed /\ choice[o] = Chosen(S)
  BY DEF BeginLoad
<1>3. Chosen(S) = Wanted'
  BY DEF Wanted, Chosen
<1>4. \A o \in Loads \ {l} : ~Idle(o) => choice[o] = Wanted
  BY <1>2 DEF Agree
<1> QED BY <1>1, <1>2, <1>3, <1>4

LEMMA BeginMatches ==
  ASSUME ResolverTypeOK, Matching, NEW l \in Loads, NEW S \in SUBSET Lists, BeginLoad(l, S),
         selected' = S, UNCHANGED <<sets, white, adding>>
  PROVE  Matching'
<1>1. Ends'
  BY BeginKeeps DEF BeginLoad, MoveTo, Matching, Ends, ResolverTypeOK, ListsOK
<1>2. Whitelisted'
  BY BeginKeeps DEF Matching, Whitelisted, sets
<1>3. CASE mixed'
  BY <1>1, <1>2, <1>3 DEF Matching, Agree, Content
<1>4. CASE ~mixed'
  <2>1. Agree
    BY DEF Matching
  <2>2. Agree'
    BY <1>4, <2>1, BeginAgrees DEF Agree, PastClear, Idle
  <2>3. ~AtRest'
    BY <1>4, <2>1, BeginAgrees DEF AtRest, Idle
  <2>4. ASSUME NEW o \in Loads, PastClear(o)'
        PROVE  NoneStale' /\ \E w \in Loads : PastClear(w)' /\ Needs(todo[w])'
    <3>1. o # l /\ PastClear(o) /\ ~Idle(o)
      BY <1>4, <2>1, <2>4, BeginAgrees DEF PastClear, Idle
    <3>2. ~mixed /\ Wanted' = Wanted
      BY <1>4, <2>1, <3>1, BeginAgrees
    <3>3. PICK w \in Loads : PastClear(w) /\ Needs(todo[w])
      BY <3>1, <3>2 DEF Matching, Content
    <3>4. NoneStale
      BY <3>1, <3>2 DEF Matching, Content
    <3>5. w # l
      BY <3>3 DEF BeginLoad, Idle, PastClear
    <3>6. PastClear(w)' /\ todo' = todo
      BY <1>4, <2>1, <3>3, <3>5, BeginAgrees DEF PastClear
    <3> QED BY <3>2, <3>3, <3>4, <3>6 DEF NoneStale, Needs, sets
  <2> QED BY <1>1, <1>2, <2>2, <2>3, <2>4 DEF Matching, Content
<1> QED BY <1>3, <1>4

LEMMA MatchingStep ==
  ASSUME ResolverTypeOK, Matching, [ResolverNext]_resolverVars
  PROVE  Matching'
<1>0. Agree /\ Ends /\ Whitelisted /\ Content
  BY DEF Matching
<1>1. CASE \E l \in Loads : Reload(l)
  <2>1. PICK l \in Loads : Reload(l)
    BY <1>1
  <2>2. selected \in SUBSET Lists
    BY DEF ResolverTypeOK, ListsOK
  <2> QED BY <2>1, <2>2, BeginMatches DEF Reload, sets, settings
<1>2. CASE \E l \in Loads : Discover(l)
  <2>1. PICK l \in Loads : Discover(l)
    BY <1>2
  <2>2. /\ at[l] = "discover" /\ present' = choice[l] /\ at'[l] = "clear"
        /\ \A o \in Loads \ {l} : at'[o] = at[o]
        /\ UNCHANGED <<blocked, released, allowed, white, selected, choice, todo, read,
                       mixed, adding>>
    BY <2>1 DEF Discover, MoveTo, sets, settings, ResolverTypeOK, ListsOK
  <2>3. \A o \in Loads : PastClear(o)' = PastClear(o)
    BY <2>2 DEF PastClear
  <2>4. Agree'
    BY <1>0, <2>2, <2>3 DEF Agree, Idle, Wanted, PastClear
  <2>5. Ends' /\ Whitelisted'
    BY <1>0, <2>2 DEF Ends, Whitelisted
  <2>6. ~AtRest'
    BY <2>2 DEF AtRest, Idle
  <2>7. NoneStale' = NoneStale /\ \A o \in Loads : Needs(todo[o])' = Needs(todo[o])
    BY <2>2 DEF NoneStale, Needs, Wanted
  <2>8. Content'
    BY <1>0, <2>2, <2>3, <2>6, <2>7 DEF Content
  <2> QED BY <2>4, <2>5, <2>8 DEF Matching
<1>3. CASE \E l \in Loads : Clear(l)
  <2>1. PICK l \in Loads : Clear(l)
    BY <1>3
  <2>2. /\ at[l] = "clear" /\ at'[l] = "files" /\ todo'[l] = present
        /\ blocked' = {} /\ released' = {}
        /\ \A o \in Loads \ {l} : at'[o] = at[o] /\ todo'[o] = todo[o]
        /\ UNCHANGED <<allowed, white, selected, present, choice, read, mixed, adding>>
    BY <2>1 DEF Clear, Emptied, MoveTo, settings, ResolverTypeOK, ListsOK
  <2>3. Wanted' = Wanted /\ (~mixed => present = Wanted)
    BY <1>0, <2>2 DEF Agree, Wanted
  <2>4. Agree'
    BY <1>0, <2>2, <2>3 DEF Agree, Idle, PastClear
  <2>5. Ends' /\ Whitelisted'
    BY <1>0, <2>2 DEF Ends, Whitelisted
  <2>6. NoneStale'
    BY <2>2 DEF NoneStale
  <2>7. ~mixed => PastClear(l)' /\ Needs(todo[l])'
    BY <2>2, <2>3 DEF PastClear, Needs
  <2>8. ~AtRest'
    BY <2>2 DEF AtRest, Idle
  <2>9. Content'
    BY <2>2, <2>6, <2>7, <2>8 DEF Content
  <2> QED BY <2>4, <2>5, <2>9 DEF Matching
<1>4. CASE \E l \in Loads, f \in Lists : ReadFile(l, f)
  <2>1. PICK l \in Loads, f \in Lists : ReadFile(l, f)
    BY <1>4
  <2>2. /\ at[l] = "files" /\ f \in todo[l] /\ todo'[l] = todo[l] \ {f}
        /\ blocked' = blocked \cup Listed(f) /\ released' = released \cup Excepted(f)
        /\ \A o \in Loads \ {l} : todo'[o] = todo[o]
        /\ UNCHANGED <<allowed, white, selected, present, at, choice, read, mixed, adding>>
    BY <2>1 DEF ReadFile, settings, ResolverTypeOK, ListsOK
  <2>3. Wanted' = Wanted /\ (~mixed => f \in Wanted)
    BY <1>0, <2>2 DEF Agree, Wanted
  <2>4. Agree'
    BY <1>0, <2>2, <2>3 DEF Agree, Idle, PastClear
  <2>5. Ends' /\ Whitelisted'
    BY <1>0, <2>2 DEF Ends, Whitelisted
  <2>6. ASSUME ~mixed, NoneStale
        PROVE  NoneStale'
    BY <2>2, <2>3, <2>6 DEF NoneStale, ListedBy, ExceptedBy
  <2>7. ASSUME NEW w \in Loads, Needs(todo[w])
        PROVE  Needs(todo[w])'
    <3>1. \A g \in Wanted \ todo'[w] : g \in Wanted \ todo[w] \/ g = f
      BY <2>2
    <3> QED BY <2>2, <2>3, <2>7, <3>1 DEF Needs
  <2>8. PastClear(l) /\ ~AtRest' /\ \A o \in Loads : PastClear(o)' = PastClear(o)
    BY <2>2 DEF AtRest, Idle, PastClear
  <2>9. Content'
    BY <1>0, <2>2, <2>6, <2>7, <2>8 DEF Content
  <2> QED BY <2>4, <2>5, <2>9 DEF Matching
<1>5. CASE \E l \in Loads : ClearWhitelist(l) \/ ReadWhitelist(l) \/ Merge(l)
  <2>1. PICK l \in Loads : ClearWhitelist(l) \/ ReadWhitelist(l) \/ Merge(l)
    BY <1>5
  <2>2. /\ PastClear(l) /\ at'[l] \in {"read", "merge", "loaded"} /\ todo[l] = {}
        /\ \A o \in Loads \ {l} : at'[o] = at[o]
        /\ UNCHANGED <<released, white, selected, present, choice, todo, mixed, adding>>
    BY <1>0, <2>1
    DEF ClearWhitelist, ReadWhitelist, Merge, MoveTo, sets, settings, PastClear, Ends,
        ResolverTypeOK, ListsOK
  <2>3. allowed' \subseteq white /\ \A o \in Loads : read'[o] \subseteq white
    BY <1>0, <2>1
    DEF ClearWhitelist, ReadWhitelist, Merge, MergeAdds, sets, Whitelisted, ResolverTypeOK, ListsOK
  <2>4. blocked' \subseteq blocked /\ blocked \subseteq blocked' \cup allowed' \cup released
    BY <2>1 DEF ClearWhitelist, ReadWhitelist, Merge, sets
  <2>5. \A o \in Loads : PastClear(o)' = PastClear(o)
    BY <2>2 DEF PastClear
  <2>6. Agree' /\ Wanted' = Wanted
    BY <1>0, <2>2, <2>5 DEF Agree, Idle, Wanted, PastClear
  <2>7. Ends' /\ Whitelisted'
    BY <1>0, <2>2, <2>3 DEF Ends, Whitelisted
  <2>8. NoneStale => NoneStale'
    BY <2>2, <2>4, <2>6 DEF NoneStale
  <2>9. ASSUME NEW w \in Loads, NoneStale, Needs(todo[w])
        PROVE  Needs(todo[w])'
    BY <2>2, <2>3, <2>4, <2>6, <2>9 DEF NoneStale, Needs
  <2>10. ~AtRest'
    BY <2>2 DEF AtRest, Idle
  <2>11. Content'
    BY <1>0, <2>2, <2>5, <2>8, <2>9, <2>10 DEF Content
  <2> QED BY <2>6, <2>7, <2>11 DEF Matching
<1>6. CASE \E l \in Loads : LoadReturns(l)
  <2>1. PICK l \in Loads : LoadReturns(l)
    BY <1>6
  <2>2. /\ at[l] = "loaded" /\ at'[l] = "idle" /\ read'[l] = {}
        /\ \A o \in Loads \ {l} : at'[o] = at[o] /\ choice'[o] = choice[o] /\ read'[o] = read[o]
        /\ UNCHANGED <<blocked, released, allowed, white, selected, present, todo, mixed,
                       adding>>
    BY <2>1 DEF LoadReturns, MoveTo, sets, settings, ResolverTypeOK, ListsOK
  <2>3. Agree'
    BY <1>0, <2>2 DEF Agree, Idle, PastClear, Wanted
  <2>4. Ends' /\ Whitelisted'
    BY <1>0, <2>2 DEF Ends, Whitelisted
  <2>5. \A T : Needs(T)' = Needs(T)
    BY <2>2 DEF Needs, Wanted
  <2>6. NoneStale' = NoneStale /\ \A o \in Loads \ {l} : PastClear(o)' = PastClear(o)
    BY <2>2 DEF NoneStale, Wanted, PastClear
  <2>7. ASSUME ~mixed
        PROVE  /\ (\E o \in Loads : PastClear(o)') =>
                    NoneStale' /\ \E o \in Loads : PastClear(o)' /\ Needs(todo[o])'
               /\ AtRest' => NoneStale' /\ Needs({})'
    <3>1. PastClear(l) /\ todo[l] = {} /\ ~PastClear(l)'
      BY <1>0, <2>2 DEF PastClear, Ends
    <3>2. PICK w \in Loads : PastClear(w) /\ Needs(todo[w])
      BY <1>0, <2>7, <3>1 DEF Content
    <3>3. NoneStale'
      BY <1>0, <2>6, <2>7, <3>1 DEF Content
    <3>4. CASE w = l
      <4>1. Needs({})
        BY <3>1, <3>2, <3>4
      <4>2. \A T : Needs(T)'
        <5>1. \A T : Needs(T)
          BY <4>1 DEF Needs
        <5> QED BY <2>5, <5>1
      <4> QED BY <3>3, <4>2, <2>2 DEF Needs, Wanted
    <3>5. CASE w # l
      <4>1. PastClear(w)' /\ Needs(todo[w])'
        BY <2>2, <2>6, <3>2, <3>5 DEF Needs, Wanted
      <4>2. ~AtRest'
        BY <4>1 DEF AtRest, Idle, PastClear
      <4> QED BY <3>3, <4>1, <4>2
    <3> QED BY <3>4, <3>5
  <2>8. Content'
    BY <2>2, <2>7 DEF Content
  <2> QED BY <2>3, <2>4, <2>8 DEF Matching
<1>7. CASE \E l \in Loads, f \in Lists : SelectList(l, f)
  <2>1. PICK l \in Loads, f \in Lists : SelectList(l, f)
    BY <1>7
  <2>2. PICK S \in {selected \cup {f}, selected \ {f}} \ {selected} :
          selected' = S /\ BeginLoad(l, S)
    BY <2>1 DEF SelectList
  <2>3. S \in SUBSET Lists
    BY <2>2 DEF ResolverTypeOK, ListsOK
  <2> QED BY <2>1, <2>2, <2>3, BeginMatches DEF SelectList
<1>8. CASE (\E n \in Names : WhitelistAdd(n)) \/ WhitelistAdded
  <2>1. /\ white \subseteq white' /\ allowed' \subseteq white'
        /\ adding' = Nameless \/ adding' \in white'
        /\ UNCHANGED <<released, selected, present, at, choice, todo, read, mixed>>
        /\ blocked' \subseteq blocked /\ blocked \subseteq blocked' \cup white'
    BY <1>0, <1>8
    DEF WhitelistAdd, WhitelistAdded, LoopFree, Whitelisted, sets, settings, loads
  <2>2. Agree' /\ Ends' /\ Whitelisted' /\ Wanted' = Wanted
    BY <1>0, <2>1 DEF Agree, Ends, Whitelisted, Idle, PastClear, Wanted
  <2>3. NoneStale => NoneStale'
    BY <2>1, <2>2 DEF NoneStale
  <2>4. \A T : Needs(T) => Needs(T)'
    BY <2>1, <2>2 DEF Needs
  <2>5. Content'
    BY <1>0, <2>1, <2>3, <2>4 DEF Content, PastClear, AtRest, Idle
  <2> QED BY <2>2, <2>5 DEF Matching
<1>9. CASE LoopDiscovers
  <2>1. UNCHANGED <<blocked, released, allowed, white, selected, at, choice, todo, read, adding>>
    BY <1>9 DEF LoopDiscovers, sets
  <2>2. ~mixed' => ~mixed /\ \A l \in Loads : at[l] = "clear" => choice[l] = present'
    BY <1>9 DEF LoopDiscovers
  <2>3. Agree'
    BY <1>0, <2>1, <2>2 DEF Agree, Idle, Wanted
  <2>4. Ends' /\ Whitelisted'
    BY <1>0, <2>1 DEF Ends, Whitelisted
  <2>5. Content'
    BY <1>0, <2>1, <2>2 DEF Content, NoneStale, Needs, Wanted, PastClear, AtRest, Idle
  <2> QED BY <2>3, <2>4, <2>5 DEF Matching
<1>10. CASE UNCHANGED <<sets, settings, loads, adding>>
  BY <1>0, <1>10
  DEF Matching, Agree, Ends, Whitelisted, Content, NoneStale, Needs, Wanted, PastClear, AtRest,
      Idle, sets, settings, loads
<1> QED
  BY <1>1, <1>2, <1>3, <1>4, <1>5, <1>6, <1>7, <1>8, <1>9, <1>10, ResolverCases
  DEF Expires, SetUpstream, Answered, TimedOut, Forward, resolverVars

LEMMA MatchingInit == ResolverInit => Matching
<1> SUFFICES ASSUME ResolverInit
             PROVE  Matching
  OBVIOUS
<1>1. Wanted = Lists /\ \A l \in Loads : Idle(l) /\ ~PastClear(l)
  BY DEF ResolverInit, Wanted, Chosen, Idle, PastClear
<1>2. Agree /\ Ends /\ Whitelisted
  BY <1>1 DEF ResolverInit, Agree, Ends, Whitelisted, Idle
<1>3. NoneStale /\ Needs({})
  BY <1>1 DEF ResolverInit, NoneStale, Needs, ListedBy, ExceptedBy
<1> QED BY <1>1, <1>2, <1>3 DEF Matching, Content

(* What the library looks up is what covers the name. *)
LEMMA AncestorCovers ==
  ASSUME NEW m \in Names, NEW n \in Names, m \in Ancestors(n)
  PROVE  Covers(m, n)
<1> DEFINE Labels == UNION {{x[i] : i \in DOMAIN x} : x \in Names}
<1>1. n \in Seq(Labels) /\ Len(n) \in Nat \ {0}
  BY NamesAssumption
<1>2. PICK i \in 1..(IF Len(n) > 1 THEN Len(n) - 1 ELSE 1) : m = SubSeq(n, i, Len(n))
  BY DEF Ancestors
<1> HIDE DEF Labels
<1>3. i \in 1..Len(n) /\ (Len(n) > 1 => i < Len(n))
  BY <1>1
<1>4. Len(m) = Len(n) - i + 1
  BY <1>1, <1>2, <1>3, SubSeqProperties
<1>5. Len(n) - Len(m) + 1 = i
  BY <1>1, <1>3, <1>4
<1>6. SubSeq(n, Len(n) - Len(m) + 1, Len(n)) = m
  BY <1>2, <1>5
<1>7. \A k, j, p \in Nat :
        1 <= j /\ j <= k /\ (k > 1 => j < k) /\ p = k - j + 1 => p <= k /\ (p = 1 => k = 1)
  OBVIOUS
<1>8. Len(m) \in Nat /\ i \in Nat /\ 1 <= i /\ i <= Len(n)
  BY <1>1, <1>3, <1>4
<1>9. Len(m) <= Len(n) /\ (Len(m) = 1 => Len(n) = 1)
  BY <1>1, <1>3, <1>4, <1>7, <1>8
<1> QED BY <1>6, <1>9 DEF Covers

(* When no load is in progress, a name is blocked exactly when the enabled lists *)
(* cover it and neither the whitelist nor an exception does, for any lists and   *)
(* names and however many loads overlapped, as long as they were asked for the   *)
(* same lists and took up what they had discovered (blocklist.py:129-159,        *)
(* 192-223, resolver.py:205-213).                                                *)
THEOREM ListsMatch == ResolverSpec => []MatchesLists
<1>1. ResolverTypeOK /\ Matching /\ [ResolverNext]_resolverVars => Matching'
  BY MatchingStep
<1>2. ResolverInit => WhiteKept
  BY DEF ResolverInit, WhiteKept
<1>3. ResolverTypeOK /\ WhiteKept /\ [ResolverNext]_resolverVars => WhiteKept'
  BY WhiteStep
<1>4. ResolverTypeOK /\ WhiteKept /\ Matching => MatchesLists
  <2> SUFFICES ASSUME ResolverTypeOK, WhiteKept, Matching, AtRest, LoopFree, ~mixed,
                      NEW n \in Names
               PROVE  IsBlocked(n) = ShouldBlock(n)
    BY DEF MatchesLists
  <2> DEFINE L == ListedBy(Wanted)
             E == ExceptedBy(Wanted)
  <2>1. NoneStale /\ Needs({})
    BY DEF Matching, Content
  <2>2. allowed = white
    <3>1. white \subseteq allowed
      BY NamesAssumption
      DEF WhiteKept, OnItsWay, AtRest, LoopFree, Idle, ResolverTypeOK, ListsOK
    <3> QED BY <3>1 DEF Matching, Whitelisted
  <2>3. released = E
    BY <2>1 DEF NoneStale, Needs, ExceptedBy
  <2>4. L \subseteq blocked \cup white \cup E /\ blocked \subseteq L
    BY <2>1 DEF NoneStale, Needs, ListedBy
  <2>5. Wanted \subseteq Lists
    BY DEF Wanted, Chosen, ResolverTypeOK, ListsOK
  <2>6. L \subseteq Names /\ E \subseteq Names /\ white \subseteq Names
    BY <2>5, ListsAssumption DEF ListedBy, ExceptedBy, ResolverTypeOK, ListsOK
  <2> HIDE DEF L, E
  <2>7. \A m \in Names : Covers(m, n) <=> m \in Ancestors(n)
    BY CoverIsAncestor, AncestorCovers
  <2>8. IsBlocked(n) <=> /\ Ancestors(n) \cap (white \cup E) = {}
                         /\ Ancestors(n) \cap blocked # {}
    BY <2>2, <2>3 DEF IsBlocked
  <2>9. ShouldBlock(n) <=> /\ \E m \in L : m \in Ancestors(n)
                           /\ ~ \E m \in white \cup E : m \in Ancestors(n)
    BY <2>6, <2>7 DEF ShouldBlock, L, E, Wanted
  <2>10. IsBlocked(n) <=> ShouldBlock(n)
    BY <2>4, <2>8, <2>9
  <2> QED BY <2>10 DEF IsBlocked, ShouldBlock
<1> QED BY ResolverTypeCorrect, <1>1, <1>2, <1>3, <1>4, MatchingInit, PTL DEF ResolverSpec
=============================================================================
