--------------------------- MODULE SchedulerProofs ---------------------------
(***************************************************************************)
(* The proofs about what changes periodically.  Rotation, for every set of *)
(* keys and intervals: the loop acts exactly while a scheduled rotation is *)
(* under way.  Shuffle, for every set of profiles, implements Cycle and    *)
(* never repeats: the inductive invariant adds to the types what is known  *)
(* between the two questions of a switch, that the queue is a whole cycle. *)
(***************************************************************************)
EXTENDS Rotation, Shuffle, FiniteSetTheorems, TLAPS

-----------------------------------------------------------------------------
(* The loop acts exactly while a scheduled rotation is under way. *)
ActIsRotation == loop = "act" <=> phase["scheduled"] # "none"

(* Tor runs exactly while the session is anywhere between its start and its end. *)
TorFollows == tor <=> route \in {"starting", "up", "stopping"}

(* EnabledFollows, carried through the states where the session is down. *)
EnabledRecorded == tails = {} /\ Running => enabled

(* A failure keeps the types of what it counts and waits for. *)
LEMMA FailType ==
  ASSUME TimerOK, Fail
  PROVE  failures' \in 0..MaxFailures /\ backoff' \in Nat /\ loop' = "backoff"
<1>1. failures' \in 0..MaxFailures
  BY NumbersAssumption DEF TimerOK, Fail
<1>2. Step * failures' \in Nat
  <2>1. \A a, b \in Nat : a * b \in Nat
    OBVIOUS
  <2>2. Step \in Nat /\ failures' \in Nat
    BY <1>1, NumbersAssumption
  <2>. QED BY <2>1, <2>2, Zenon
<1>3. interval \in Nat
  BY IntervalsAssumption DEF TimerOK
<1>. QED BY <1>1, <1>2, <1>3 DEF Fail

-----------------------------------------------------------------------------
(* Each step keeps the types of the scheduler's variables. *)
LEMMA TimerType ==
  ASSUME TypeOK, [Next]_vars
  PROVE  TimerOK'
<1> USE DEF TypeOK
<1>0. TimerOK /\ interval \in Nat \ {0} /\ Intervals \subseteq Nat \ {0}
  BY IntervalsAssumption DEF TimerOK
<1>1. CASE \E k \in Keys : Toggle(k)
  BY <1>0, <1>1 DEF TimerOK, Toggle, Cancel, Start, timer
<1>2. CASE \E a \in Actors : StopTail(a)
  BY <1>0, <1>2 DEF TimerOK, StopTail
<1>3. CASE \E i \in Intervals : SetInterval(i)
  BY <1>0, <1>3, NumbersAssumption DEF TimerOK, SetInterval, RestartCountdown
<1>4. ASSUME NEW r \in Rotators, RotationStep(r)
      PROVE  TimerOK'
  <2>1. CASE Proceed(r)
    BY <1>0, <2>1 DEF TimerOK, Proceed, timer
  <2>2. ASSUME NEW s \in BOOLEAN, Return(r, s)
        PROVE  TimerOK'
    <3>1. CASE r = "manual" /\ UNCHANGED <<loop, timer>>
      BY <1>0, <3>1 DEF TimerOK, timer
    <3>2. CASE s /\ failures' = 0 /\ loop' = "count" /\ remaining' = interval /\ since' = 0
               /\ UNCHANGED <<interval, trigger, backoff, changes>>
      BY <1>0, <3>2, NumbersAssumption DEF TimerOK
    <3>3. CASE Fail /\ UNCHANGED <<interval, remaining, trigger, since, changes>>
      BY <1>0, <3>3, FailType DEF TimerOK
    <3>. QED BY <2>2, <3>1, <3>2, <3>3 DEF Return
  <2>. QED BY <1>4, <2>1, <2>2 DEF RotationStep, Refused, Rotated
<1>5. CASE Tick
  BY <1>0, <1>5 DEF TimerOK, Tick
<1>6. CASE Fire
  <2>1. remaining' \in Nat /\ remaining' <= interval /\ since' \in Nat
    BY <1>0, <1>6 DEF TimerOK, Fire, LastTick, TakeTrigger
  <2>2. trigger' \in BOOLEAN
    BY <1>0, <1>6, Zenon DEF TimerOK, Fire, LastTick, TakeTrigger
  <2>3. failures' \in 0..MaxFailures /\ backoff' \in Nat
        /\ loop' \in {"act", "backoff"}
    BY <1>0, <1>6, FailType DEF TimerOK, Fire
  <2>. QED BY <1>0, <1>6, <2>1, <2>2, <2>3 DEF TimerOK, Fire
<1>7. CASE Backoff
  BY <1>0, <1>7 DEF TimerOK, Backoff, BackoffStep
<1>8. CASE RotateNow
  BY <1>0, <1>8 DEF TimerOK, RotateNow, timer
<1>9. CASE SessionStep
  BY <1>0, <1>9 DEF TimerOK, SessionStep, TorStarted, Connected, Disconnect,
     TorClosing, TorStopped, Cancel, Start, timer
<1>10. CASE UNCHANGED vars
  BY <1>0, <1>10 DEF TimerOK, vars, timer
<1>. QED BY <1>1, <1>2, <1>3, <1>4, <1>5, <1>6, <1>7, <1>8, <1>9, <1>10
     DEF Next, LoopStep

(* Each step keeps the types of the engine's and the session's variables. *)
LEMMA EngineType ==
  ASSUME TypeOK, [Next]_vars
  PROVE  EngineOK'
<1> USE DEF TypeOK
<1>1. CASE \E k \in Keys : Toggle(k)
  BY <1>1 DEF EngineOK, Toggle, Cancel, Start, engine, Actors, Rotators
<1>2. CASE \E a \in Actors : StopTail(a)
  <2>1. enabled' \in BOOLEAN
    BY <1>2, Zenon DEF StopTail, Record, Running
  <2>. QED BY <1>2, <2>1 DEF EngineOK, StopTail, engine
<1>3. CASE \E i \in Intervals : SetInterval(i)
  BY <1>3 DEF EngineOK, SetInterval, engine
<1>4. CASE \E r \in Rotators : RotationStep(r)
  <2>1. cut' \in BOOLEAN
    BY <1>4, Zenon DEF EngineOK, RotationStep, Refused, Proceed, Rotated, Return
  <2>. QED BY <1>4, <2>1 DEF EngineOK, RotationStep, Refused, Proceed, Rotated, Return,
        BackToActive, Rotators
<1>5. CASE LoopStep
  BY <1>5 DEF EngineOK, LoopStep, Tick, Fire, Backoff, BeginRotation, engine, Rotators
<1>6. CASE RotateNow
  BY <1>6 DEF EngineOK, RotateNow, BeginRotation, engine, Rotators
<1>7. CASE SessionStep
  <2>1. cut' \in BOOLEAN
    BY <1>7, Zenon DEF EngineOK, SessionStep, TorStarted, Connected, Disconnect,
       TorClosing, TorStopped, Cancel, engine
  <2>. QED BY <1>7, <2>1 DEF EngineOK, SessionStep, TorStarted, Connected, Disconnect,
       TorClosing, TorStopped, Cancel, Start, engine, Actors, Rotators
<1>8. CASE UNCHANGED vars
  BY <1>8 DEF EngineOK, vars, engine
<1>. QED BY <1>1, <1>2, <1>3, <1>4, <1>5, <1>6, <1>7, <1>8 DEF Next

(* Every variable keeps its type. *)
THEOREM RotationTypeCorrect == Spec => []TypeOK
<1>1. Init => TypeOK
  <2>1. Init => TimerOK
    <3>1. \A i \in Intervals : i \in Nat /\ i <= i
      BY IntervalsAssumption
    <3>2. 0 \in 0..MaxFailures /\ 0 \in 0..MaxChanges
      BY NumbersAssumption
    <3>. SUFFICES ASSUME Init PROVE TimerOK
      OBVIOUS
    <3>3. loop = "off" /\ trigger = FALSE /\ interval \in Intervals /\ remaining = interval
      BY DEF Init
    <3>4. failures = 0 /\ backoff = 0 /\ since = 0 /\ changes = 0
      BY DEF Init
    <3>. QED BY <3>1, <3>2, <3>3, <3>4 DEF TimerOK
  <2>2. Init => EngineOK
    BY DEF Init, EngineOK, Rotators, Actors
  <2>. QED BY <2>1, <2>2 DEF TypeOK
<1>2. TypeOK /\ [Next]_vars => TypeOK'
  BY TimerType, EngineType DEF TypeOK
<1>. QED BY <1>1, <1>2, PTL DEF Spec

-----------------------------------------------------------------------------
(* The countdown: a start, a success and a change of the interval give it a    *)
(* whole interval, and a stop that ends late only lengthens it.                *)
LEMMA NeverEarlyStep ==
  ASSUME TypeOK, NeverEarly, [Next]_vars
  PROVE  NeverEarly'
<1>0. interval \in Nat /\ remaining \in Nat /\ since \in Nat /\ remaining <= interval
      /\ Intervals \subseteq Nat
  BY IntervalsAssumption DEF TypeOK, TimerOK
<1> USE DEF NeverEarly
<1>1. CASE \E k \in Keys : Toggle(k)
  BY <1>0, <1>1 DEF Toggle, Cancel, Start, timer
<1>2. CASE \E a \in Actors : StopTail(a)
  BY <1>0, <1>2 DEF StopTail
<1>3. CASE \E i \in Intervals : SetInterval(i)
  BY <1>0, <1>3 DEF SetInterval, RestartCountdown
<1>4. CASE \E r \in Rotators : RotationStep(r)
  BY <1>0, <1>4 DEF RotationStep, Refused, Proceed, Rotated, Return, Fail, timer
<1>5. CASE LoopStep
  BY <1>0, <1>5 DEF LoopStep, Tick, Fire, Fail, Backoff, BackoffStep
<1>6. CASE RotateNow
  BY <1>0, <1>6 DEF RotateNow, timer
<1>7. CASE SessionStep
  BY <1>0, <1>7 DEF SessionStep, TorStarted, Connected, Disconnect, TorClosing,
     TorStopped, Cancel, Start, timer
<1>8. CASE UNCHANGED vars
  BY <1>8 DEF vars, timer
<1>. QED BY <1>1, <1>2, <1>3, <1>4, <1>5, <1>6, <1>7, <1>8 DEF Next

(* A countdown is never short of its interval, for any keys and intervals. *)
THEOREM CountdownIsWhole == Spec => []NeverEarly
<1>1. Init => NeverEarly
  BY DEF Init, NeverEarly
<1>2. TypeOK /\ NeverEarly /\ [Next]_vars => NeverEarly'
  BY NeverEarlyStep
<1>. QED BY <1>1, <1>2, RotationTypeCorrect, PTL DEF Spec

-----------------------------------------------------------------------------
(* The configuration: a start writes it at once, a stop when its tail has run. *)
EnabledInv == EnabledFollows /\ EnabledRecorded

LEMMA EnabledStep ==
  ASSUME TypeOK, EnabledInv, ActIsRotation, [Next]_vars
  PROVE  EnabledInv'
<1> USE DEF EnabledInv, EnabledFollows, EnabledRecorded, Running
<1>1. CASE \E k \in Keys : Toggle(k)
  BY <1>1 DEF Toggle, Cancel, Start
<1>2. CASE \E a \in Actors : StopTail(a)
  BY <1>2 DEF StopTail, Record
<1>3. CASE \E i \in Intervals : SetInterval(i)
  BY <1>3 DEF SetInterval
<1>4. CASE \E r \in Rotators : RotationStep(r)
  BY <1>4 DEF RotationStep, Refused, Proceed, Rotated, Return, Fail, ActIsRotation
<1>5. CASE LoopStep
  BY <1>5 DEF LoopStep, Tick, Fire, Fail, Backoff, BackoffStep
<1>6. CASE RotateNow
  BY <1>6 DEF RotateNow
<1>7. CASE SessionStep
  <2>1. CASE TorStarted \/ TorClosing \/ TorStopped
    BY <2>1 DEF TorStarted, TorClosing, TorStopped
  <2>2. CASE Connected
    BY <2>2 DEF Connected, Start, TypeOK, EngineOK
  <2>3. CASE Disconnect
    BY <2>3 DEF Disconnect, Cancel
  <2>. QED BY <1>7, <2>1, <2>2, <2>3 DEF SessionStep
<1>8. CASE UNCHANGED vars
  BY <1>8 DEF vars
<1>. QED BY <1>1, <1>2, <1>3, <1>4, <1>5, <1>6, <1>7, <1>8 DEF Next

(* One rotation at a time, and the loop acts with it. *)
RotationInv == OneRotation /\ ActIsRotation

LEMMA RotationInvStep ==
  ASSUME TypeOK, RotationInv, [Next]_vars
  PROVE  RotationInv'
<1> USE DEF RotationInv, OneRotation, ActIsRotation, Rotators, TypeOK, EngineOK
<1>1. CASE \E k \in Keys : Toggle(k)
  BY <1>1 DEF Toggle, Cancel, Start, Running, engine
<1>2. CASE \E a \in Actors : StopTail(a)
  BY <1>2 DEF StopTail, engine
<1>3. CASE \E i \in Intervals : SetInterval(i)
  BY <1>3 DEF SetInterval, engine
<1>4. CASE \E r \in Rotators : RotationStep(r)
  BY <1>4 DEF RotationStep, Refused, Proceed, Rotated, Return, Fail
<1>5. CASE LoopStep
  BY <1>5 DEF LoopStep, Tick, Fire, MayRotate, BeginRotation, Fail, Backoff, BackoffStep,
     engine
<1>6. CASE RotateNow
  BY <1>6 DEF RotateNow, MayRotate, BeginRotation, engine
<1>7. CASE SessionStep
  BY <1>7 DEF SessionStep, TorStarted, Connected, Disconnect, TorClosing,
     TorStopped, Cancel, Start, Running, engine
<1>8. CASE UNCHANGED vars
  BY <1>8 DEF vars, engine
<1>. QED BY <1>1, <1>2, <1>3, <1>4, <1>5, <1>6, <1>7, <1>8 DEF Next

LEMMA RotationInvariant == Spec => []RotationInv
<1>1. Init => RotationInv
  BY DEF Init, RotationInv, OneRotation, ActIsRotation, Rotators
<1>2. TypeOK /\ RotationInv /\ [Next]_vars => RotationInv'
  BY RotationInvStep
<1>. QED BY <1>1, <1>2, RotationTypeCorrect, PTL DEF Spec

(* Two rotations never overlap, whoever asks for them and whatever is cancelled. *)
THEOREM RotationsAreExclusive == Spec => []OneRotation
<1>1. RotationInv => OneRotation
  BY DEF RotationInv
<1>. QED BY <1>1, RotationInvariant, PTL

(* The configuration says whether the scheduler runs once no stop is half done. *)
THEOREM EnabledIsRecorded == Spec => []EnabledFollows
<1>1. Init => EnabledInv
  BY DEF Init, EnabledInv, EnabledFollows, EnabledRecorded, Running
<1>2. TypeOK /\ EnabledInv /\ RotationInv /\ [Next]_vars => EnabledInv'
  BY EnabledStep DEF RotationInv
<1>3. EnabledInv => EnabledFollows
  BY DEF EnabledInv
<1>. QED BY <1>1, <1>2, <1>3, RotationTypeCorrect, RotationInvariant, PTL DEF Spec

-----------------------------------------------------------------------------
(* The status: every step that frees the lock or changes Tor writes it. *)
StatusInv == StatusIsRight /\ TorFollows

LEMMA StatusStep ==
  ASSUME TypeOK, StatusInv, RotationInv, [Next]_vars
  PROVE  StatusInv'
<1> DEFINE Quiet == lock = "none" /\ ~cut
<1> DEFINE Shown == IF tor THEN "active" ELSE IF route = "closing" THEN "stopping" ELSE "idle"
<1>0. (Quiet => status = Shown) /\ TorFollows
  BY DEF StatusInv, StatusIsRight
<1>1. CASE UNCHANGED engine /\ UNCHANGED route
  BY <1>0, <1>1 DEF StatusInv, StatusIsRight, TorFollows, engine
<1>2. ASSUME NEW a, Cancel(a), UNCHANGED <<tor, status>>,
             route' = route \/ (route = "up" /\ route' = "stopping")
      PROVE  StatusInv'
  <2>1. Quiet' => Quiet
    BY <1>2, Zenon DEF Cancel
  <2>. QED BY <1>0, <1>2, <2>1 DEF StatusInv, StatusIsRight, TorFollows
<1>3. ASSUME NEW r \in Rotators, BeginRotation(r), UNCHANGED route
      PROVE  StatusInv'
  BY <1>0, <1>3 DEF BeginRotation, StatusInv, StatusIsRight, TorFollows, Rotators
<1>4. ASSUME NEW r \in Rotators, RotationStep(r)
      PROVE  StatusInv'
  <2>1. CASE Proceed(r)
    <3>1. lock # "none"
      BY <2>1 DEF Proceed, RotationInv, OneRotation, Rotators
    <3>. QED BY <1>0, <2>1, <3>1 DEF Proceed, StatusInv, StatusIsRight, TorFollows
  <2>2. ASSUME NEW s, Return(r, s), status' = "active", UNCHANGED <<route, tor>>
        PROVE  StatusInv'
    <3>1. cut' = ~tor
      BY <2>2, Zenon DEF Return
    <3>. QED BY <1>0, <2>2, <3>1 DEF StatusInv, StatusIsRight, TorFollows
  <2>. QED BY <1>4, <2>1, <2>2 DEF RotationStep, Refused, Rotated, BackToActive
<1>5. CASE SessionStep
  <2>1. CASE TorStarted
    BY <2>1 DEF TorStarted, StatusInv, StatusIsRight, TorFollows
  <2>2. CASE Connected
    BY <1>0, <2>2 DEF Connected, engine, StatusInv, StatusIsRight, TorFollows
  <2>3. CASE Disconnect
    BY <1>0, <1>2, <2>3 DEF Disconnect, Cancel, engine, StatusInv, StatusIsRight,
       TorFollows
  <2>4. CASE TorClosing
    BY <2>4 DEF TorClosing, StatusInv, StatusIsRight, TorFollows
  <2>5. CASE TorStopped
    BY <1>0, <2>5 DEF TorStopped, StatusInv, StatusIsRight, TorFollows
  <2>. QED BY <1>5, <2>1, <2>2, <2>3, <2>4, <2>5 DEF SessionStep
<1>6. CASE \E k \in Keys : Toggle(k)
  BY <1>1, <1>2, <1>6 DEF Toggle, Cancel
<1>7. CASE LoopStep \/ RotateNow
  BY <1>1, <1>3, <1>7 DEF LoopStep, Tick, Fire, Backoff, RotateNow, Rotators
<1>8. CASE (\E a \in Actors : StopTail(a)) \/ (\E i \in Intervals : SetInterval(i))
  BY <1>1, <1>8 DEF StopTail, SetInterval
<1>9. CASE UNCHANGED vars
  BY <1>1, <1>9 DEF vars
<1>. QED BY <1>4, <1>5, <1>6, <1>7, <1>8, <1>9 DEF Next

(* Unless a rotation was cut, the status shown for Tor is right. *)
THEOREM StatusIsTrue == Spec => []StatusIsRight
<1>1. Init => StatusInv
  BY DEF Init, StatusInv, StatusIsRight, TorFollows
<1>2. TypeOK /\ StatusInv /\ RotationInv /\ [Next]_vars => StatusInv'
  BY StatusStep
<1>3. StatusInv => StatusIsRight
  BY DEF StatusInv
<1>. QED BY <1>1, <1>2, <1>3, RotationTypeCorrect, RotationInvariant, PTL DEF Spec

-----------------------------------------------------------------------------
(* An order of a set of profiles is a list of them without repetitions. *)
LEMMA OrderIsList ==
  ASSUME NEW S \in SUBSET Profiles, NEW s \in Orders(S)
  PROVE  s \in Seq(Profiles) /\ Distinct(s) /\ Elems(s) = S
<1>1. Cardinality(S) \in Nat
  BY FS_Subset, FS_CardinalityType, ProfilesAssumption
<1>2. s \in [1..Cardinality(S) -> Profiles] BY DEF Orders
<1>3. s \in Seq(Profiles) BY <1>1, <1>2
<1> QED BY <1>3 DEF Orders

LEMMA ListsAreOrders ==
  ASSUME NEW s \in Lists
  PROVE  s \in Seq(Profiles) /\ Distinct(s) /\ Elems(s) \in SUBSET Profiles
<1>1. PICK S \in SUBSET Profiles : s \in Orders(S) BY DEF Lists
<1> QED BY <1>1, OrderIsList

LEMMA ElemsOfList ==
  ASSUME NEW s \in Seq(Profiles)
  PROVE  /\ Elems(s) \in SUBSET Profiles
         /\ Elems(s) = {} <=> s = <<>>
         /\ s # <<>> => Head(s) \in Elems(s) /\ Len(s) \in Nat \ {0}
BY DEF Elems

LEMMA MoreThanOne ==
  ASSUME NEW s \in Seq(Profiles), Len(s) > 1
  PROVE  Len(s) # 1
<1>1. \A n \in Nat : n > 1 => n # 1 OBVIOUS
<1>2. Len(s) \in Nat OBVIOUS
<1> QED BY <1>1, <1>2

LEMMA LenZero ==
  ASSUME NEW s \in Seq(Profiles)
  PROVE  s = <<>> <=> Len(s) = 0
OBVIOUS

(* Reseeding fills the queue with the pool. *)
LEMMA ReseedFills ==
  ASSUME NEW a, NEW ps \in Seq(Profiles), Distinct(ps), Reseed(a, ps)
  PROVE  queue' \in Seq(Profiles) /\ Distinct(queue') /\ Elems(queue') = Elems(ps)
<1>1. Elems(ps) \in SUBSET Profiles BY ElemsOfList
<1>2. queue' = ps \/ queue' \in Orders(Elems(ps)) BY DEF Reseed
<1> QED BY <1>1, <1>2, OrderIsList

(* A rotation by one has the same elements, once each. *)
LEMMA RotationKeeps ==
  ASSUME NEW n \in Nat \ {0}, NEW s, NEW r, DOMAIN s = 1..n, DOMAIN r = 1..n, Distinct(s),
         \A i \in 1..n : r[i] = IF i = n THEN s[1] ELSE s[i + 1]
  PROVE  Distinct(r) /\ Elems(r) = Elems(s)
<1>1. \A k, l \in 1..n : s[k] = s[l] => k = l BY DEF Distinct
<1>2. \A i, j \in 1..n : r[i] = r[j] => i = j
  <2> SUFFICES ASSUME NEW i \in 1..n, NEW j \in 1..n, r[i] = r[j] PROVE i = j OBVIOUS
  <2>1. 1 \in 1..n /\ (i # n => i + 1 \in 1..n) /\ (j # n => j + 1 \in 1..n) OBVIOUS
  <2> QED BY <1>1, <2>1
<1>3. \A i \in 1..n : \E j \in 1..n : r[i] = s[j]
  <2> TAKE i \in 1..n
  <2>1. 1 \in 1..n /\ (i # n => i + 1 \in 1..n) OBVIOUS
  <2> QED BY <2>1
<1>4. \A j \in 1..n : \E i \in 1..n : r[i] = s[j]
  <2> TAKE j \in 1..n
  <2>1. CASE j = 1 BY <2>1
  <2>2. CASE j # 1
    <3>1. j - 1 \in 1..n /\ j - 1 # n /\ (j - 1) + 1 = j BY <2>2
    <3> QED BY <3>1
  <2> QED BY <2>1, <2>2
<1>5. Distinct(r) BY <1>2 DEF Distinct
<1>6. Elems(r) = Elems(s)
  <2>1. \A x : x \in Elems(r) <=> \E i \in 1..n : x = r[i] BY DEF Elems
  <2>2. \A x : x \in Elems(s) <=> \E j \in 1..n : x = s[j] BY DEF Elems
  <2>3. ASSUME NEW x \in Elems(r) PROVE x \in Elems(s)
    <3>1. PICK i \in 1..n : x = r[i] BY <2>1
    <3>2. PICK j \in 1..n : r[i] = s[j] BY <1>3
    <3> QED BY <2>2, <3>1, <3>2
  <2>4. ASSUME NEW x \in Elems(s) PROVE x \in Elems(r)
    <3>1. PICK j \in 1..n : x = s[j] BY <2>2
    <3>2. PICK i \in 1..n : r[i] = s[j] BY <1>4
    <3> QED BY <2>1, <3>1, <3>2
  <2> QED BY <2>3, <2>4
<1> QED BY <1>5, <1>6

LEMMA TurnKeeps ==
  ASSUME NEW s \in Seq(Profiles), s # <<>>, Distinct(s)
  PROVE  LET r == Append(Tail(s), Head(s)) IN
         /\ r \in Seq(Profiles) /\ r # <<>> /\ Len(r) = Len(s)
         /\ Distinct(r) /\ Elems(r) = Elems(s)
<1> DEFINE n == Len(s)
           t == Tail(s)
           r == Append(t, Head(s))
<1>1. n \in Nat \ {0} /\ DOMAIN s = 1..n /\ Head(s) = s[1] /\ s[1] \in Profiles OBVIOUS
<1>2. t \in Seq(Profiles) /\ Len(t) = n - 1 /\ \A i \in 1..(n - 1) : t[i] = s[i + 1]
  OBVIOUS
<1> HIDE DEF n, t
<1>3. /\ r \in Seq(Profiles) /\ Len(r) = n
      /\ \A i \in 1..n : r[i] = IF i = n THEN s[1] ELSE t[i]
  BY <1>1, <1>2
<1> HIDE DEF r
<1>4. DOMAIN r = 1..n /\ r # <<>> BY <1>1, <1>3
<1>5. \A i \in 1..n : r[i] = IF i = n THEN s[1] ELSE s[i + 1]
  <2> TAKE i \in 1..n
  <2>1. i # n => i \in 1..(n - 1) BY <1>1
  <2> QED BY <1>2, <1>3, <2>1
<1>6. Distinct(r) /\ Elems(r) = Elems(s) BY <1>1, <1>4, <1>5, RotationKeeps
<1> QED BY <1>3, <1>4, <1>6 DEF n, t, r

(* Turning the queue changes its order only. *)
LEMMA TurnedIsQueue ==
  ASSUME ShuffleTypeOK, queue # <<>>
  PROVE  /\ Turned \in Seq(Profiles) /\ Distinct(Turned) /\ Turned # <<>>
         /\ Elems(Turned) = Elems(queue) /\ Len(Turned) = Len(queue)
<1>1. CASE Len(queue) > 1 /\ Head(queue) = current
  <2>1. Turned = Append(Tail(queue), Head(queue)) BY <1>1 DEF Turned
  <2> QED BY <2>1, TurnKeeps DEF ShuffleTypeOK
<1>2. CASE ~(Len(queue) > 1 /\ Head(queue) = current)
  BY <1>2 DEF Turned, ShuffleTypeOK
<1> QED BY <1>1, <1>2

(* Taking the head leaves the others. *)
LEMMA TailDropsHead ==
  ASSUME NEW s \in Seq(Profiles), Distinct(s), s # <<>>
  PROVE  /\ Tail(s) \in Seq(Profiles) /\ Distinct(Tail(s))
         /\ Elems(Tail(s)) = Elems(s) \ {Head(s)}
         /\ Len(Tail(s)) = Len(s) - 1
<1> DEFINE n == Len(s)
<1>1. n \in Nat \ {0} /\ DOMAIN s = 1..n /\ Head(s) = s[1] OBVIOUS
<1>2. Tail(s) \in Seq(Profiles) /\ Len(Tail(s)) = n - 1 OBVIOUS
<1>3. \A i \in 1..(n - 1) : Tail(s)[i] = s[i + 1] OBVIOUS
<1>4. DOMAIN Tail(s) = 1..(n - 1) BY <1>1, <1>2
<1>5. \A i, j \in 1..n : s[i] = s[j] => i = j BY <1>1 DEF Distinct
<1>6. Distinct(Tail(s))
  <2> SUFFICES ASSUME NEW i \in 1..(n - 1), NEW j \in 1..(n - 1), Tail(s)[i] = Tail(s)[j]
               PROVE  i = j
    BY <1>4 DEF Distinct
  <2>1. i + 1 \in 1..n /\ j + 1 \in 1..n BY <1>1
  <2>2. s[i + 1] = s[j + 1] BY <1>3
  <2>3. i + 1 = j + 1 BY <1>5, <2>1, <2>2
  <2> QED BY <2>3
<1>7. Elems(Tail(s)) = Elems(s) \ {Head(s)}
  <2>1. ASSUME NEW i \in 1..(n - 1) PROVE Tail(s)[i] \in Elems(s) \ {Head(s)}
    <3>1. i + 1 \in 1..n /\ i + 1 # 1 /\ 1 \in 1..n BY <1>1
    <3>2. s[i + 1] # s[1] BY <1>5, <3>1
    <3> QED BY <1>1, <1>3, <3>1, <3>2 DEF Elems
  <2>2. ASSUME NEW k \in 1..n, s[k] # Head(s) PROVE s[k] \in Elems(Tail(s))
    <3>1. k - 1 \in 1..(n - 1) /\ (k - 1) + 1 = k BY <1>1, <2>2
    <3>2. Tail(s)[k - 1] = s[k] BY <1>3, <3>1
    <3> QED BY <1>4, <3>1, <3>2 DEF Elems
  <2>3. \A x \in Elems(Tail(s)) : x \in Elems(s) \ {Head(s)} BY <1>4, <2>1 DEF Elems
  <2>4. \A x \in Elems(s) : x # Head(s) => x \in Elems(Tail(s)) BY <1>1, <2>2 DEF Elems
  <2> QED BY <2>3, <2>4
<1> QED BY <1>2, <1>6, <1>7

(* The connected profile is only first when nothing else is left. *)
LEMMA TurnedAvoids ==
  ASSUME ShuffleTypeOK, queue # <<>>, Head(Turned) = current
  PROVE  Len(queue) = 1
<1>1. Len(queue) \in Nat /\ Len(queue) # 0 BY DEF ShuffleTypeOK
<1> SUFFICES ASSUME Len(queue) > 1 PROVE FALSE
  <2>1. \A n \in Nat : n # 0 /\ ~(n > 1) => n = 1 OBVIOUS
  <2> QED BY <1>1, <2>1
<1>2. CASE Head(queue) = current
  <2>1. Turned = Append(Tail(queue), Head(queue)) BY <1>2 DEF Turned
  <2>2. Head(Turned) = queue[2] BY <2>1, <1>1 DEF ShuffleTypeOK
  <2>3. queue[2] # queue[1] /\ Head(queue) = queue[1] BY <1>1 DEF ShuffleTypeOK, Distinct
  <2> QED BY <1>2, <2>2, <2>3
<1>3. CASE Head(queue) # current BY <1>3 DEF Turned
<1> QED BY <1>2, <1>3

(* A queue with all of a larger pool has more than one entry. *)
LEMMA SeveralLeft ==
  ASSUME ShuffleTypeOK, Len(profiles) > 1, Elems(queue) = Elems(profiles)
  PROVE  Len(queue) > 1
<1>1. Len(profiles) \in Nat /\ DOMAIN profiles = 1..Len(profiles)
  BY DEF ShuffleTypeOK
<1>2. profiles[1] # profiles[2] BY <1>1 DEF ShuffleTypeOK, Distinct
<1>3. profiles[1] \in Elems(queue) /\ profiles[2] \in Elems(queue)
  <2>1. 1 \in DOMAIN profiles /\ 2 \in DOMAIN profiles BY <1>1
  <2>2. profiles[1] \in Elems(profiles) /\ profiles[2] \in Elems(profiles) BY <2>1 DEF Elems
  <2> QED BY <2>2
<1>4. Len(queue) \in Nat /\ DOMAIN queue = 1..Len(queue) BY DEF ShuffleTypeOK
<1>5. PICK i \in 1..Len(queue), j \in 1..Len(queue) :
         queue[i] = profiles[1] /\ queue[j] = profiles[2]
  BY <1>3, <1>4 DEF Elems
<1> QED BY <1>2, <1>4, <1>5

(* A pop uses one profile of the cycle and starts the next cycle when it was    *)
(* the last.                                                                    *)
LEMMA PopUses ==
  ASSUME ShuffleTypeOK, queue # <<>>, Pop
  PROVE  /\ queue' \in Seq(Profiles) /\ Distinct(queue')
         /\ Head(Turned) \in Elems(queue)
         /\ Elems(queue') = C!OrAll(Elems(queue) \ {Head(Turned)}, Elems(profiles))
         /\ Len(queue) = 1 => Elems(queue') = Elems(profiles)
<1> DEFINE rest == Tail(Turned)
<1>1. /\ Turned \in Seq(Profiles) /\ Distinct(Turned) /\ Turned # <<>>
      /\ Elems(Turned) = Elems(queue) /\ Len(Turned) = Len(queue)
  BY TurnedIsQueue
<1>2. /\ rest \in Seq(Profiles) /\ Distinct(rest) /\ Len(rest) = Len(queue) - 1
      /\ Elems(rest) = Elems(queue) \ {Head(Turned)}
  BY <1>1, TailDropsHead
<1>3. Head(Turned) \in Elems(queue) BY <1>1, ElemsOfList
<1> HIDE DEF rest
<1>4. Len(queue) \in Nat \ {0} BY DEF ShuffleTypeOK
<1>5. CASE Len(queue) = 1
  <2>1. queue' \in Seq(Profiles) /\ Distinct(queue') /\ Elems(queue') = Elems(profiles)
    BY <1>5, ReseedFills DEF Pop, ShuffleTypeOK
  <2>2. rest = <<>> BY <1>2, <1>5, LenZero
  <2>3. Elems(rest) = {} BY <1>2, <2>2, ElemsOfList
  <2> QED BY <1>2, <1>3, <2>1, <2>3 DEF C!OrAll
<1>6. CASE Len(queue) # 1
  <2>1. queue' = rest BY <1>6 DEF Pop, rest
  <2>2. rest # <<>> BY <1>2, <1>4, <1>6, LenZero
  <2>3. Elems(rest) # {} BY <1>2, <2>2, ElemsOfList
  <2> QED BY <1>2, <1>3, <1>6, <2>1, <2>3 DEF C!OrAll
<1> QED BY <1>5, <1>6

(* What a selection hands out: a turn of this cycle, or any profile of the pool. *)
Turn(p) ==
  /\ algorithm \in InTurn /\ p \in Elems(queue)
  /\ Elems(queue') = C!OrAll(Elems(queue) \ {p}, Elems(profiles))
Choice(p) == algorithm \notin InTurn /\ p \in Elems(profiles) /\ UNCHANGED queue

(* The only profile of a pool has a turn every time. *)
LEMMA OnlyOne ==
  ASSUME ShuffleTypeOK, Len(profiles) = 1
  PROVE  Elems(profiles) = {Head(profiles)} /\ Elems(queue) = {Head(profiles)}
<1>1. profiles \in Seq(Profiles) /\ DOMAIN profiles = {1} /\ Head(profiles) = profiles[1]
  BY DEF ShuffleTypeOK
<1>2. Elems(profiles) = {Head(profiles)} BY <1>1 DEF Elems
<1>3. profiles # <<>>
  <2> SUFFICES ASSUME profiles = <<>> PROVE FALSE OBVIOUS
  <2>1. Elems(profiles) = {} BY <1>1, ElemsOfList
  <2> QED BY <1>2, <2>1
<1>4. Elems(queue) # {} BY <1>3, ElemsOfList DEF ShuffleTypeOK
<1> QED BY <1>2, <1>4 DEF ShuffleTypeOK

LEMMA ChoiceIsOfPool ==
  ASSUME ShuffleTypeOK, NEW p \in Profiles, profiles # <<>>, PickRandom(p) \/ PickSequential(p)
  PROVE  Choice(p)
<1>1. profiles \in Seq(Profiles) /\ Len(profiles) \in Nat \ {0} BY DEF ShuffleTypeOK
<1>2. CASE PickRandom(p) BY <1>2 DEF PickRandom, Choice, InTurn
<1>3. CASE PickSequential(p)
  <2>1. algorithm = "sequential" /\ UNCHANGED queue BY <1>3 DEF PickSequential
  <2>2. CASE current \in Elems(profiles)
    <3>1. PICK i \in 1..Len(profiles) : p = profiles[Follows(i)]
      BY <1>1, <1>3, <2>2 DEF PickSequential
    <3>2. Follows(i) \in 1..Len(profiles)
      <4>1. i % Len(profiles) \in 0..(Len(profiles) - 1) BY <1>1
      <4> QED BY <1>1, <4>1 DEF Follows
    <3> QED BY <1>1, <2>1, <3>1, <3>2 DEF Choice, InTurn, Elems
  <2>3. CASE current \notin Elems(profiles)
    BY <1>1, <1>3, <2>1, <2>3, ElemsOfList DEF PickSequential, Choice, InTurn
  <2> QED BY <2>2, <2>3
<1> QED BY <1>2, <1>3

(* Selecting a profile takes its turn, or leaves the cycle alone. *)
LEMMA SelectUses ==
  ASSUME ShuffleTypeOK, NEW p \in Profiles, Select(p)
  PROVE  /\ queue' \in Seq(Profiles) /\ Distinct(queue')
         /\ Elems(queue') \subseteq Elems(profiles) /\ queue' # <<>>
         /\ Turn(p) \/ Choice(p)
<1>1. profiles # <<>> /\ queue # <<>> BY DEF Select, ShuffleTypeOK
<1>2. CASE UNCHANGED queue /\ ~PickQueued(p)
  <2>1. queue' = queue BY <1>2
  <2>2. /\ queue' \in Seq(Profiles) /\ Distinct(queue')
        /\ Elems(queue') \subseteq Elems(profiles) /\ queue' # <<>>
    BY <2>1, <1>1 DEF ShuffleTypeOK
  <2>3. CASE Len(profiles) = 1
    <3>1. p = Head(profiles) BY <2>3 DEF Select
    <3>2. Elems(queue) \ {p} = {} /\ p \in Elems(profiles) /\ p \in Elems(queue)
      BY <2>3, <3>1, OnlyOne
    <3>3. Elems(queue') = C!OrAll(Elems(queue) \ {p}, Elems(profiles))
      BY <2>1, <2>3, <3>2, OnlyOne DEF C!OrAll
    <3> QED BY <2>1, <2>2, <3>2, <3>3 DEF Turn, Choice
  <2>4. CASE Len(profiles) # 1
    <3>1. PickRandom(p) \/ PickSequential(p) BY <1>2, <2>4 DEF Select
    <3> QED BY <2>2, <3>1, <1>1, ChoiceIsOfPool
  <2> QED BY <2>3, <2>4
<1>3. CASE ~UNCHANGED queue \/ PickQueued(p)
  <2>1. PickQueued(p) /\ UNCHANGED profiles BY <1>3 DEF Select, PickRandom, PickSequential
  <2>2. Pop /\ p = Head(Turned) /\ algorithm \in InTurn BY <2>1 DEF PickQueued
  <2>3. /\ queue' \in Seq(Profiles) /\ Distinct(queue')
        /\ Head(Turned) \in Elems(queue)
        /\ Elems(queue') = C!OrAll(Elems(queue) \ {Head(Turned)}, Elems(profiles))
    BY <1>1, <2>2, PopUses
  <2>4. Elems(profiles) # {} BY <1>1, ElemsOfList DEF ShuffleTypeOK
  <2>5. Elems(queue') \subseteq Elems(profiles) /\ Elems(queue') # {}
    BY <2>3, <2>4 DEF C!OrAll, ShuffleTypeOK
  <2>6. queue' # <<>> BY <2>3, <2>5, ElemsOfList
  <2> QED BY <2>2, <2>3, <2>5, <2>6 DEF Turn
<1> QED BY <1>2, <1>3

(* A change of the pool keeps the turns of who stays. *)
LEMMA SetPoolChanges ==
  ASSUME ShuffleTypeOK, NEW ps \in Lists, SetPool(ps)
  PROVE  /\ queue' \in Seq(Profiles) /\ Distinct(queue')
         /\ Elems(queue') = C!OrAll(Elems(queue) \cap Elems(ps), Elems(ps))
<1>1. ps \in Seq(Profiles) /\ Distinct(ps) /\ Elems(ps) \in SUBSET Profiles
  BY ListsAreOrders
<1>2. CASE Surviving(ps) = {}
  <2>1. queue' \in Seq(Profiles) /\ Distinct(queue') /\ Elems(queue') = Elems(ps)
    BY <1>1, <1>2, ReseedFills DEF SetPool
  <2> QED BY <1>2, <2>1 DEF C!OrAll, SetPool, Surviving
<1>3. CASE Surviving(ps) # {}
  <2>1. Surviving(ps) \in SUBSET Profiles BY <1>1 DEF Surviving
  <2>2. queue' \in Orders(Surviving(ps)) BY <1>3 DEF SetPool
  <2>3. queue' \in Seq(Profiles) /\ Distinct(queue') /\ Elems(queue') = Surviving(ps)
    BY <2>1, <2>2, OrderIsList
  <2> QED BY <1>3, <2>3 DEF C!OrAll, SetPool, Surviving
<1> QED BY <1>2, <1>3
-----------------------------------------------------------------------------
(* Between the two questions the queue is a whole new cycle of several profiles. *)
ShuffleInv ==
  /\ ShuffleTypeOK
  /\ again => /\ algorithm \in InTurn
              /\ Len(profiles) > 1 /\ Elems(queue) = Elems(profiles)
              /\ target = None

LEMMA InitShuffleInv == ShuffleInit => ShuffleInv
<1> SUFFICES ASSUME ShuffleInit PROVE ShuffleInv OBVIOUS
<1>1. profiles = <<>> /\ queue = <<>> /\ ~again BY DEF ShuffleInit
<1>2. DOMAIN <<>> = {} /\ <<>> \in Seq(Profiles) OBVIOUS
<1>3. Distinct(<<>>) /\ Elems(<<>>) = {} BY <1>2 DEF Distinct, Elems
<1>4. ShuffleTypeOK BY <1>1, <1>2, <1>3 DEF ShuffleInit, ShuffleTypeOK
<1> QED BY <1>1, <1>4 DEF ShuffleInv

LEMMA NextShuffleInv == ShuffleInv /\ [ShuffleNext]_shuffleVars => ShuffleInv'
<1> SUFFICES ASSUME ShuffleInv, [ShuffleNext]_shuffleVars PROVE ShuffleInv' OBVIOUS
<1> USE DEF ShuffleInv
<1>1. ASSUME NEW a \in Algorithms, SetAlgorithm(a) PROVE ShuffleInv'
  <2>1. queue' \in Seq(Profiles) /\ Distinct(queue') /\ Elems(queue') = Elems(profiles)
    BY <1>1, ReseedFills DEF SetAlgorithm, ShuffleTypeOK
  <2>2. queue' = <<>> => profiles = <<>> BY <2>1, ElemsOfList DEF ShuffleTypeOK
  <2> QED BY <1>1, <2>1, <2>2 DEF SetAlgorithm, asked, ShuffleTypeOK
<1>2. ASSUME NEW ps \in Lists, SetPool(ps) PROVE ShuffleInv'
  <2>1. ps \in Seq(Profiles) /\ Distinct(ps) BY ListsAreOrders
  <2>2. /\ queue' \in Seq(Profiles) /\ Distinct(queue')
        /\ Elems(queue') = C!OrAll(Elems(queue) \cap Elems(ps), Elems(ps))
    BY <1>2, SetPoolChanges
  <2>3. profiles' = ps /\ UNCHANGED <<algorithm, current, target, again>> /\ ~again
    BY <1>2 DEF SetPool, asked
  <2>4. Elems(queue') \subseteq Elems(ps) /\ (Elems(queue') = {} => Elems(ps) = {})
    BY <2>2, <2>3 DEF C!OrAll
  <2>5. queue' = <<>> => ps = <<>> BY <2>1, <2>2, <2>4, ElemsOfList
  <2> QED BY <2>1, <2>2, <2>3, <2>4, <2>5 DEF ShuffleTypeOK
<1>3. ASSUME Switch PROVE ShuffleInv'
  <2>1. PICK p \in Profiles :
           /\ Select(p) /\ target = None /\ ~again
           /\ IF Repeat(p) THEN again' = TRUE /\ UNCHANGED target
                           ELSE target' = p /\ UNCHANGED again
    BY <1>3 DEF Switch
  <2>2. /\ queue' \in Seq(Profiles) /\ Distinct(queue')
        /\ Elems(queue') \subseteq Elems(profiles) /\ queue' # <<>>
    BY <2>1, SelectUses
  <2>3. UNCHANGED <<algorithm, profiles, current>> BY <2>1 DEF Select
  <2>4. ShuffleTypeOK' BY <2>1, <2>2, <2>3 DEF ShuffleTypeOK
  <2>5. CASE ~Repeat(p) BY <2>1, <2>4, <2>5
  <2>6. CASE Repeat(p)
    <3>1. p = current /\ Len(profiles) > 1 BY <2>6 DEF Repeat
    <3>2. PickQueued(p)
      <4>1. ~PickRandom(p) BY <3>1 DEF PickRandom
      <4>2. ~PickSequential(p)
        <5> SUFFICES ASSUME PickSequential(p) PROVE FALSE OBVIOUS
        <5>1. profiles \in Seq(Profiles) /\ Len(profiles) \in Nat BY DEF ShuffleTypeOK
        <5>2. CASE current \in Elems(profiles)
          <6>1. PICK i \in 1..Len(profiles) :
                   profiles[i] = current /\ p = profiles[Follows(i)]
            BY <5>1, <5>2 DEF PickSequential
          <6>2. Follows(i) \in 1..Len(profiles) /\ Follows(i) # i
            <7>1. CASE i = Len(profiles)
              <8>1. i % Len(profiles) = 0 BY <5>1, <7>1
              <8> QED BY <3>1, <5>1, <7>1, <8>1 DEF Follows
            <7>2. CASE i # Len(profiles)
              <8>1. i % Len(profiles) = i BY <5>1, <7>2
              <8> QED BY <5>1, <7>2, <8>1 DEF Follows
            <7> QED BY <7>1, <7>2
          <6> QED BY <3>1, <5>1, <6>1, <6>2 DEF ShuffleTypeOK, Distinct
        <5>3. CASE current \notin Elems(profiles)
          BY <3>1, <5>1, <5>3, ElemsOfList DEF PickSequential
        <5> QED BY <5>2, <5>3
      <4>3. Len(profiles) # 1 BY <3>1, MoreThanOne DEF ShuffleTypeOK
      <4> QED BY <2>1, <4>1, <4>2, <4>3 DEF Select
    <3>3. queue # <<>> /\ Pop /\ Head(Turned) = current
      BY <2>1, <3>1, <3>2 DEF PickQueued, Select, ShuffleTypeOK
    <3>4. Len(queue) = 1 BY <3>3, TurnedAvoids
    <3>5. Elems(queue') = Elems(profiles) BY <3>3, <3>4, PopUses
    <3>6. algorithm \in InTurn BY <3>2 DEF PickQueued
    <3> QED BY <2>1, <2>3, <2>4, <2>6, <3>1, <3>5, <3>6
  <2> QED BY <2>5, <2>6
<1>4. ASSUME SwitchAgain PROVE ShuffleInv'
  <2>1. PICK p \in Profiles : Select(p) /\ target' = p /\ again' = FALSE
    BY <1>4 DEF SwitchAgain
  <2>2. /\ queue' \in Seq(Profiles) /\ Distinct(queue')
        /\ Elems(queue') \subseteq Elems(profiles) /\ queue' # <<>>
    BY <2>1, SelectUses
  <2>3. UNCHANGED <<algorithm, profiles, current>> BY <2>1 DEF Select
  <2> QED BY <2>1, <2>2, <2>3 DEF ShuffleTypeOK
<1>5. ASSUME Switched PROVE ShuffleInv'
  BY <1>5 DEF Switched, ShuffleTypeOK
<1>6. ASSUME Connect PROVE ShuffleInv'
  BY <1>6 DEF Connect, asked, ShuffleTypeOK
<1>7. CASE UNCHANGED shuffleVars BY <1>7 DEF shuffleVars, asked, ShuffleTypeOK
<1> QED BY <1>1, <1>2, <1>3, <1>4, <1>5, <1>6, <1>7 DEF ShuffleNext
-----------------------------------------------------------------------------
(* Every variable keeps its type, and the queue holds profiles of the pool     *)
(* without repetition, some of them whenever there is a pool (shuffle.py:104,  *)
(* 170-176).                                                                   *)
THEOREM ShuffleTypeCorrect == ShuffleSpec => []ShuffleTypeOK
<1>1. ShuffleInv => ShuffleTypeOK BY DEF ShuffleInv
<1> QED BY InitShuffleInv, NextShuffleInv, <1>1, PTL DEF ShuffleSpec

(* Shuffle implements Cycle: each profile of the pool has one turn per cycle   *)
(* (shuffle.py:16-23, 118-124).                                                *)
THEOREM ImplementsCycle == ShuffleSpec => OncePerCycle
<1>1. ShuffleInit => C!Init BY DEF ShuffleInit, C!Init, Elems, Handed
<1>2. ShuffleInv /\ [ShuffleNext]_shuffleVars => [C!Next]_(C!vars)
  <2> SUFFICES ASSUME ShuffleInv, [ShuffleNext]_shuffleVars PROVE [C!Next]_(C!vars) OBVIOUS
  <2> USE DEF ShuffleInv
  <2>1. ASSUME NEW a \in Algorithms, SetAlgorithm(a) PROVE C!StartOver
    <3>1. Elems(queue') = Elems(profiles) BY <2>1, ReseedFills DEF SetAlgorithm, ShuffleTypeOK
    <3>2. (algorithm' \in InTurn) \in BOOLEAN OBVIOUS
    <3>3. UNCHANGED <<profiles, current, target, again>> BY <2>1 DEF SetAlgorithm, asked
    <3> QED BY <3>1, <3>2, <3>3 DEF C!StartOver, Handed, Elems
  <2>2. ASSUME NEW ps \in Lists, SetPool(ps) PROVE \E S \in SUBSET Profiles : C!Change(S)
    <3>1. /\ Elems(queue') = C!OrAll(Elems(queue) \cap Elems(ps), Elems(ps))
          /\ Elems(ps) \in SUBSET Profiles
      BY <2>2, SetPoolChanges, ListsAreOrders
    <3>2. profiles' = ps /\ UNCHANGED <<algorithm, current, target, again>>
      BY <2>2 DEF SetPool, asked
    <3>3. UNCHANGED (algorithm \in InTurn) /\ UNCHANGED Handed BY <3>2 DEF Handed
    <3>4. Elems(profiles') = Elems(ps) BY <3>2
    <3>5. C!Change(Elems(ps)) BY <3>1, <3>3, <3>4 DEF C!Change, Elems
    <3> QED BY <3>1, <3>5
  <2>3. ASSUME NEW p \in Profiles, Select(p), Handed' = p
        PROVE  \E q \in Profiles : C!Use(q) \/ C!Choose(q)
    <3>1. Turn(p) \/ Choice(p) BY <2>3, SelectUses
    <3>2. UNCHANGED <<algorithm, profiles, current>> BY <2>3 DEF Select
    <3>3. UNCHANGED (algorithm \in InTurn) BY <3>2
    <3>4. UNCHANGED Elems(profiles) BY <3>2 DEF Elems
    <3>5. Turn(p) => C!Use(p) BY <2>3, <3>3, <3>4 DEF Turn, C!Use, Elems
    <3>6. Choice(p) => C!Choose(p) BY <2>3, <3>3, <3>4 DEF Choice, C!Choose, Elems
    <3> QED BY <3>1, <3>5, <3>6
  <2>4. ASSUME Switch PROVE \E q \in Profiles : C!Use(q) \/ C!Choose(q)
    <3>1. PICK p \in Profiles :
             /\ Select(p) /\ ~again
             /\ IF Repeat(p) THEN again' = TRUE /\ UNCHANGED target
                             ELSE target' = p /\ UNCHANGED again
      BY <2>4 DEF Switch
    <3>2. UNCHANGED current BY <3>1 DEF Select
    <3>3. Handed' = p BY <3>1, <3>2 DEF Handed, Repeat
    <3> QED BY <3>1, <3>3, <2>3
  <2>5. ASSUME SwitchAgain PROVE \E q \in Profiles : C!Use(q) \/ C!Choose(q)
    <3>1. PICK p \in Profiles : Select(p) /\ target' = p /\ again' = FALSE
      BY <2>5 DEF SwitchAgain
    <3>2. Handed' = p BY <3>1 DEF Handed
    <3> QED BY <3>1, <3>2, <2>3
  <2>6. ASSUME Switched PROVE C!Connected
    <3>1. ~again BY <2>6 DEF Switched
    <3>2. Handed = target /\ Handed' = None BY <2>6, <3>1 DEF Switched, Handed
    <3> QED BY <2>6, <3>2 DEF Switched, C!Connected, Elems
  <2>7. ASSUME Connect \/ UNCHANGED shuffleVars PROVE UNCHANGED C!vars
    <3>1. UNCHANGED <<algorithm, profiles, queue, target, again>>
      BY <2>7 DEF Connect, asked, shuffleVars
    <3>2. UNCHANGED Handed BY <2>7, <3>1 DEF Connect, shuffleVars, Handed
    <3> QED BY <3>1, <3>2 DEF C!vars, Elems
  <2> QED BY <2>1, <2>2, <2>4, <2>5, <2>6, <2>7 DEF ShuffleNext, C!Next
<1>3. QED BY InitShuffleInv, NextShuffleInv, <1>1, <1>2, PTL DEF ShuffleSpec, OncePerCycle, C!Spec

(* A switch never reconnects the connected profile when the pool has another   *)
(* one (manager.py:338-340).                                                   *)
THEOREM NeverRepeats == ShuffleSpec => NeverSame
<1>1. ShuffleInv /\ [ShuffleNext]_shuffleVars =>
        [target = None /\ target' # None /\ Len(profiles) > 1 => target' # current]_shuffleVars
  <2> SUFFICES ASSUME ShuffleInv, ShuffleNext, target = None, target' # None, Len(profiles) > 1
               PROVE  target' # current
    BY DEF shuffleVars
  <2> USE DEF ShuffleInv
  <2>1. CASE Switch BY <2>1 DEF Switch, Repeat
  <2>2. CASE SwitchAgain
    <3>1. PICK p \in Profiles : Select(p) /\ target' = p /\ again BY <2>2 DEF SwitchAgain
    <3>2. PickQueued(p)
      <4>1. ~PickRandom(p) /\ ~PickSequential(p)
        BY <3>1 DEF PickRandom, PickSequential, InTurn
      <4>2. Len(profiles) # 1 BY MoreThanOne DEF ShuffleTypeOK
      <4> QED BY <3>1, <4>1, <4>2 DEF Select
    <3>3. Len(queue) > 1 BY <3>1, SeveralLeft
    <3>4. queue # <<>> BY <3>3, <3>1, ElemsOfList DEF ShuffleTypeOK
    <3>5. Head(Turned) # current
      <4> SUFFICES ASSUME Head(Turned) = current PROVE FALSE OBVIOUS
      <4>1. Len(queue) = 1 BY <3>4, TurnedAvoids
      <4> QED BY <3>3, <4>1
    <3> QED BY <3>1, <3>2, <3>5 DEF PickQueued
  <2>3. UNCHANGED target => FALSE OBVIOUS
  <2>4. ~Switched BY DEF Switched
  <2> QED BY <2>1, <2>2, <2>3, <2>4 DEF ShuffleNext, SetAlgorithm, SetPool, Connect, asked
<1> QED BY InitShuffleInv, NextShuffleInv, <1>1, PTL DEF ShuffleSpec, NeverSame
=============================================================================
