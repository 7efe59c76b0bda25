----------------------------- MODULE VpnProofs -----------------------------
(***************************************************************************)
(* The proofs about Vpn.  First the queue of the lock: what an append, a   *)
(* tail and a cancellation leave of it, the last by induction over the     *)
(* recursive function that filters it.  Then the invariants, one on top of *)
(* the other: who holds the lock and what it works on (Held), where the    *)
(* tunnels are at each step of the holder (Sound), and what the kill       *)
(* switch, the record and a torn-down route owe to them.                   *)
(***************************************************************************)
EXTENDS Vpn, SequenceTheorems, WellFoundedInduction, TLAPS

Calls == Callers \X (Profiles \cup {None})

-----------------------------------------------------------------------------
(* Who may have a call in the queue, for what, and when: nobody twice, the    *)
(* routing manager while it connects or disconnects, the watchdog while the   *)
(* route is live.                                                              *)
Once == \A i, j \in DOMAIN queue : queue[i][1] = queue[j][1] => i = j
RouteCalls ==
  \A i \in DOMAIN queue : queue[i][1] = "route" =>
    /\ route \in {"building", "stopping"}
    /\ route = "building" => queue[i][2] \in Profiles
DogCalls ==
  \A i \in DOMAIN queue : queue[i][1] = "dog" => route = "live" /\ queue[i][2] \in Profiles
DogLooks == checking => route = "live" /\ current # None

(* What the holder's step says of it: a free lock is at "enter", only a        *)
(* teardown releases, and whatever else goes on has a target.                  *)
Free == queue = <<>> => step = "enter"
Releases == step = "release" => Disconnecting
Works ==
  /\ step \notin {"enter", "release"} => goal \in Profiles
  /\ step = "wgup" => goal \in WireGuard

Held == Once /\ RouteCalls /\ DogCalls /\ DogLooks /\ Free /\ Releases /\ Works

-----------------------------------------------------------------------------
(* Induction over the naturals, for a set: the library's theorem takes an      *)
(* operator.  A least element outside of T would follow an element of T.       *)
LessThan == {ss \in Nat \X Nat : ss[1] < ss[2]}

LEMMA Induction ==
  ASSUME NEW T, 0 \in T, \A n \in Nat : n \in T => n + 1 \in T
  PROVE  Nat \subseteq T
<1> DEFINE Bad == {n \in Nat : n \notin T}
<1>1. SUFFICES ASSUME Bad # {} PROVE FALSE
  OBVIOUS
<1>2. IsWellFoundedOn(LessThan, Nat)
  BY Zenon, NatLessThanWellFounded DEF OpToRel, LessThan
<1>3. \E x \in Bad : \A y \in Bad : <<y, x>> \notin LessThan
  <2> HIDE DEF Bad
  <2>1. Bad \subseteq Nat
    BY DEF Bad
  <2> QED BY <1>1, <1>2, <2>1, WFMin
<1>4. PICK n \in Bad : \A m \in Bad : <<m, n>> \notin LessThan
  BY <1>3
<1>5. n - 1 \in Nat /\ <<n - 1, n>> \in LessThan
  BY <1>4 DEF LessThan
<1>6. n - 1 \notin Bad
  BY <1>4, <1>5
<1> QED BY <1>4, <1>5, <1>6

(* One step of the filter, on the prefix of length i. *)
Filtered(kept, gone, i) ==
  IF i = 0 THEN <<>>
  ELSE IF queue[i][1] \in gone THEN kept[i - 1] ELSE Append(kept[i - 1], queue[i])

(* The function that Without defines exists: it grows one prefix at a time. *)
LEMMA FilterExists ==
  ASSUME NEW gone, queue \in Seq(Calls)
  PROVE  \E kept : kept = [i \in 0..Len(queue) |-> Filtered(kept, gone, i)]
<1> DEFINE Built(g, n) == /\ DOMAIN g = 0..n /\ g = [i \in 0..n |-> g[i]]
                          /\ \A i \in 0..n : g[i] = Filtered(g, gone, i)
           T == {n \in Nat : \E g : Built(g, n)}
<1>1. 0 \in T
  <2>1. Built([i \in 0..0 |-> <<>>], 0)
    BY DEF Filtered
  <2> QED BY <2>1
<1>2. ASSUME NEW n \in Nat, n \in T PROVE n + 1 \in T
  <2>1. PICK g : Built(g, n)
    BY <1>2
  <2> DEFINE h == [i \in 0..n + 1 |-> IF i \in 0..n THEN g[i] ELSE Filtered(g, gone, n + 1)]
  <2>2. DOMAIN h = 0..n + 1 /\ h = [i \in 0..n + 1 |-> h[i]]
    OBVIOUS
  <2>3. ASSUME NEW i \in 0..n + 1 PROVE h[i] = Filtered(h, gone, i)
    <3>1. i # 0 => i - 1 \in 0..n
      BY <2>3
    <3>2. Filtered(h, gone, i) = Filtered(g, gone, i)
      BY <3>1 DEF Filtered
    <3>3. CASE i \in 0..n
      BY <2>1, <3>2, <3>3
    <3>4. CASE i = n + 1
      BY <3>2, <3>4
    <3> QED BY <3>3, <3>4
  <2>4. Built(h, n + 1)
    <3> HIDE DEF h
    <3> QED BY <2>2, <2>3
  <2>5. \E f : Built(f, n + 1)
    <3> HIDE DEF h, Built
    <3> QED BY <2>4
  <2> QED BY <2>5
<1>3. Nat \subseteq T
  <2> HIDE DEF T
  <2> QED BY <1>1, <1>2, Induction
<1>4. Len(queue) \in T
  BY <1>3
<1>5. PICK g : Built(g, Len(queue))
  BY <1>4
<1>6. g = [i \in 0..Len(queue) |-> Filtered(g, gone, i)]
  BY <1>5
<1> QED BY <1>6

(* What a cancellation leaves: some of the calls, none of gone, none twice, and *)
(* the holder's first if it stays.                                              *)
LEMMA WithoutLeaves ==
  ASSUME NEW gone, queue \in Seq(Calls), Once
  PROVE  LET left == Without(gone) IN
         /\ left \in Seq(Calls)
         /\ \A i, j \in DOMAIN left : left[i][1] = left[j][1] => i = j
         /\ \A i \in DOMAIN left : left[i][1] \notin gone /\ \E j \in DOMAIN queue : left[i] = queue[j]
         /\ queue = <<>> => left = <<>>
         /\ queue # <<>> /\ Holder \notin gone => left # <<>> /\ left[1] = queue[1]
<1> DEFINE F(kept) == [i \in 0..Len(queue) |-> Filtered(kept, gone, i)]
           kept == CHOOSE f : f = F(f)
<1>1. Without(gone) = kept[Len(queue)]
  BY Zenon DEF Without, Filtered
<1>2. kept = F(kept)
  <2>1. \E f : f = F(f)
    BY FilterExists
  <2> HIDE DEF F
  <2> QED BY <2>1, Zenon
<1> HIDE DEF kept
<1>3. \A i \in 0..Len(queue) : kept[i] = Filtered(kept, gone, i)
  BY <1>2
<1> HIDE DEF F
<1>4. Len(queue) \in Nat /\ DOMAIN queue = 1..Len(queue)
  BY LenProperties
<1> DEFINE Good(s, n) ==
      /\ s \in Seq(Calls)
      /\ \A i, j \in DOMAIN s : s[i][1] = s[j][1] => i = j
      /\ \A i \in DOMAIN s : s[i][1] \notin gone /\ \E j \in 1..n : s[i] = queue[j]
      /\ n = 0 => s = <<>>
      /\ n > 0 /\ Holder \notin gone => s # <<>> /\ s[1] = queue[1]
    T == {n \in Nat : n <= Len(queue) => Good(kept[n], n)}
<1>5. 0 \in T
  <2>1. kept[0] = <<>>
    BY <1>3, <1>4 DEF Filtered
  <2>2. <<>> \in Seq(Calls) /\ DOMAIN <<>> = {}
    BY EmptySeq
  <2>3. Good(<<>>, 0)
    BY <2>2
  <2>4. Good(kept[0], 0)
    <3> HIDE DEF Good
    <3> QED BY <2>1, <2>3
  <2> QED BY <2>4
<1>6. ASSUME NEW n \in Nat, n \in T PROVE n + 1 \in T
  <2>1. SUFFICES ASSUME n + 1 <= Len(queue) PROVE Good(kept[n + 1], n + 1)
    OBVIOUS
  <2> DEFINE s == kept[n]
             call == queue[n + 1]
  <2>2. Good(s, n)
    BY <1>6, <2>1, <1>4
  <2>3. call \in Calls /\ n + 1 \in DOMAIN queue
    BY <2>1, <1>4
  <2>4. kept[n + 1] = IF call[1] \in gone THEN s ELSE Append(s, call)
    BY <1>3, <2>1, <1>4 DEF Filtered
  <2> HIDE DEF s
  <2>5. CASE call[1] \in gone
    <3>1. n = 0 => Holder \in gone
      BY <2>5 DEF Holder
    <3> QED BY <2>2, <2>4, <2>5, <3>1
  <2>6. CASE call[1] \notin gone
    <3>1. kept[n + 1] = Append(s, call)
      BY <2>4, <2>6
    <3>2. /\ s \in Seq(Calls) /\ Len(s) \in Nat /\ DOMAIN s = 1..Len(s)
          /\ kept[n + 1] \in Seq(Calls) /\ Len(kept[n + 1]) = Len(s) + 1
          /\ DOMAIN kept[n + 1] = 1..Len(s) + 1
          /\ \A i \in 1..Len(s) : kept[n + 1][i] = s[i]
          /\ kept[n + 1][Len(s) + 1] = call
      BY <2>2, <2>3, <3>1
    <3> DEFINE t == kept[n + 1]
    <3> HIDE DEF t, call
    <3>3. \A i \in 1..Len(s) : s[i][1] # call[1]
      <4> SUFFICES ASSUME NEW i \in 1..Len(s) PROVE s[i][1] # call[1]
        OBVIOUS
      <4>1. PICK j \in 1..n : s[i] = queue[j]
        BY <2>2, <3>2
      <4>2. j \in DOMAIN queue /\ j # n + 1
        BY <2>1, <1>4
      <4> QED BY <4>1, <4>2, <2>3 DEF Once, call
    <3>4. \A i, j \in DOMAIN t : t[i][1] = t[j][1] => i = j
      BY <2>2, <3>2, <3>3 DEF t
    <3>5. \A i \in DOMAIN t : t[i][1] \notin gone /\ \E j \in 1..n + 1 : t[i] = queue[j]
      <4> SUFFICES ASSUME NEW i \in DOMAIN t
                   PROVE  t[i][1] \notin gone /\ \E j \in 1..n + 1 : t[i] = queue[j]
        OBVIOUS
      <4>1. CASE i \in 1..Len(s)
        BY <2>2, <3>2, <4>1 DEF t
      <4>2. CASE i = Len(s) + 1
        BY <2>6, <3>2, <4>2 DEF t, call
      <4> QED BY <3>2, <4>1, <4>2 DEF t
    <3>6. Holder \notin gone => t # <<>> /\ t[1] = queue[1]
      <4>1. CASE n = 0
        BY <2>2, <3>2, <4>1 DEF t, call
      <4>2. CASE n > 0
        BY <2>2, <3>2, <4>2 DEF t
      <4> QED BY <4>1, <4>2
    <3> QED BY <3>2, <3>4, <3>5, <3>6 DEF t
  <2> QED BY <2>5, <2>6
<1>7. Nat \subseteq T
  <2> HIDE DEF T
  <2> QED BY <1>5, <1>6, Induction
<1>8. Good(kept[Len(queue)], Len(queue))
  BY <1>4, <1>7
<1> QED BY <1>1, <1>4, <1>8

-----------------------------------------------------------------------------
(* The three ways in which the queue changes.                                  *)

LEMMA AskAppends ==
  ASSUME TypeOK, Once, NEW c \in Callers, NEW p \in Profiles \cup {None}, Ask(c, p)
  PROVE  /\ queue' \in Seq(Calls) /\ queue' # <<>> /\ Once'
         /\ \A i \in DOMAIN queue' : queue'[i] = <<c, p>>
                                     \/ (i \in DOMAIN queue /\ queue'[i] = queue[i])
         /\ queue # <<>> => queue'[1] = queue[1]
         /\ UNCHANGED <<step, locals>>
<1>1. queue \in Seq(Calls) /\ <<c, p>> \in Calls /\ queue' = Append(queue, <<c, p>>)
  BY DEF TypeOK, Calls, Ask
<1>2. /\ queue' \in Seq(Calls) /\ queue' # <<>> /\ Len(queue') = Len(queue) + 1
      /\ \A i \in 1..Len(queue) : queue'[i] = queue[i]
      /\ queue'[Len(queue) + 1] = <<c, p>>
  BY <1>1, AppendProperties
<1>3. /\ Len(queue) \in Nat /\ DOMAIN queue = 1..Len(queue)
      /\ DOMAIN queue' = 1..Len(queue) + 1
      /\ queue # <<>> => Len(queue) > 0
  BY <1>1, <1>2, LenProperties, EmptySeq
<1>4. \A i \in DOMAIN queue : queue[i][1] # c
  BY DEF Ask, Calling
<1>5. Once'
  <2>1. \A i \in 1..Len(queue) : queue'[i][1] # c
    BY <1>2, <1>3, <1>4
  <2>2. queue'[Len(queue) + 1][1] = c
    BY <1>2
  <2>3. \A i, j \in 1..Len(queue) : queue'[i][1] = queue'[j][1] => i = j
    BY <1>2, <1>3 DEF Once
  <2>4. \A i, j \in 1..Len(queue) + 1 : queue'[i][1] = queue'[j][1] => i = j
    BY <1>3, <2>1, <2>2, <2>3
  <2> QED BY <1>3, <2>4 DEF Once
<1>6. \A i \in DOMAIN queue' : i = Len(queue) + 1 \/ i \in DOMAIN queue
  BY <1>3
<1>7. \A i \in DOMAIN queue' : queue'[i] = <<c, p>>
                               \/ (i \in DOMAIN queue /\ queue'[i] = queue[i])
  BY <1>2, <1>3, <1>6
<1> QED BY <1>2, <1>3, <1>5, <1>7 DEF Ask

LEMMA TailPops ==
  ASSUME TypeOK, Once, queue # <<>>, queue' = Tail(queue)
  PROVE  /\ queue' \in Seq(Calls) /\ Once'
         /\ \A i \in DOMAIN queue' : \E j \in DOMAIN queue :
              queue'[i] = queue[j] /\ queue[j][1] # Holder
<1>1. queue \in Seq(Calls)
  BY DEF TypeOK, Calls
<1>2. /\ queue' \in Seq(Calls) /\ Len(queue) \in Nat \ {0} /\ Len(queue') = Len(queue) - 1
      /\ DOMAIN queue = 1..Len(queue) /\ DOMAIN queue' = 1..Len(queue) - 1
      /\ \A i \in 1..Len(queue) - 1 : queue'[i] = queue[i + 1]
  BY <1>1, HeadTailProperties, EmptySeq, LenProperties
<1>3. \A i \in DOMAIN queue' : i + 1 \in DOMAIN queue /\ i + 1 # 1 /\ queue'[i] = queue[i + 1]
  BY <1>2
<1>4. Once'
  BY <1>2, <1>3 DEF Once
<1>5. \A i \in DOMAIN queue' : queue[i + 1][1] # Holder
  BY <1>2, <1>3 DEF Once, Holder
<1> QED BY <1>2, <1>3, <1>4, <1>5

(* A cancellation that takes the holder away in the middle of its work leaves *)
(* the lock to the next caller; another one leaves the holder where it is.    *)
LEMMA CancelLeaves ==
  ASSUME TypeOK, Once, Free, NEW gone, Cancel(gone)
  PROVE  /\ queue' \in Seq(Calls) /\ Once' /\ Free'
         /\ \A i \in DOMAIN queue' : queue'[i][1] \notin gone
                                     /\ \E j \in DOMAIN queue : queue'[i] = queue[j]
         /\ step' # "enter" => queue # <<>> /\ queue' # <<>> /\ Holder \notin gone
                               /\ queue'[1] = queue[1]
         /\ \/ step' = "enter" /\ goal' = None /\ back' = None /\ tries' = 0
            \/ UNCHANGED <<step, locals>>
         /\ \/ UNCHANGED links
            \/ step = "wgup" /\ links' = links \cup {goal} /\ lost'
         /\ lost => lost'
         /\ step' = "enter" /\ step \in {"wait", "wgup", "check"} => lost'
         /\ \/ UNCHANGED rearm /\ (Rearming => step' # "enter")
            \/ Rearming /\ step' = "enter" /\ rearm' = CutShort
         /\ UNCHANGED <<shown, ks, proc, ready, iface, reads, unseen, late>>
<1>1. queue \in Seq(Calls) /\ queue' = Without(gone)
  BY DEF TypeOK, Calls, Cancel
<1>2. /\ queue' \in Seq(Calls) /\ Once'
      /\ \A i \in DOMAIN queue' : queue'[i][1] \notin gone
                                  /\ \E j \in DOMAIN queue : queue'[i] = queue[j]
      /\ queue = <<>> => queue' = <<>>
      /\ queue # <<>> /\ Holder \notin gone => queue' # <<>> /\ queue'[1] = queue[1]
  <2> HIDE DEF Without
  <2> QED BY <1>1, WithoutLeaves DEF Once
<1> DEFINE interrupted == queue # <<>> /\ Holder \in gone /\ step # "enter"
<1>3. CASE interrupted
  <2>1. /\ Return /\ links' \in Left /\ lost' = (lost \/ Orphaned)
        /\ rearm' = (IF Rearming THEN CutShort ELSE rearm)
    BY <1>3 DEF Cancel
  <2> QED BY <1>2, <2>1 DEF Cancel, Return, Left, Orphaned, Free
<1>4. CASE ~interrupted
  <2>1. links' = links /\ lost' = lost /\ rearm' = rearm /\ UNCHANGED <<step, locals>>
    BY <1>4 DEF Cancel, TypeOK
  <2>2. step # "enter" => queue # <<>> /\ Holder \notin gone
    BY <1>4 DEF Free
  <2> QED BY <1>2, <1>4, <2>1, <2>2 DEF Cancel, Free, Rearming
<1> QED BY <1>3, <1>4

-----------------------------------------------------------------------------
(* Type correctness and who holds the lock.                                    *)

(* What the holder does to the tunnels leaves everything else alone.           *)
Inner == Drop \/ Spawn \/ Ready \/ NotReady \/ WgRefused \/ WgStart \/ WgUp \/ WgFailed

LEMMA TargetsAreProfiles ==
  ASSUME TypeOK, Held, queue # <<>>, ~Disconnecting
  PROVE  Targets \subseteq Profiles
<1>1. /\ queue[1] \in Calls /\ 1 \in DOMAIN queue
      /\ Holder \in Callers /\ Asked \in Profiles \cup {None}
  <2>1. queue \in Seq(Calls)
    BY DEF TypeOK, Calls
  <2>2. Len(queue) \in Nat \ {0} /\ DOMAIN queue = 1..Len(queue)
    BY <2>1, EmptySeq, LenProperties
  <2>3. 1 \in DOMAIN queue /\ queue[1] \in Calls
    BY <2>1, <2>2, ElementOfSeq
  <2> QED BY <2>3 DEF Calls, Holder, Asked
<1>2. CASE Holder \in {"route", "dog"}
  <2>1. Asked \in Profiles
    BY <1>1, <1>2 DEF Held, RouteCalls, DogCalls, Disconnecting, Holder, Asked
  <2> QED BY <1>2, <2>1 DEF Targets
<1>3. CASE Holder \notin {"route", "dog"}
  BY <1>1, <1>3 DEF Targets
<1> QED BY <1>2, <1>3

LEMMA InnerSteps ==
  ASSUME TypeOK, Held, Inner
  PROVE  /\ queue # <<>> /\ step \notin {"enter", "guard", "check", "steady", "observe", "release"}
         /\ step' \in {"up", "wait", "wgup", "check"} /\ tries' \in 0..Retries
         /\ step' = "wgup" => goal \in WireGuard
         /\ proc' \in OpenVpn \cup {None} /\ ready' \in BOOLEAN
         /\ iface' \in WireGuard \cup {None} /\ links' \subseteq WireGuard
         /\ UNCHANGED <<held, outside>>
<1> USE DEF At, held, outside, locals, tunnels, manager, shown, history
<1>0. /\ Retries \in Nat /\ tries \in 0..Retries
      /\ proc \in OpenVpn \cup {None} /\ ready \in BOOLEAN
      /\ iface \in WireGuard \cup {None} /\ links \subseteq WireGuard
  BY SettingAssumption DEF TypeOK
<1>r. ASSUME Retry PROVE step' \in {"up", "check"} /\ tries' \in 0..Retries
  BY <1>0, <1>r DEF Retry
<1>b. ASSUME NEW p, BackendDown(p)
      PROVE  /\ proc' \in OpenVpn \cup {None} /\ ready' \in BOOLEAN
             /\ iface' \in WireGuard \cup {None} /\ links' \subseteq WireGuard
  BY <1>0, <1>b DEF BackendDown
<1>1. CASE Drop
  BY <1>0, <1>1, <1>b DEF Drop
<1>2. CASE Spawn
  BY <1>0, <1>2, <1>r DEF Spawn
<1>3. CASE Ready \/ NotReady
  BY <1>0, <1>3, <1>r DEF Ready, NotReady
<1>4. CASE WgRefused \/ WgFailed
  BY <1>0, <1>4, <1>r DEF WgRefused, WgFailed
<1>5. CASE WgStart
  BY <1>0, <1>5, <1>b DEF WgStart
<1>6. CASE WgUp
  BY <1>0, <1>6 DEF WgUp, Held, Works
<1> QED BY <1>1, <1>2, <1>3, <1>4, <1>5, <1>6 DEF Inner

(* The steps that leave the lock and its holder alone. *)
LEMMA HolderActs ==
  ASSUME TypeOK, Held, Hold
  PROVE  TypeOK' /\ Held'
<1> USE DEF At, held, outside, locals, manager, shown, tunnels, history
<1>1. CASE Inner
  <2>1. /\ queue # <<>> /\ step \notin {"enter", "guard", "check", "steady", "observe", "release"}
        /\ step' \in {"up", "wait", "wgup", "check"} /\ tries' \in 0..Retries
        /\ step' = "wgup" => goal \in WireGuard
        /\ proc' \in OpenVpn \cup {None} /\ ready' \in BOOLEAN
        /\ iface' \in WireGuard \cup {None} /\ links' \subseteq WireGuard
        /\ UNCHANGED <<held, outside>>
    BY <1>1, InnerSteps
  <2>2. TypeOK'
    BY <2>1 DEF TypeOK
  <2>3. Held'
    BY <2>1 DEF Held, Once, RouteCalls, DogCalls, DogLooks, Free, Releases, Works,
                Disconnecting, Holder
  <2> QED BY <2>2, <2>3
<1>b. ASSUME NEW p \in Profiles, Begin(p), UNCHANGED <<queue, checking, manager, current, tunnels>>,
             back' \in Profiles \cup {None}, queue # <<>>, UNCHANGED <<reads, lost, late>>,
             unseen' \in BOOLEAN
      PROVE  TypeOK' /\ Held'
  <2>1. /\ goal' = p /\ step' \in {"guard", "drop"} /\ tries' = 0 /\ status' = "starting"
        /\ ks' \in ({"transition", "steady"} \X Profiles) \cup {<<>>}
        /\ rearm' \in {"whole", "older", "open"}
    BY <1>b DEF Begin, Rearm, TypeOK
  <2>2. TypeOK'
    BY <1>b, <2>1, SettingAssumption DEF TypeOK
  <2>3. Held'
    BY <1>b, <2>1 DEF Held, Once, RouteCalls, DogCalls, DogLooks, Free, Releases, Works
  <2> QED BY <2>2, <2>3
<1>2. CASE Enter
  <2>1. PICK p \in Targets : Begin(p)
    BY <1>2 DEF Enter
  <2>2. p \in Profiles
    BY <1>2, TargetsAreProfiles DEF Enter
  <2>3. /\ back' \in Profiles \cup {None} /\ unseen' \in BOOLEAN
        /\ queue # <<>> /\ UNCHANGED <<queue, checking, manager, current, tunnels, reads, lost, late>>
    BY <1>2 DEF Enter, TypeOK
  <2> QED BY <1>b, <2>1, <2>2, <2>3
<1>3. CASE Accepted
  <2>1. /\ goal \in Profiles /\ queue # <<>>
        /\ current' = goal /\ status' = "verifying" /\ step' \in {"steady", "observe"}
        /\ late' \in BOOLEAN
        /\ UNCHANGED <<tries, tunnels, held, manager, reads, lost, unseen>>
    BY <1>3 DEF Accepted, Held, Works
  <2>2. /\ ks' \in ({"transition", "steady"} \X Profiles) \cup {<<>>}
        /\ rearm' \in {"whole", "older", "open"}
    BY <1>3, <2>1 DEF Accepted, Rearm, TypeOK
  <2>3. TypeOK'
    BY <2>1, <2>2 DEF TypeOK
  <2>4. current' # None
    BY <2>1, ProfileAssumption
  <2>5. Held'
    BY <2>1, <2>4 DEF Held, Once, RouteCalls, DogCalls, DogLooks, Free, Releases, Works
  <2> QED BY <2>3, <2>5
<1>l. CASE Guarded \/ Steady
  <2>1. /\ queue # <<>> /\ step' \in {"drop", "observe"} /\ goal \in Profiles
        /\ UNCHANGED <<queue, locals, checking, manager, shown, tunnels, reads, lost, unseen, late>>
    BY <1>l DEF Guarded, Steady, Held, Works
  <2>2. /\ ks' \in ({"transition", "steady"} \X Profiles) \cup {<<>>}
        /\ rearm' \in {"whole", "older", "open"}
    BY <1>l, <2>1 DEF Guarded, Steady, LoadSteady, Load, CutShort, TypeOK
  <2>3. TypeOK'
    BY <2>1, <2>2 DEF TypeOK
  <2>4. Held'
    BY <2>1 DEF Held, Once, RouteCalls, DogCalls, DogLooks, Free, Releases, Works
  <2> QED BY <2>3, <2>4
<1>p. ASSUME queue # <<>>, queue' = Tail(queue), Return, UNCHANGED <<checking, socks, tunnels>>,
             current' \in Profiles \cup {None},
             status' \in {"idle", "starting", "verifying", "active", "stopping", "error"},
             ks' \in ({"transition", "steady"} \X Profiles) \cup {<<>>},
             reads' \in Checks, lost' \in BOOLEAN, unseen' \in BOOLEAN, late' \in BOOLEAN,
             rearm' \in {"whole", "older", "open"},
             route' = (IF Holder = "route" THEN route' ELSE route),
             route' \in {"down", "cut", "building", "failed", "live", "stopping", "stopped"},
             checking => current' # None
      PROVE  TypeOK' /\ Held'
  <2>1. /\ queue' \in Seq(Calls) /\ Once'
        /\ \A i \in DOMAIN queue' : \E j \in DOMAIN queue :
             queue'[i] = queue[j] /\ queue[j][1] # Holder
    BY <1>p, TailPops DEF Held
  <2>2. step' = "enter" /\ goal' = None /\ back' = None /\ tries' = 0
    BY <1>p DEF Return
  <2>4. TypeOK'
    BY <1>p, <2>1, <2>2, SettingAssumption DEF TypeOK, Calls
  <2>5. CASE Holder = "route"
    <3>1. /\ \A i \in DOMAIN queue : queue[i][1] # "dog"
          /\ ~checking
      <4>1. 1 \in DOMAIN queue
        BY <1>p, EmptySeq, LenProperties DEF TypeOK
      <4>2. route \in {"building", "stopping"}
        BY <2>5, <4>1 DEF Held, RouteCalls, Holder
      <4> QED BY <4>2 DEF Held, DogCalls, DogLooks
    <3>2. \A i \in DOMAIN queue' : queue'[i][1] \notin {"route", "dog"}
      BY <2>1, <2>5, <3>1
    <3> QED BY <1>p, <2>1, <2>2, <2>4, <3>1, <3>2
            DEF Held, RouteCalls, DogCalls, DogLooks, Free, Releases, Works
  <2>6. CASE Holder # "route"
    <3>1. route' = route
      BY <1>p, <2>6
    <3>2. \A i \in DOMAIN queue' : \E j \in DOMAIN queue : queue'[i] = queue[j]
      BY <2>1
    <3>3. RouteCalls' /\ DogCalls'
      BY <3>1, <3>2 DEF Held, RouteCalls, DogCalls
    <3> QED BY <1>p, <2>1, <2>2, <2>4, <3>1, <3>3
            DEF Held, DogLooks, Free, Releases, Works
  <2> QED BY <2>5, <2>6
<1>4. CASE Observed
  <2>1. /\ queue # <<>> /\ queue' = Tail(queue) /\ Return /\ UNCHANGED <<checking, socks, tunnels>>
        /\ current' = current /\ status' = "active" /\ ks' = ks /\ UNCHANGED history
        /\ route' = IF Holder = "route" THEN "live" ELSE route
    BY <1>4 DEF Observed, RouteTo
  <2> QED BY <1>p, <2>1 DEF TypeOK, Held, DogLooks
<1>5. CASE Rejected
  <2>1. CASE back # None
    <3>1. Begin(back) /\ back' = None /\ UNCHANGED <<queue, route>> /\ queue # <<>>
          /\ UNCHANGED <<checking, socks, current, tunnels, reads, lost, late>> /\ back \in Profiles
          /\ unseen' \in BOOLEAN
      BY <1>5, <2>1 DEF Rejected, TypeOK, BackendUp
    <3> QED BY <1>b, <3>1 DEF TypeOK
  <2>2. CASE back = None
    <3>1. /\ queue # <<>> /\ queue' = Tail(queue) /\ Return /\ UNCHANGED <<checking, socks, tunnels>>
          /\ current' = current /\ status' = "error" /\ ks' = ks
          /\ UNCHANGED <<reads, lost, late, rearm>> /\ unseen' \in BOOLEAN
          /\ route' = IF Holder = "route" THEN "failed" ELSE route
      BY <1>5, <2>2 DEF Rejected, RouteTo, FailureKeeps, TypeOK, BackendUp
    <3> QED BY <1>p, <3>1 DEF TypeOK, Held, DogLooks
  <2> QED BY <2>1, <2>2
<1>6. CASE Disconnect
  <2>1. /\ queue # <<>> /\ Disconnecting /\ step' = "release"
        /\ UNCHANGED <<held, tries, manager, current, ks, history>>
        /\ status' \in {"stopping", status}
        /\ BackendDown(current) \/ UNCHANGED tunnels
    BY <1>6 DEF Disconnect
  <2>2. /\ proc' \in OpenVpn \cup {None} /\ ready' \in BOOLEAN
        /\ iface' \in WireGuard \cup {None} /\ links' \subseteq WireGuard
    BY <2>1 DEF BackendDown, TypeOK
  <2>3. TypeOK'
    BY <2>1, <2>2 DEF TypeOK
  <2>4. Held'
    BY <2>1 DEF Held, Once, RouteCalls, DogCalls, DogLooks, Free, Releases, Works,
                Disconnecting, Holder
  <2> QED BY <2>3, <2>4
<1>7. CASE Disconnected
  <2>1. /\ queue # <<>> /\ queue' = Tail(queue) /\ Return /\ UNCHANGED <<checking, socks, tunnels>>
        /\ current' = None /\ status' = "idle" /\ ks' = <<>>
        /\ late' = FALSE /\ rearm' = "whole" /\ UNCHANGED <<reads, lost, unseen>>
        /\ route' = "stopped" /\ Disconnecting
    BY <1>7 DEF Disconnected, Held, Releases
  <2>2. ~checking /\ Holder = "route"
    BY <2>1 DEF Held, DogLooks, Disconnecting
  <2> QED BY <1>p, <2>1, <2>2 DEF TypeOK
<1> QED BY <1>1, <1>2, <1>3, <1>l, <1>4, <1>5, <1>6, <1>7 DEF Hold, Inner

(* The requests, the cancellations and what happens outside. *)
Around ==
  \/ Route \/ StopTimer
  \/ \E p \in Profiles, s \in BOOLEAN : RouteConnect(p, s)
  \/ \E c \in Switches, p \in Profiles \cup {None} : Switch(c, p)
  \/ DogFindsItDead \/ DogAsks \/ DogAnswered
  \/ TunnelDies

(* A call that is asked for leaves the rest as it is. *)
LEMMA AskKeepsHeld ==
  ASSUME TypeOK, Held, NEW c \in Callers, NEW p \in Profiles \cup {None}, Ask(c, p),
         UNCHANGED current,
         route' = (IF c = "route" THEN route' ELSE route),
         c = "route" => /\ route \notin {"building", "stopping", "live"}
                        /\ route' \in {"building", "stopping"}
                        /\ route' = "building" => p \in Profiles,
         c = "dog" => route = "live" /\ p \in Profiles,
         checking' => checking
  PROVE  queue' \in Seq(Calls) /\ UNCHANGED <<step, locals>> /\ Held'
<1>1. /\ queue' \in Seq(Calls) /\ queue' # <<>> /\ Once'
      /\ \A i \in DOMAIN queue' : queue'[i] = <<c, p>>
                                  \/ (i \in DOMAIN queue /\ queue'[i] = queue[i])
      /\ queue # <<>> => queue'[1] = queue[1]
      /\ UNCHANGED <<step, locals>>
  BY AskAppends DEF Held
<1>2. RouteCalls' /\ DogCalls'
  <2>1. CASE c = "route"
    <3>1. \A i \in DOMAIN queue : queue[i][1] \notin {"route", "dog"}
      BY <2>1 DEF Held, RouteCalls, DogCalls
    <3>2. \A i \in DOMAIN queue' : queue'[i][1] # "dog" /\ (queue'[i][1] = "route" => queue'[i][2] = p)
      BY <1>1, <2>1, <3>1
    <3> QED BY <2>1, <3>2 DEF RouteCalls, DogCalls
  <2>2. CASE c # "route"
    <3>1. route' = route
      BY <2>2
    <3> QED BY <1>1, <2>2, <3>1 DEF Held, RouteCalls, DogCalls
  <2> QED BY <2>1, <2>2
<1>3. DogLooks'
  BY DEF Held, DogLooks
<1>4. Free' /\ Works'
  BY <1>1 DEF Held, Free, Works, locals
<1>5. Releases'
  <2>1. step = "release" => queue # <<>> /\ Disconnecting /\ c # "route"
    BY DEF Held, Free, Releases, Disconnecting
  <2> QED BY <1>1, <2>1 DEF Releases, Disconnecting, Holder
<1> QED BY <1>1, <1>2, <1>3, <1>4, <1>5 DEF Held

(* So does a cancellation: a route that aborts takes its call along, and one   *)
(* that stops to be live takes the watchdog's.                                 *)
LEMMA CancelKeepsHeld ==
  ASSUME TypeOK, Held, NEW gone, Cancel(gone), UNCHANGED socks,
         checking' \in BOOLEAN, checking' => checking,
         \/ route' = route /\ gone \subseteq Switches
         \/ route = "building" /\ route' = "cut" /\ "route" \in gone
         \/ route = "live" /\ route' = "failed" /\ "dog" \in gone /\ ~checking' /\ "route" \notin gone
  PROVE  TypeOK' /\ Held'
<1>1. /\ queue' \in Seq(Calls) /\ Once' /\ Free'
      /\ \A i \in DOMAIN queue' : queue'[i][1] \notin gone
                                  /\ \E j \in DOMAIN queue : queue'[i] = queue[j]
      /\ step' # "enter" => queue # <<>> /\ queue' # <<>> /\ Holder \notin gone
                            /\ queue'[1] = queue[1]
      /\ \/ step' = "enter" /\ goal' = None /\ back' = None /\ tries' = 0
         \/ UNCHANGED <<step, locals>>
      /\ \/ UNCHANGED links
         \/ step = "wgup" /\ links' = links \cup {goal} /\ lost'
      /\ UNCHANGED <<shown, ks, proc, ready, iface, reads, unseen, late>>
  BY CancelLeaves DEF Held
<1>2. links' \subseteq WireGuard /\ lost' \in BOOLEAN /\ rearm' \in {"whole", "older", "open"}
  BY <1>1 DEF Held, Works, TypeOK, Cancel, CutShort
<1>3. TypeOK'
  <2>1. goal' \in Profiles \cup {None} /\ back' \in Profiles \cup {None} /\ tries' \in 0..Retries
    BY <1>1, SettingAssumption DEF TypeOK, locals
  <2>2. step' \in {"enter", "guard", "drop", "up", "wait", "wgup", "check", "steady", "observe", "release"}
    BY <1>1 DEF TypeOK
  <2> QED BY <1>1, <1>2, <2>1, <2>2 DEF TypeOK, Calls, shown
<1>4. RouteCalls' /\ DogCalls'
  BY <1>1 DEF Held, RouteCalls, DogCalls
<1>5. DogLooks'
  BY <1>1 DEF Held, DogLooks, shown
<1>6. Works'
  BY <1>1 DEF Held, Works, locals
<1>7. Releases'
  <2>1. step' = "release" => step = "release" /\ queue'[1] = queue[1] /\ Holder \notin gone
    BY <1>1
  <2>2. step' = "release" => Holder = "route" /\ route = "stopping" /\ route' = "stopping"
    BY <2>1 DEF Held, Releases, Disconnecting
  <2> QED BY <2>1, <2>2 DEF Releases, Disconnecting, Holder
<1> QED BY <1>1, <1>3, <1>4, <1>5, <1>6, <1>7 DEF Held

LEMMA AroundKeepsHeld ==
  ASSUME TypeOK, Held, Around
  PROVE  TypeOK' /\ Held'
<1> USE DEF calls, locals, manager, shown, tunnels, history
<1>c. {"route", "dog"} \cap Switches = {} /\ Callers = {"route", "dog"} \cup Switches
  BY CallerAssumption DEF Callers
<1>s. Timers \subseteq Switches
  BY DEF Timers
<1>1. ASSUME NEW p \in Profiles, NEW s \in BOOLEAN, RouteConnect(p, s) PROVE TypeOK' /\ Held'
  <2>1. "route" \in Callers /\ p \in Profiles \cup {None}
    BY <1>c
  <2>2. /\ Ask("route", p) /\ route \in {"down", "cut"} /\ route' = "building" /\ socks' = s
        /\ UNCHANGED <<checking, shown, ks, tunnels, history>>
    BY <1>1 DEF RouteConnect
  <2>3. queue' \in Seq(Calls) /\ UNCHANGED <<step, locals>> /\ Held'
    BY <2>1, <2>2, AskKeepsHeld
  <2> QED BY <2>2, <2>3 DEF TypeOK, Calls
<1>2. ASSUME NEW c \in Switches, NEW p \in Profiles \cup {None}, Switch(c, p) PROVE TypeOK' /\ Held'
  <2>1. c \in Callers /\ c # "route" /\ c # "dog"
    BY <1>c
  <2>2. Ask(c, p) /\ UNCHANGED <<checking, manager, shown, ks, tunnels, history>>
    BY <1>2 DEF Switch
  <2>3. queue' \in Seq(Calls) /\ UNCHANGED <<step, locals>> /\ Held'
    BY <2>1, <2>2, AskKeepsHeld
  <2> QED BY <2>2, <2>3 DEF TypeOK, Calls
<1>3. CASE StopTimer
  <2>1. Cancel(Timers) /\ UNCHANGED <<manager, checking>>
    BY <1>3 DEF StopTimer
  <2> QED BY <1>s, <2>1, CancelKeepsHeld DEF TypeOK
<1>4. CASE Abort
  <2>1. Cancel({"route"}) /\ route = "building" /\ route' = "cut" /\ UNCHANGED <<socks, checking>>
    BY <1>4 DEF Abort
  <2> QED BY <2>1, CancelKeepsHeld DEF TypeOK
<1>5. CASE RouteDisconnect
  <2>1. /\ Cancel(Timers \cup {"dog"}) /\ checking' = FALSE
        /\ route = "live" /\ route' = "failed" /\ UNCHANGED socks
    BY <1>5 DEF RouteDisconnect, CancelPeriodic
  <2>2. "route" \notin Timers \cup {"dog"}
    BY <1>c, <1>s
  <2> QED BY <2>1, <2>2, CancelKeepsHeld
<1>6. CASE RouteTeardown
  <2>1. /\ route = "failed" /\ UNCHANGED <<checking, socks, shown, ks, tunnels, history>>
    BY <1>6 DEF RouteTeardown
  <2>2. CASE current # None
    <3>1. Ask("route", None) /\ route' = "stopping"
      BY <1>6, <2>2 DEF RouteTeardown
    <3>2. queue' \in Seq(Calls) /\ UNCHANGED <<step, locals>> /\ Held'
      BY <1>c, <2>1, <3>1, AskKeepsHeld
    <3> QED BY <2>1, <3>1, <3>2 DEF TypeOK, Calls
  <2>3. CASE current = None
    <3>1. route' = "stopped" /\ UNCHANGED <<queue, step, locals>>
      BY <1>6, <2>3 DEF RouteTeardown
    <3>2. TypeOK'
      BY <2>1, <3>1 DEF TypeOK
    <3>3. Held'
      BY <2>1, <3>1 DEF Held, Once, RouteCalls, DogCalls, DogLooks, Free, Releases, Works,
                        Disconnecting, Holder
    <3> QED BY <3>2, <3>3
  <2> QED BY <2>2, <2>3
<1>7. CASE RouteDown
  <2>1. /\ route = "stopped" /\ route' = "down" /\ socks' = FALSE
        /\ UNCHANGED <<calls, shown, ks, tunnels, history>>
    BY <1>7 DEF RouteDown
  <2>f. socks' \in BOOLEAN
    BY <2>1
  <2>2. TypeOK'
    BY <2>1, <2>f DEF TypeOK
  <2>3. Held'
    BY <2>1 DEF Held, Once, RouteCalls, DogCalls, DogLooks, Free, Releases, Works,
                Disconnecting, Holder
  <2> QED BY <2>2, <2>3
<1>r. ASSUME Reconnect, route = "live", UNCHANGED <<manager, shown, ks, tunnels, history>>
      PROVE  TypeOK' /\ Held'
  <2>1. PICK p \in IF current = None THEN Profiles ELSE {current} : Ask("dog", p)
    BY <1>r DEF Reconnect
  <2>2. p \in Profiles
    BY <2>1 DEF TypeOK
  <2>3. checking' = FALSE
    BY <1>r DEF Reconnect
  <2>4. queue' \in Seq(Calls) /\ UNCHANGED <<step, locals>> /\ Held'
    BY <1>c, <1>r, <2>1, <2>2, <2>3, AskKeepsHeld
  <2>5. checking' \in BOOLEAN
    BY <2>3
  <2> QED BY <1>r, <2>4, <2>5 DEF TypeOK, Calls
<1>8. CASE DogFindsItDead
  BY <1>8, <1>r DEF DogFindsItDead
<1>9. CASE DogAsks
  <2>1. /\ route = "live" /\ checking' = TRUE /\ current \in WireGuard
        /\ UNCHANGED <<queue, step, locals, manager, shown, ks, tunnels, history>>
    BY <1>9 DEF DogAsks
  <2>2. current # None
    BY <2>1, ProfileAssumption DEF Profiles
  <2>3. TypeOK'
    BY <2>1 DEF TypeOK
  <2>4. Held'
    BY <2>1, <2>2 DEF Held, Once, RouteCalls, DogCalls, DogLooks, Free, Releases, Works,
                      Disconnecting, Holder
  <2> QED BY <2>3, <2>4
<1>10. CASE DogAnswered
  <2>1. checking /\ route = "live" /\ UNCHANGED <<manager, shown, ks, tunnels, history>>
    BY <1>10 DEF DogAnswered, Held, DogLooks
  <2>2. CASE Reconnect
    BY <1>r, <2>1, <2>2
  <2>3. CASE checking' = FALSE /\ UNCHANGED <<queue, step, locals>>
    <3>f. checking' \in BOOLEAN
      BY <2>3
    <3>1. TypeOK'
      BY <2>1, <2>3, <3>f DEF TypeOK
    <3>2. Held'
      BY <2>1, <2>3 DEF Held, Once, RouteCalls, DogCalls, DogLooks, Free, Releases, Works,
                        Disconnecting, Holder
    <3> QED BY <3>1, <3>2
  <2> QED BY <1>10, <2>2, <2>3 DEF DogAnswered
<1>11. CASE TunnelDies
  <2>1. /\ UNCHANGED <<calls, manager, shown, ks, ready, iface, history>>
        /\ proc' \in OpenVpn \cup {None} /\ links' \subseteq WireGuard
    BY <1>11 DEF TunnelDies, TypeOK
  <2>2. TypeOK'
    BY <2>1 DEF TypeOK
  <2>3. Held'
    BY <2>1 DEF Held, Once, RouteCalls, DogCalls, DogLooks, Free, Releases, Works,
                Disconnecting, Holder
  <2> QED BY <2>2, <2>3
<1> QED BY <1>1, <1>2, <1>3, <1>4, <1>5, <1>6, <1>7, <1>8, <1>9, <1>10, <1>11 DEF Around, Route

(* The types and who holds the lock, in every reachable state. *)
LEMMA HeldAlways == Spec => [](TypeOK /\ Held)
<1>1. Init => TypeOK /\ Held
  <2>1. Init => TypeOK
    <3>1. <<>> \in Seq(Callers \X (Profiles \cup {None})) /\ 0 \in 0..Retries
      BY SettingAssumption, EmptySeq
    <3> QED BY <3>1 DEF Init, TypeOK
  <2>2. Init => Held
    BY DEF Init, Held, Once, RouteCalls, DogCalls, DogLooks, Free, Releases, Works
  <2> QED BY <2>1, <2>2
<1>2. TypeOK /\ Held /\ [Next]_vars => TypeOK' /\ Held'
  <2> SUFFICES ASSUME TypeOK, Held, [Next]_vars PROVE TypeOK' /\ Held'
    OBVIOUS
  <2>1. CASE Hold
    BY <2>1, HolderActs
  <2>2. CASE Around
    BY <2>2, AroundKeepsHeld
  <2>3. CASE UNCHANGED vars
    <3> USE <2>3 DEF vars, calls, locals, manager, shown, tunnels, history
    <3>1. TypeOK'
      BY DEF TypeOK
    <3>2. Held'
      BY DEF Held, Once, RouteCalls, DogCalls, DogLooks, Free, Releases, Works,
             Disconnecting, Holder
    <3> QED BY <3>1, <3>2
  <2> QED BY <2>1, <2>2, <2>3 DEF Next, Around
<1> QED BY <1>1, <1>2, PTL DEF Spec

(* What the steps around the holder can do to it: keep it where it is, or cancel *)
(* its call.  They record nothing, bring no tunnel up unless a call is lost, and *)
(* move the route along its life.                                                *)
RouteMoves ==
  \/ UNCHANGED manager
  \/ route \in {"down", "cut"} /\ route' = "building"
  \/ route = "building" /\ route' = "cut" /\ UNCHANGED socks
  \/ route = "live" /\ route' = "failed" /\ UNCHANGED socks
  \/ route = "failed" /\ route' = "stopping" /\ UNCHANGED socks
  \/ route = "failed" /\ route' = "stopped" /\ current = None /\ UNCHANGED socks
  \/ route = "stopped" /\ route' = "down" /\ socks' = FALSE

StandsBy ==
  /\ UNCHANGED <<current, status, ks, reads, unseen, late, ready, iface>>
  /\ step' # "enter" => /\ UNCHANGED <<step, locals>>
                        /\ queue # <<>> /\ queue' # <<>> /\ queue'[1] = queue[1]
  /\ step' = "enter" /\ step \in {"wait", "wgup", "check"} => lost'
  /\ lost => lost'
  /\ ~lost' => proc' \in {proc, None} /\ links' \subseteq links
  /\ \/ UNCHANGED rearm /\ (Rearming => step' # "enter")
     \/ Rearming /\ step' = "enter" /\ rearm' = CutShort

LEMMA AroundSteps ==
  ASSUME TypeOK, Held, Around
  PROVE  RouteMoves /\ StandsBy
<1> USE DEF calls, locals, manager, shown, tunnels, history
<1>f. step # "enter" => queue # <<>>
  BY DEF Held, Free
<1>a. ASSUME NEW c \in Callers, NEW p \in Profiles \cup {None}, Ask(c, p),
             UNCHANGED <<shown, ks, tunnels, history>>
      PROVE  StandsBy
  <2>1. /\ queue' # <<>> /\ (queue # <<>> => queue'[1] = queue[1])
        /\ UNCHANGED <<step, locals>>
    BY <1>a, AskAppends DEF Held
  <2>2. UNCHANGED <<current, status, ks, history, ready, iface, proc, links>>
    BY <1>a
  <2> QED BY <1>f, <2>1, <2>2 DEF StandsBy, Rearming
<1>b. ASSUME NEW gone, Cancel(gone) PROVE StandsBy
  BY <1>b, CancelLeaves DEF Held, StandsBy
<1>c. {"route", "dog"} \subseteq Callers /\ Switches \subseteq Callers
  BY DEF Callers
<1>1. ASSUME NEW p \in Profiles, NEW s \in BOOLEAN, RouteConnect(p, s) PROVE RouteMoves /\ StandsBy
  BY <1>1, <1>a, <1>c DEF RouteConnect, RouteMoves
<1>2. ASSUME NEW c \in Switches, NEW p \in Profiles \cup {None}, Switch(c, p)
      PROVE  RouteMoves /\ StandsBy
  BY <1>2, <1>a, <1>c DEF Switch, RouteMoves
<1>3. CASE StopTimer
  BY <1>3, <1>b DEF StopTimer, RouteMoves
<1>4. CASE Abort
  BY <1>4, <1>b DEF Abort, RouteMoves
<1>5. CASE RouteDisconnect
  BY <1>5, <1>b DEF RouteDisconnect, CancelPeriodic, RouteMoves
<1>6. CASE RouteTeardown
  <2>1. CASE current # None
    BY <1>6, <1>a, <1>c, <2>1 DEF RouteTeardown, RouteMoves
  <2>2. CASE current = None
    BY <1>6, <1>f, <2>2 DEF RouteTeardown, RouteMoves, StandsBy, Rearming
  <2> QED BY <2>1, <2>2
<1>7. CASE RouteDown
  BY <1>7, <1>f DEF RouteDown, RouteMoves, StandsBy, Rearming
<1>r. ASSUME Reconnect, UNCHANGED <<manager, shown, ks, tunnels, history>>
      PROVE  RouteMoves /\ StandsBy
  <2>1. PICK p \in IF current = None THEN Profiles ELSE {current} : Ask("dog", p)
    BY <1>r DEF Reconnect
  <2>2. p \in Profiles \cup {None}
    BY <2>1 DEF TypeOK
  <2> QED BY <1>a, <1>c, <1>r, <2>1, <2>2 DEF RouteMoves
<1>8. CASE DogFindsItDead
  BY <1>8, <1>r DEF DogFindsItDead
<1>9. CASE DogAsks
  BY <1>9, <1>f DEF DogAsks, RouteMoves, StandsBy, Rearming
<1>10. CASE DogAnswered
  <2>1. CASE Reconnect
    BY <1>10, <1>r, <2>1 DEF DogAnswered
  <2>2. CASE checking' = FALSE /\ UNCHANGED <<queue, step, locals>>
    BY <1>10, <1>f, <2>2 DEF DogAnswered, RouteMoves, StandsBy, Rearming
  <2> QED BY <1>10, <2>1, <2>2 DEF DogAnswered
<1>11. CASE TunnelDies
  <2>1. proc' \in {proc, None} /\ links' \subseteq links
    BY <1>11 DEF TunnelDies
  <2> QED BY <1>11, <1>f, <2>1 DEF TunnelDies, RouteMoves, StandsBy, Rearming
<1> QED BY <1>1, <1>2, <1>3, <1>4, <1>5, <1>6, <1>7, <1>8, <1>9, <1>10, <1>11 DEF Around, Route

-----------------------------------------------------------------------------
(* Where the tunnels are, step by step.  Between two calls, and until the old    *)
(* tunnel is dropped or after the new one is recorded, what lives is recorded;   *)
(* while the next one is brought up, nothing else lives.                         *)
Recorded ==
  /\ proc # None => current \in OpenVpn /\ ready
  /\ links # {} => current \in WireGuard /\ links = {iface}
Empty == proc = None /\ links = {}

Sound ==
  /\ step \in {"enter", "guard", "drop", "steady", "observe"} => Recorded
  /\ step \in {"up", "release"} => Empty
  /\ step = "wait" => goal \in OpenVpn /\ links = {} /\ proc \in {None, goal}
  /\ step = "wgup" => Empty /\ iface = None
  /\ step = "check" /\ goal \in OpenVpn => links = {} /\ (proc # None => ready)
  /\ step = "check" /\ goal \in WireGuard =>
       proc = None /\ (links # {} => links = {goal} /\ iface = goal)

(* A check that reads the recorded profile never records a first one. *)
Blind == reads = "current" => current = None

TunnelInv == Blind /\ (~lost /\ ~unseen => Sound)

(* Before a new tunnel comes up the recorded one is down, whichever backend it has. *)
LEMMA RecordedGoesDown ==
  ASSUME TypeOK, Recorded, IF Connected THEN BackendDown(current) ELSE UNCHANGED tunnels
  PROVE  Empty'
<1>1. None \notin OpenVpn /\ None \notin WireGuard /\ OpenVpn \cap WireGuard = {}
  BY ProfileAssumption DEF Profiles
<1>2. CASE proc # None
  <2>1. current \in OpenVpn /\ current \notin WireGuard /\ links = {} /\ Connected
    BY <1>1, <1>2 DEF Recorded, Connected, BackendUp
  <2> QED BY <2>1 DEF BackendDown, Empty
<1>3. CASE links # {}
  <2>1. current \in WireGuard /\ links = {iface} /\ proc = None /\ Connected
    BY <1>1, <1>3 DEF Recorded, Connected, BackendUp, TypeOK
  <2> QED BY <2>1 DEF BackendDown, Empty
<1>4. CASE proc = None /\ links = {}
  BY <1>4 DEF BackendDown, Empty, tunnels
<1> QED BY <1>2, <1>3, <1>4

LEMMA TunnelsKept ==
  ASSUME TypeOK, Held, TunnelInv, [Next]_vars
  PROVE  TunnelInv'
<1> USE DEF At, held, outside, locals, manager, shown, tunnels, history
<1>a. None \notin OpenVpn /\ None \notin WireGuard /\ OpenVpn \cap WireGuard = {}
  BY ProfileAssumption DEF Profiles
<1>r. ASSUME Retry PROVE step' \in {"up", "check"}
  BY <1>r DEF Retry
<1>n. Blind'
  <2>1. CASE Accepted
    <3>1. reads = "target" \/ current # None
      BY <2>1, SettingAssumption DEF Accepted, Recognised, Connected, TypeOK
    <3> QED BY <2>1, <3>1 DEF TunnelInv, Blind, Accepted
  <2>2. CASE Disconnected
    BY <2>2 DEF Blind, Disconnected
  <2>3. CASE Around
    BY <2>3, AroundSteps DEF StandsBy, TunnelInv, Blind
  <2>4. CASE Hold /\ ~Accepted /\ ~Disconnected
    <3>1. UNCHANGED <<current, reads>>
      BY <2>4 DEF Hold, Enter, Guarded, Drop, Spawn, Ready, NotReady, WgRefused, WgStart, WgUp, WgFailed,
                  Steady, Observed, Rejected, Disconnect
    <3> QED BY <3>1 DEF TunnelInv, Blind
  <2>5. CASE UNCHANGED vars
    BY <2>5 DEF vars, TunnelInv, Blind
  <2> QED BY <2>1, <2>2, <2>3, <2>4, <2>5 DEF Next, Around
<1> SUFFICES ASSUME ~lost', ~unseen' PROVE Sound'
  BY <1>n DEF TunnelInv
<1>1. CASE Drop
  <2>1. Recorded /\ step' = "up"
    BY <1>1 DEF Drop, TunnelInv, Sound
  <2>2. Empty'
    BY <1>1, <2>1, RecordedGoesDown DEF Drop
  <2> QED BY <2>1, <2>2 DEF Sound
<1>2. CASE Spawn
  <2>1. Empty /\ goal \in OpenVpn /\ goal \notin WireGuard /\ UNCHANGED <<iface, links, goal>>
    BY <1>2, <1>a DEF Spawn, TunnelInv, Sound
  <2>2. \/ proc' = goal /\ step' = "wait"
        \/ proc' = None /\ step' \in {"up", "check"}
    BY <1>2, <1>r DEF Spawn
  <2> QED BY <2>1, <2>2 DEF Sound, Empty
<1>3. CASE Ready \/ NotReady
  <2>1. goal \in OpenVpn /\ goal \notin WireGuard /\ links = {} /\ UNCHANGED <<iface, links, goal>>
    BY <1>3, <1>a DEF Ready, NotReady, TunnelInv, Sound
  <2>2. \/ ready' /\ step' = "check"
        \/ proc' = None /\ step' \in {"up", "check"}
    BY <1>3, <1>r DEF Ready, NotReady
  <2> QED BY <2>1, <2>2 DEF Sound, Empty
<1>4. CASE WgRefused \/ WgFailed
  <2>1. Empty /\ goal \in WireGuard /\ goal \notin OpenVpn /\ UNCHANGED <<tunnels, goal>>
    BY <1>4, <1>a DEF WgRefused, WgFailed, TunnelInv, Sound, Held, Works
  <2>2. step' \in {"up", "check"}
    BY <1>4, <1>r DEF WgRefused, WgFailed
  <2> QED BY <2>1, <2>2 DEF Sound, Empty
<1>5. CASE WgStart
  <2>1. Empty /\ goal \in WireGuard /\ BackendDown(goal) /\ step' = "wgup"
    BY <1>5 DEF WgStart, TunnelInv, Sound
  <2> QED BY <2>1 DEF Sound, Empty, BackendDown
<1>6. CASE WgUp
  <2>1. /\ Empty /\ goal \in WireGuard /\ goal \notin OpenVpn
        /\ step' = "check" /\ links' = {goal} /\ iface' = goal /\ UNCHANGED <<proc, goal>>
    BY <1>6, <1>a DEF WgUp, TunnelInv, Sound, Held, Works, Empty
  <2> QED BY <2>1 DEF Sound, Empty
<1>7. CASE Enter
  <2>1. Recorded /\ step' \in {"guard", "drop"} /\ UNCHANGED <<current, tunnels>>
    BY <1>7 DEF Enter, Begin, TunnelInv, Sound
  <2> QED BY <2>1 DEF Sound, Recorded
<1>l. CASE Guarded \/ Steady
  <2>1. Recorded /\ step' \in {"drop", "observe"} /\ UNCHANGED <<current, tunnels>>
    BY <1>l DEF Guarded, Steady, TunnelInv, Sound
  <2> QED BY <2>1 DEF Sound, Recorded
<1>8. CASE Accepted
  <2>0. BackendUp(goal)
    BY <1>8, SettingAssumption DEF Accepted, Recognised, Connected, TunnelInv, Blind, TypeOK
  <2>1. /\ BackendUp(goal) /\ step = "check" /\ step' \in {"steady", "observe"} /\ current' = goal
        /\ UNCHANGED tunnels /\ goal \in Profiles
    BY <1>8, <2>0 DEF Accepted, Held, Works
  <2> QED BY <1>8, <1>a, <2>1 DEF Accepted, TunnelInv, Sound, Recorded, BackendUp, Profiles
<1>9. CASE Rejected
  <2>1. ~BackendUp(goal) /\ step = "check" /\ UNCHANGED <<current, tunnels>> /\ goal \in Profiles
    BY <1>9 DEF Rejected, Held, Works
  <2>2. Empty
    BY <1>9, <1>a, <2>1 DEF Rejected, TunnelInv, Sound, BackendUp, Empty, Profiles
  <2>3. step' \in {"guard", "drop", "enter"}
    BY <1>9 DEF Rejected, Begin, Return
  <2> QED BY <2>1, <2>2, <2>3 DEF Sound, Recorded, Empty
<1>10. CASE Observed
  <2>1. Recorded /\ step' = "enter" /\ UNCHANGED <<current, tunnels>>
    BY <1>10 DEF Observed, Return, TunnelInv, Sound
  <2> QED BY <2>1 DEF Sound, Recorded
<1>11. CASE Disconnect
  <2>1. Recorded /\ step' = "release"
    BY <1>11 DEF Disconnect, TunnelInv, Sound
  <2>2. Empty'
    BY <1>11, <1>a, <2>1 DEF Disconnect, Recorded, BackendDown, Empty
  <2> QED BY <2>1, <2>2 DEF Sound
<1>12. CASE Disconnected
  <2>1. Empty /\ step' = "enter" /\ UNCHANGED tunnels
    BY <1>12 DEF Disconnected, Return, TunnelInv, Sound
  <2> QED BY <2>1 DEF Sound, Recorded, Empty
<1>13. CASE Around
  <2>1. StandsBy
    BY <1>13, AroundSteps
  <2>2. Sound /\ proc' \in {proc, None} /\ links' \subseteq links
    BY <2>1 DEF StandsBy, TunnelInv
  <2>3. UNCHANGED <<current, iface, ready>>
    BY <2>1 DEF StandsBy
  <2>4. CASE step' = "enter"
    <3>1. Recorded \/ Empty
      BY <2>1, <2>2, <2>4 DEF StandsBy, Sound, TypeOK
    <3> QED BY <2>2, <2>3, <2>4, <3>1 DEF Sound, Recorded, Empty
  <2>5. CASE step' # "enter"
    <3>1. UNCHANGED <<step, goal>>
      BY <2>1, <2>5 DEF StandsBy
    <3> QED BY <2>2, <2>3, <3>1 DEF Sound, Recorded, Empty
  <2> QED BY <2>4, <2>5
<1>14. CASE UNCHANGED vars
  BY <1>14 DEF vars, calls, TunnelInv, Sound, Recorded, Empty
<1> QED BY <1>1, <1>2, <1>3, <1>4, <1>5, <1>6, <1>7, <1>8, <1>9, <1>10, <1>11, <1>12, <1>13, <1>14, <1>l
        DEF Next, Hold, Around

(* Nobody loses a tunnel: what lives while nobody works on it is the recorded    *)
(* one, for any number of profiles and callers and whatever fails, falls back or *)
(* dies, with the code's check of the recorded profile as with a repaired one,   *)
(* but for a call cancelled as it brought a tunnel up and for a tunnel that the  *)
(* check took for none (manager.py:72-78, 182-183, 282-288).                     *)
THEOREM TunnelsAreAccounted == Spec => []TunnelsAccounted
<1>1. Init => TunnelInv
  BY DEF Init, TunnelInv, Blind, Sound, Recorded
<1>2. TypeOK /\ Held /\ TunnelInv /\ [Next]_vars => TunnelInv'
  BY TunnelsKept
<1>3. TypeOK /\ Held /\ TunnelInv => TunnelsAccounted
  BY DEF Held, Free, TunnelInv, Sound, Recorded, TunnelsAccounted
<1> QED BY <1>1, <1>2, <1>3, HeldAlways, PTL DEF Spec

-----------------------------------------------------------------------------
(* The kill switch.  A route that comes up has it armed by the holder that brings *)
(* it up, and only the release of a torn-down route takes the rules away.         *)
Serving == queue # <<>> /\ Holder = "route" /\ step \notin {"enter", "release"}

ArmedInv ==
  /\ NeverOpen
  /\ Serving /\ Armed /\ ~Rearming /\ rearm # "open" => ks # <<>>

(* Who is at "observe" for the route, or while it is live, has just re-armed it.  *)
SteadyInv ==
  /\ SteadyFollows
  /\ Rearming => status # "active"
  /\ step = "steady" => current = goal
  /\ step = "observe" /\ (Serving \/ route = "live") /\ Armed /\ rearm = "whole" =>
       ks = <<"steady", current>>

(* While the routing manager's own call holds the lock, the route is not one of  *)
(* those that change what "armed" means.                                         *)
LEMMA HolderIsRoute ==
  ASSUME TypeOK, Held, queue # <<>>, Holder = "route"
  PROVE  route \in {"building", "stopping"}
<1>1. 1 \in DOMAIN queue
  BY EmptySeq, LenProperties DEF TypeOK
<1> QED BY <1>1 DEF Held, RouteCalls, Holder

LEMMA ServingKept ==
  ASSUME TypeOK, Held, TypeOK', Held', Around, Serving'
  PROVE  Serving /\ UNCHANGED step /\ (Armed' <=> Armed)
<1>1. RouteMoves /\ StandsBy
  BY AroundSteps
<1>2. UNCHANGED step /\ queue # <<>> /\ queue'[1] = queue[1]
  BY <1>1 DEF Serving, StandsBy
<1>3. Serving
  BY <1>2 DEF Serving, Holder
<1>4. route \in {"building", "stopping"}
  BY <1>3, HolderIsRoute DEF Serving
<1>5. UNCHANGED socks
  BY <1>1, <1>4 DEF RouteMoves, manager
<1> QED BY <1>2, <1>3, <1>5 DEF Armed

LEMMA KillSwitchKept ==
  ASSUME TypeOK, Held, TypeOK', Held', [Next]_vars
  PROVE  (ArmedInv => ArmedInv') /\ (SteadyInv => SteadyInv')
<1> USE DEF At, held, outside, locals, manager, shown, tunnels, history
<1>1. CASE Inner
  <2>1. /\ queue # <<>> /\ step \notin {"enter", "guard", "check", "steady", "observe", "release"}
        /\ step' \in {"up", "wait", "wgup", "check"}
        /\ UNCHANGED <<held, outside>>
    BY <1>1, InnerSteps
  <2>2. (Armed' <=> Armed) /\ (Serving' <=> Serving)
    BY <2>1 DEF Armed, Serving, Holder
  <2>3. ~Rearming /\ ~Rearming'
    BY <2>1 DEF Rearming
  <2> QED BY <2>1, <2>2, <2>3 DEF ArmedInv, SteadyInv, NeverOpen, SteadyFollows
<1>b. ASSUME NEW p, Begin(p), UNCHANGED <<queue, manager, current>>
      PROVE  (ArmedInv => ArmedInv') /\ (SteadyInv => SteadyInv')
  <2>1. /\ step' \in {"guard", "drop"} /\ status' = "starting"
        /\ Armed' <=> Armed
        /\ Armed => Rearming'
    BY <1>b DEF Begin, Armed, Rearming
  <2> QED BY <2>1 DEF ArmedInv, SteadyInv, NeverOpen, SteadyFollows
<1>2. CASE Enter
  BY <1>2, <1>b DEF Enter
<1>3. CASE Accepted
  <2>1. /\ status' = "verifying" /\ current' = goal /\ goal' = goal
        /\ Armed' <=> Armed
        /\ Armed => step' = "steady"
    BY <1>3 DEF Accepted, Armed
  <2> QED BY <2>1 DEF ArmedInv, SteadyInv, NeverOpen, SteadyFollows, Rearming
<1>l. CASE Guarded \/ Steady
  <2>1. /\ queue # <<>> /\ Rearming /\ ~Rearming' /\ UNCHANGED <<queue, manager, shown, goal>>
        /\ Armed' <=> Armed
        /\ ks' # <<>> \/ rearm' = "open"
    <3>1. \E phase \in {"transition", "steady"} : Load(phase)
      BY <1>l DEF Guarded, Steady, LoadSteady
    <3> QED BY <1>l, <3>1 DEF Guarded, Steady, Rearming, Armed, Load, CutShort
  <2>2. (Serving' <=> Serving)
    BY <1>l, <2>1 DEF Serving, Holder, Guarded, Steady
  <2>3. ArmedInv => ArmedInv'
    BY <2>1 DEF ArmedInv, NeverOpen
  <2>4. SteadyInv => SteadyInv'
    <3>1. CASE Guarded
      <4>1. step = "guard" /\ step' = "drop"
        BY <3>1 DEF Guarded
      <4>2. rearm' = "whole" => ks' = <<"transition", goal>>
        BY <3>1 DEF Guarded, Load, CutShort
      <4> QED BY <2>1, <4>1, <4>2 DEF SteadyInv, SteadyFollows
    <3>2. CASE Steady
      <4>1. step = "steady" /\ step' = "observe"
        BY <3>2 DEF Steady
      <4>2. rearm' = "whole" => ks' = <<"steady", goal>>
        BY <3>2 DEF Steady, LoadSteady, Load, CutShort
      <4> QED BY <2>1, <4>1, <4>2 DEF SteadyInv, SteadyFollows
    <3> QED BY <1>l, <3>1, <3>2
  <2> QED BY <2>3, <2>4
<1>4. CASE Observed
  <2>1. /\ queue # <<>> /\ step = "observe" /\ step' = "enter"
        /\ UNCHANGED <<socks, current, ks, rearm>> /\ ~Rearming /\ ~Rearming'
        /\ route' = (IF Holder = "route" THEN "live" ELSE route)
        /\ Armed' <=> Armed
    BY <1>4 DEF Observed, RouteTo, Return, Armed, Rearming
  <2>2. route' = "live" => Serving \/ route = "live"
    BY <2>1 DEF Serving
  <2>3. ~Serving'
    BY <2>1 DEF Serving
  <2> QED BY <2>1, <2>2, <2>3 DEF ArmedInv, SteadyInv, NeverOpen, SteadyFollows
<1>5. CASE Rejected
  <2>1. CASE back # None
    BY <1>5, <1>b, <2>1 DEF Rejected
  <2>2. CASE back = None
    <3>1. /\ status' = "error" /\ step' = "enter" /\ UNCHANGED <<socks, ks, rearm>>
          /\ route' \in {"failed", route} /\ ~Rearming /\ ~Rearming'
          /\ Armed' <=> Armed
      BY <1>5, <2>2 DEF Rejected, Return, FailureKeeps, RouteTo, Armed, Rearming
    <3> QED BY <3>1 DEF ArmedInv, SteadyInv, NeverOpen, SteadyFollows, Serving
  <2> QED BY <2>1, <2>2
<1>6. CASE Disconnect
  <2>1. /\ queue # <<>> /\ Disconnecting /\ step' = "release" /\ UNCHANGED <<manager, current, ks>>
    BY <1>6 DEF Disconnect
  <2>2. route' = "stopping"
    BY <2>1 DEF Disconnecting
  <2> QED BY <2>1, <2>2 DEF ArmedInv, SteadyInv, NeverOpen, SteadyFollows, Serving, Rearming
<1>7. CASE Disconnected
  <2>1. step' = "enter" /\ route' = "stopped"
    BY <1>7 DEF Disconnected, Return
  <2> QED BY <2>1 DEF ArmedInv, SteadyInv, NeverOpen, SteadyFollows, Serving, Rearming
<1>8. CASE Around
  <2>1. RouteMoves /\ UNCHANGED <<current, status, ks>>
    BY <1>8, AroundSteps DEF StandsBy
  <2>2. route' = "live" => route = "live" /\ (Armed' <=> Armed)
    BY <2>1 DEF RouteMoves, Armed
  <2>3. Serving' => Serving /\ UNCHANGED step /\ (Armed' <=> Armed)
    BY <1>8, ServingKept
  <2>4. step' # "enter" => UNCHANGED <<step, goal, rearm>> /\ (Rearming' <=> Rearming)
    <3> SUFFICES ASSUME step' # "enter" PROVE UNCHANGED <<step, goal, rearm>> /\ (Rearming' <=> Rearming)
      OBVIOUS
    <3>1. StandsBy /\ UNCHANGED <<step, goal>>
      BY <1>8, AroundSteps DEF StandsBy
    <3>2. CASE UNCHANGED rearm
      BY <3>1, <3>2 DEF Rearming
    <3> QED BY <3>1, <3>2 DEF StandsBy
  <2>5. /\ rearm' # "open" /\ ~Rearming' => ks' # <<>> \/ (rearm # "open" /\ ~Rearming)
        /\ rearm' = "whole" => rearm = "whole" /\ ~(Rearming /\ step' = "enter")
    <3>1. StandsBy
      BY <1>8, AroundSteps
    <3>2. CASE UNCHANGED rearm /\ (Rearming => step' # "enter")
      BY <2>4, <3>2
    <3>3. CASE Rearming /\ rearm' = CutShort
      BY <2>1, <3>3 DEF CutShort
    <3> QED BY <3>1, <3>2, <3>3 DEF StandsBy
  <2>6. step' = "enter" => ~Rearming'
    BY DEF Rearming
  <2>7. ArmedInv => ArmedInv'
    BY <2>1, <2>2, <2>3, <2>5 DEF ArmedInv, NeverOpen
  <2>8. SteadyInv => SteadyInv'
    BY <2>1, <2>2, <2>3, <2>4, <2>5, <2>6 DEF SteadyInv, SteadyFollows
  <2> QED BY <2>7, <2>8
<1>9. CASE UNCHANGED vars
  BY <1>9 DEF vars, calls, ArmedInv, SteadyInv, NeverOpen, SteadyFollows, Serving, Armed, Holder, Rearming
<1> QED BY <1>1, <1>2, <1>3, <1>l, <1>4, <1>5, <1>6, <1>7, <1>8, <1>9 DEF Next, Hold, Around, Inner

(* The kill switch of a live route is open only in a re-arm, between its deletion  *)
(* and its load, or after one that was cancelled there or refused: no failure,     *)
(* fall-back or reconnect of any number of callers opens it (manager.py:180, 237,  *)
(* killswitch.py:227-238), with the code's check or with a repaired one.           *)
THEOREM KillSwitchStays == Spec => []NeverOpen
<1>1. Init => ArmedInv
  BY DEF Init, ArmedInv, NeverOpen, Serving
<1>2. TypeOK /\ Held /\ TypeOK' /\ Held' /\ ArmedInv /\ [Next]_vars => ArmedInv'
  BY KillSwitchKept
<1>3. ArmedInv => NeverOpen
  BY DEF ArmedInv
<1> QED BY <1>1, <1>2, <1>3, HeldAlways, PTL DEF Spec

(* And an active tunnel is the one it lets through (manager.py:224-240), when both  *)
(* commands of the last re-arm succeeded.                                          *)
THEOREM KillSwitchFollows == Spec => []SteadyFollows
<1>1. Init => SteadyInv
  BY DEF Init, SteadyInv, SteadyFollows, Rearming
<1>2. TypeOK /\ Held /\ TypeOK' /\ Held' /\ SteadyInv /\ [Next]_vars => SteadyInv'
  BY KillSwitchKept
<1>3. SteadyInv => SteadyFollows
  BY DEF SteadyInv
<1> QED BY <1>1, <1>2, <1>3, HeldAlways, PTL DEF Spec

-----------------------------------------------------------------------------
(* A torn-down route has no profile: the teardown asks the engine unless it has   *)
(* none, the watchdog's calls went with the live route, and a switch that records *)
(* one without a live route says so.                                              *)
DownInv == route \in {"stopped", "down"} /\ ~late => current = None

LEMMA DownKept ==
  ASSUME TypeOK, Held, DownInv, [Next]_vars
  PROVE  DownInv'
<1> USE DEF At, held, outside, locals, manager, shown, tunnels, history
<1>1. CASE Accepted
  <2>1. route' = route /\ queue # <<>> /\ late' = (Holder \in Switches /\ route # "live")
    BY <1>1 DEF Accepted
  <2>2. 1 \in DOMAIN queue /\ Holder \in Callers
    <3>1. queue \in Seq(Calls)
      BY DEF TypeOK, Calls
    <3>2. 1 \in DOMAIN queue /\ queue[1] \in Calls
      BY <2>1, <3>1, EmptySeq, LenProperties, ElementOfSeq
    <3> QED BY <3>2 DEF Calls, Holder
  <2>3. Holder = "dog" => route = "live"
    BY <2>2 DEF Held, DogCalls, Holder
  <2>4. Holder = "route" => route \in {"building", "stopping"}
    BY <2>1, HolderIsRoute
  <2> QED BY <2>1, <2>2, <2>3, <2>4 DEF DownInv, Callers
<1>2. CASE Disconnected
  BY <1>2 DEF Disconnected, DownInv
<1>3. CASE Hold /\ ~Accepted /\ ~Disconnected
  <2>1. UNCHANGED <<current, late>> /\ route' \in {route, "live", "failed"}
    BY <1>3 DEF Hold, Enter, Guarded, Drop, Spawn, Ready, NotReady, WgRefused, WgStart, WgUp, WgFailed,
                Steady, Observed, Rejected, Disconnect, RouteTo
  <2> QED BY <2>1 DEF DownInv
<1>4. CASE Around
  BY <1>4, AroundSteps DEF RouteMoves, StandsBy, DownInv
<1>5. CASE UNCHANGED vars
  BY <1>5 DEF vars, DownInv
<1> QED BY <1>1, <1>2, <1>3, <1>4, <1>5 DEF Next, Around

(* No reconnect of the watchdog and no call that failed or waited brings a tunnel *)
(* back behind a route that was torn down (runtime.py:481-487, manager.py:290-316): *)
(* only a switch does that records one without a live route, or what a cancelled   *)
(* call and the check of the recorded profile left.                                *)
THEOREM DownStaysDown == Spec => []DownIsDown
<1>1. Init => DownInv /\ TunnelInv
  BY DEF Init, DownInv, TunnelInv, Blind, Sound, Recorded
<1>2. TypeOK /\ Held /\ DownInv /\ [Next]_vars => DownInv'
  BY DownKept
<1>3. TypeOK /\ Held /\ TunnelInv /\ [Next]_vars => TunnelInv'
  BY TunnelsKept
<1>4. Held /\ DownInv /\ TunnelInv => DownIsDown
  BY ProfileAssumption DEF Held, Free, DownInv, TunnelInv, Sound, Recorded, DownIsDown, Profiles
<1> QED BY <1>1, <1>2, <1>3, <1>4, HeldAlways, PTL DEF Spec
=============================================================================
