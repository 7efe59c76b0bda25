--------------------------- MODULE FirewallProofs ---------------------------
(* Theorems about Firewall, for any number of rules, rounds and failures. *)
EXTENDS Firewall, SequenceTheorems, TLAPS

(* A command either succeeds or adds to the count of failures, below its bound. *)
LEMMA OutcomeType ==
  ASSUME LifeOK, Succeeds \/ Fails, boot' \in {"transparent", "killswitch", "done"}
  PROVE  LifeOK'
<1>1. faults' \in 0..MaxFaults
  BY FaultsAssumption DEF LifeOK, Succeeds, Fails
<1>2. faulty' \in BOOLEAN
  BY Zenon DEF LifeOK, Succeeds, Fails
<1>. QED BY <1>1, <1>2 DEF LifeOK

(* Beginning an operation can only shorten the list of those that were cut off. *)
LEMMA AsideType ==
  ASSUME TypeOK, KillSwitchStep \/ RedirectStep
  PROVE  orphans' = orphans /\ cut' \in {cut, cut \ {"ks"}, cut \ {"tr"}} /\ AsideOK'
<1>1. orphans' = orphans /\ cut' \in {cut, cut \ {"ks"}, cut \ {"tr"}}
  BY DEF aside, KillSwitchStep, EngageKs, ReleaseKs, BootKs, KsDelete, KsAdd, KsFlushRound,
     KsFlushed, KsAccept, KsDrop, Begin, RedirectStep, EngageTr, RefuseTr, ReleaseTr, BootTr,
     TrNat, TrFilter, TrAdd, BeginTr, Undisturbed
<1>. QED BY <1>1 DEF TypeOK, AsideOK

(* Steps of the kill switch. *)
LEMMA KillSwitchType ==
  ASSUME TypeOK, KillSwitchStep
  PROVE  TypeOK'
<1> USE DEF TypeOK
<1>1. RedirectOK'
  BY DEF RedirectOK, KillSwitchStep, EngageKs, ReleaseKs, BootKs, KsDelete, KsAdd,
     KsFlushRound, KsFlushed, KsAccept, KsDrop, Begin, trVars
<1>2. LifeOK'
  <2>1. Succeeds \/ Fails
    BY DEF KillSwitchStep, EngageKs, ReleaseKs, BootKs, KsDelete, KsAdd,
       KsFlushRound, KsFlushed, KsAccept, KsDrop, DropChecked, RejectedAppend
  <2>2. boot' \in {boot, "done"}
    BY DEF KillSwitchStep, EngageKs, ReleaseKs, BootKs, KsDelete, KsAdd,
       KsFlushRound, KsFlushed, KsAccept, KsDrop, Released
  <2>. QED BY <2>1, <2>2, OutcomeType DEF LifeOK
<1>3. KernelOK'
  <2>1. backend' = backend /\ nat' = nat /\ filter' = filter
    BY DEF KillSwitchStep, EngageKs, ReleaseKs, BootKs, KsDelete, KsAdd,
       KsFlushRound, KsFlushed, KsAccept, KsDrop, Begin, kernel
  <2>2. nft' \in {nft, {}, nft \cup {phase}}
    BY DEF KillSwitchStep, EngageKs, ReleaseKs, BootKs, KsDelete, KsAdd,
       KsFlushRound, KsFlushed, KsAccept, KsDrop, Begin, kernel
  <2>3. \/ chain' = chain
        \/ chain # <<>> /\ chain' = Tail(chain)
        \/ \E r \in {phase, "drop"} : chain' = Append(chain, r)
    BY DEF KillSwitchStep, EngageKs, ReleaseKs, BootKs, KsDelete, KsAdd,
       KsFlushRound, KsFlushed, KsAccept, KsDrop, Begin, kernel, FlushEnds,
       DropChecked, RejectedAppend
  <2>4. chain' \in Seq(Rules)
    BY <2>3 DEF KernelOK, KillSwitchOK, Rules
  <2>5. nft' \in SUBSET Phases
    BY <2>2 DEF KernelOK, KillSwitchOK
  <2>. QED BY <2>1, <2>4, <2>5 DEF KernelOK
<1>4. KillSwitchOK'
  <2>1. CASE (\E p \in Phases : EngageKs(p)) \/ ReleaseKs \/ BootKs
    BY <2>1, DeletesAssumption
       DEF KillSwitchOK, EngageKs, ReleaseKs, BootKs, Begin, FirstCommand, ksVars
  <2>2. CASE KsDelete \/ KsAdd
    BY <2>2 DEF KillSwitchOK, KsDelete, KsAdd, Released
  <2>3. CASE KsFlushRound
    BY <2>3, DeletesAssumption DEF KillSwitchOK, KsFlushRound, FlushEnds
  <2>4. CASE KsFlushed
    <3>1. left' \in 0..Accepts
      BY <2>4, AcceptsAssumption DEF KillSwitchOK, KsFlushed, Released
    <3>2. ksActive' \in BOOLEAN
      BY <2>4, Zenon DEF KillSwitchOK, KsFlushed, Released
    <3>. QED BY <2>4, <3>1, <3>2 DEF KillSwitchOK, KsFlushed, Released
  <2>5. CASE KsAccept
    <3>1. left' \in 0..Accepts
      BY <2>5, AcceptsAssumption DEF KillSwitchOK, KsAccept, RejectedAppend, MoreAccepts
    <3>2. ksActive' \in BOOLEAN
      BY <2>5, Zenon DEF KillSwitchOK, KsAccept, RejectedAppend
    <3>. QED BY <2>5, <3>1, <3>2 DEF KillSwitchOK, KsAccept, RejectedAppend
  <2>6. CASE KsDrop
    BY <2>6 DEF KillSwitchOK, KsDrop, DropChecked, RejectedAppend
  <2>. QED BY <2>1, <2>2, <2>3, <2>4, <2>5, <2>6 DEF KillSwitchStep
<1>. QED BY <1>1, <1>2, <1>3, <1>4, AsideType

(* Steps of the redirect. *)
LEMMA RedirectType ==
  ASSUME TypeOK, RedirectStep
  PROVE  TypeOK'
<1> USE DEF TypeOK
<1>1. KillSwitchOK'
  BY DEF KillSwitchOK, RedirectStep, EngageTr, RefuseTr, ReleaseTr, BootTr, TrNat,
     TrFilter, TrAdd, BeginTr, ksVars
<1>2. LifeOK'
  <2>1. Succeeds \/ Fails
    BY DEF RedirectStep, EngageTr, RefuseTr, ReleaseTr, BootTr, TrNat, TrFilter, TrAdd
  <2>2. boot' \in {boot, "killswitch"}
    BY DEF RedirectStep, EngageTr, RefuseTr, ReleaseTr, BootTr, TrNat, TrFilter, TrAdd
  <2>. QED BY <2>1, <2>2, OutcomeType DEF LifeOK
<1>3. KernelOK'
  BY DEF KernelOK, RedirectStep, EngageTr, RefuseTr, ReleaseTr, BootTr, TrNat,
     TrFilter, TrAdd, BeginTr, LoadBoth, kernel
<1>4. RedirectOK'
  BY DEF RedirectOK, RedirectStep, EngageTr, RefuseTr, ReleaseTr, BootTr, TrNat,
     TrFilter, TrAdd, BeginTr, trVars
<1>. QED BY <1>1, <1>2, <1>3, <1>4, AsideType

(* What a command that was left behind does to the kernel. *)
LEMMA EffectType ==
  ASSUME TypeOK, NEW c \in KsCommands \cup TrCommands, KsEffect(c) \/ TrEffect(c)
  PROVE  /\ nft' \in SUBSET Phases \/ (c.does = "load" /\ nft' = nft \cup {c.rule})
         /\ chain' \in Seq(Rules) /\ Len(chain') <= Len(chain) + 1
         /\ nat' \in BOOLEAN /\ filter' \in BOOLEAN
<1>1. nft \in SUBSET Phases /\ chain \in Seq(Rules) /\ nat \in BOOLEAN /\ filter \in BOOLEAN
  BY DEF TypeOK, KernelOK
<1>2. c.rule \in Rules
  BY DEF KsCommands, TrCommands, Rules
<1>3. CASE KsEffect(c)
  <2>1. nft' \in {{}, nft} \/ (c.does = "load" /\ nft' = nft \cup {c.rule})
    BY <1>3 DEF KsEffect
  <2>2. CASE chain' \in {chain, Append(chain, c.rule)}
    <3>1. chain' \in Seq(Rules) /\ Len(chain') <= Len(chain) + 1
      BY <1>1, <1>2, <2>2
    <3> QED BY <1>1, <1>3, <2>1, <3>1 DEF KsEffect
  <2>3. ASSUME NEW i \in DOMAIN chain, chain' = Without(i)
        PROVE  chain' \in Seq(Rules) /\ Len(chain') <= Len(chain) + 1
    <3>1. Len(chain) \in Nat /\ DOMAIN chain = 1..Len(chain) /\ Len(chain) - 1 \in Nat
      BY <1>1
    <3>2. \A j \in 1..(Len(chain) - 1) : Without(i)[j] \in Rules
      BY <1>1, <3>1 DEF Without
    <3>3. Without(i) \in [1..(Len(chain) - 1) -> Rules]
      BY <3>2 DEF Without
    <3>4. Without(i) \in Seq(Rules)
      BY <3>1, <3>3, SeqDef
    <3>5. DOMAIN Without(i) = 1..(Len(chain) - 1)
      BY <3>3
    <3>6. ASSUME NEW q \in Seq(Rules), NEW n \in Nat, DOMAIN q = 1..n PROVE Len(q) = n
      BY <3>6
    <3>7. Len(Without(i)) = Len(chain) - 1
      BY <3>1, <3>4, <3>5, <3>6
    <3> QED BY <2>3, <3>1, <3>4, <3>7
  <2> QED BY <1>1, <1>3, <2>1, <2>2, <2>3 DEF KsEffect
<1>4. CASE TrEffect(c)
  <2>1. UNCHANGED <<nft, chain>> /\ nat' \in {nat, FALSE, TRUE} /\ filter' \in {filter, FALSE, TRUE}
    BY <1>4 DEF TrEffect, LoadBoth
  <2>2. nat' \in BOOLEAN /\ filter' \in BOOLEAN
    BY <1>1, <2>1
  <2>3. chain' \in Seq(Rules) /\ Len(chain') <= Len(chain) + 1 /\ nft' \in SUBSET Phases
    BY <1>1, <2>1
  <2> QED BY <2>2, <2>3
<1> QED BY <1>3, <1>4

(* A cancelled operation, and the command it leaves. *)
LEMMA CancelType ==
  ASSUME TypeOK, Cancellation
  PROVE  TypeOK'
<1>1. KillSwitchOK' /\ RedirectOK' /\ boot' = boot /\ faulty' = faulty /\ backend' = backend
  BY DEF Cancellation, CancelKs, CancelTr, OrphanEnds, TypeOK, KillSwitchOK, RedirectOK, ksVars,
     trVars
<1>2. orphans' \subseteq KsCommands \cup TrCommands /\ cut' \subseteq {"ks", "tr"}
  <2>1. cut' \in {cut, cut \cup {"ks"}, cut \cup {"tr"}}
    BY DEF Cancellation, CancelKs, CancelTr, OrphanEnds
  <2>2. orphans' \in {orphans, {}} \/ \E c \in KsRunning \cup TrRunning : orphans' = {c}
    BY DEF Cancellation, CancelKs, CancelTr, OrphanEnds, LeftBehind
  <2> QED BY <2>1, <2>2 DEF TypeOK, AsideOK, KsRunning, TrRunning
<1>3. faults' \in 0..MaxFaults
  BY FaultsAssumption DEF Cancellation, CancelKs, CancelTr, OrphanEnds, LeftBehind, TypeOK, LifeOK
<1>4. KernelOK'
  <2>1. CASE UNCHANGED kernel
    BY <1>1, <2>1 DEF TypeOK, KernelOK, kernel
  <2>2. ASSUME NEW c \in KsRunning \cup TrRunning \cup orphans, KsEffect(c) \/ TrEffect(c),
               c.does = "load" => c.rule \in Phases
        PROVE  KernelOK'
    <3>1. c \in KsCommands \cup TrCommands
      BY DEF KsRunning, TrRunning, TypeOK, AsideOK
    <3> QED BY <1>1, <2>2, <3>1, EffectType DEF TypeOK, KernelOK
  <2>3. ASSUME NEW c \in KsRunning PROVE c.does = "load" => c.rule \in Phases
    BY DEF KsRunning, TypeOK, KillSwitchOK
  <2>4. ASSUME NEW c \in TrRunning PROVE c.does # "load"
    BY DEF TrRunning, TrCommands
  <2>5. ASSUME NEW c \in orphans PROVE c.does = "load" => c.rule \in Phases
    <3>1. c \in KsCommands \cup TrCommands
      BY DEF TypeOK, AsideOK
    <3> QED BY <3>1 DEF KsCommands, TrCommands
  <2> QED BY <2>1, <2>2, <2>3, <2>4, <2>5
          DEF Cancellation, CancelKs, CancelTr, OrphanEnds, LeftBehind
<1> QED BY <1>1, <1>2, <1>3, <1>4 DEF TypeOK, LifeOK, AsideOK

LEMMA CrashType ==
  ASSUME TypeOK, Crash
  PROVE  TypeOK'
<1>1. KernelOK'
  BY DEF TypeOK, KernelOK, Crash, kernel
<1>2. KillSwitchOK'
  <2>1. left' \in 0..Accepts /\ tries' \in 0..MaxDeletes
    BY AcceptsAssumption, DeletesAssumption DEF Crash
  <2>. QED BY <2>1 DEF TypeOK, KillSwitchOK, Crash, Phases
<1>3. RedirectOK' /\ LifeOK' /\ AsideOK'
  BY DEF TypeOK, RedirectOK, LifeOK, AsideOK, Crash
<1>. QED BY <1>1, <1>2, <1>3 DEF TypeOK

(* Every variable keeps its type along every behaviour. *)
THEOREM FirewallTypeCorrect == Spec => []TypeOK
<1>1. Init => TypeOK
  <2>1. Init => left \in 0..Accepts /\ tries \in 0..MaxDeletes /\ faults \in 0..MaxFaults
    BY AcceptsAssumption, DeletesAssumption, FaultsAssumption DEF Init
  <2>2. Init => chain \in Seq(Rules)
    BY DEF Init
  <2>. QED BY <2>1, <2>2 DEF Init, TypeOK, KernelOK, KillSwitchOK, RedirectOK, LifeOK, AsideOK,
               Phases
<1>2. TypeOK /\ [Next]_vars => TypeOK'
  <2>1. ASSUME TypeOK, UNCHANGED vars PROVE TypeOK'
    BY <2>1 DEF TypeOK, KernelOK, KillSwitchOK, RedirectOK, LifeOK, AsideOK,
       vars, kernel, ksVars, trVars, aside
  <2>. QED BY <2>1, KillSwitchType, RedirectType, CancelType, CrashType DEF Next
<1>. QED BY <1>1, <1>2, PTL DEF Spec

-----------------------------------------------------------------------------
(* A command that was left behind is one of an operation that was cut off, never of *)
(* the clean-up, and it is counted.                                                 *)
LeftOvers ==
  /\ "ks" \notin cut => orphans \cap KsCommands = {}
  /\ "tr" \notin cut => orphans \cap TrCommands = {}
  /\ orphans # {} => faults # 0
  /\ boot # "done" => orphans = {} /\ cut = {}

LEMMA CommandsDiffer == KsCommands \cap TrCommands = {}
BY DEF KsCommands, TrCommands

LEMMA LeftOversKept ==
  ASSUME TypeOK, LeftOvers, [Next]_vars
  PROVE  LeftOvers'
<1>0. faults \in Nat
  BY FaultsAssumption DEF TypeOK, LifeOK
<1>1. CASE KillSwitchStep \/ RedirectStep
  <2>1. orphans' = orphans
    BY <1>1, AsideType
  <2>2. faults' \in {faults, faults + 1} /\ (boot' # "done" => boot # "done")
    BY <1>1 DEF KillSwitchStep, RedirectStep, EngageKs, ReleaseKs, BootKs, KsDelete, KsAdd,
       KsFlushRound, KsFlushed, KsAccept, KsDrop, Released, DropChecked, RejectedAppend, EngageTr,
       RefuseTr, ReleaseTr, BootTr, TrNat, TrFilter, TrAdd, Begin, BeginTr, Succeeds, Fails
  <2>3. \/ cut' = cut
        \/ cut' = cut \ {"ks"} /\ orphans \cap KsCommands = {}
        \/ cut' = cut \ {"tr"} /\ orphans \cap TrCommands = {}
    BY <1>1 DEF aside, KillSwitchStep, EngageKs, ReleaseKs, BootKs, KsDelete, KsAdd, KsFlushRound,
       KsFlushed, KsAccept, KsDrop, Begin, RedirectStep, EngageTr, RefuseTr, ReleaseTr, BootTr,
       TrNat, TrFilter, TrAdd, BeginTr, Undisturbed
  <2> QED BY <1>0, <2>1, <2>2, <2>3 DEF LeftOvers
<1>2. CASE Cancellation
  <2>1. boot = "done" \/ orphans' = {}
    BY <1>2 DEF Cancellation, CancelKs, CancelTr, OrphanEnds
  <2>2. CASE CancelKs
    <3>1. boot' = "done" /\ cut' = cut \cup {"ks"}
      BY <2>2 DEF CancelKs
    <3>2. CASE orphans' = orphans /\ faults' = faults
      BY <3>1, <3>2 DEF LeftOvers
    <3>3. CASE faults' = faults + 1 /\ \E c \in KsRunning : orphans' = {c}
      BY <1>0, <3>1, <3>3, CommandsDiffer DEF LeftOvers, KsRunning
    <3> QED BY <2>2, <3>2, <3>3 DEF CancelKs, LeftBehind
  <2>3. CASE CancelTr
    <3>1. boot' = "done" /\ cut' = cut \cup {"tr"}
      BY <2>3 DEF CancelTr
    <3>2. CASE orphans' = orphans /\ faults' = faults
      BY <3>1, <3>2 DEF LeftOvers
    <3>3. CASE faults' = faults + 1 /\ \E c \in TrRunning : orphans' = {c}
      BY <1>0, <3>1, <3>3, CommandsDiffer DEF LeftOvers, TrRunning
    <3> QED BY <2>3, <3>2, <3>3 DEF CancelTr, LeftBehind
  <2>4. CASE OrphanEnds
    BY <2>4 DEF OrphanEnds, LeftOvers
  <2> QED BY <1>2, <2>2, <2>3, <2>4 DEF Cancellation
<1>3. CASE Crash
  BY <1>3 DEF Crash, LeftOvers
<1>4. CASE UNCHANGED vars
  BY <1>4 DEF vars, aside, LeftOvers
<1> QED BY <1>1, <1>2, <1>3, <1>4 DEF Next

LEMMA LeftOversAlways == Spec => [](TypeOK /\ LeftOvers)
<1>1. Init => LeftOvers
  BY DEF Init, LeftOvers
<1> QED BY <1>1, LeftOversKept, FirewallTypeCorrect, PTL DEF Spec

(* A command of one of the two leaves what is the other's. *)
LEMMA EffectsApart ==
  ASSUME NEW c \in KsCommands \cup TrCommands, KsEffect(c) \/ TrEffect(c)
  PROVE  /\ c \in KsCommands => KsEffect(c) /\ UNCHANGED <<nat, filter>>
         /\ c \in TrCommands => TrEffect(c) /\ UNCHANGED <<nft, chain>>
<1>1. CASE c \in KsCommands
  <2>1. ~TrEffect(c) /\ c \notin TrCommands
    BY <1>1, CommandsDiffer DEF KsCommands, TrEffect
  <2> QED BY <1>1, <2>1 DEF KsEffect
<1>2. CASE c \in TrCommands
  <2>1. ~KsEffect(c) /\ c \notin KsCommands
    BY <1>2, CommandsDiffer DEF TrCommands, KsEffect
  <2> QED BY <1>2, <2>1 DEF TrEffect
<1> QED BY <1>1, <1>2

(* So what an operation of the one leaves behind, when it is cut off or later, does *)
(* not touch the other.                                                             *)
LEMMA CancelledApart ==
  ASSUME TypeOK, LeftOvers, Cancellation
  PROVE  /\ "ks" \notin cut' => UNCHANGED <<nft, chain, ksVars>> /\ "ks" \notin cut
         /\ "tr" \notin cut' => UNCHANGED <<nat, filter, trVars>> /\ "tr" \notin cut
<1>1. CASE CancelKs
  <2>1. "ks" \in cut' /\ UNCHANGED trVars /\ ("tr" \notin cut' => "tr" \notin cut)
    BY <1>1 DEF CancelKs
  <2>2. UNCHANGED <<nat, filter>>
    BY <1>1, EffectsApart DEF CancelKs, LeftBehind, KsRunning, kernel
  <2> QED BY <2>1, <2>2
<1>2. CASE CancelTr
  <2>1. "tr" \in cut' /\ UNCHANGED ksVars /\ ("ks" \notin cut' => "ks" \notin cut)
    BY <1>2 DEF CancelTr
  <2>2. UNCHANGED <<nft, chain>>
    BY <1>2, EffectsApart DEF CancelTr, LeftBehind, TrRunning, kernel
  <2> QED BY <2>1, <2>2
<1>3. CASE OrphanEnds
  <2>1. UNCHANGED <<ksVars, trVars, cut>>
    BY <1>3 DEF OrphanEnds
  <2>2. CASE UNCHANGED kernel
    BY <2>1, <2>2 DEF kernel
  <2>3. ASSUME NEW c \in orphans, KsEffect(c) \/ TrEffect(c)
        PROVE  /\ "ks" \notin cut => UNCHANGED <<nft, chain>>
               /\ "tr" \notin cut => UNCHANGED <<nat, filter>>
    <3>1. c \in KsCommands \cup TrCommands
      BY DEF TypeOK, AsideOK
    <3>2. "ks" \notin cut => c \notin KsCommands
      BY DEF LeftOvers
    <3>3. "tr" \notin cut => c \notin TrCommands
      BY DEF LeftOvers
    <3> QED BY <2>3, <3>1, <3>2, <3>3, EffectsApart
  <2> QED BY <1>3, <2>1, <2>2, <2>3 DEF OrphanEnds
<1> QED BY <1>1, <1>2, <1>3 DEF Cancellation

-----------------------------------------------------------------------------
(* The kill switch's claim.  The flag is only ever raised by the command that *)
(* completes the rule set, and rules are only removed while an operation is   *)
(* under way.                                                                 *)
ClaimInv == ksPc = "idle" /\ ksActive /\ "ks" \notin cut => Closed

LEMMA ClaimStep ==
  ASSUME TypeOK, ClaimInv, KillSwitchStep
  PROVE  ClaimInv'
<1> USE DEF ClaimInv, Closed, Dropping, kernel, ksVars, trVars, aside
<1>1. CASE \E p \in Phases : EngageKs(p)
  BY <1>1 DEF EngageKs, Begin, FirstCommand
<1>2. CASE ReleaseKs
  BY <1>2 DEF ReleaseKs, Begin, FirstCommand
<1>3. CASE BootKs
  BY <1>3 DEF BootKs, Begin, FirstCommand
<1>4. CASE KsDelete
  BY <1>4 DEF KsDelete, Released
<1>5. CASE KsAdd
  <2>1. ksActive' => nft' # {}
    BY <1>5 DEF KsAdd
  <2>. QED BY <2>1
<1>6. CASE KsFlushRound
  BY <1>6 DEF KsFlushRound
<1>7. CASE KsFlushed
  BY <1>7 DEF KsFlushed, Released
<1>8. CASE KsAccept
  BY <1>8 DEF KsAccept, RejectedAppend
<1>9. CASE KsDrop
  <2>1. CASE RejectedAppend("drop")
    BY <1>9, <2>1 DEF KsDrop, RejectedAppend
  <2>2. CASE chain' = Append(chain, "drop") /\ ksPc' = "idle"
    <3>1. Len(chain) + 1 \in DOMAIN chain' /\ chain'[Len(chain) + 1] = "drop"
      BY <2>2 DEF TypeOK, KernelOK
    <3>. QED BY <3>1
  <2>. QED BY <1>9, <2>1, <2>2 DEF KsDrop, DropChecked
<1>. QED
  BY <1>1, <1>2, <1>3, <1>4, <1>5, <1>6, <1>7, <1>8, <1>9 DEF KillSwitchStep

LEMMA ClaimElsewhere ==
  ASSUME TypeOK, LeftOvers, ClaimInv, RedirectStep \/ Cancellation \/ Crash \/ UNCHANGED vars
  PROVE  ClaimInv'
<1> USE DEF ClaimInv, Closed, Dropping, vars, kernel, ksVars, trVars, aside
<1>1. CASE EngageTr \/ RefuseTr \/ ReleaseTr \/ BootTr
  BY <1>1 DEF EngageTr, RefuseTr, ReleaseTr, BootTr, BeginTr, Undisturbed
<1>2. CASE TrNat \/ TrFilter
  BY <1>2 DEF TrNat, TrFilter
<1>3. CASE TrAdd
  BY <1>3 DEF TrAdd
<1>4. CASE Crash \/ UNCHANGED vars
  BY <1>4 DEF Crash
<1>5. CASE Cancellation
  BY <1>5, CancelledApart
<1>. QED BY <1>1, <1>2, <1>3, <1>4, <1>5 DEF RedirectStep

(* Whatever fails and whenever the program dies, a kill switch that says it is *)
(* active has a drop rule in the kernel, unless an operation was cancelled and *)
(* none has run through since: one that runs through, with no command of the   *)
(* cancelled one still under way, restores this, whatever that one left        *)
(* (killswitch.py:122-141, 227-238).                                           *)
THEOREM KillSwitchHonest == Spec => []NeverPretends
<1>1. Init => ClaimInv
  BY DEF Init, ClaimInv
<1>2. TypeOK /\ LeftOvers /\ ClaimInv /\ [Next]_vars => ClaimInv'
  BY ClaimStep, ClaimElsewhere DEF Next
<1>3. ClaimInv => NeverPretends
  BY DEF ClaimInv, NeverPretends, KsIdle
<1>. QED BY <1>1, <1>2, <1>3, LeftOversAlways, PTL DEF Spec

-----------------------------------------------------------------------------
(* The redirect.  The filter table is only deleted after nat is gone, and both *)
(* are loaded by one command.                                                  *)
RedirectInv ==
  /\ trPc = "idle" /\ trActive /\ "tr" \notin cut => nat /\ filter
  /\ faults = 0 => (nat => filter) /\ (trPc = "filter" => ~nat)

LEMMA RedirectKeeps ==
  ASSUME TypeOK, RedirectInv, RedirectStep
  PROVE  RedirectInv'
<1> USE DEF RedirectInv, Succeeds, Fails, aside
<1>1. faults \in Nat
  BY FaultsAssumption DEF TypeOK, LifeOK
<1>2. CASE EngageTr \/ ReleaseTr
  BY <1>2 DEF EngageTr, ReleaseTr, BeginTr, kernel
<1>3. CASE RefuseTr
  BY <1>3 DEF RefuseTr, kernel
<1>4. CASE BootTr
  BY <1>1, <1>4 DEF BootTr, BeginTr, kernel, trVars
<1>5. CASE TrNat
  BY <1>1, <1>5 DEF TrNat
<1>6. CASE TrFilter
  BY <1>1, <1>6 DEF TrFilter
<1>7. CASE TrAdd
  BY <1>1, <1>7 DEF TrAdd, LoadBoth
<1>. QED BY <1>2, <1>3, <1>4, <1>5, <1>6, <1>7 DEF RedirectStep

LEMMA RedirectElsewhere ==
  ASSUME TypeOK, LeftOvers, RedirectInv, KillSwitchStep \/ Cancellation \/ Crash \/ UNCHANGED vars
  PROVE  RedirectInv'
<1>1. faults \in Nat
  BY FaultsAssumption DEF TypeOK, LifeOK
<1>2. CASE KillSwitchStep
  <2>1. UNCHANGED <<nat, filter, trPc, trActive>>
    BY <1>2 DEF KillSwitchStep, EngageKs, ReleaseKs, BootKs, KsDelete, KsAdd,
       KsFlushRound, KsFlushed, KsAccept, KsDrop, Begin, kernel, trVars
  <2>2. Succeeds \/ Fails
    BY <1>2 DEF KillSwitchStep, EngageKs, ReleaseKs, BootKs, KsDelete, KsAdd,
       KsFlushRound, KsFlushed, KsAccept, KsDrop, DropChecked, RejectedAppend
  <2>3. faults' = 0 => faults = 0
    BY <1>1, <2>2 DEF Succeeds, Fails
  <2>4. "tr" \notin cut' => "tr" \notin cut
    BY <1>2 DEF aside, KillSwitchStep, EngageKs, ReleaseKs, BootKs, KsDelete, KsAdd, KsFlushRound,
       KsFlushed, KsAccept, KsDrop, Begin, Undisturbed
  <2>. QED BY <2>1, <2>3, <2>4 DEF RedirectInv
<1>3. CASE Crash
  BY <1>3 DEF Crash, RedirectInv, kernel
<1>4. CASE UNCHANGED vars
  BY <1>4 DEF RedirectInv, vars, kernel, trVars, aside
<1>5. CASE Cancellation
  <2>1. trPc' = "idle" /\ trActive' /\ "tr" \notin cut' => nat' /\ filter'
    BY <1>5, CancelledApart DEF RedirectInv, trVars
  <2>2. ASSUME faults' = 0 PROVE (nat' => filter') /\ (trPc' = "filter" => ~nat')
    <3>1. faults = 0 /\ orphans = {} /\ (nat => filter) /\ (trPc = "filter" => ~nat)
      BY <1>1, <1>5, <2>2
         DEF Cancellation, CancelKs, CancelTr, OrphanEnds, LeftBehind, LeftOvers, RedirectInv
    <3>2. CASE CancelKs
      <4>1. UNCHANGED <<nat, filter>>
        BY <3>2, EffectsApart DEF CancelKs, LeftBehind, KsRunning, kernel
      <4>2. UNCHANGED trPc
        BY <3>2 DEF CancelKs, trVars
      <4> QED BY <3>1, <4>1, <4>2
    <3>3. CASE CancelTr
      <4>1. trPc' = "idle"
        BY <3>3 DEF CancelTr
      <4>2. CASE UNCHANGED <<nat, filter>>
        BY <3>1, <4>1, <4>2
      <4>3. ASSUME NEW c \in TrRunning, TrEffect(c) PROVE nat' => filter'
        BY <3>1, <4>3 DEF TrRunning, TrEffect, LoadBoth
      <4>4. UNCHANGED <<nat, filter>> \/ \E c \in TrRunning : TrEffect(c)
        BY <3>3, EffectsApart DEF CancelTr, LeftBehind, TrRunning, kernel
      <4> QED BY <4>1, <4>2, <4>3, <4>4
    <3> QED BY <1>5, <3>1, <3>2, <3>3 DEF Cancellation, OrphanEnds
  <2> QED BY <2>1, <2>2 DEF RedirectInv
<1>. QED BY <1>2, <1>3, <1>4, <1>5

LEMMA RedirectInvariant == Spec => []RedirectInv
<1>1. Init => RedirectInv
  BY DEF Init, RedirectInv
<1>2. TypeOK /\ LeftOvers /\ RedirectInv /\ [Next]_vars => RedirectInv'
  BY RedirectKeeps, RedirectElsewhere DEF Next
<1>. QED BY <1>1, <1>2, LeftOversAlways, PTL DEF Spec

(* A redirect that says it is active has both tables, whatever failed, unless an  *)
(* operation on it was cancelled and none has run through since                   *)
(* (transparent.py:216-237, 250-255).                                             *)
THEOREM RedirectHonest == Spec => []RedirectComplete
<1>1. RedirectInv => RedirectComplete
  BY DEF RedirectInv, RedirectComplete, TrIdle
<1>. QED BY <1>1, RedirectInvariant, PTL

(* Without commands that fail or outlive a cancelled caller, the redirect is never *)
(* in the kernel without the filter, also between two commands and after any       *)
(* number of cancellations and crashes.                                            *)
THEOREM NoLeak == Spec => []NoLeakBesideRedirect
<1>1. RedirectInv => NoLeakBesideRedirect
  BY DEF RedirectInv, NoLeakBesideRedirect
<1>. QED BY <1>1, RedirectInvariant, PTL

-----------------------------------------------------------------------------
(* The rule set.  A release removes at most MaxDeletes rules, so that it is    *)
(* complete depends on how many there can be: a failed command leaves at most  *)
(* one rule set more, and a command that was left behind one rule.             *)
Quota(f) == (f + 1) * (Accepts + 1)
EnoughRounds == Quota(MaxFaults) <= MaxDeletes

Room(f) == Quota(f) - (IF orphans # {} THEN 1 ELSE 0)

Fits ==
  /\ Len(chain) + (IF ksPc = "append" THEN left + 1 ELSE 0) <= Room(faults)
  /\ ksPc = "flush" => Len(chain) + tries <= Room(faults)

(* A machine has one of the two kinds of rules. *)
OneBackend ==
  /\ backend = "nftables" =>
       /\ chain = <<>> /\ ksPc \notin {"flush", "append"}
       /\ \A c \in orphans : c.does # "-A"
  /\ backend = "iptables" =>
       /\ nft = {} /\ ksPc \notin {"delete", "add"}
       /\ \A c \in orphans : c.does # "load"

(* Until the clean-up is over it is all that goes on. *)
Boots ==
  boot # "done" =>
    /\ ~ksActive
    /\ ksPc # "idle" =>
         boot = "killswitch" /\ ksGoal = "release" /\ ksPc \in {"delete", "flush"}
    /\ trPc # "idle" => boot = "transparent" /\ trGoal = "release" /\ trPc # "add"

(* Where no command failed: what the clean-up has already removed, and what the *)
(* kill switch's operation has loaded when none was cut off.                    *)
Swept ==
  ~faulty /\ boot # "done" =>
    /\ boot = "killswitch" => ~nat /\ ~filter
    /\ trPc = "filter" => ~nat
RuleSet ==
  ~faulty /\ "ks" \notin cut =>
    /\ ksPc = "add" => nft = {}
    /\ ksPc = "append" =>
         (\A i \in DOMAIN chain : chain[i] = phase) /\ (left < Accepts => chain # <<>>)
    /\ KsIdle => IF ksActive THEN Closed /\ Loaded = {phase} ELSE nft = {} /\ chain = <<>>

RulesInv == TypeOK /\ LeftOvers /\ Fits /\ OneBackend /\ Boots /\ Swept /\ RuleSet

LEMMA Quotas ==
  ASSUME NEW f \in Nat
  PROVE  /\ Quota(f) \in Nat /\ Quota(f + 1) = Quota(f) + Accepts + 1
         /\ \A g \in Nat : f <= g => Quota(f) <= Quota(g)
<1>1. Accepts \in Nat
  BY AcceptsAssumption
<1>2. ASSUME NEW a \in Nat, NEW g \in Nat
      PROVE  /\ (g + 1) * (a + 1) \in Nat
             /\ (g + 1 + 1) * (a + 1) = (g + 1) * (a + 1) + a + 1
  OBVIOUS
<1>3. ASSUME NEW a \in Nat, NEW g \in Nat, f <= g
      PROVE  (f + 1) * (a + 1) <= (g + 1) * (a + 1)
  <2>1. \A d \in Nat : (f + d + 1) * (a + 1) = (f + 1) * (a + 1) + d * (a + 1)
    OBVIOUS
  <2>2. \A d \in Nat : d * (a + 1) \in Nat
    OBVIOUS
  <2>3. g - f \in Nat /\ f + (g - f) + 1 = g + 1
    BY <1>3
  <2>4. (g + 1) * (a + 1) = (f + 1) * (a + 1) + (g - f) * (a + 1)
    BY <2>1, <2>3
  <2>5. (f + 1) * (a + 1) \in Nat /\ (g - f) * (a + 1) \in Nat
    BY <1>2, <2>2, <2>3
  <2> QED BY <2>4, <2>5
<1> QED BY <1>1, <1>2, <1>3 DEF Quota

(* What one more rule, and one less, leave of the chain. *)
LEMMA Chains ==
  ASSUME TypeOK, NEW r \in Rules
  PROVE  /\ Len(chain) \in Nat /\ (Len(chain) = 0 <=> chain = <<>>)
         /\ Len(Append(chain, r)) = Len(chain) + 1 /\ Append(chain, r) # <<>>
         /\ DOMAIN Append(chain, r) = 1..(Len(chain) + 1) /\ DOMAIN chain = 1..Len(chain)
         /\ \A i \in DOMAIN chain : Append(chain, r)[i] = chain[i]
         /\ Append(chain, r)[Len(chain) + 1] = r
         /\ chain # <<>> => Len(Tail(chain)) = Len(chain) - 1
BY DEF TypeOK, KernelOK

(* What there is room for: never less than one rule set. *)
LEMMA Rooms ==
  ASSUME TypeOK, LeftOvers
  PROVE  /\ faults \in Nat /\ Quota(faults) \in Nat /\ Room(faults) \in Nat
         /\ Room(faults) <= Quota(faults) /\ Accepts + 1 <= Room(faults)
         /\ Quota(faults + 1) = Quota(faults) + Accepts + 1
<1>1. faults \in Nat /\ Accepts \in Nat
  BY AcceptsAssumption, FaultsAssumption DEF TypeOK, LifeOK
<1>2. Quota(faults) \in Nat /\ Quota(faults + 1) = Quota(faults) + Accepts + 1
  BY <1>1, Quotas
<1>3. Quota(0) = Accepts + 1 /\ Quota(1) = Accepts + 1 + Accepts + 1
  BY <1>1 DEF Quota
<1>4. Quota(0) <= Quota(faults) /\ (faults # 0 => Quota(1) <= Quota(faults))
  BY <1>1, Quotas
<1> QED BY <1>1, <1>2, <1>3, <1>4 DEF Room, LeftOvers

(* The steps of the redirect and a crash only leave less to account for. *)
LEMMA FitsElsewhere ==
  ASSUME TypeOK, LeftOvers, Fits, RedirectStep \/ Crash \/ UNCHANGED vars
  PROVE  Fits'
<1>0. faults \in Nat /\ Len(chain) \in Nat /\ left \in Nat
  BY AcceptsAssumption, FaultsAssumption DEF TypeOK, LifeOK, KernelOK, KillSwitchOK
<1>1. /\ faults \in Nat /\ Len(chain) \in Nat /\ left \in Nat /\ Quota(faults) \in Nat
      /\ Room(faults) \in Nat
  BY <1>0, Rooms
<1>2. CASE RedirectStep
  <2>1. UNCHANGED <<chain, ksPc, left, tries>>
    BY <1>2 DEF RedirectStep, EngageTr, RefuseTr, ReleaseTr, BootTr, TrNat, TrFilter, TrAdd,
       BeginTr, kernel, ksVars
  <2>2. faults' = faults \/ faults' = faults + 1
    BY <1>2 DEF RedirectStep, EngageTr, RefuseTr, ReleaseTr, BootTr, TrNat, TrFilter, TrAdd,
       Succeeds, Fails
  <2>3. faults' \in Nat /\ faults <= faults'
    BY <1>1, <2>2
  <2>4. Quota(faults') \in Nat /\ Quota(faults) <= Quota(faults')
    <3>1. Quota(faults') \in Nat
      BY <2>3, Quotas
    <3>2. Quota(faults) <= Quota(faults')
      BY <1>1, <2>3, Quotas
    <3> QED BY <3>1, <3>2
  <2> DEFINE load == Len(chain) + (IF ksPc = "append" THEN left + 1 ELSE 0)
  <2>5. orphans' = orphans
    BY <1>2, AsideType
  <2>6. Room(faults)' \in Int /\ Room(faults) <= Room(faults)'
    BY <1>1, <2>4, <2>5 DEF Room
  <2>7. load \in Nat /\ load' = load
    BY <1>1, <2>1
  <2>8. tries \in Nat
    BY DeletesAssumption DEF TypeOK, KillSwitchOK
  <2> QED BY <1>1, <2>1, <2>6, <2>7, <2>8 DEF Fits
<1>3. CASE Crash
  BY <1>1, <1>3 DEF Crash, kernel, Fits, Room
<1>4. CASE UNCHANGED vars
  BY <1>4 DEF vars, kernel, ksVars, aside, Fits, Room
<1> QED BY <1>2, <1>3, <1>4

(* An operation that is cut off needs no more room, and the command it leaves is one *)
(* failure's worth.                                                                  *)
LEMMA FitsCancelled ==
  ASSUME TypeOK, LeftOvers, Fits, Cancellation
  PROVE  Fits'
<1>1. /\ Len(chain) \in Nat /\ left \in Nat /\ tries \in Nat /\ Accepts \in Nat
      /\ Len(chain') \in Nat /\ chain' \in Seq(Rules) /\ chain \in Seq(Rules)
  <2>1. TypeOK'
    BY CancelType
  <2> QED BY <2>1, AcceptsAssumption, DeletesAssumption DEF TypeOK, KernelOK, KillSwitchOK
<1>2. /\ faults \in Nat /\ Quota(faults) \in Nat /\ Room(faults) \in Nat
      /\ Room(faults) <= Quota(faults) /\ Quota(faults + 1) = Quota(faults) + Accepts + 1
  BY Rooms
<1>3. Len(chain) <= Room(faults) /\ (ksPc = "append" => Len(chain) + 1 <= Room(faults))
  BY <1>1, <1>2 DEF Fits
<1>4. ASSUME NEW c \in KsCommands \cup TrCommands, KsEffect(c) \/ TrEffect(c)
      PROVE  Len(chain') <= Len(chain) + 1 /\ (c.does # "-A" => Len(chain') <= Len(chain))
  <2>1. CASE TrEffect(c) \/ UNCHANGED chain
    BY <1>1, <2>1 DEF TrEffect
  <2>2. CASE c.does = "-A" /\ chain' = Append(chain, c.rule)
    <3>1. c.rule \in Rules
      BY DEF KsCommands, TrCommands, Rules
    <3> QED BY <1>1, <2>2, <3>1, Chains
  <2>3. ASSUME NEW i \in DOMAIN chain, chain' = Without(i) PROVE Len(chain') <= Len(chain)
    <3>1. Len(chain) - 1 \in Nat /\ DOMAIN chain' = 1..(Len(chain) - 1)
      BY <1>1, <2>3 DEF Without
    <3>2. Len(chain') = Len(chain) - 1
      BY <1>1, <3>1, LenProperties
    <3> QED BY <1>1, <3>2
  <2> QED BY <1>1, <1>4, <2>1, <2>2, <2>3 DEF KsEffect
<1>5. CASE CancelKs
  <2>1. ksPc' = "idle"
    BY <1>5 DEF CancelKs
  <2>2. CASE UNCHANGED <<kernel, orphans, faults>>
    BY <1>1, <1>2, <1>3, <2>1, <2>2 DEF Fits, Room, kernel
  <2>3. ASSUME NEW c \in KsRunning, KsEffect(c) \/ TrEffect(c), UNCHANGED <<orphans, faults>>
        PROVE  Fits'
    <3>1. Len(chain') <= Room(faults)
      BY <1>1, <1>2, <1>3, <1>4, <2>3 DEF KsRunning
    <3> QED BY <1>1, <1>2, <2>1, <2>3, <3>1 DEF Fits, Room
  <2>4. CASE orphans = {} /\ faults' = faults + 1 /\ UNCHANGED kernel
    BY <1>1, <1>2, <1>3, <2>1, <2>4, AcceptsAssumption DEF Fits, Room, kernel
  <2> QED BY <1>5, <2>2, <2>3, <2>4 DEF CancelKs, LeftBehind
<1>6. CASE CancelTr
  <2>1. UNCHANGED <<ksPc, left, tries>>
    BY <1>6 DEF CancelTr, ksVars
  <2>2. UNCHANGED chain
    BY <1>6, EffectsApart DEF CancelTr, LeftBehind, TrRunning, kernel
  <2>3. Room(faults)' \in Int /\ Room(faults) <= Room(faults)'
    BY <1>1, <1>2, <1>6 DEF CancelTr, LeftBehind, Room
  <2> QED BY <1>1, <1>2, <2>1, <2>2, <2>3 DEF Fits
<1>7. CASE OrphanEnds
  <2>1. UNCHANGED <<ksPc, left, tries, faults>> /\ orphans # {} /\ orphans' = {}
    BY <1>7 DEF OrphanEnds, ksVars
  <2>2. Room(faults)' = Room(faults) + 1
    BY <1>2, <2>1 DEF Room
  <2>3. Len(chain') <= Len(chain) + 1
    BY <1>1, <1>4, <1>7 DEF OrphanEnds, kernel, TypeOK, AsideOK
  <2> QED BY <1>1, <1>2, <2>1, <2>2, <2>3 DEF Fits
<1> QED BY <1>5, <1>6, <1>7 DEF Cancellation

LEMMA FitsKept ==
  ASSUME TypeOK, LeftOvers, Fits, EnoughRounds, KillSwitchStep
  PROVE  Fits' /\ (ksPc = "flush" /\ FlushEnds => chain = <<>>)
<1>0. /\ faults \in 0..MaxFaults /\ Len(chain) \in Nat /\ left \in Nat /\ Accepts \in Nat
      /\ tries \in 0..MaxDeletes /\ MaxDeletes \in Nat /\ faults \in Nat /\ MaxFaults \in Nat
      /\ faults <= MaxFaults
  BY AcceptsAssumption, FaultsAssumption, DeletesAssumption
     DEF TypeOK, LifeOK, KernelOK, KillSwitchOK
<1>1. /\ Room(faults) \in Nat /\ Quota(faults) \in Nat /\ Room(faults) <= Quota(faults)
      /\ Accepts + 1 <= Room(faults)
  BY Rooms
<1>2. Room(faults) <= MaxDeletes
  <2>1. Quota(faults) <= Quota(MaxFaults) /\ Quota(MaxFaults) \in Nat
    BY <1>0, Quotas
  <2> QED BY <1>0, <1>1, <2>1 DEF EnoughRounds
<1>3. ksPc = "flush" /\ FlushEnds => chain = <<>>
  <2>1. ksPc = "flush" /\ tries = MaxDeletes => Len(chain) <= 0
    BY <1>0, <1>1, <1>2 DEF Fits
  <2>2. Len(chain) <= 0 => chain = <<>>
    BY <1>0, <1>1, Chains DEF Phases, Rules
  <2> QED BY <2>1, <2>2 DEF FlushEnds
<1>4. Quota(faults + 1) = Quota(faults) + Accepts + 1 /\ orphans' = orphans
  BY Rooms, AsideType
<1>5. (Succeeds => Room(faults)' = Room(faults))
      /\ (Fails => Room(faults)' = Room(faults) + Accepts + 1)
  BY <1>0, <1>1, <1>4 DEF Succeeds, Fails, Room
<1>6. /\ Len(chain) <= Room(faults)
      /\ ksPc = "append" => Len(chain) + left + 1 <= Room(faults)
      /\ ksPc = "flush" => Len(chain) + tries <= Room(faults)
  BY <1>0, <1>1 DEF Fits
<1> DEFINE Fit(q) == /\ Len(chain)' <= q
                     /\ ksPc' = "append" => Len(chain)' + left' + 1 <= q
                     /\ ksPc' = "flush" => Len(chain)' + tries' <= q
<1>7. ASSUME Fit(Room(faults)'), Len(chain)' \in Nat, left' \in Nat PROVE Fits'
  <2>1. CASE ksPc' = "append"
    BY <1>7, <2>1 DEF Fits
  <2>2. CASE ksPc' # "append"
    BY <1>7, <2>2 DEF Fits
  <2> QED BY <2>1, <2>2
<1>8. Len(chain)' \in Nat /\ left' \in Nat
  <2>1. TypeOK'
    BY KillSwitchType
  <2> QED BY <2>1, AcceptsAssumption DEF TypeOK, KernelOK, KillSwitchOK
<1> SUFFICES Fit(Room(faults)')
  BY <1>3, <1>7, <1>8
<1> USE DEF kernel
<1>9. CASE (\E p \in Phases : EngageKs(p)) \/ ReleaseKs
  <2>1. ksPc' \in {"delete", "flush"} /\ tries' = 0 /\ chain' = chain /\ Succeeds
    BY <1>9 DEF EngageKs, ReleaseKs, Begin, FirstCommand
  <2> QED BY <1>0, <1>1, <1>5, <1>6, <2>1
<1>10. CASE BootKs
  <2>1. CASE Succeeds /\ Begin("release")
    <3>1. ksPc' \in {"delete", "flush"} /\ tries' = 0 /\ chain' = chain
      BY <2>1 DEF Begin, FirstCommand
    <3> QED BY <1>0, <1>1, <1>5, <1>6, <2>1, <3>1
  <2>2. CASE (Succeeds \/ Fails) /\ UNCHANGED <<kernel, ksVars>>
    <3>1. ksPc = ksPc' /\ ksPc = "idle" /\ chain' = chain
      BY <1>0, <1>10, <2>2 DEF BootKs, ksVars
    <3> QED BY <1>0, <1>1, <1>5, <1>6, <2>2, <3>1
  <2> QED BY <1>0, <1>10, <2>1, <2>2 DEF BootKs
<1>11. CASE KsDelete
  <2>1. ksPc' \in {"add", "idle"} /\ chain' = chain /\ (Succeeds \/ Fails)
    BY <1>0, <1>11 DEF KsDelete, Released
  <2> QED BY <1>0, <1>1, <1>5, <1>6, <2>1
<1>12. CASE KsAdd
  <2>1. ksPc' = "idle" /\ chain' = chain /\ (Succeeds \/ Fails)
    BY <1>0, <1>12 DEF KsAdd
  <2> QED BY <1>0, <1>1, <1>5, <1>6, <2>1
<1>13. CASE KsFlushRound
  <2>1. ksPc' = "flush" /\ tries' = tries + 1 /\ chain # <<>>
        /\ ((chain' = Tail(chain) /\ Succeeds) \/ (chain' = chain /\ Fails)) /\ ksPc = "flush"
    BY <1>0, <1>13 DEF KsFlushRound, FlushEnds
  <2>2. Len(Tail(chain)) = Len(chain) - 1
    BY <2>1, Chains DEF Phases
  <2> QED BY <1>0, <1>1, <1>5, <1>6, <2>1, <2>2
<1>14. CASE KsFlushed
  <2>1. ksPc = "flush" /\ chain' = chain /\ (ksPc' = "idle" \/ (ksPc' = "append" /\ left' = Accepts))
        /\ ((FlushEnds /\ Succeeds) \/ Fails)
    BY <1>0, <1>14 DEF KsFlushed, Released
  <2>2. CASE FlushEnds /\ Succeeds
    <3>1. Len(chain) = 0
      BY <1>3, <2>1, <2>2, Chains DEF Phases
    <3> QED BY <1>0, <1>1, <1>5, <2>1, <2>2, <3>1
  <2>3. CASE Fails
    BY <1>0, <1>1, <1>5, <1>6, <2>1, <2>3
  <2> QED BY <2>1, <2>2, <2>3
<1>15. CASE KsAccept
  <2>1. ksPc = "append" /\ phase \in Rules /\ left > 0
    BY <1>0, <1>15 DEF KsAccept, MoreAccepts, TypeOK, KillSwitchOK, Rules
  <2>2. Len(Append(chain, phase)) = Len(chain) + 1
    BY <2>1, Chains
  <2>3. CASE chain' = Append(chain, phase) /\ left' = left - 1 /\ Succeeds /\ ksPc' = ksPc
    BY <1>0, <1>1, <1>5, <1>6, <2>1, <2>2, <2>3
  <2>4. CASE chain' \in {chain, Append(chain, phase)} /\ Fails /\ ksPc' = "idle"
    BY <1>0, <1>1, <1>5, <1>6, <2>1, <2>2, <2>4
  <2> QED BY <1>0, <1>15, <2>3, <2>4 DEF KsAccept, RejectedAppend
<1>16. CASE KsDrop
  <2>1. /\ ksPc = "append" /\ ksPc' = "idle" /\ chain' \in {chain, Append(chain, "drop")}
        /\ Succeeds \/ Fails
    BY <1>0, <1>16 DEF KsDrop, DropChecked, RejectedAppend
  <2>2. Len(Append(chain, "drop")) = Len(chain) + 1
    BY Chains
  <2> QED BY <1>0, <1>1, <1>5, <1>6, <2>1, <2>2
<1> QED BY <1>9, <1>10, <1>11, <1>12, <1>13, <1>14, <1>15, <1>16 DEF KillSwitchStep

LEMMA OneBackendKept ==
  ASSUME TypeOK, OneBackend, [Next]_vars
  PROVE  OneBackend'
<1> USE DEF OneBackend, kernel, ksVars, aside
<1>0. backend \in {"nftables", "iptables"}
  BY DEF TypeOK, KernelOK
<1>1. CASE (\E p \in Phases : EngageKs(p)) \/ ReleaseKs \/ BootKs
  BY <1>0, <1>1 DEF EngageKs, ReleaseKs, BootKs, Begin, FirstCommand
<1>2. CASE KsDelete \/ KsAdd
  BY <1>0, <1>2 DEF KsDelete, KsAdd, Released
<1>3. CASE KsFlushRound \/ KsFlushed
  BY <1>0, <1>3 DEF KsFlushRound, KsFlushed, Released
<1>4. CASE KsAccept \/ KsDrop
  BY <1>0, <1>4 DEF KsAccept, KsDrop, DropChecked, RejectedAppend
<1>5. CASE RedirectStep
  BY <1>5 DEF RedirectStep, EngageTr, RefuseTr, ReleaseTr, BootTr, TrNat, TrFilter, TrAdd, BeginTr
<1>6. CASE Crash \/ UNCHANGED vars
  BY <1>6 DEF Crash, vars
<1>7. CASE Cancellation
  <2>1. backend' = backend /\ ksPc' \in {"idle", ksPc}
    BY <1>7 DEF Cancellation, CancelKs, CancelTr, OrphanEnds
  <2>2. ASSUME NEW c \in KsRunning \cup TrRunning \cup orphans
        PROVE  /\ backend = "nftables" => c.does # "-A"
               /\ backend = "iptables" => c.does # "load"
    BY <1>0, <2>2 DEF KsRunning, TrRunning, TrCommands
  <2>3. \A c \in orphans' : /\ backend = "nftables" => c.does # "-A"
                            /\ backend = "iptables" => c.does # "load"
    BY <1>7, <2>2 DEF Cancellation, CancelKs, CancelTr, OrphanEnds, LeftBehind
  <2>4. \/ UNCHANGED <<nft, chain>>
        \/ \E c \in KsRunning \cup TrRunning \cup orphans : KsEffect(c) \/ TrEffect(c)
    BY <1>7 DEF Cancellation, CancelKs, CancelTr, OrphanEnds, LeftBehind
  <2>5. (backend = "nftables" => chain' = <<>>) /\ (backend = "iptables" => nft' = {})
    <3>1. chain = <<>> => DOMAIN chain = {}
      OBVIOUS
    <3> QED BY <2>2, <2>4, <3>1 DEF KsEffect, TrEffect
  <2> QED BY <2>1, <2>3, <2>5
<1> QED BY <1>1, <1>2, <1>3, <1>4, <1>5, <1>6, <1>7 DEF Next, KillSwitchStep

LEMMA BootsKept ==
  ASSUME TypeOK, Boots, [Next]_vars
  PROVE  Boots'
<1> USE DEF Boots, kernel, ksVars, trVars, aside
<1>1. CASE (\E p \in Phases : EngageKs(p)) \/ ReleaseKs
  BY <1>1 DEF EngageKs, ReleaseKs
<1>2. CASE BootKs
  BY <1>2 DEF BootKs, Begin, FirstCommand
<1>3. CASE KsDelete \/ KsAdd
  BY <1>3 DEF KsDelete, KsAdd, Released
<1>4. CASE KsFlushRound \/ KsFlushed
  BY <1>4 DEF KsFlushRound, KsFlushed, Released
<1>5. CASE KsAccept \/ KsDrop
  BY <1>5 DEF KsAccept, KsDrop, DropChecked, RejectedAppend
<1>6. CASE EngageTr \/ RefuseTr \/ ReleaseTr
  BY <1>6 DEF EngageTr, RefuseTr, ReleaseTr
<1>7. CASE BootTr
  BY <1>7 DEF BootTr, BeginTr
<1>8. CASE TrNat \/ TrFilter \/ TrAdd
  BY <1>8 DEF TrNat, TrFilter, TrAdd
<1>9. CASE Crash \/ UNCHANGED vars
  BY <1>9 DEF Crash, vars
<1>10. CASE Cancellation
  BY <1>10 DEF Cancellation, CancelKs, CancelTr, OrphanEnds
<1> QED BY <1>1, <1>2, <1>3, <1>4, <1>5, <1>6, <1>7, <1>8, <1>9, <1>10
        DEF Next, KillSwitchStep, RedirectStep

(* A program in which a command failed stays one until it is started again. *)
LEMMA Faults ==
  ASSUME TypeOK, KillSwitchStep \/ RedirectStep, ~faulty'
  PROVE  Succeeds /\ ~Fails /\ ~faulty
<1>1. Succeeds \/ Fails
  BY DEF KillSwitchStep, RedirectStep, EngageKs, ReleaseKs, BootKs, KsDelete, KsAdd, KsFlushRound,
     KsFlushed, KsAccept, KsDrop, DropChecked, RejectedAppend, EngageTr, RefuseTr, ReleaseTr,
     BootTr, TrNat, TrFilter, TrAdd
<1> QED BY <1>1 DEF Succeeds, Fails

LEMMA SweptKept ==
  ASSUME TypeOK, LeftOvers, Boots, Swept, [Next]_vars
  PROVE  Swept'
<1> USE DEF Swept, kernel, ksVars, trVars
<1> SUFFICES ASSUME ~faulty', boot' # "done" PROVE Swept'
  OBVIOUS
<1>1. CASE Crash
  BY <1>1 DEF Crash
<1>2. CASE UNCHANGED vars
  BY <1>2 DEF vars
<1>3. CASE KillSwitchStep
  <2>1. Succeeds /\ ~Fails /\ ~faulty
    BY <1>3, Faults
  <2>2. UNCHANGED <<nat, filter, trPc>> /\ boot' \in {boot, "done"}
    BY <1>3 DEF KillSwitchStep, EngageKs, ReleaseKs, BootKs, KsDelete, KsAdd, KsFlushRound,
       KsFlushed, KsAccept, KsDrop, Begin, Released
  <2> QED BY <2>1, <2>2
<1>4. CASE RedirectStep
  <2>1. Succeeds /\ ~Fails /\ ~faulty
    BY <1>4, Faults
  <2>2. CASE EngageTr \/ RefuseTr \/ ReleaseTr
    BY <2>2 DEF EngageTr, RefuseTr, ReleaseTr
  <2>3. CASE BootTr
    BY <2>1, <2>3 DEF BootTr, BeginTr, TrInstalled
  <2>4. CASE TrNat
    BY <2>1, <2>4 DEF TrNat, Boots
  <2>5. CASE TrFilter
    BY <2>1, <2>5 DEF TrFilter, Boots
  <2>6. CASE TrAdd
    BY <2>6 DEF TrAdd, Boots
  <2> QED BY <1>4, <2>2, <2>3, <2>4, <2>5, <2>6 DEF RedirectStep
<1>5. CASE Cancellation
  BY <1>5 DEF Cancellation, CancelKs, CancelTr, OrphanEnds, LeftOvers
<1> QED BY <1>1, <1>2, <1>3, <1>4, <1>5 DEF Next

LEMMA RulesKept ==
  ASSUME TypeOK, LeftOvers, EnoughRounds, Fits, OneBackend, Boots, RuleSet, [Next]_vars
  PROVE  RuleSet'
<1> USE DEF kernel, ksVars, trVars
<1> SUFFICES ASSUME ~faulty', "ks" \notin cut' PROVE RuleSet'
  BY DEF RuleSet
<1>k. KsDelete \/ KsAdd \/ KsFlushRound \/ KsFlushed \/ KsAccept \/ KsDrop => "ks" \notin cut
  BY DEF aside, KsDelete, KsAdd, KsFlushRound, KsFlushed, KsAccept, KsDrop
<1>r. RedirectStep => "ks" \notin cut
  BY DEF aside, RedirectStep, EngageTr, RefuseTr, ReleaseTr, BootTr, TrNat, TrFilter, TrAdd,
     BeginTr, Undisturbed
<1>1. CASE Crash
  BY <1>1 DEF Crash, RuleSet, KsIdle
<1>2. CASE UNCHANGED <<nft, chain, ksPc, ksActive, phase, left, boot, faulty, cut>>
  BY <1>2 DEF RuleSet, KsIdle, Closed, Dropping, Loaded
<1>3. CASE RedirectStep
  <2>1. Succeeds /\ ~faulty
    BY <1>3, Faults
  <2>2. UNCHANGED <<nft, chain, ksPc, ksActive, phase, left>> /\ (boot' = "done" => boot = "done")
    BY <1>3 DEF RedirectStep, EngageTr, RefuseTr, ReleaseTr, BootTr, TrNat, TrFilter, TrAdd,
       BeginTr
  <2> QED BY <1>3, <1>r, <2>1, <2>2 DEF RuleSet, KsIdle, Closed, Dropping, Loaded
<1>4. CASE KillSwitchStep
  <2>1. Succeeds /\ ~Fails /\ ~faulty
    BY <1>4, Faults
  <2>2. CASE (\E p \in Phases : EngageKs(p)) \/ ReleaseKs
    <3>1. ksPc' \in {"delete", "flush"}
      BY <2>2 DEF EngageKs, ReleaseKs, Begin, FirstCommand
    <3> QED BY <3>1 DEF RuleSet, KsIdle
  <2>3. CASE BootKs
    <3>1. CASE ksPc' \in {"delete", "flush"}
      BY <3>1 DEF RuleSet, KsIdle
    <3>2. CASE ~KsInstalled /\ UNCHANGED <<kernel, ksVars>>
      <4>1. nft' = {} /\ chain' = <<>> /\ ksActive' = FALSE /\ ksPc' = "idle"
        <5>1. ksActive \in BOOLEAN
          BY DEF TypeOK, KillSwitchOK
        <5> QED BY <2>3, <3>2, <5>1 DEF KsInstalled, Boots, BootKs
      <4> QED BY <4>1 DEF RuleSet, KsIdle
    <3> QED BY <2>1, <2>3, <3>1, <3>2 DEF BootKs, Begin, FirstCommand
  <2>4. CASE KsDelete
    <3>1. backend = "nftables" /\ chain' = <<>> /\ nft' = {}
      BY <2>1, <2>4 DEF KsDelete, OneBackend, TypeOK, KernelOK
    <3>2. CASE ksPc' = "add"
      BY <3>1, <3>2 DEF RuleSet, KsIdle
    <3>3. CASE ksPc' = "idle" /\ ksActive' = FALSE
      BY <3>1, <3>3 DEF RuleSet, KsIdle
    <3> QED BY <2>4, <3>2, <3>3 DEF KsDelete, Released
  <2>5. CASE KsAdd
    <3>1. /\ nft = {} /\ chain = <<>> /\ nft' = {phase} /\ chain' = <<>>
          /\ ksActive' = TRUE /\ ksPc' = "idle" /\ phase' = phase /\ phase \in Phases
      <4>1. ksPc = "add" /\ backend = "nftables"
        BY <2>5 DEF KsAdd, OneBackend, TypeOK, KernelOK
      <4> QED BY <1>k, <2>1, <2>5, <4>1 DEF KsAdd, RuleSet, OneBackend, TypeOK, KillSwitchOK
    <3>2. Loaded' = {phase} /\ Closed'
      BY <3>1 DEF Loaded, Closed, Phases
    <3> QED BY <3>1, <3>2 DEF RuleSet, KsIdle
  <2>6. CASE KsFlushRound
    BY <2>6 DEF KsFlushRound, RuleSet, KsIdle
  <2>7. CASE KsFlushed
    <3>1. chain = <<>> /\ chain' = <<>> /\ nft' = {}
      <4>1. ksPc = "flush" /\ FlushEnds /\ UNCHANGED <<chain, nft>>
        BY <2>1, <2>7 DEF KsFlushed
      <4>2. backend = "iptables"
        BY <4>1 DEF OneBackend, TypeOK, KernelOK
      <4> QED BY <1>4, <4>1, <4>2, FitsKept DEF OneBackend
    <3>2. CASE ksPc' = "append" /\ left' = Accepts
      <4>1. ~(Accepts < Accepts)
        BY AcceptsAssumption
      <4>2. DOMAIN <<>> = {}
        OBVIOUS
      <4> QED BY <3>1, <3>2, <4>1, <4>2 DEF RuleSet, KsIdle
    <3>3. CASE ksPc' = "idle" /\ ksActive' = FALSE
      BY <3>1, <3>3 DEF RuleSet, KsIdle
    <3> QED BY <2>7, <3>2, <3>3 DEF KsFlushed, Released
  <2>8. CASE KsAccept
    <3>1. /\ ksPc = "append" /\ ksPc' = "append" /\ chain' = Append(chain, phase)
          /\ phase' = phase /\ phase \in Phases
      BY <2>1, <2>8 DEF KsAccept, RejectedAppend, TypeOK, KillSwitchOK
    <3>2. \A i \in DOMAIN chain : chain[i] = phase
      BY <1>k, <2>1, <2>8, <3>1 DEF RuleSet
    <3>3. chain' # <<>> /\ \A i \in DOMAIN chain' : chain'[i] = phase'
      <4>1. TypeOK /\ phase \in Rules
        BY <3>1 DEF Rules
      <4>2. /\ chain' # <<>> /\ DOMAIN chain' = 1..(Len(chain) + 1) /\ Len(chain) \in Nat
            /\ DOMAIN chain = 1..Len(chain) /\ chain'[Len(chain) + 1] = phase
            /\ \A i \in DOMAIN chain : chain'[i] = chain[i]
        BY <3>1, <4>1, Chains
      <4>3. ASSUME NEW i \in DOMAIN chain' PROVE chain'[i] = phase
        <5>1. i \in DOMAIN chain \/ i = Len(chain) + 1
          BY <4>2
        <5> QED BY <3>2, <4>2, <5>1
      <4> QED BY <3>1, <4>2, <4>3
    <3> QED BY <3>1, <3>3 DEF RuleSet, KsIdle
  <2>9. CASE KsDrop
    <3>1. /\ ksPc = "append" /\ ksPc' = "idle" /\ chain' = Append(chain, "drop") /\ left = 0
          /\ ksActive' = TRUE /\ phase' = phase /\ phase \in Phases /\ nft' = nft
      BY <2>1, <2>9 DEF KsDrop, DropChecked, RejectedAppend, TypeOK, KillSwitchOK
    <3>2. nft = {}
      BY <3>1 DEF OneBackend, TypeOK, KernelOK
    <3>3. chain # <<>> /\ \A i \in DOMAIN chain : chain[i] = phase
      BY <1>k, <2>1, <2>9, <3>1, AcceptsAssumption DEF RuleSet
    <3>4. /\ DOMAIN chain' = 1..(Len(chain) + 1) /\ Len(chain) \in Nat /\ Len(chain) # 0
          /\ DOMAIN chain = 1..Len(chain) /\ chain'[Len(chain) + 1] = "drop"
          /\ \A i \in DOMAIN chain : chain'[i] = chain[i]
      BY <3>1, <3>3, Chains
    <3>5. Closed'
      BY <3>4 DEF Closed, Dropping
    <3>6. \A i \in DOMAIN chain' : chain'[i] \in {phase, "drop"}
      <4> TAKE i \in DOMAIN chain'
      <4>1. i \in DOMAIN chain \/ i = Len(chain) + 1
        BY <3>4
      <4> QED BY <3>3, <3>4, <4>1
    <3>7. 1 \in DOMAIN chain' /\ chain'[1] = phase
      BY <3>3, <3>4
    <3>8. Loaded' = {phase}
      <4>1. phase # "drop"
        BY <3>1 DEF Phases
      <4> QED BY <3>1, <3>2, <3>6, <3>7, <4>1 DEF Loaded
    <3> QED BY <3>1, <3>5, <3>8 DEF RuleSet, KsIdle
  <2> QED BY <1>4, <2>2, <2>3, <2>4, <2>5, <2>6, <2>7, <2>8, <2>9 DEF KillSwitchStep
<1>5. CASE Cancellation
  <2>1. UNCHANGED <<nft, chain, ksVars>> /\ "ks" \notin cut
    BY <1>5, CancelledApart
  <2>2. UNCHANGED <<boot, faulty>>
    BY <1>5 DEF Cancellation, CancelKs, CancelTr, OrphanEnds
  <2> QED BY <2>1, <2>2 DEF RuleSet, KsIdle, Closed, Dropping, Loaded
<1> QED BY <1>1, <1>2, <1>3, <1>4, <1>5 DEF Next, vars, aside

LEMMA SweepAlways == Spec => [](TypeOK /\ LeftOvers /\ Boots /\ Swept)
<1>1. Init => Boots /\ Swept
  BY DEF Init, Boots, Swept
<1>2. TypeOK /\ LeftOvers /\ Boots /\ Swept /\ [Next]_vars => Boots' /\ Swept'
  BY BootsKept, SweptKept
<1> QED BY <1>1, <1>2, LeftOversAlways, PTL DEF Spec

LEMMA RulesAlways ==
  ASSUME EnoughRounds
  PROVE  Spec => []RulesInv
<1>1. Init => Fits /\ OneBackend /\ RuleSet
  <2> SUFFICES ASSUME Init PROVE Fits /\ OneBackend /\ RuleSet
    OBVIOUS
  <2>1. faults = 0 /\ Len(chain) = 0 /\ ksPc = "idle" /\ Quota(0) \in Nat
    BY Quotas DEF Init
  <2> QED BY <2>1 DEF Init, Fits, Room, OneBackend, RuleSet, KsIdle
<1>2. RulesInv /\ TypeOK' /\ LeftOvers' /\ Boots' /\ Swept' /\ [Next]_vars => RulesInv'
  BY FitsKept, FitsElsewhere, FitsCancelled, OneBackendKept, RulesKept DEF RulesInv, Next
<1> QED BY <1>1, <1>2, SweepAlways, PTL DEF Spec, RulesInv

(* In a session whose commands all succeed the flag and the kernel agree and only  *)
(* the rule set engaged last is loaded, for any number of rules, as long as the    *)
(* rounds of a release suffice for what the failures of a lifetime can leave.  An  *)
(* operation that was cancelled breaks this, and the next one that runs through,   *)
(* with none of its commands still under way, restores it (killswitch.py:227-238,  *)
(* 246-247, 294-315).                                                              *)
THEOREM FlagIsKernel ==
  ASSUME EnoughRounds
  PROVE  Spec => []FlagMatchesKernel
<1>1. RulesInv => FlagMatchesKernel
  <2> SUFFICES ASSUME RulesInv, KsIdle, ~faulty, "ks" \notin cut, ~ksActive
               PROVE  ~Closed /\ Loaded = {}
    BY DEF FlagMatchesKernel, RulesInv, RuleSet
  <2>1. nft = {} /\ chain = <<>> /\ DOMAIN <<>> = {}
    BY DEF RulesInv, RuleSet
  <2> QED BY <2>1 DEF Closed, Dropping, Loaded
<1> QED BY <1>1, RulesAlways, PTL

(* Wherever the last session died and whatever had failed in it, a clean-up whose  *)
(* commands succeed leaves none of its rules (manager.py:335-342).                 *)
THEOREM CleanupIsComplete ==
  ASSUME EnoughRounds
  PROVE  Spec => CleanupRemovesAll
<1>1. RulesInv /\ RulesInv' /\ [Next]_vars =>
        [boot # "done" /\ boot' = "done" /\ ~faulty' =>
           nft' = {} /\ chain' = <<>> /\ ~nat' /\ ~filter']_vars
  <2> SUFFICES ASSUME RulesInv, RulesInv', Next, boot # "done", boot' = "done", ~faulty'
               PROVE  nft' = {} /\ chain' = <<>> /\ ~nat' /\ ~filter'
    BY DEF vars
  <2>1. ~Crash /\ ~RedirectStep /\ ~Cancellation
    BY DEF Crash, RedirectStep, EngageTr, RefuseTr, ReleaseTr, BootTr, TrNat, TrFilter, TrAdd,
       Cancellation, CancelKs, CancelTr, OrphanEnds
  <2>2. KillSwitchStep
    BY <2>1 DEF Next
  <2>3. Succeeds /\ ~Fails /\ ~faulty
    BY <2>2, Faults DEF RulesInv
  <2>4. BootKs \/ KsDelete \/ KsFlushed
    BY <2>2 DEF KillSwitchStep, EngageKs, ReleaseKs, KsAdd, KsFlushRound, KsAccept, KsDrop
  <2>5. boot = "killswitch" /\ UNCHANGED <<nat, filter>>
    BY <2>4 DEF BootKs, KsDelete, KsFlushed, Released, kernel, Begin
  <2>6. ksPc' = "idle" /\ ksActive' = FALSE /\ cut' = {}
    <3>1. ksActive = FALSE
      BY DEF RulesInv, Boots, TypeOK, KillSwitchOK
    <3>2. cut' = {}
      <4>1. cut = {} /\ cut' \in {cut, cut \ {"ks"}, cut \ {"tr"}}
        BY <2>2, AsideType DEF RulesInv, LeftOvers
      <4> QED BY <4>1
    <3>3. ksPc' = "idle"
      BY <2>4 DEF BootKs, KsDelete, KsFlushed, Released, Begin, ksVars
    <3>4. ksActive' = FALSE
      BY <2>4, <3>1 DEF BootKs, KsDelete, KsFlushed, Released, Begin, ksVars
    <3> QED BY <3>2, <3>3, <3>4
  <2> QED BY <2>3, <2>5, <2>6 DEF RulesInv, RuleSet, Swept, KsIdle
<1> QED BY <1>1, RulesAlways, PTL DEF Spec, CleanupRemovesAll
=============================================================================
