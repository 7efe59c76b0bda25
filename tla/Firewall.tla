------------------------------ MODULE Firewall ------------------------------
(***************************************************************************)
(* The rules NEXTRON installs in the kernel: the kill switch of            *)
(* vpn/killswitch.py and the Tor redirect of routing/transparent.py.       *)
(*                                                                         *)
(* Engaging and releasing are sequences of commands, each a child process  *)
(* that may fail; what they change outlives a crash of the program, and    *)
(* the next start cleans up (cleanup_stale_rules).  An action is one       *)
(* command and the code up to the next one.  A key that cancels a connect  *)
(* cuts an operation off at any command, and that command goes on without  *)
(* its caller.  The VPN engine's lock makes the kill switch's operations   *)
(* sequential and the routing lock those of the redirect.  The start-up    *)
(* clean-up ends before the first operation, as in a headless session;     *)
(* module Session has it beside a connect.                                 *)
(*                                                                         *)
(* A rule is named by the phase it was loaded for, as the two phases admit *)
(* different interfaces; the final rule is "drop".  As in Session, an      *)
(* operator that nothing uses is a plausible wrong version of the one      *)
(* below it.                                                               *)
(***************************************************************************)
EXTENDS Naturals, Sequences

CONSTANTS
  Accepts,     \* ACCEPT rules of one iptables rule set
  MaxDeletes,  \* rules one _release_iptables removes at most (64 in the code)
  MaxFaults    \* bound: commands that fail, or outlive a cancelled caller, in a behaviour

ASSUME AcceptsAssumption == Accepts \in Nat \ {0}
ASSUME DeletesAssumption == MaxDeletes \in Nat
ASSUME FaultsAssumption == MaxFaults \in Nat

Phases == {"transition", "steady"}

VARIABLES
  backend,          \* KillSwitch.backend_name(): the machine has nft or only iptables
  nft, chain,       \* kernel: rule sets in the kill switch's table; NEXTRON's OUTPUT rules
  nat, filter,      \* kernel: the redirect's two tables
  ksPc, ksGoal,     \* the kill switch's operation: next command, what it is for
  phase,            \* the rule set being engaged, or engaged last
  left, tries,      \* ACCEPT rules still to append; rounds of _release_iptables
  ksActive,         \* KillSwitch._active
  trPc, trGoal, trActive,
  boot,             \* progress of cleanup_stale_rules
  faults, faulty,   \* commands that failed or were left behind; one failed in this session
  orphans,          \* a command whose caller was cancelled and which still runs
  cut               \* history: whose operation was cut off, and none has run through since

kernel == <<nft, chain, nat, filter>>
ksVars == <<ksPc, ksGoal, phase, left, tries, ksActive>>
trVars == <<trPc, trGoal, trActive>>
aside == <<orphans, cut>>
vars == <<backend, kernel, ksVars, trVars, boot, faults, faulty, aside>>

(* What a command does to the kernel, with the rule it is about. *)
Rules == Phases \cup {"drop"}
KsCommands ==
  [does : {"delete", "-D", "-A"}, rule : Rules] \cup [does : {"load"}, rule : Phases]
TrCommands == [does : {"nat", "filter", "redirect"}, rule : {"drop"}]

KernelOK ==
  /\ backend \in {"nftables", "iptables"}
  /\ nft \in SUBSET Phases /\ chain \in Seq(Rules)
  /\ nat \in BOOLEAN /\ filter \in BOOLEAN
KillSwitchOK ==
  /\ ksPc \in {"idle", "delete", "add", "flush", "append"}
  /\ ksGoal \in {"engage", "release"} /\ phase \in Phases
  /\ left \in 0..Accepts /\ tries \in 0..MaxDeletes /\ ksActive \in BOOLEAN
RedirectOK ==
  /\ trPc \in {"idle", "nat", "filter", "add"}
  /\ trGoal \in {"engage", "release"} /\ trActive \in BOOLEAN
LifeOK ==
  /\ boot \in {"transparent", "killswitch", "done"}
  /\ faults \in 0..MaxFaults /\ faulty \in BOOLEAN
AsideOK ==
  /\ orphans \subseteq KsCommands \cup TrCommands /\ cut \subseteq {"ks", "tr"}

TypeOK == KernelOK /\ KillSwitchOK /\ RedirectOK /\ LifeOK /\ AsideOK

Init ==
  /\ backend \in {"nftables", "iptables"}
  /\ nft = {} /\ chain = <<>> /\ nat = FALSE /\ filter = FALSE
  /\ ksPc = "idle" /\ ksGoal = "release" /\ phase = "transition"
  /\ left = 0 /\ tries = 0 /\ ksActive = FALSE
  /\ trPc = "idle" /\ trGoal = "release" /\ trActive = FALSE
  /\ boot = "transparent" /\ faults = 0 /\ faulty = FALSE
  /\ orphans = {} /\ cut = {}

(* A command succeeds, or it fails; one that ran into its time limit may have *)
(* taken effect all the same, which matters where the code looks.             *)
Succeeds == UNCHANGED <<faults, faulty>>
Fails == faults < MaxFaults /\ faults' = faults + 1 /\ faulty' = TRUE

(* The machine's own traffic is dropped unless a rule admits it. *)
Dropping == \E i \in DOMAIN chain : chain[i] = "drop"
Closed == nft # {} \/ Dropping

-----------------------------------------------------------------------------
(* Kill switch. *)

(* Where engage and release begin; a release deletes before it finishes.  One that *)
(* no left-behind command disturbs makes up for one that was cut off.              *)
FirstCommand == IF backend = "nftables" THEN "delete" ELSE "flush"

Undisturbed(part, commands) == cut' = IF orphans \cap commands = {} THEN cut \ {part} ELSE cut

BeginKeepsTries(goal) ==
  /\ ksPc' = FirstCommand /\ ksGoal' = goal /\ Undisturbed("ks", KsCommands)
  /\ UNCHANGED <<backend, kernel, left, tries, ksActive, trVars, orphans>>
Begin(goal) ==
  /\ ksPc' = FirstCommand /\ ksGoal' = goal /\ tries' = 0 /\ Undisturbed("ks", KsCommands)
  /\ UNCHANGED <<backend, kernel, left, ksActive, trVars, orphans>>

(* The transition guard engages first; the steady state follows it. *)
EngageKs(p) ==
  /\ boot = "done" /\ ksPc = "idle"
  /\ p = "steady" => phase = "transition"
  /\ phase' = p
  /\ Begin("engage") /\ Succeeds /\ UNCHANGED boot

(* VPNEngine.disconnect releases a kill switch that is active. *)
ReleaseKs ==
  /\ boot = "done" /\ ksPc = "idle" /\ ksActive
  /\ Begin("release") /\ Succeeds /\ UNCHANGED <<phase, boot>>

(* is_installed at start-up, then release(force=True). *)
KsInstalled == nft # {} \/ chain # <<>>

BootKs ==
  /\ boot = "killswitch" /\ ksPc = "idle"
  /\ \/ KsInstalled /\ Succeeds /\ Begin("release") /\ UNCHANGED <<phase, boot>>
     \/ /\ (~KsInstalled /\ Succeeds) \/ (KsInstalled /\ Fails)
        /\ boot' = "done" /\ UNCHANGED <<backend, kernel, ksVars, trVars, aside>>

Released ==
  /\ ksPc' = "idle" /\ ksActive' = FALSE
  /\ boot' = IF boot = "killswitch" THEN "done" ELSE boot
  /\ UNCHANGED <<phase, left>>

(* nft delete table: its outcome is not looked at. *)
KsDelete ==
  /\ ksPc = "delete"
  /\ (nft' = {} /\ Succeeds) \/ (nft # {} /\ UNCHANGED nft /\ Fails)
  /\ IF ksGoal = "engage"
     THEN ksPc' = "add" /\ UNCHANGED <<phase, left, ksActive, boot>>
     ELSE Released
  /\ UNCHANGED <<backend, chain, nat, filter, ksGoal, tries, trVars, aside>>

(* nft -f: a table that is still there gets the new rules on top of its own. *)
KsAdd ==
  /\ ksPc = "add"
  /\ \/ nft' = nft \cup {phase} /\ ksActive' = TRUE /\ Succeeds
     \/ nft' \in {nft, nft \cup {phase}} /\ ksActive' = FALSE /\ Fails
  /\ ksPc' = "idle"
  /\ UNCHANGED <<backend, chain, nat, filter, ksGoal, phase, left, tries, trVars, boot, aside>>

(* One round of _release_iptables: list, then delete the first tagged rule. *)
FlushEnds == chain = <<>> \/ tries = MaxDeletes

KsFlushRound ==
  /\ ksPc = "flush" /\ ~FlushEnds
  /\ (chain' = Tail(chain) /\ Succeeds) \/ (UNCHANGED chain /\ Fails)
  /\ tries' = tries + 1
  /\ UNCHANGED <<backend, nft, nat, filter, ksPc, ksGoal, phase, left, ksActive,
                 trVars, boot, aside>>

(* Nothing is left, the rounds are used up, or the listing failed. *)
KsFlushed ==
  /\ ksPc = "flush"
  /\ (FlushEnds /\ Succeeds) \/ Fails
  /\ IF ksGoal = "engage"
     THEN ksPc' = "append" /\ left' = Accepts /\ UNCHANGED <<phase, ksActive, boot>>
     ELSE Released
  /\ UNCHANGED <<backend, kernel, ksGoal, tries, trVars, aside>>

(* A rejected rule raises PrivilegeError, which engage turns into "not active". *)
RejectedAppend(rule) ==
  /\ chain' \in {chain, Append(chain, rule)} /\ UNCHANGED left /\ Fails
  /\ ksPc' = "idle" /\ ksActive' = FALSE

MoreAccepts == left > 0

KsAccept ==
  /\ ksPc = "append" /\ MoreAccepts
  /\ \/ /\ chain' = Append(chain, phase) /\ left' = left - 1 /\ Succeeds
        /\ UNCHANGED <<ksPc, ksActive>>
     \/ RejectedAppend(phase)
  /\ UNCHANGED <<backend, nft, nat, filter, ksGoal, phase, tries, trVars, boot, aside>>

(* The last command of _engage_iptables, without its check and with it. *)
DropUnchecked ==
  /\ (chain' = Append(chain, "drop") /\ Succeeds) \/ (UNCHANGED chain /\ Fails)
  /\ ksPc' = "idle" /\ ksActive' = TRUE /\ UNCHANGED left
DropChecked ==
  \/ /\ chain' = Append(chain, "drop") /\ Succeeds
     /\ ksPc' = "idle" /\ ksActive' = TRUE /\ UNCHANGED left
  \/ RejectedAppend("drop")

KsDrop ==
  /\ ksPc = "append" /\ left = 0
  /\ DropChecked
  /\ UNCHANGED <<backend, nft, nat, filter, ksGoal, phase, tries, trVars, boot, aside>>

-----------------------------------------------------------------------------
(* Tor redirect: nat sends TCP and DNS to Tor, filter drops what cannot go there. *)

BeginTrAtFilter(goal) ==
  /\ trPc' = "filter" /\ trGoal' = goal /\ Undisturbed("tr", TrCommands)
  /\ UNCHANGED <<backend, kernel, ksVars, trActive, orphans>>
BeginTr(goal) ==
  /\ trPc' = "nat" /\ trGoal' = goal /\ Undisturbed("tr", TrCommands)
  /\ UNCHANGED <<backend, kernel, ksVars, trActive, orphans>>

EngageTr ==
  /\ boot = "done" /\ trPc = "idle" /\ backend = "nftables"
  /\ BeginTr("engage") /\ Succeeds /\ UNCHANGED boot

(* available() refuses: this Tor runs under an account that cannot be exempted. *)
RefuseTr ==
  /\ boot = "done" /\ trPc = "idle"
  /\ trActive' = FALSE /\ Succeeds
  /\ UNCHANGED <<backend, kernel, ksVars, trPc, trGoal, boot, aside>>

ReleaseTr ==
  /\ boot = "done" /\ trPc = "idle" /\ trActive
  /\ BeginTr("release") /\ Succeeds /\ UNCHANGED boot

TrInstalledByNat == nat
TrInstalled == nat \/ filter

BootTr ==
  /\ boot = "transparent" /\ trPc = "idle"
  /\ \/ TrInstalled /\ Succeeds /\ BeginTr("release") /\ UNCHANGED boot
     \/ /\ (~TrInstalled /\ Succeeds) \/ (TrInstalled /\ Fails)
        /\ boot' = "killswitch" /\ UNCHANGED <<backend, kernel, ksVars, trVars, aside>>

(* nft delete of each table in turn, nat first. *)
TrNat ==
  /\ trPc = "nat"
  /\ (nat' = FALSE /\ Succeeds) \/ (nat /\ UNCHANGED nat /\ Fails)
  /\ trPc' = "filter"
  /\ UNCHANGED <<backend, nft, chain, filter, ksVars, trGoal, trActive, boot, aside>>

TrFilter ==
  /\ trPc = "filter"
  /\ (filter' = FALSE /\ Succeeds) \/ (filter /\ UNCHANGED filter /\ Fails)
  /\ IF trGoal = "engage"
     THEN trPc' = "add" /\ UNCHANGED <<trActive, boot>>
     ELSE /\ trPc' = "idle" /\ trActive' = FALSE
          /\ boot' = IF boot = "transparent" THEN "killswitch" ELSE boot
  /\ UNCHANGED <<backend, nft, chain, nat, ksVars, trGoal, aside>>

(* One nft -f loads both tables. *)
LoadBoth == nat' = TRUE /\ filter' = TRUE

TrAdd ==
  /\ trPc = "add"
  /\ \/ LoadBoth /\ trActive' = TRUE /\ Succeeds
     \/ (LoadBoth \/ UNCHANGED <<nat, filter>>) /\ trActive' = FALSE /\ Fails
  /\ trPc' = "idle"
  /\ UNCHANGED <<backend, nft, chain, ksVars, trGoal, boot, aside>>

-----------------------------------------------------------------------------
(* Cancellation.  The operation ends at its command, with its flag as it was; the child *)
(* that runs the command is not ended with it.                                          *)

(* The command an operation waits for, when it changes anything. *)
KsRunning ==
  {c \in KsCommands :
     \/ ksPc = "delete" /\ c = [does |-> "delete", rule |-> "drop"]
     \/ ksPc = "add" /\ c = [does |-> "load", rule |-> phase]
     \/ ksPc = "flush" /\ chain # <<>> /\ c = [does |-> "-D", rule |-> chain[1]]
     \/ ksPc = "append" /\ c = [does |-> "-A", rule |-> IF MoreAccepts THEN phase ELSE "drop"]}
TrRunning ==
  {c \in TrCommands : c.does = IF trPc = "add" THEN "redirect" ELSE trPc}

Without(i) == [j \in 1 .. Len(chain) - 1 |-> IF j < i THEN chain[j] ELSE chain[j + 1]]
KsEffect(c) ==
  /\ \/ c.does = "delete" /\ nft' = {} /\ UNCHANGED chain
     \/ c.does = "load" /\ nft' = nft \cup {c.rule} /\ UNCHANGED chain
     \/ c.does = "-A" /\ chain' = Append(chain, c.rule) /\ UNCHANGED nft
     \/ /\ c.does = "-D" /\ UNCHANGED nft
        /\ \E i \in DOMAIN chain : chain[i] = c.rule /\ chain' = Without(i)
  /\ UNCHANGED <<nat, filter>>
TrEffect(c) ==
  /\ \/ c.does = "nat" /\ nat' = FALSE /\ UNCHANGED filter
     \/ c.does = "filter" /\ filter' = FALSE /\ UNCHANGED nat
     \/ c.does = "redirect" /\ LoadBoth
  /\ UNCHANGED <<nft, chain>>

(* It has done its work, never does, or does it later; bound: one of these at a time. *)
LeftBehind(running) ==
  \/ UNCHANGED <<kernel, orphans, faults>>
  \/ (\E c \in running : KsEffect(c) \/ TrEffect(c)) /\ UNCHANGED <<orphans, faults>>
  \/ /\ orphans = {} /\ (\E c \in running : orphans' = {c})
     /\ faults < MaxFaults /\ faults' = faults + 1
     /\ UNCHANGED kernel

CancelKs ==
  /\ boot = "done" /\ ksPc # "idle" /\ ksPc' = "idle" /\ cut' = cut \cup {"ks"}
  /\ LeftBehind(KsRunning)
  /\ UNCHANGED <<backend, ksGoal, phase, left, tries, ksActive, trVars, boot, faulty>>

CancelTr ==
  /\ boot = "done" /\ trPc # "idle" /\ trPc' = "idle" /\ cut' = cut \cup {"tr"}
  /\ LeftBehind(TrRunning)
  /\ UNCHANGED <<backend, ksVars, trGoal, trActive, boot, faulty>>

OrphanEnds ==
  /\ orphans # {} /\ orphans' = {}
  /\ UNCHANGED kernel \/ \E c \in orphans : KsEffect(c) \/ TrEffect(c)
  /\ UNCHANGED <<backend, ksVars, trVars, boot, faults, faulty, cut>>

-----------------------------------------------------------------------------
(* The program dies at any point and is started again, when no command runs any more. *)
Crash ==
  /\ orphans = {} /\ cut' = {}
  /\ ksPc' = "idle" /\ ksActive' = FALSE /\ trPc' = "idle" /\ trActive' = FALSE
  /\ ksGoal' = "release" /\ phase' = "transition" /\ left' = 0 /\ tries' = 0
  /\ trGoal' = "release"
  /\ boot' = "transparent" /\ faulty' = FALSE
  /\ UNCHANGED <<backend, kernel, faults, orphans>>

KillSwitchStep ==
  \/ \E p \in Phases : EngageKs(p)
  \/ ReleaseKs \/ BootKs
  \/ KsDelete \/ KsAdd \/ KsFlushRound \/ KsFlushed \/ KsAccept \/ KsDrop

RedirectStep ==
  EngageTr \/ RefuseTr \/ ReleaseTr \/ BootTr \/ TrNat \/ TrFilter \/ TrAdd

Cancellation == CancelKs \/ CancelTr \/ OrphanEnds

Next == KillSwitchStep \/ RedirectStep \/ Cancellation \/ Crash

Spec == Init /\ [][Next]_vars
-----------------------------------------------------------------------------
KsIdle == ksPc = "idle" /\ boot = "done"
TrIdle == trPc = "idle" /\ boot = "done"

(* Whatever command fails and whenever the program died before, a kill switch   *)
(* that says it is active has a drop rule in the kernel, unless an operation    *)
(* was cancelled and none has run through since (killswitch.py:14-16, 122-141). *)
NeverPretends == KsIdle /\ ksActive /\ "ks" \notin cut => Closed

(* A redirect that says it is active is complete: what Tor cannot carry is      *)
(* dropped, with the same exception (transparent.py:131-146, 224-237).          *)
RedirectComplete == TrIdle /\ trActive /\ "tr" \notin cut => nat /\ filter

(* As long as every command succeeds and none outlives a cancelled caller, the  *)
(* kernel never redirects without dropping what cannot be redirected, not even  *)
(* between two commands, after a cancellation or after a crash                  *)
(* (transparent.py:210-215, 250-253).                                           *)
NoLeakBesideRedirect == faults = 0 => (nat => filter)

Loaded == (nft \cup {chain[i] : i \in DOMAIN chain}) \ {"drop"}

(* In a session whose commands all succeed the flag and the kernel agree, and   *)
(* only the rule set engaged last is loaded: nothing of an earlier phase, of an *)
(* earlier engagement or of an earlier session that failed on its way.  After   *)
(* an operation that was cancelled this holds again from the next one that runs *)
(* through, whatever the cancelled one left (killswitch.py:227-238, 246-247,    *)
(* 294-315).                                                                    *)
FlagMatchesKernel ==
  KsIdle /\ ~faulty /\ "ks" \notin cut => IF ksActive THEN Closed /\ Loaded = {phase}
                                                    ELSE ~Closed /\ Loaded = {}

(* The start-up clean-up removes everything a crashed session left, at whatever *)
(* command it died and whatever had failed in it (manager.py:335-342).          *)
CleanupRemovesAll ==
  [][boot # "done" /\ boot' = "done" /\ ~faulty' =>
       nft' = {} /\ chain' = <<>> /\ ~nat' /\ ~filter']_vars
=============================================================================
