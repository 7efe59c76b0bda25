----------------------------- MODULE Blocklists -----------------------------
(***************************************************************************)
(* The blocklists on disk: the folder of lists (dns/blocklist.py), the     *)
(* drop-box it mirrors (core/runtime.py), the catalogue of addresses and   *)
(* the download of all of them (dns/sources.py), and the configuration     *)
(* that says which are enabled.  The interface runs imports and downloads  *)
(* as workers beside the user's requests; an import's copies run in        *)
(* threads, beside a scan too; `nextron dns update' (cli.py) is a program  *)
(* of its own.                                                             *)
(*                                                                         *)
(* A list is its name: what it holds, and the loading that follows every   *)
(* change, belong to Resolver.  No list of the drop-box is called          *)
(* sources.txt.                                                            *)
(*                                                                         *)
(* An operator that nothing uses is a plausible wrong version of the one   *)
(* below it.                                                               *)
(***************************************************************************)
EXTENDS Naturals

CONSTANTS
  Files,        \* names the user gives his lists
  Spares,       \* names the program makes up when one is taken
  Urls,         \* addresses a catalogue can hold
  Filename(_),  \* the name of the list that comes from an address
  Jobs,         \* workers the interface can have at a time
  MaxChanges    \* bound: what the user asks for

Own == Files \cup Spares
Names == Own \cup {Filename(u) : u \in Urls}
None == "none"

ASSUME BoundAssumption == MaxChanges \in Nat

VARIABLES
  box,        \* the lists in Sources/DNS list
  dropped,    \* the addresses of a catalogue in Sources/DNS list, if there is one
  dir,        \* the lists in dns/
  catalogue,  \* dns/sources.txt: per address, absent, on or off
  conf,       \* config.toml: dns.enabled_blocklists
  tui,        \* the interface: off, boot, idle or scan
  mem,        \* its enabled_blocklists
  scan,       \* the scan under way
  job,        \* per worker: what it does, and how far it is
  cli,        \* the download of the command line
  chosen,     \* history: lists the user switched on last, in this session
  settled,    \* history: a scan is under way, or ended without a change, and nothing
              \*   happened since
  changes     \* bound: what the user asked for so far

sources == <<box, dropped, catalogue>>
interface == <<tui, mem, scan>>
vars == <<sources, dir, conf, interface, job, cli, chosen, settled, changes>>

NoScan == [todo |-> {}, merge |-> FALSE, held |-> {}, kept |-> {}, wanted |-> {},
           enabled |-> {}, changed |-> FALSE]
NoJob == [step |-> "none", name |-> None, left |-> {}, wrote |-> {}, saw |-> {}]

Scans == [todo : SUBSET Own, merge : BOOLEAN, held : SUBSET Names, kept : SUBSET Names,
          wanted : SUBSET Names, enabled : SUBSET Names, changed : BOOLEAN]
Work == [step : {"none", "adopt", "store", "enable", "fetch", "save"}, name : Own \cup {None},
         left : SUBSET Urls, wrote : SUBSET Names, saw : SUBSET Names]

TypeOK ==
  /\ box \subseteq Own /\ dropped \subseteq Urls
  /\ catalogue \in [Urls -> {"absent", "on", "off"}]
  /\ dir \subseteq Names /\ conf \subseteq Names /\ mem \subseteq Names /\ chosen \subseteq Names
  /\ tui \in {"off", "boot", "idle", "scan"} /\ scan \in Scans
  /\ job \in [Jobs -> Work] /\ cli \in Work
  /\ settled \in {"no", "begun", "yes"} /\ changes \in 0..MaxChanges

-----------------------------------------------------------------------------
Listed(state) == {u \in Urls : catalogue[u] \in state}
Downloaded == {Filename(u) : u \in Listed({"on", "off"})}

(* The name a list is copied under: its own, or one that is free. *)
Free(n, taken) == IF n \notin taken THEN {n} ELSE Spares \ taken

Init ==
  /\ box = {} /\ dropped = {} /\ dir = {} /\ catalogue = [u \in Urls |-> "absent"]
  /\ conf = {} /\ tui = "off" /\ mem = {} /\ scan = NoScan
  /\ job = [j \in Jobs |-> NoJob] /\ cli = NoJob
  /\ chosen = {} /\ settled = "no" /\ changes = 0

Asks == changes < MaxChanges /\ changes' = changes + 1
Unsettled == settled' = "no"

(* Enabled lists are changed in memory and the whole configuration is written. *)
Enable(names) == mem' = names /\ conf' = names

Start ==
  /\ tui = "off" /\ tui' = "boot" /\ mem' = conf
  /\ UNCHANGED <<sources, dir, conf, scan, job, cli, chosen, settled, changes>>

(* Quit, or killed at any point: what the workers were doing is not done. *)
Ends ==
  /\ tui # "off" /\ tui' = "off" /\ mem' = {} /\ scan' = NoScan
  /\ job' = [j \in Jobs |-> NoJob] /\ chosen' = {} /\ Unsettled
  /\ UNCHANGED <<sources, dir, conf, cli, changes>>

-----------------------------------------------------------------------------
(* _sync_dns_sources. *)

IsUrlCatalogue == dropped # {}

BeginScan ==
  /\ tui \in {"boot", "idle"} /\ tui' = "scan" /\ settled' = "begun"
  /\ scan' = [NoScan EXCEPT !.todo = box, !.merge = IsUrlCatalogue, !.held = dir,
                            !.kept = Downloaded, !.enabled = mem]
  /\ UNCHANGED <<sources, dir, conf, mem, job, cli, chosen, changes>>

(* A dropped catalogue: addresses that are not known are added, switched on. *)
MergeCatalogue ==
  /\ tui = "scan" /\ scan.merge
  /\ catalogue' = [u \in Urls |-> IF u \in dropped /\ catalogue[u] = "absent" THEN "on"
                                  ELSE catalogue[u]]
  /\ scan' = [scan EXCEPT !.merge = FALSE, !.changed = @ \/ catalogue' # catalogue]
  /\ UNCHANGED <<box, dropped, dir, conf, tui, mem, job, cli, chosen, settled, changes>>

ScanFile(n) ==
  /\ tui = "scan" /\ n \in scan.todo
  /\ LET looked == [scan EXCEPT !.todo = @ \ {n}, !.wanted = @ \cup {n}] IN
     \/ n \in scan.held \cup (Own \ box) /\ scan' = looked /\ UNCHANGED dir
     \/ /\ n \in box \ scan.held
        /\ \E m \in Free(n, dir) :
             /\ dir' = dir \cup {m}
             /\ scan' = [looked EXCEPT !.enabled = @ \cup {m}, !.changed = TRUE]
  /\ UNCHANGED <<sources, conf, tui, mem, job, cli, chosen, settled, changes>>

LeavingIfDisabled == scan.held \ (scan.wanted \cup scan.kept \cup mem)
Leaving == scan.held \ (scan.wanted \cup scan.kept)

ScanRemove(n) ==
  /\ tui = "scan" /\ ~scan.merge /\ scan.todo = {} /\ n \in Leaving
  /\ dir' = dir \ {n} /\ chosen' = chosen \ {n}
  /\ scan' = [scan EXCEPT !.held = @ \ {n}, !.enabled = @ \ {n}, !.changed = TRUE]
  /\ UNCHANGED <<sources, conf, tui, mem, job, cli, settled, changes>>

EndScan ==
  /\ tui = "scan" /\ ~scan.merge /\ scan.todo = {} /\ Leaving = {}
  /\ tui' = "idle" /\ scan' = NoScan
  /\ IF scan.changed THEN Enable(scan.enabled) ELSE UNCHANGED <<mem, conf>>
  /\ settled' = IF scan.changed \/ settled = "no" THEN "no" ELSE "yes"
  /\ UNCHANGED <<sources, dir, job, cli, chosen, changes>>

-----------------------------------------------------------------------------
(* import_blocklist: two threads, and then the event loop. *)

Idle(j) == job[j].step = "none"
Becomes(j, r) == job' = [job EXCEPT ![j] = r]

ImportList(j, n) ==
  /\ tui = "idle" /\ Idle(j) /\ Asks /\ Becomes(j, [NoJob EXCEPT !.step = "adopt", !.name = n])
  /\ UNCHANGED <<sources, dir, conf, interface, cli, chosen, settled>>

(* In the drop-box under its name, or under another if a different list has it. *)
Adopt(j) ==
  /\ job[j].step = "adopt"
  /\ \E m \in {job[j].name} \cup (IF job[j].name \in box THEN Spares \ box ELSE {}) :
       /\ box' = box \cup {m} /\ Becomes(j, [job[j] EXCEPT !.step = "store", !.name = m])
  /\ Unsettled
  /\ UNCHANGED <<dropped, catalogue, dir, conf, interface, cli, chosen, changes>>

StoreList(j) ==
  /\ job[j].step = "store" /\ job[j].name \in box
  /\ \E m \in Free(job[j].name, dir) :
       dir' = dir \cup {m} /\ Becomes(j, [job[j] EXCEPT !.step = "enable", !.name = m])
  /\ Unsettled
  /\ UNCHANGED <<sources, conf, interface, cli, chosen, changes>>

(* The file left the drop-box in between. *)
StoreFails(j) ==
  /\ job[j].step = "store" /\ job[j].name \notin box /\ Becomes(j, NoJob)
  /\ UNCHANGED <<sources, dir, conf, interface, cli, chosen, settled, changes>>

EnableImported(j) ==
  /\ tui = "idle" /\ job[j].step = "enable" /\ Becomes(j, NoJob)
  /\ Enable(mem \cup {job[j].name}) /\ chosen' = chosen \cup {job[j].name}
  /\ UNCHANGED <<sources, dir, tui, scan, cli, settled, changes>>

(* set_blocklist_enabled, remove_blocklist.  With none enabled, all are shown as such. *)
ToggleList(n) ==
  /\ tui = "idle" /\ Asks /\ n \in dir
  /\ \/ (n \in mem \/ mem = {}) /\ Enable(mem \ {n}) /\ chosen' = chosen \ {n}
     \/ n \notin mem /\ mem # {} /\ Enable(mem \cup {n}) /\ chosen' = chosen \cup {n}
  /\ UNCHANGED <<sources, dir, tui, scan, job, cli, settled>>

RemoveList(n) ==
  /\ tui = "idle" /\ Asks /\ n \in dir /\ dir' = dir \ {n} /\ Unsettled
  /\ Enable(mem \ {n}) /\ chosen' = chosen \ {n}
  /\ UNCHANGED <<sources, tui, scan, job, cli>>

-----------------------------------------------------------------------------
(* update_blocklists: every address that is on, and each answer in its own time. *)

Update(j) ==
  /\ tui = "idle" /\ Idle(j) /\ Asks /\ Listed({"on"}) # {}
  /\ Becomes(j, [NoJob EXCEPT !.step = "fetch", !.left = Listed({"on"}), !.saw = mem])
  /\ UNCHANGED <<sources, dir, conf, interface, cli, chosen, settled>>

(* Nothing is written of a download that failed or holds nothing to block. *)
Fetched(r, u, ok) ==
  [r EXCEPT !.left = @ \ {u}, !.wrote = IF ok THEN @ \cup {Filename(u)} ELSE @]
Written(u, ok) == dir' = IF ok THEN dir \cup {Filename(u)} ELSE dir

Fetch(j, u) ==
  /\ tui = "idle" /\ job[j].step = "fetch" /\ u \in job[j].left
  /\ \E ok \in BOOLEAN : Written(u, ok) /\ Becomes(j, Fetched(job[j], u, ok))
  /\ Unsettled
  /\ UNCHANGED <<sources, conf, interface, cli, chosen, changes>>

EnablesOnWhatItSaw(j) == Enable(job[j].saw \cup job[j].wrote)
EnablesWritten(j) == Enable(mem \cup job[j].wrote)

Updated(j) ==
  /\ tui = "idle" /\ job[j].step = "fetch" /\ job[j].left = {} /\ Becomes(j, NoJob)
  /\ IF job[j].wrote = {} THEN UNCHANGED <<mem, conf>> ELSE EnablesWritten(j)
  /\ UNCHANGED <<sources, dir, tui, scan, cli, chosen, settled, changes>>

-----------------------------------------------------------------------------
(* `nextron dns update'.  (`dns import' fails before it changes anything, on the name *)
(* it gives its argument: cli.py:637, 664.)                                           *)

CliUpdate ==
  /\ cli.step = "none" /\ Asks /\ Listed({"on"}) # {}
  /\ cli' = [NoJob EXCEPT !.step = "fetch", !.left = Listed({"on"})]
  /\ UNCHANGED <<sources, dir, conf, interface, job, chosen, settled>>

CliFetch(u) ==
  /\ cli.step = "fetch" /\ u \in cli.left
  /\ \E ok \in BOOLEAN : Written(u, ok) /\ cli' = Fetched(cli, u, ok)
  /\ Unsettled
  /\ UNCHANGED <<sources, conf, interface, job, chosen, changes>>

CliReadsConfig ==
  /\ cli.step = "fetch" /\ cli.left = {} /\ cli' = [cli EXCEPT !.step = "save", !.saw = conf]
  /\ UNCHANGED <<sources, dir, conf, interface, job, chosen, settled, changes>>

CliWritesConfig ==
  /\ cli.step = "save" /\ cli' = NoJob /\ conf' = cli.saw \cup cli.wrote
  /\ UNCHANGED <<sources, dir, interface, job, chosen, settled, changes>>

CliKilled ==
  /\ cli.step # "none" /\ cli' = NoJob
  /\ UNCHANGED <<sources, dir, conf, interface, job, chosen, settled, changes>>

-----------------------------------------------------------------------------
(* The user's file manager and editor. *)

BoxChanges(n) ==
  /\ Asks /\ box' \in {box \cup {n}, box \ {n}} \ {box} /\ Unsettled
  /\ UNCHANGED <<dropped, catalogue, dir, conf, interface, job, cli, chosen>>

CatalogueDropped ==
  /\ Asks /\ dropped' \in (SUBSET Urls) \ {dropped} /\ Unsettled
  /\ UNCHANGED <<box, catalogue, dir, conf, interface, job, cli, chosen>>

CatalogueEdited(u) ==
  /\ Asks /\ \E s \in {"absent", "on", "off"} : catalogue' = [catalogue EXCEPT ![u] = s]
  /\ Unsettled
  /\ UNCHANGED <<box, dropped, dir, conf, interface, job, cli, chosen>>

(* `config reset', among others. *)
CliReset ==
  /\ Asks /\ conf' = {}
  /\ UNCHANGED <<sources, dir, interface, job, cli, chosen, settled>>

Rests == tui = "off" /\ cli.step = "none" /\ UNCHANGED vars

Scan ==
  \/ BeginScan \/ MergeCatalogue \/ EndScan
  \/ (\E n \in scan.todo : ScanFile(n)) \/ (\E n \in scan.held : ScanRemove(n))

ShieldScreen ==
  \/ \E n \in dir : ToggleList(n) \/ RemoveList(n)
  \/ \E j \in Jobs : Update(j) \/ \E n \in Files : ImportList(j, n)

Worker(j) ==
  \/ Adopt(j) \/ StoreList(j) \/ StoreFails(j) \/ EnableImported(j)
  \/ Updated(j) \/ (\E u \in job[j].left : Fetch(j, u))

Command ==
  \/ CliUpdate \/ CliReset \/ CliReadsConfig \/ CliWritesConfig \/ CliKilled
  \/ \E u \in cli.left : CliFetch(u)

Next ==
  \/ Start \/ Ends \/ Scan \/ ShieldScreen \/ Command \/ Rests
  \/ \E j \in Jobs : Worker(j)
  \/ CatalogueDropped \/ (\E n \in Files : BoxChanges(n)) \/ (\E u \in Urls : CatalogueEdited(u))

Spec == Init /\ [][Next]_vars
-----------------------------------------------------------------------------
(* What the lists promise. *)

(* A scan that reports no change leaves the lists of the drop-box and what was       *)
(* downloaded, and nothing else: no second copy of an import that a scan overtook    *)
(* (runtime.py:391-460, shield.py:213-232).                                          *)
ListsSettle == settled = "yes" => box \subseteq dir /\ dir \subseteq box \cup Downloaded

(* A list the user switched on stays on until he switches it off or it is removed,   *)
(* whatever download, import or scan ends in between                                 *)
(* (runtime.py:173-198, 448-459, shield.py:224-250).                                 *)
ChoiceKept == tui # "off" => chosen \subseteq mem
=============================================================================
