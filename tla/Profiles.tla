------------------------------ MODULE Profiles ------------------------------
(***************************************************************************)
(* The VPN profile library (vpn/profiles.py), the drop-box it mirrors      *)
(* (core/runtime.py), the configuration that names its profiles            *)
(* (core/config.py) and the two programs that write them: the interface,   *)
(* which keeps library and configuration in memory for hours, and          *)
(* `nextron vpn ...' (cli.py), which loads, changes and saves them beside  *)
(* it.  Either program may be killed between two writes.                   *)
(*                                                                         *)
(* A configuration text is a value; a profile keeps its identity, its file *)
(* and whether it was edited since it was made (its name, favourite mark   *)
(* and credentials).  Writing a file or the index first empties it; the    *)
(* configuration is replaced in one step.  Writes do not fail here.        *)
(*                                                                         *)
(* An operator that nothing uses is a plausible wrong version of the one   *)
(* below it.                                                               *)
(***************************************************************************)
EXTENDS Naturals, FiniteSets

CONSTANTS
  Texts,        \* what a file of the drop-box can hold
  Inner(_),     \* the configuration in it: a descriptor (.json) carries one
  Usable(_),    \* the configuration has a protocol and a server address
  Detected(_),  \* its words say which protocol it is for
  Ids,          \* identities; bound: how many profiles are ever made
  MaxChanges    \* bound: what the user asks for

None == "none"

ASSUME IdAssumption == IsFiniteSet(Ids) /\ None \notin Ids
ASSUME TextAssumption == None \notin Texts /\ \A t \in Texts : Inner(t) \in Texts
ASSUME BoundAssumption == MaxChanges \in Nat

Programs == {"tui", "cli"}
Profile == [id : Ids, file : Ids, edited : BOOLEAN]
Config == [active : Ids \cup {None}, pool : SUBSET Ids]
Emptied == {"empty.conf", "empty.ovpn"}  \* what a file that was opened and not written holds
Contents == Texts \cup Emptied
Torn == {[id |-> None, file |-> None, edited |-> FALSE]}  \* not an index
Defaults == [active |-> None, pool |-> {}]

VARIABLES
  files,      \* profiles/: per file, named after the first profile it had, its text
  index,      \* index.json: a set of profiles, or Torn
  conf,       \* config.toml
  box,        \* Sources/VPN Profiles: the texts in it
  saving,     \* per program: how far its write of the index is
  tui,        \* the interface: off, boot, idle or scan
  lib, mem,   \* its library and its configuration
  rotation,   \* the shuffle's pool: copies of profiles
  connecting, \* the profile it is connecting
  current,    \* the profile it is connected with
  pend,       \* the scan: still to import, still to drop, to forget, changed anything;
              \* a profile being stored: its file, opened and empty, and its text
  cli,        \* the command: off, loaded, config or done
  clib, cmem, \* its library and its configuration
  issued,     \* identities given so far
  settled,    \* history: a scan is under way, or ended without a change, and nothing happened since
  shared,     \* history: something else wrote profiles/ since the interface started
  changes     \* bound: what the user asked for so far

disk == <<files, index>>
screen == <<tui, lib, mem, rotation>>
tunnel == <<connecting, current>>
command == <<cli, clib, cmem>>
vars == <<disk, conf, box, saving, screen, tunnel, pend, command, issued, settled, shared,
          changes>>

NoScan ==
  [import |-> {}, drop |-> {}, forget |-> None, changed |-> FALSE, file |-> None, text |-> None]

TypeOK ==
  /\ files \in [Ids -> Contents \cup {None}]
  /\ index = Torn \/ index \subseteq Profile
  /\ conf \in Config /\ mem \in Config /\ cmem \in Config /\ box \subseteq Texts
  /\ saving \in [Programs -> {"no", "due", "cut", "crossed"}]
  /\ tui \in {"off", "boot", "idle", "scan"} /\ cli \in {"off", "loaded", "config", "done"}
  /\ {lib, rotation, clib} \subseteq SUBSET Profile
  /\ {connecting, current} \subseteq Ids \cup {None}
  /\ pend \in [import : SUBSET Texts, drop : SUBSET Profile, forget : Ids \cup {None},
              changed : BOOLEAN, file : Ids \cup {None}, text : Texts \cup {None}]
  /\ issued \subseteq Ids /\ settled \in {"no", "begun", "yes"} /\ shared \in BOOLEAN
  /\ changes \in 0..MaxChanges

-----------------------------------------------------------------------------
(* Reading the library. *)

IdsOf(L) == {p.id : p \in L}
Stored == {f \in Ids : files[f] # None}
Text(p) == files[p.file]
HeldTexts(L) == {Text(p) : p \in L} \ {None}

(* A rotation pool; one that names no held profile means every profile. *)
Pool(L, ids) ==
  LET chosen == {p \in L : p.id \in ids} IN IF chosen = {} THEN L ELSE chosen

(* detect_protocol: the words of a file, or else its suffix, tell. *)
Recognised(f) == files[f] = "empty.ovpn" \/ (files[f] \in Texts /\ Detected(files[f]))

Kept == IF index = Torn THEN {} ELSE {p \in index : Text(p) # None}

(* load gives one of these: the entries whose file is there, and a profile for *)
(* every other file whose protocol can be told.                                *)
LoadsIndexOnly == {Kept}
Loads ==
  LET orphans == {f \in Stored : Recognised(f)} \ {p.file : p \in Kept}
      fresh == {n \in [orphans -> Ids \ issued] : \A f, g \in orphans : f # g => n[f] # n[g]}
  IN {Kept \cup {[id |-> n[f], file |-> f, edited |-> FALSE] : f \in orphans} : n \in fresh}

-----------------------------------------------------------------------------
(* Saving the index: the file is opened, which empties it, and then written.  Two *)
(* writes that cross may leave something that cannot be read.                     *)

Saves(p) == saving' = [saving EXCEPT ![p] = "due"]
Saved(p) == saving[p] = "no" /\ (p = "tui" => pend.file = None)

OpenIndex(p) ==
  /\ saving[p] = "due" /\ saving' = [saving EXCEPT ![p] = "cut"] /\ index' = Torn
  /\ UNCHANGED <<files, conf, box, screen, tunnel, pend, command, issued, settled, shared,
                 changes>>

WriteIndex(p) ==
  /\ saving[p] \in {"cut", "crossed"}
  /\ \/ index' = IF p = "tui" THEN lib ELSE clib
     \/ saving[p] = "crossed" /\ index' = Torn
  /\ saving' = [q \in Programs |-> IF q = p THEN "no"
                                   ELSE IF saving[q] = "cut" THEN "crossed" ELSE saving[q]]
  /\ UNCHANGED <<files, conf, box, screen, tunnel, pend, command, issued, settled, shared,
                 changes>>

-----------------------------------------------------------------------------
Init ==
  /\ files = [f \in Ids |-> None] /\ index = {} /\ conf = Defaults /\ box = {}
  /\ saving = [p \in Programs |-> "no"]
  /\ tui = "off" /\ lib = {} /\ mem = Defaults /\ rotation = {}
  /\ connecting = None /\ current = None /\ pend = NoScan
  /\ cli = "off" /\ clib = {} /\ cmem = Defaults
  /\ issued = {} /\ settled = "no" /\ shared = FALSE /\ changes = 0

Ready == tui = "idle" /\ Saved("tui")
Asks == changes < MaxChanges /\ changes' = changes + 1
Unsettled == settled' = "no"

(* start: the configuration, the library, and a scan before the interface is shown. *)
Start ==
  /\ tui = "off" /\ tui' = "boot"
  /\ lib' \in Loads
  /\ mem' = conf /\ rotation' = Pool(lib', conf.pool) /\ Saves("tui")
  /\ issued' = issued \cup IdsOf(lib') /\ shared' = (cli # "off")
  /\ UNCHANGED <<disk, conf, box, tunnel, pend, command, settled, changes>>

(* Quit, or killed at any point. *)
Ends ==
  /\ tui # "off" /\ tui' = "off" /\ lib' = {} /\ mem' = Defaults /\ rotation' = {}
  /\ connecting' = None /\ current' = None /\ pend' = NoScan /\ Unsettled
  /\ saving' = [saving EXCEPT !["tui"] = "no"] /\ shared' = FALSE
  /\ UNCHANGED <<disk, conf, box, command, issued, changes>>

-----------------------------------------------------------------------------
(* The library's own changes, as the interface makes them. *)

(* _store: the file first, opened and so emptied and then written, then the entry, *)
(* then the index.                                                                 *)
Store(text) ==
  \E i \in Ids \ issued, e \in Emptied :
    /\ files' = [files EXCEPT ![i] = e] /\ issued' = issued \cup {i}
    /\ pend' = [pend EXCEPT !.import = @ \ {text}, !.file = i, !.text = Inner(text)]
    /\ UNCHANGED <<index, lib, saving>>

Refresh == rotation' = Pool(lib', mem'.pool)

(* The file is written and the profile listed; a scan goes on, and an import of the *)
(* user's refreshes the pool.                                                       *)
Stores ==
  /\ pend.file # None /\ files[pend.file] # None
  /\ files' = [files EXCEPT ![pend.file] = pend.text]
  /\ lib' = lib \cup {[id |-> pend.file, file |-> pend.file, edited |-> FALSE]}
  /\ Saves("tui") /\ UNCHANGED mem
  /\ pend' = [pend EXCEPT !.file = None, !.text = None, !.changed = (tui = "scan")]
  /\ IF tui = "scan" THEN UNCHANGED rotation ELSE Refresh
  /\ UNCHANGED <<index, conf, box, tui, tunnel, command, issued, settled, shared, changes>>

(* The command adopted the empty file and removed it: the profile is not stored. *)
StoreFails ==
  /\ pend.file # None /\ files[pend.file] = None
  /\ pend' = [pend EXCEPT !.file = None, !.text = None]
  /\ UNCHANGED <<disk, conf, box, saving, screen, tunnel, command, issued, settled, shared,
                 changes>>

Unlink(p) == files' = [files EXCEPT ![p.file] = None]
Unlist(p) == lib' = {q \in lib : q.id # p.id}

(* import_file: the text itself, or the one a descriptor carries, if it can be used. *)
Import(t) == Usable(Inner(t)) /\ Store(t)

(* The whole document is written to a temporary file that then takes its place. *)
Configure(settings) == mem' = settings /\ conf' = settings

-----------------------------------------------------------------------------
(* import_from_sources: the library becomes what the drop-box holds. *)

BeginScan ==
  /\ tui \in {"boot", "idle"} /\ Saved("tui") /\ tui' = "scan" /\ settled' = "begun"
  /\ \E leaving \in SUBSET {p \in lib : Text(p) \notin box \cup {None}} :
       \* profiles are keyed by what they hold: of two with one text, one is seen
       /\ HeldTexts(leaving) = HeldTexts(lib) \ box
       /\ Cardinality(leaving) = Cardinality(HeldTexts(leaving))
       /\ pend' = [NoScan EXCEPT !.drop = leaving,
                     !.import = box \ HeldTexts(lib)]
  /\ UNCHANGED <<disk, conf, box, saving, lib, mem, rotation, tunnel, command, issued, shared,
                 changes>>

Scanning == tui = "scan" /\ Saved("tui") /\ pend.forget = None

ScanImport(t) ==
  /\ Scanning /\ t \in pend.import
  /\ \/ t \in box /\ Import(t)
     \/ /\ t \notin box \/ ~Usable(Inner(t))
        /\ pend' = [pend EXCEPT !.import = @ \ {t}]
        /\ UNCHANGED <<disk, lib, saving, issued>>
  /\ UNCHANGED <<conf, box, tui, mem, rotation, tunnel, command, settled, shared, changes>>

SparedIfActive(p) == p.id \in {current, mem.active}
Spared(p) == p.id = current

(* _forget_profile: not under a live tunnel. *)
ScanDrop(p) ==
  /\ Scanning /\ pend.import = {} /\ p \in pend.drop
  /\ \/ /\ Spared(p) /\ pend' = [pend EXCEPT !.drop = @ \ {p}]
        /\ UNCHANGED <<disk, lib, saving>>
     \/ /\ ~Spared(p) /\ Unlink(p) /\ Unlist(p) /\ Saves("tui") /\ UNCHANGED index
        /\ pend' = [pend EXCEPT !.drop = @ \ {p}, !.forget = p.id]
  /\ UNCHANGED <<conf, box, tui, mem, rotation, tunnel, command, issued, settled, shared,
                 changes>>

(* Every trace of it leaves the configuration too. *)
ScanForget ==
  /\ tui = "scan" /\ Saved("tui") /\ pend.forget # None
  /\ Configure([active |-> IF mem.active = pend.forget THEN None ELSE mem.active,
                pool |-> mem.pool \ {pend.forget}])
  /\ pend' = [pend EXCEPT !.forget = None, !.changed = TRUE]
  /\ UNCHANGED <<disk, box, saving, tui, lib, rotation, tunnel, command, issued, settled,
                 shared, changes>>

EndScan ==
  /\ Scanning /\ pend.import = {} /\ pend.drop = {}
  /\ tui' = "idle" /\ pend' = NoScan
  /\ settled' = IF pend.changed \/ settled = "no" THEN "no" ELSE "yes"
  /\ UNCHANGED <<lib, mem>>
  /\ IF pend.changed THEN Refresh ELSE UNCHANGED rotation
  /\ UNCHANGED <<disk, conf, box, saving, tunnel, command, issued, shared, changes>>

-----------------------------------------------------------------------------
(* What the user asks of the library screens. *)

(* The file goes to the drop-box first; one that cannot be used stays there. *)
ImportProfile(t) ==
  /\ Ready /\ Asks /\ box' = box \cup {t} /\ Unsettled
  /\ \/ Import(t)
     \/ ~Usable(Inner(t)) /\ UNCHANGED <<disk, lib, saving, pend, issued>>
  /\ UNCHANGED <<conf, tui, mem, rotation, tunnel, command, shared>>

DeleteNoRefresh(p) ==
  /\ Ready /\ Asks /\ Unlink(p) /\ Unlist(p) /\ Saves("tui") /\ Unsettled
  /\ UNCHANGED <<mem, rotation, index, conf, box, tui, tunnel, pend, command, issued, shared>>

(* Neither the drop-box nor the configuration hears of it. *)
DeleteProfile(p) ==
  /\ Ready /\ Asks /\ Unlink(p) /\ Unlist(p) /\ Saves("tui") /\ Unsettled
  /\ UNCHANGED mem /\ Refresh
  /\ UNCHANGED <<index, conf, box, tui, tunnel, pend, command, issued, shared>>

(* rename, toggle_favorite, set_auth_file: the entry is replaced. *)
EditProfile(p) ==
  /\ Ready /\ Asks /\ Saves("tui")
  /\ lib' = (lib \ {p}) \cup {[p EXCEPT !.edited = TRUE]}
  /\ UNCHANGED <<disk, conf, box, tui, mem, rotation, tunnel, pend, command, issued, settled,
                 shared>>

SetActive(p) ==
  /\ Ready /\ Asks /\ Configure([mem EXCEPT !.active = p.id])
  /\ UNCHANGED <<disk, box, saving, tui, lib, rotation, tunnel, pend, command, issued, settled,
                 shared>>

SetPool(ids) ==
  /\ Ready /\ Asks /\ Configure([mem EXCEPT !.pool = ids])
  /\ UNCHANGED lib /\ Refresh
  /\ UNCHANGED <<disk, box, saving, tui, tunnel, pend, command, issued, settled, shared>>

(* Leaving an empty pool first names every profile. *)
ToggleMember(p) ==
  LET pool == IF mem.pool = {} THEN IdsOf(lib) ELSE mem.pool
  IN SetPool(IF p.id \in pool THEN pool \ {p.id} ELSE pool \cup {p.id})

(* The profile selected on the screen, the configured one, a favourite or the first; *)
(* a shuffle takes one of the rotation's copies.  The current profile stays the one   *)
(* it was until the new tunnel is up, also when it never comes.                       *)
Connect(p) ==
  /\ Ready /\ connecting = None /\ Asks /\ p \in lib \cup rotation
  /\ connecting' = p.id /\ UNCHANGED current /\ Unsettled
  /\ UNCHANGED <<disk, conf, box, saving, screen, pend, command, issued, shared>>

GivenUp ==
  /\ Ready /\ connecting # None /\ connecting' = None /\ UNCHANGED current
  /\ UNCHANGED <<disk, conf, box, saving, screen, pend, command, issued, settled, shared,
                 changes>>

(* The tunnel is up: its profile is marked as used, if the library still holds it. *)
Connected ==
  /\ Ready /\ connecting # None /\ connecting' = None /\ current' = connecting /\ Unsettled
  /\ IF connecting \in IdsOf(lib) THEN Saves("tui") ELSE UNCHANGED saving
  /\ UNCHANGED <<disk, conf, box, screen, pend, command, issued, shared, changes>>

Disconnected ==
  /\ Ready /\ connecting = None /\ current # None
  /\ current' = None /\ UNCHANGED connecting /\ Unsettled
  /\ UNCHANGED <<disk, conf, box, saving, screen, pend, command, issued, shared, changes>>

-----------------------------------------------------------------------------
(* The command line.  Every vpn command loads the library, which adopts and saves; *)
(* `list' does no more.                                                             *)

CliStart ==
  /\ cli = "off" /\ Asks /\ cli' = "loaded" /\ Saves("cli")
  /\ clib' \in Loads
  /\ issued' = issued \cup IdsOf(clib') /\ shared' = (tui # "off")
  /\ UNCHANGED <<disk, conf, box, screen, tunnel, pend, cmem, settled>>

(* The command fails on the name it gives its argument, before it copies anything *)
(* (cli.py:465, 499).                                                             *)
CliImport ==
  /\ cli = "loaded" /\ Saved("cli") /\ cli' = "done"
  /\ UNCHANGED <<disk, conf, box, saving, screen, tunnel, pend, clib, cmem, issued, settled, shared,
                 changes>>

CliRemove(p) ==
  /\ cli = "loaded" /\ Saved("cli") /\ cli' = "done"
  /\ Unlink(p) /\ clib' = clib \ {p} /\ Saves("cli") /\ Unsettled
  /\ UNCHANGED <<index, conf, box, screen, tunnel, pend, cmem, issued, shared, changes>>

CliReadsConfig ==
  /\ cli = "loaded" /\ Saved("cli") /\ cli' = "config" /\ cmem' = conf
  /\ UNCHANGED <<disk, conf, box, saving, screen, tunnel, pend, clib, issued, settled, shared,
                 changes>>

(* activate and pool: the whole document as it was read, with one field changed. *)
CliWritesConfig ==
  /\ cli = "config" /\ cli' = "done"
  /\ \/ \E p \in clib : conf' = [cmem EXCEPT !.active = p.id]
     \/ \E S \in SUBSET IdsOf(clib) : conf' = [cmem EXCEPT !.pool = S]
  /\ UNCHANGED <<disk, box, saving, screen, tunnel, pend, clib, cmem, issued, settled, shared,
                 changes>>

(* Done, refused, or killed at any point. *)
CliEnds ==
  /\ cli # "off" /\ cli' = "off" /\ clib' = {} /\ cmem' = Defaults
  /\ saving' = [saving EXCEPT !["cli"] = "no"]
  /\ UNCHANGED <<disk, conf, box, screen, tunnel, pend, issued, settled, shared, changes>>

(* `config reset'. *)
CliReset ==
  /\ Asks /\ conf' = Defaults
  /\ UNCHANGED <<disk, box, saving, screen, tunnel, pend, command, issued, settled, shared>>

-----------------------------------------------------------------------------
(* The user's file manager. *)

BoxChanges(t) ==
  /\ Asks /\ box' \in {box \cup {t}, box \ {t}} \ {box} /\ Unsettled
  /\ UNCHANGED <<disk, conf, saving, screen, tunnel, pend, command, issued, shared>>

(* A configuration put straight into profiles/. *)
FileAppears(t) ==
  /\ Asks /\ t = Inner(t)
  /\ \E i \in Ids \ issued :
       files' = [files EXCEPT ![i] = t] /\ issued' = issued \cup {i}
  /\ shared' = TRUE /\ Unsettled
  /\ UNCHANGED <<index, conf, box, saving, screen, tunnel, pend, command>>

Rests == tui = "off" /\ cli = "off" /\ UNCHANGED vars

Scan ==
  \/ BeginScan \/ ScanForget \/ EndScan
  \/ (\E t \in pend.import : ScanImport(t)) \/ (\E p \in pend.drop : ScanDrop(p))

LibraryScreen ==
  \/ \E t \in Texts : ImportProfile(t)
  \/ \E p \in lib : DeleteProfile(p) \/ EditProfile(p) \/ SetActive(p)

PoolScreen == SetPool({}) \/ SetPool(IdsOf(lib)) \/ \E p \in lib : ToggleMember(p)

Tunnel == (\E p \in lib \cup rotation : Connect(p)) \/ Connected \/ GivenUp \/ Disconnected

Command ==
  \/ CliStart \/ CliImport \/ CliReadsConfig \/ CliWritesConfig \/ CliEnds \/ CliReset
  \/ \E p \in clib : CliRemove(p)

Next ==
  \/ Start \/ Ends \/ Stores \/ StoreFails \/ Scan \/ LibraryScreen \/ PoolScreen \/ Tunnel \/ Command \/ Rests
  \/ \E p \in Programs : OpenIndex(p) \/ WriteIndex(p)
  \/ \E t \in Texts : BoxChanges(t) \/ FileAppears(t)

Spec == Init /\ [][Next]_vars
-----------------------------------------------------------------------------
(* What the library promises. *)

(* While nothing else writes profiles/, every profile has a file of its own, and   *)
(* every file a profile, except the one being stored and those whose protocol     *)
(* cannot be told: such a file is left when the program is killed between opening *)
(* and writing a WireGuard configuration, or put there by the user, and no load   *)
(* adopts it.  The index says what memory says whenever it is not being written.  *)
(* So it is whatever was killed before the interface started, and at whichever    *)
(* write (profiles.py:273-331, 484-502, 516-523).                                 *)
Accounted ==
  tui # "off" /\ ~shared =>
    /\ {p.file : p \in lib} \subseteq Stored
    /\ \A f \in Stored \ {p.file : p \in lib} : f = pend.file \/ ~Recognised(f)
    /\ Cardinality({p.file : p \in lib}) = Cardinality(lib)
    /\ Cardinality(IdsOf(lib)) = Cardinality(lib)
    /\ saving["tui"] = "no" => index = lib

(* The shuffle rotates over the profiles the configured pool names among those the *)
(* library holds, or over all of them, after any scan, import, removal or choice   *)
(* (manager.py:117-121, profiles.py:345-349).                                      *)
PoolResolved == tui = "idle" => IdsOf(rotation) = IdsOf(Pool(lib, mem.pool))

(* A scan that reports no change leaves exactly what the drop-box holds, but for   *)
(* files that cannot be used and the profile that is connected                     *)
(* (runtime.py:210-219, 246-312).                                                  *)
ScanSettles ==
  settled = "yes" =>
    /\ \A t \in box : Usable(Inner(t)) => t \in HeldTexts(lib)
    /\ \A p \in lib : Text(p) \in box \cup {None} \cup {Text(q) : q \in {r \in lib : r.id = current}}
=============================================================================
