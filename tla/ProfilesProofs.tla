--------------------------- MODULE ProfilesProofs ---------------------------
(* Theorems about Profiles, for any identities, texts and number of requests. *)
EXTENDS Profiles, FiniteSetTheorems, TLAPS

(* A library's profiles: no two share an identity or a file, and what they     *)
(* have was given out.                                                         *)
OneEach(L) == \A p, q \in L : p.id = q.id \/ p.file = q.file => p = q
Given(L, S) == L \subseteq Profile /\ \A p \in L : p.id \in S /\ p.file \in S
Holds(L, S) == OneEach(L) /\ Given(L, S)
FilesOf(L) == {p.file : p \in L}

(* Every list of profiles is such a library, the file that has no profile is   *)
(* known too, a scan drops what the library holds, and a profile being stored  *)
(* is not in the library yet.                                                  *)
Books ==
  /\ Holds(lib, issued) /\ Holds(clib, issued)
  /\ index # Torn => Holds(index, issued)
  /\ Stored \subseteq issued /\ pend.drop \subseteq lib
  /\ tui # "scan" => pend.drop = {}
  /\ pend.file # None =>
       /\ tui # "off" /\ pend.file \in issued /\ pend.text \in Texts
       /\ \A p \in lib : p.id # pend.file /\ p.file # pend.file

(* Only a running program writes the index. *)
Writers ==
  /\ tui = "off" => saving["tui"] = "no"
  /\ cli = "off" => saving["cli"] = "no"

(* What is stored and has no profile: the file being stored, or one that tells  *)
(* no protocol.                                                                 *)
Covered(L, open) == \A f \in Stored \ FilesOf(L) : f = open \/ ~Recognised(f)

(* The interface alone with profiles/: the library is what is stored, and the  *)
(* index is the library unless a write of its own is due or under way.         *)
Own ==
  tui # "off" /\ ~shared =>
    /\ cli = "off" /\ saving["tui"] # "crossed"
    /\ FilesOf(lib) \subseteq Stored /\ Covered(lib, pend.file)
    /\ saving["tui"] = "no" => index = lib

Pending ==
  [import : SUBSET Texts, drop : SUBSET Profile, forget : Ids \cup {None},
   changed : BOOLEAN, file : Ids \cup {None}, text : Texts \cup {None}]

LEMMA HoldsMore ==
  ASSUME NEW L, NEW S, NEW T, S \subseteq T, Holds(L, S)
  PROVE  Holds(L, T)
BY DEF Holds, Given

LEMMA PoolWithin ==
  ASSUME NEW L, NEW ids
  PROVE  Pool(L, ids) \subseteq L
BY DEF Pool

(* A loaded library has one profile for each stored file that can be told. *)
LEMMA LoadsHold ==
  ASSUME TypeOK, Books, NEW L \in Loads
  PROVE  /\ Holds(L, issued \cup IdsOf(L))
         /\ FilesOf(L) \subseteq Stored /\ \A f \in Stored \ FilesOf(L) : ~Recognised(f)
         /\ L \subseteq Profile /\ IdsOf(L) \subseteq Ids
<1> DEFINE orphans == {f \in Stored : Recognised(f)} \ {p.file : p \in Kept}
<1>1. PICK n \in [orphans -> Ids \ issued] :
         /\ \A f, g \in orphans : f # g => n[f] # n[g]
         /\ L = Kept \cup {[id |-> n[f], file |-> f, edited |-> FALSE] : f \in orphans}
  BY DEF Loads
<1>2. Holds(Kept, issued) /\ FilesOf(Kept) \subseteq Stored
  <2>1. CASE index = Torn
    BY <2>1 DEF Kept, Holds, OneEach, Given, FilesOf
  <2>2. CASE index # Torn
    <3>1. Kept \subseteq index /\ \A p \in Kept : files[p.file] # None
      BY <2>2 DEF Kept, Text
    <3>2. Holds(index, issued)
      BY <2>2 DEF Books
    <3>3. Holds(Kept, issued)
      BY <3>1, <3>2 DEF Holds, OneEach, Given
    <3>4. \A p \in Kept : p.file \in Ids
      BY <3>3 DEF Holds, Given, Profile
    <3> QED BY <3>1, <3>3, <3>4 DEF FilesOf, Stored
  <2> QED BY <2>1, <2>2
<1>3. orphans \subseteq Ids /\ orphans \subseteq issued /\ orphans \cap FilesOf(Kept) = {}
      /\ (\A f \in Stored : f \in orphans \/ f \in FilesOf(Kept) \/ ~Recognised(f))
      /\ orphans \cup FilesOf(Kept) \subseteq Stored
  BY <1>2 DEF Stored, Books, FilesOf
<1> DEFINE fresh == {[id |-> n[f], file |-> f, edited |-> FALSE] : f \in orphans}
<1> HIDE DEF orphans
<1>4. \A p \in fresh : \E f \in orphans :
         /\ p = [id |-> n[f], file |-> f, edited |-> FALSE]
         /\ p.id = n[f] /\ p.file = f /\ p \in Profile /\ p.id \notin issued
  <2> TAKE p \in fresh
  <2>1. PICK f \in orphans : p = [id |-> n[f], file |-> f, edited |-> FALSE]
    OBVIOUS
  <2>2. n[f] \in Ids \ issued /\ f \in Ids
    BY <1>1, <1>3
  <2> QED BY <2>1, <2>2 DEF Profile
<1>5. FilesOf(fresh) = orphans
  <2>1. \A f \in orphans : \E p \in fresh : p.file = f
    <3> TAKE f \in orphans
    <3>1. [id |-> n[f], file |-> f, edited |-> FALSE] \in fresh
      OBVIOUS
    <3> QED BY <3>1
  <2> HIDE DEF fresh
  <2> QED BY <1>4, <2>1 DEF FilesOf
<1>6. L = Kept \cup fresh
  BY <1>1
<1> HIDE DEF fresh
<1>7. L \subseteq Profile
  BY <1>2, <1>4, <1>6 DEF Holds, Given
<1>8. FilesOf(L) \subseteq Stored /\ \A f \in Stored \ FilesOf(L) : ~Recognised(f)
  <2>1. FilesOf(L) = orphans \cup FilesOf(Kept)
    BY <1>5, <1>6 DEF FilesOf
  <2> QED BY <1>3, <2>1
<1>9. Given(L, issued \cup IdsOf(L))
  <2>1. \A p \in L : p.file \in issued
    BY <1>2, <1>3, <1>4, <1>6 DEF Holds, Given
  <2> QED BY <1>7, <2>1 DEF Given, IdsOf
<1>10. OneEach(L)
  <2> SUFFICES ASSUME NEW p \in L, NEW q \in L, p.id = q.id \/ p.file = q.file
               PROVE  p = q
    BY DEF OneEach
  <2>1. \A r \in Kept : r.id \in issued /\ r.file \in FilesOf(Kept)
    BY <1>2 DEF Holds, Given, FilesOf
  <2>2. \A r \in fresh : r.id \notin issued /\ r.file \notin FilesOf(Kept)
    BY <1>3, <1>4
  <2>3. CASE p \in Kept /\ q \in Kept
    BY <1>2, <2>3 DEF Holds, OneEach
  <2>4. CASE p \in fresh /\ q \in fresh
    BY <1>1, <1>4, <2>4
  <2> QED BY <1>6, <2>1, <2>2, <2>3, <2>4
<1>11. IdsOf(L) \subseteq Ids
  BY <1>7 DEF IdsOf, Profile
<1> QED BY <1>7, <1>8, <1>9, <1>10, <1>11 DEF Holds

(* What storing, dropping and editing a profile leave of the library. *)
LEMMA StoreHolds ==
  ASSUME TypeOK, Books, NEW t \in Texts, Store(t)
  PROVE  /\ files' \in [Ids -> Contents \cup {None}] /\ issued' \subseteq Ids
         /\ issued \subseteq issued' /\ Stored' \subseteq issued'
         /\ pend' \in Pending /\ pend'.drop = pend.drop
         /\ pend'.file \in issued' /\ pend'.text \in Texts
         /\ pend'.changed = pend.changed /\ pend'.forget = pend.forget
         /\ Stored' = Stored \cup {pend'.file}
         /\ \A f \in Ids : f # pend'.file => files'[f] = files[f]
         /\ \A p \in lib : p.id # pend'.file /\ p.file # pend'.file
<1>1. PICK i \in Ids \ issued, e \in Emptied :
         /\ files' = [files EXCEPT ![i] = e] /\ issued' = issued \cup {i}
         /\ pend' = [pend EXCEPT !.import = @ \ {t}, !.file = i, !.text = Inner(t)]
  BY DEF Store
<1>2. Inner(t) \in Texts /\ e \in Contents /\ e # None
  BY TextAssumption DEF Contents, Emptied, None
<1>3. pend \in Pending
  BY DEF TypeOK, Pending
<1>4. /\ pend' \in Pending /\ pend'.drop = pend.drop /\ pend'.file = i /\ pend'.text \in Texts
      /\ pend'.changed = pend.changed /\ pend'.forget = pend.forget
  BY <1>1, <1>2, <1>3 DEF Pending
<1>5. Stored' = Stored \cup {i} /\ files' \in [Ids -> Contents \cup {None}]
  BY <1>1, <1>2 DEF Stored, TypeOK
<1>6. \A p \in lib : p.id # i /\ p.file # i
  BY DEF Books, Holds, Given
<1>7. \A f \in Ids : f # i => files'[f] = files[f]
  BY <1>1 DEF TypeOK
<1> QED BY <1>1, <1>4, <1>5, <1>6, <1>7 DEF Books, TypeOK

LEMMA StoresHold ==
  ASSUME TypeOK, Books, Stores
  PROVE  /\ Holds(lib', issued) /\ lib' \subseteq Profile /\ lib \subseteq lib'
         /\ files' \in [Ids -> Contents \cup {None}] /\ Stored' = Stored
         /\ FilesOf(lib') = FilesOf(lib) \cup {pend.file}
         /\ \A f \in Ids : f # pend.file => files'[f] = files[f]
         /\ pend' \in Pending /\ pend'.drop = pend.drop /\ pend'.file = None
         /\ pend'.changed = (tui = "scan")
         /\ tui # "off"
<1> DEFINE i == pend.file
           new == [id |-> i, file |-> i, edited |-> FALSE]
<1>1. /\ i # None /\ files[i] # None /\ files' = [files EXCEPT ![i] = pend.text]
      /\ lib' = lib \cup {new}
      /\ pend' = [pend EXCEPT !.file = None, !.text = None, !.changed = (tui = "scan")]
  BY DEF Stores
<1>2. /\ i \in issued /\ i \in Ids /\ pend.text \in Texts /\ tui # "off"
      /\ \A p \in lib : p.id # i /\ p.file # i
  BY <1>1 DEF Books, TypeOK
<1>3. new \in Profile /\ new.id = i /\ new.file = i
  BY <1>2 DEF Profile
<1>4. pend \in Pending
  BY DEF TypeOK, Pending
<1>5. /\ pend' \in Pending /\ pend'.drop = pend.drop /\ pend'.file = None
      /\ pend'.changed = (tui = "scan")
  BY <1>1, <1>4 DEF Pending
<1> HIDE DEF new
<1>6. FilesOf(lib') = FilesOf(lib) \cup {i}
  BY <1>1, <1>3 DEF FilesOf
<1>7. OneEach(lib')
  BY <1>1, <1>2, <1>3 DEF Books, Holds, OneEach
<1>8. Given(lib', issued)
  BY <1>1, <1>2, <1>3 DEF Books, Holds, Given
<1>9. files' \in [Ids -> Contents \cup {None}] /\ Stored' = Stored
  BY <1>1, <1>2, TextAssumption DEF Stored, TypeOK, Contents
<1>10. \A f \in Ids : f # i => files'[f] = files[f]
  BY <1>1 DEF TypeOK
<1> QED BY <1>1, <1>2, <1>5, <1>6, <1>7, <1>8, <1>9, <1>10 DEF Holds, Given, i

LEMMA DropHolds ==
  ASSUME TypeOK, Books, NEW p \in lib, Unlink(p), Unlist(p)
  PROVE  /\ Holds(lib', issued) /\ Stored' = Stored \ {p.file}
         /\ FilesOf(lib') = FilesOf(lib) \ {p.file} /\ lib' = lib \ {p}
         /\ files' \in [Ids -> Contents \cup {None}]
<1>1. lib' = lib \ {p}
  BY DEF Unlist, Books, Holds, OneEach
<1>2. p.file \in Ids
  BY DEF Books, Holds, Given, Profile
<1>3. Stored' = Stored \ {p.file} /\ files' \in [Ids -> Contents \cup {None}]
  BY <1>2 DEF Unlink, Stored, TypeOK
<1>4. \A q \in lib : q # p => q.file # p.file
  BY DEF Books, Holds, OneEach
<1>5. FilesOf(lib') = FilesOf(lib) \ {p.file}
  BY <1>1, <1>4 DEF FilesOf
<1> QED BY <1>1, <1>3, <1>5 DEF Books, Holds, OneEach, Given

LEMMA EditHolds ==
  ASSUME TypeOK, Books, NEW p \in lib,
         lib' = (lib \ {p}) \cup {[p EXCEPT !.edited = TRUE]}
  PROVE  /\ Holds(lib', issued) /\ FilesOf(lib') = FilesOf(lib)
         /\ IdsOf(lib') = IdsOf(lib)
         /\ lib' \subseteq Profile
<1> DEFINE new == [p EXCEPT !.edited = TRUE]
<1>1. p \in Profile /\ p.id \in issued /\ p.file \in issued
  BY DEF Books, Holds, Given
<1>2. new \in Profile /\ new.id = p.id /\ new.file = p.file
  BY <1>1 DEF Profile
<1>3. lib' = (lib \ {p}) \cup {new}
  OBVIOUS
<1> HIDE DEF new
<1>4. FilesOf(lib') = FilesOf(lib) /\ IdsOf(lib') = IdsOf(lib)
  BY <1>2, <1>3 DEF FilesOf, IdsOf
<1>5. OneEach(lib')
  BY <1>2, <1>3 DEF Books, Holds, OneEach
<1>6. Given(lib', issued)
  BY <1>1, <1>2, <1>3 DEF Books, Holds, Given
<1> QED BY <1>4, <1>5, <1>6 DEF Holds, Given

(* A step of the scan keeps the type of what is pending. *)
LEMMA PendingTyped ==
  ASSUME TypeOK, Books, Scan
  PROVE  pend' \in Pending
<1>0. pend \in Pending /\ box \subseteq Texts /\ lib \subseteq Profile
  BY DEF TypeOK, Pending
<1>1. CASE BeginScan
  <2>1. PICK leaving \in SUBSET {p \in lib : Text(p) \notin box \cup {None}} :
           pend' = [NoScan EXCEPT !.drop = leaving, !.import = box \ HeldTexts(lib)]
    BY <1>1 DEF BeginScan
  <2>2. leaving \in SUBSET Profile /\ box \ HeldTexts(lib) \in SUBSET Texts
    BY <1>0
  <2> QED BY <2>1, <2>2 DEF Pending, NoScan
<1>2. ASSUME NEW t \in pend.import, ScanImport(t) PROVE pend' \in Pending
  <2>1. t \in Texts
    BY <1>0 DEF Pending
  <2>2. Store(t) \/ pend' = [pend EXCEPT !.import = @ \ {t}]
    BY <1>2 DEF ScanImport, Import
  <2> QED BY <1>0, <2>1, <2>2, StoreHolds DEF Pending
<1>3. ASSUME NEW p \in pend.drop, ScanDrop(p) PROVE pend' \in Pending
  <2>1. p.id \in Ids
    BY <1>0 DEF Pending, Profile
  <2>2. \/ pend' = [pend EXCEPT !.drop = @ \ {p}]
        \/ pend' = [pend EXCEPT !.drop = @ \ {p}, !.forget = p.id]
    BY <1>3 DEF ScanDrop
  <2> QED BY <1>0, <2>1, <2>2 DEF Pending
<1>4. CASE ScanForget
  BY <1>0, <1>4 DEF ScanForget, Pending
<1>5. CASE EndScan
  BY <1>5 DEF EndScan, Pending, NoScan
<1> QED BY <1>1, <1>2, <1>3, <1>4, <1>5 DEF Scan

LEMMA ScanTyped ==
  ASSUME TypeOK, Books, Scan
  PROVE  TypeOK'
<1>0. pend' \in Pending
  BY PendingTyped
<1> USE DEF TypeOK, disk, screen, tunnel, command
<1>1. CASE BeginScan
  BY <1>0, <1>1 DEF BeginScan, Pending
<1>2. ASSUME NEW t \in pend.import, ScanImport(t) PROVE TypeOK'
  <2>1. CASE Import(t)
    <3>1. t \in Texts
      OBVIOUS
    <3>2. Store(t)
      BY <2>1 DEF Import
    <3>3. files' \in [Ids -> Contents \cup {None}] /\ issued' \subseteq Ids
      BY <3>1, <3>2, StoreHolds
    <3>4. UNCHANGED <<saving, index, lib>>
      BY <3>2 DEF Store
    <3> QED BY <1>0, <1>2, <3>3, <3>4 DEF ScanImport, Pending
  <2>2. CASE UNCHANGED <<disk, lib, saving, issued>>
    BY <1>0, <1>2, <2>2 DEF ScanImport, Pending
  <2> QED BY <1>2, <2>1, <2>2 DEF ScanImport
<1>3. ASSUME NEW p \in pend.drop, ScanDrop(p) PROVE TypeOK'
  <2>1. CASE Unlink(p) /\ Unlist(p) /\ Saves("tui") /\ UNCHANGED index
    <3>1. files' \in [Ids -> Contents \cup {None}] /\ lib' \subseteq Profile
      BY <2>1, DropHolds DEF Holds, Given, Books
    <3>2. saving' \in [Programs -> {"no", "due", "cut", "crossed"}]
      BY <2>1 DEF Saves
    <3> QED BY <1>0, <1>3, <2>1, <3>1, <3>2 DEF ScanDrop, Pending
  <2>2. CASE UNCHANGED <<disk, lib, saving>>
    BY <1>0, <1>3, <2>2 DEF ScanDrop, Pending
  <2> QED BY <1>3, <2>1, <2>2 DEF ScanDrop
<1>4. CASE ScanForget
  BY <1>0, <1>4 DEF ScanForget, Configure, Config, Pending
<1>5. CASE EndScan
  <2>1. lib' = lib /\ (rotation' = rotation \/ rotation' = Pool(lib', mem'.pool))
    BY <1>5 DEF EndScan, Refresh
  <2>2. Pool(lib', mem'.pool) \subseteq lib'
    BY PoolWithin
  <2>3. rotation' \in SUBSET Profile
    BY <2>1, <2>2
  <2> QED BY <1>0, <1>5, <2>1, <2>3 DEF EndScan, Pending
<1> QED BY <1>1, <1>2, <1>3, <1>4, <1>5 DEF Scan

LEMMA AskTyped ==
  ASSUME TypeOK, Asks
  PROVE  changes' \in 0..MaxChanges
BY BoundAssumption DEF TypeOK, Asks

LEMMA ScreenTyped ==
  ASSUME TypeOK, Books, LibraryScreen \/ PoolScreen
  PROVE  TypeOK'
<1> USE DEF TypeOK, disk, screen, tunnel, command
<1>1. ASSUME NEW t \in Texts, ImportProfile(t) PROVE TypeOK'
  <2>1. box' \subseteq Texts /\ changes' \in 0..MaxChanges
    BY <1>1, AskTyped DEF ImportProfile
  <2>2. CASE Import(t)
    <3>1. Store(t)
      BY <2>2 DEF Import
    <3>2. /\ files' \in [Ids -> Contents \cup {None}] /\ issued' \subseteq Ids
          /\ pend' \in Pending
      BY <3>1, StoreHolds
    <3>3. UNCHANGED <<saving, index, lib>>
      BY <3>1 DEF Store
    <3> QED BY <1>1, <2>1, <3>2, <3>3 DEF ImportProfile, Unsettled, Pending
  <2>3. CASE UNCHANGED <<disk, lib, saving, pend, issued>>
    BY <1>1, <2>1, <2>3 DEF ImportProfile, Unsettled
  <2> QED BY <1>1, <2>2, <2>3 DEF ImportProfile
<1>2. ASSUME NEW p \in lib, DeleteProfile(p) PROVE TypeOK'
  <2>1. files' \in [Ids -> Contents \cup {None}] /\ lib' \subseteq Profile
    BY <1>2, DropHolds DEF DeleteProfile, Holds, Given
  <2>2. rotation' \subseteq Profile /\ changes' \in 0..MaxChanges
    BY <1>2, <2>1, PoolWithin, AskTyped DEF DeleteProfile, Refresh
  <2>3. saving' \in [Programs -> {"no", "due", "cut", "crossed"}]
    BY <1>2 DEF DeleteProfile, Saves
  <2> QED BY <1>2, <2>1, <2>2, <2>3 DEF DeleteProfile, Unsettled
<1>3. ASSUME NEW p \in lib, EditProfile(p) PROVE TypeOK'
  <2>1. lib' \subseteq Profile /\ changes' \in 0..MaxChanges
    BY <1>3, EditHolds, AskTyped DEF EditProfile
  <2>2. saving' \in [Programs -> {"no", "due", "cut", "crossed"}]
    BY <1>3 DEF EditProfile, Saves
  <2> QED BY <1>3, <2>1, <2>2 DEF EditProfile
<1>4. ASSUME NEW p \in lib, SetActive(p) PROVE TypeOK'
  <2>1. changes' \in 0..MaxChanges /\ p.id \in Ids
    BY <1>4, AskTyped DEF SetActive, Profile
  <2>2. mem' \in Config /\ conf' = mem'
    BY <1>4, <2>1 DEF SetActive, Configure, Config
  <2> QED BY <1>4, <2>1, <2>2 DEF SetActive
<1>5. ASSUME NEW ids \in SUBSET Ids, SetPool(ids) PROVE TypeOK'
  <2>1. changes' \in 0..MaxChanges /\ rotation' \subseteq Profile
    BY <1>5, AskTyped, PoolWithin DEF SetPool, Refresh
  <2>2. mem' \in Config /\ conf' = mem'
    BY <1>5 DEF SetPool, Configure, Config
  <2> QED BY <1>5, <2>1, <2>2 DEF SetPool
<1>6. IdsOf(lib) \in SUBSET Ids /\ \A p \in lib : p.id \in Ids
  BY DEF IdsOf, Profile
<1>7. ASSUME NEW p \in lib, ToggleMember(p) PROVE TypeOK'
  <2>1. mem.pool \in SUBSET Ids
    BY DEF Config
  <2>2. \E ids \in SUBSET Ids : SetPool(ids)
    BY <1>6, <1>7, <2>1 DEF ToggleMember
  <2> QED BY <1>5, <2>2
<1> QED BY <1>1, <1>2, <1>3, <1>4, <1>5, <1>6, <1>7 DEF LibraryScreen, PoolScreen

LEMMA CommandTyped ==
  ASSUME TypeOK, Books,
         Command
  PROVE  TypeOK'
<1> USE DEF TypeOK, disk, screen, tunnel, command, Defaults, Config
<1>1. CASE CliStart
  <2>1. clib' \subseteq Profile /\ IdsOf(clib') \subseteq Ids
    BY <1>1, LoadsHold DEF CliStart
  <2>2. changes' \in 0..MaxChanges
    BY <1>1, AskTyped DEF CliStart
  <2>3. shared' \in BOOLEAN /\ saving' \in [Programs -> {"no", "due", "cut", "crossed"}]
    BY <1>1 DEF CliStart, Saves
  <2> QED BY <1>1, <2>1, <2>2, <2>3 DEF CliStart
<1>2. CASE CliImport \/ CliReadsConfig \/ CliEnds
  BY <1>2 DEF CliImport, CliReadsConfig, CliEnds
<1>3. CASE CliWritesConfig
  <2>1. \A p \in clib : p.id \in Ids
    BY DEF Profile
  <2>2. IdsOf(clib) \subseteq Ids
    BY <2>1 DEF IdsOf
  <2>3. conf' \in Config
    BY <1>3, <2>1, <2>2 DEF CliWritesConfig
  <2> QED BY <1>3, <2>3 DEF CliWritesConfig
<1>4. CASE CliReset
  BY <1>4, AskTyped DEF CliReset
<1>5. ASSUME NEW p \in clib, CliRemove(p) PROVE TypeOK'
  <2>1. files' \in [Ids -> Contents \cup {None}] /\ clib' \subseteq Profile
    BY <1>5 DEF CliRemove, Unlink
  <2>2. saving' \in [Programs -> {"no", "due", "cut", "crossed"}]
    BY <1>5 DEF CliRemove, Saves
  <2> QED BY <1>5, <2>1, <2>2 DEF CliRemove, Unsettled
<1> QED BY <1>1, <1>2, <1>3, <1>4, <1>5 DEF Command

(* Every step keeps the types. *)
LEMMA Typed ==
  ASSUME TypeOK, Books,
         [Next]_vars
  PROVE  TypeOK'
<1> USE DEF TypeOK, disk, screen, tunnel, command
<1>1. CASE Start
  <2>1. lib' \subseteq Profile /\ IdsOf(lib') \subseteq Ids
    BY <1>1, LoadsHold DEF Start
  <2>2. rotation' \subseteq Profile
    BY <1>1, <2>1, PoolWithin DEF Start
  <2>3. shared' \in BOOLEAN /\ saving' \in [Programs -> {"no", "due", "cut", "crossed"}]
    BY <1>1 DEF Start, Saves
  <2> QED BY <1>1, <2>1, <2>2, <2>3 DEF Start
<1>2. CASE Ends
  BY <1>2 DEF Ends, NoScan, Defaults, Config, Unsettled
<1>3. CASE Scan
  BY <1>3, ScanTyped
<1>4. CASE LibraryScreen \/ PoolScreen
  BY <1>4, ScreenTyped
<1>5. CASE Tunnel
  <2>1. ASSUME NEW p \in lib \cup rotation, Connect(p) PROVE TypeOK'
    <3>1. p.id \in Ids /\ changes' \in 0..MaxChanges
      BY <2>1, AskTyped DEF Connect, Profile
    <3> QED BY <2>1, <3>1 DEF Connect, Unsettled
  <2>2. CASE Connected
    BY <2>2 DEF Connected, Unsettled, Saves
  <2>3. CASE Disconnected \/ GivenUp
    BY <2>3 DEF Disconnected, GivenUp, Unsettled
  <2> QED BY <1>5, <2>1, <2>2, <2>3 DEF Tunnel
<1>6. CASE Command
  BY <1>6, CommandTyped
<1>7. ASSUME NEW p \in Programs, OpenIndex(p) PROVE TypeOK'
  BY <1>7 DEF OpenIndex
<1>8. ASSUME NEW p \in Programs, WriteIndex(p) PROVE TypeOK'
  BY <1>8 DEF WriteIndex
<1>9. ASSUME NEW t \in Texts, BoxChanges(t) PROVE TypeOK'
  BY <1>9, AskTyped DEF BoxChanges, Unsettled
<1>10. ASSUME NEW t \in Texts, FileAppears(t) PROVE TypeOK'
  BY <1>10, AskTyped DEF FileAppears, Unsettled, Contents
<1>11. CASE UNCHANGED vars \/ Rests
  BY <1>11 DEF vars, Rests
<1>12. CASE Stores
  <2>1. /\ lib' \subseteq Profile /\ files' \in [Ids -> Contents \cup {None}]
        /\ pend' \in Pending
    BY <1>12, StoresHold
  <2>2. rotation' \subseteq Profile
    BY <1>12, <2>1, PoolWithin DEF Stores, Refresh
  <2>3. saving' \in [Programs -> {"no", "due", "cut", "crossed"}]
    BY <1>12 DEF Stores, Saves
  <2> QED BY <1>12, <2>1, <2>2, <2>3 DEF Stores, Pending
<1>13. CASE StoreFails
  BY <1>13 DEF StoreFails
<1> QED BY <1>1, <1>2, <1>3, <1>4, <1>5, <1>6, <1>7, <1>8, <1>9, <1>10, <1>11, <1>12, <1>13 DEF Next

(* What is in the books stays there when identities are given out. *)
LEMMA Issued ==
  ASSUME TypeOK, Books, issued \subseteq issued', UNCHANGED index
  PROVE  /\ Holds(lib, issued') /\ Holds(clib, issued')
         /\ index' # Torn => Holds(index', issued')
<1>1. Holds(lib, issued') /\ Holds(clib, issued')
  BY HoldsMore DEF Books
<1>2. index # Torn => Holds(index, issued')
  BY HoldsMore DEF Books
<1> QED BY <1>1, <1>2

LEMMA ScanBooks ==
  ASSUME TypeOK, Books, Scan
  PROVE  Books'
<1> USE DEF Books, disk, command
<1>0. pend \in Pending
  BY DEF TypeOK, Pending
<1>1. CASE BeginScan
  <2>1. pend'.drop \subseteq lib /\ pend'.file = None
    BY <1>1 DEF BeginScan, NoScan
  <2> QED BY <1>1, <2>1 DEF BeginScan, Stored
<1>2. ASSUME NEW t \in pend.import, ScanImport(t) PROVE Books'
  <2>1. tui = "scan" /\ tui' = "scan" /\ UNCHANGED clib
    BY <1>2 DEF ScanImport, Scanning
  <2>2. CASE Import(t)
    <3>1. t \in Texts
      BY <1>0 DEF Pending
    <3>2. Store(t) /\ UNCHANGED <<index, lib>>
      BY <2>2 DEF Import, Store
    <3>3. /\ issued \subseteq issued' /\ Stored' \subseteq issued'
          /\ pend'.drop = pend.drop /\ pend'.file \in issued' /\ pend'.text \in Texts
          /\ \A p \in lib : p.id # pend'.file /\ p.file # pend'.file
      BY <3>1, <3>2, StoreHolds
    <3> QED BY <2>1, <3>2, <3>3, Issued
  <2>3. CASE /\ pend' = [pend EXCEPT !.import = @ \ {t}]
             /\ UNCHANGED <<disk, lib, saving, issued>>
    <3>1. pend'.drop = pend.drop /\ pend'.file = pend.file
      BY <1>0, <2>3 DEF Pending
    <3> QED BY <1>2, <2>1, <2>3, <3>1 DEF Stored, ScanImport, Scanning, Saved
  <2> QED BY <1>2, <2>2, <2>3 DEF ScanImport
<1>3. ASSUME NEW p \in pend.drop, ScanDrop(p) PROVE Books'
  <2>1. tui = "scan" /\ tui' = "scan" /\ UNCHANGED <<clib, issued>>
        /\ pend'.drop = pend.drop \ {p} /\ pend.file = None /\ pend'.file = None
    BY <1>0, <1>3 DEF ScanDrop, Scanning, Saved, Pending
  <2>2. CASE Unlink(p) /\ Unlist(p) /\ UNCHANGED index
    <3>1. p \in lib
      OBVIOUS
    <3>2. /\ Holds(lib', issued) /\ Stored' = Stored \ {p.file} /\ lib' = lib \ {p}
      BY <2>2, <3>1, DropHolds
    <3> QED BY <2>1, <2>2, <3>2
  <2>3. CASE UNCHANGED <<disk, lib, saving>>
    BY <2>1, <2>3 DEF Stored
  <2> QED BY <1>3, <2>2, <2>3 DEF ScanDrop
<1>4. CASE ScanForget
  <2>1. pend'.drop = pend.drop /\ pend'.file = pend.file /\ pend'.text = pend.text
    BY <1>0, <1>4 DEF ScanForget, Pending
  <2> QED BY <1>4, <2>1 DEF ScanForget, Stored
<1>5. CASE EndScan
  BY <1>5 DEF EndScan, Stored, NoScan
<1> QED BY <1>1, <1>2, <1>3, <1>4, <1>5 DEF Scan

(* Every step keeps the books, the writers and what the interface owns. *)
LEMMA BooksKept ==
  ASSUME TypeOK, Books, [Next]_vars
  PROVE  Books'
<1> USE DEF Books, disk, command, screen
<1>1. CASE Start
  <2>1. Holds(lib', issued') /\ issued \subseteq issued'
    BY <1>1, LoadsHold DEF Start
  <2>2. /\ Holds(clib, issued') /\ (index' # Torn => Holds(index', issued'))
    BY <1>1, <2>1, Issued DEF Start
  <2> QED BY <1>1, <2>1, <2>2 DEF Start, Stored
<1>2. CASE Ends
  BY <1>2 DEF Ends, NoScan, Stored, Holds, OneEach, Given
<1>3. CASE Scan
  BY <1>3, ScanBooks
<1>4. ASSUME NEW t \in Texts, ImportProfile(t) PROVE Books'
  <2>1. UNCHANGED <<clib, tui>> /\ tui = "idle"
    BY <1>4 DEF ImportProfile, Ready
  <2>2. CASE Import(t)
    <3>2. Store(t) /\ UNCHANGED <<index, lib>>
      BY <2>2 DEF Import, Store
    <3>3. /\ issued \subseteq issued' /\ Stored' \subseteq issued'
          /\ pend'.drop = pend.drop /\ pend'.file \in issued' /\ pend'.text \in Texts
          /\ \A p \in lib : p.id # pend'.file /\ p.file # pend'.file
      BY <3>2, StoreHolds
    <3> QED BY <2>1, <3>2, <3>3, Issued
  <2>3. CASE UNCHANGED <<disk, lib, saving, pend, issued>>
    BY <2>1, <2>3 DEF Stored
  <2> QED BY <1>4, <2>2, <2>3 DEF ImportProfile
<1>5. ASSUME NEW p \in lib, DeleteProfile(p) PROVE Books'
  <2>1. Holds(lib', issued) /\ Stored' = Stored \ {p.file} /\ lib' = lib \ {p}
    BY <1>5, DropHolds DEF DeleteProfile
  <2> QED BY <1>5, <2>1 DEF DeleteProfile, Ready, Saved
<1>6. ASSUME NEW p \in lib, EditProfile(p) PROVE Books'
  <2>1. Holds(lib', issued)
    BY <1>6, EditHolds DEF EditProfile
  <2> QED BY <1>6, <2>1 DEF EditProfile, Ready, Saved, Stored
<1>7. ASSUME NEW p \in lib, SetActive(p) PROVE Books'
  BY <1>7 DEF SetActive, Stored
<1>8. ASSUME NEW ids, SetPool(ids) PROVE Books'
  BY <1>8 DEF SetPool, Stored
<1>9. CASE PoolScreen
  BY <1>8, <1>9 DEF PoolScreen, ToggleMember
<1>10. CASE Tunnel
  BY <1>10 DEF Tunnel, Connect, Connected, GivenUp, Disconnected, Stored
<1>11. CASE CliStart
  <2>1. Holds(clib', issued') /\ issued \subseteq issued'
    BY <1>11, LoadsHold DEF CliStart
  <2>2. /\ Holds(lib, issued') /\ (index' # Torn => Holds(index', issued'))
    BY <1>11, <2>1, Issued DEF CliStart
  <2> QED BY <1>11, <2>1, <2>2 DEF CliStart, Stored
<1>12. CASE CliImport \/ CliReadsConfig \/ CliWritesConfig \/ CliReset
  BY <1>12 DEF CliImport, CliReadsConfig, CliWritesConfig, CliReset, Stored
<1>13. CASE CliEnds
  BY <1>13 DEF CliEnds, Stored, Holds, OneEach, Given
<1>14. ASSUME NEW p \in clib, CliRemove(p) PROVE Books'
  <2>1. Holds(clib', issued)
    BY <1>14 DEF CliRemove, Holds, OneEach, Given
  <2>2. p.file \in Ids
    BY DEF Holds, Given, Profile
  <2>3. Stored' \subseteq Stored
    BY <1>14, <2>2 DEF CliRemove, Unlink, Stored, TypeOK
  <2> QED BY <1>14, <2>1, <2>3 DEF CliRemove
<1>15. ASSUME NEW p \in Programs, OpenIndex(p) PROVE Books'
  BY <1>15 DEF OpenIndex, Stored
<1>16. ASSUME NEW p \in Programs, WriteIndex(p) PROVE Books'
  <2>1. index' = lib \/ index' = clib \/ index' = Torn
    BY <1>16 DEF WriteIndex
  <2> QED BY <1>16, <2>1 DEF WriteIndex, Stored
<1>17. ASSUME NEW t \in Texts, BoxChanges(t) PROVE Books'
  BY <1>17 DEF BoxChanges, Stored
<1>18. ASSUME NEW t \in Texts, FileAppears(t) PROVE Books'
  <2>1. PICK i \in Ids : files' = [files EXCEPT ![i] = t] /\ issued' = issued \cup {i}
    BY <1>18 DEF FileAppears
  <2>2. Stored' \subseteq issued' /\ issued \subseteq issued'
    BY <2>1 DEF Stored, TypeOK
  <2>3. UNCHANGED <<index, lib, clib, pend, tui>>
    BY <1>18 DEF FileAppears
  <2> QED BY <2>2, <2>3, Issued
<1>19. CASE UNCHANGED vars \/ Rests
  BY <1>19 DEF vars, Rests, Stored
<1>20. CASE Stores
  <2>1. /\ Holds(lib', issued) /\ Stored' = Stored /\ pend'.drop = pend.drop
        /\ pend'.file = None /\ lib \subseteq lib'
    BY <1>20, StoresHold
  <2> QED BY <1>20, <2>1 DEF Stores
<1>21. CASE StoreFails
  <2>1. pend'.drop = pend.drop /\ pend'.file = None
    BY <1>21 DEF StoreFails, TypeOK
  <2> QED BY <1>21, <2>1 DEF StoreFails, Stored
<1> QED BY <1>1, <1>2, <1>3, <1>4, <1>5, <1>6, <1>7, <1>9, <1>10, <1>11, <1>12, <1>13, <1>14,
           <1>15, <1>16, <1>17, <1>18, <1>19, <1>20, <1>21 DEF Next, LibraryScreen, Command

LEMMA WritersKept ==
  ASSUME TypeOK, Books, Writers, [Next]_vars
  PROVE  Writers'
<1> USE DEF Writers, TypeOK, screen, command
<1>1. CASE Start \/ Ends \/ PoolScreen \/ Tunnel \/ Command
  BY <1>1 DEF Start, Ends, PoolScreen, ToggleMember, SetPool, Tunnel,
     Connect, Connected, GivenUp, Disconnected, Command, CliStart, CliImport,
     CliReadsConfig, CliWritesConfig, CliEnds, CliReset, CliRemove,
     Saves, Ready, Programs
<1>2. CASE Scan \/ LibraryScreen
  BY <1>2 DEF Scan, BeginScan, ScanForget, EndScan, ScanImport,
     ScanDrop, Scanning, Import, Store, LibraryScreen, ImportProfile,
     DeleteProfile, EditProfile, SetActive, Saves, Ready, Programs
<1>3. ASSUME NEW p \in Programs, OpenIndex(p) \/ WriteIndex(p) PROVE Writers'
  BY <1>3 DEF OpenIndex, WriteIndex, Programs
<1>4. ASSUME NEW t \in Texts, BoxChanges(t) \/ FileAppears(t) PROVE Writers'
  BY <1>4 DEF BoxChanges, FileAppears
<1>5. CASE UNCHANGED vars \/ Rests
  BY <1>5 DEF vars, Rests
<1>6. CASE Stores
  BY <1>6 DEF Stores, Saves, Books, Programs
<1>7. CASE StoreFails
  BY <1>7 DEF StoreFails
<1> QED BY <1>1, <1>2, <1>3, <1>4, <1>5, <1>6, <1>7 DEF Next

LEMMA OwnKept ==
  ASSUME TypeOK, Books, Writers, Own,
         [Next]_vars
  PROVE  Own'
<1> USE DEF Own, disk, command, screen
<1>0. saving \in [Programs -> {"no", "due", "cut", "crossed"}]
      /\ "tui" \in Programs /\ "cli" \in Programs
  BY DEF TypeOK, Programs
<1> DEFINE Same == UNCHANGED <<tui, shared, cli, saving, lib, files, index, pend.file>>
<1>1. ASSUME Same PROVE Own'
  BY <1>1 DEF Stored, Covered, Recognised
<1>2. CASE Start
  <2>1. /\ FilesOf(lib') \subseteq Stored
        /\ \A f \in Stored \ FilesOf(lib') : ~Recognised(f)
    BY <1>2, LoadsHold DEF Start
  <2>2. Stored' = Stored /\ \A f : Recognised(f)' = Recognised(f)
    BY <1>2 DEF Start, Stored, Recognised
  <2>3. saving'["tui"] = "due" /\ shared' = (cli # "off") /\ UNCHANGED cli
    BY <1>0, <1>2 DEF Start, Saves
  <2> QED BY <2>1, <2>2, <2>3 DEF Covered
<1>3. CASE Ends
  BY <1>3 DEF Ends
<1>4. ASSUME NEW t \in Texts, Import(t), UNCHANGED <<shared, cli>>, tui # "off",
            pend.file = None
      PROVE  Own'
  <2>1. Store(t) /\ UNCHANGED <<index, lib, saving>>
    BY <1>4 DEF Import, Store
  <2>2. /\ Stored' = Stored \cup {pend'.file}
        /\ \A f \in Ids : f # pend'.file => files'[f] = files[f]
    BY <2>1, StoreHolds
  <2>3. ASSUME Covered(lib, pend.file) PROVE Covered(lib, pend.file)'
    <3> SUFFICES ASSUME NEW f \in Stored' \ FilesOf(lib), f # pend'.file
                 PROVE  ~Recognised(f)'
      BY <2>1 DEF Covered, FilesOf
    <3>1. f \in Stored /\ f \in Ids /\ files'[f] = files[f]
      BY <2>2 DEF Stored
    <3>2. f # None
      BY <3>1, IdAssumption
    <3> QED BY <1>4, <2>3, <3>1, <3>2 DEF Covered, Recognised
  <2> QED BY <1>4, <2>1, <2>2, <2>3
<1>5. ASSUME NEW p \in lib, Unlink(p), Unlist(p), Saves("tui"),
            UNCHANGED <<shared, cli>>, tui # "off", pend'.file = pend.file
      PROVE  Own'
  <2>1. Stored' = Stored \ {p.file} /\ FilesOf(lib') = FilesOf(lib) \ {p.file}
    BY <1>5, DropHolds
  <2>2. saving'["tui"] = "due"
    BY <1>0, <1>5 DEF Saves
  <2>3. \A f : f # p.file => Recognised(f)' = Recognised(f)
    BY <1>5 DEF Unlink, Recognised, TypeOK
  <2>4. ASSUME Covered(lib, pend.file) PROVE Covered(lib, pend.file)'
    BY <1>5, <2>1, <2>3, <2>4 DEF Covered
  <2> QED BY <1>5, <2>1, <2>2, <2>4
<1>6. CASE BeginScan
  BY <1>6 DEF BeginScan, Saved, NoScan, Stored, Covered, Recognised
<1>7. ASSUME NEW t \in pend.import, ScanImport(t) PROVE Own'
  <2>1. tui = "scan" /\ UNCHANGED <<tui, shared, cli>> /\ t \in Texts /\ pend.file = None
    BY <1>7 DEF ScanImport, Scanning, Saved, TypeOK
  <2>2. pend' = [pend EXCEPT !.import = @ \ {t}] => pend'.file = pend.file
    BY DEF TypeOK
  <2> QED BY <1>1, <1>4, <1>7, <2>1, <2>2 DEF ScanImport
<1>8. ASSUME NEW p \in pend.drop, ScanDrop(p) PROVE Own'
  <2>1. tui = "scan" /\ UNCHANGED <<tui, shared, cli>> /\ p \in lib
    BY <1>8 DEF ScanDrop, Scanning, Books
  <2>2. pend'.file = pend.file
    BY <1>8 DEF ScanDrop, TypeOK
  <2> QED BY <1>1, <1>5, <1>8, <2>1, <2>2 DEF ScanDrop
<1>9. CASE ScanForget \/ EndScan
  <2>1. UNCHANGED <<shared, cli, saving, lib, files, index>> /\ tui # "off"
    BY <1>9 DEF ScanForget, EndScan, Scanning
  <2>2. ScanForget => pend'.file = pend.file
    BY DEF ScanForget, TypeOK
  <2>3. EndScan => pend'.file = pend.file
    BY DEF EndScan, Scanning, Saved, NoScan
  <2> QED BY <1>9, <2>1, <2>2, <2>3 DEF Stored, Covered, Recognised
<1>10. ASSUME NEW t \in Texts, ImportProfile(t) PROVE Own'
  <2>1. tui = "idle" /\ UNCHANGED <<tui, shared, cli>> /\ pend.file = None
    BY <1>10 DEF ImportProfile, Ready, Saved
  <2> QED BY <1>1, <1>4, <1>10, <2>1 DEF ImportProfile
<1>11. ASSUME NEW p \in lib, DeleteProfile(p) PROVE Own'
  BY <1>5, <1>11 DEF DeleteProfile, Ready
<1>12. ASSUME NEW p \in lib, EditProfile(p) PROVE Own'
  <2>1. FilesOf(lib') = FilesOf(lib)
    BY <1>12, EditHolds DEF EditProfile
  <2>2. saving'["tui"] = "due"
    BY <1>0, <1>12 DEF EditProfile, Saves
  <2> QED BY <1>12, <2>1, <2>2 DEF EditProfile, Stored, Covered, Recognised
<1>13. ASSUME NEW p \in lib, SetActive(p) PROVE Own'
  BY <1>1, <1>13 DEF SetActive
<1>14. ASSUME NEW ids, SetPool(ids) PROVE Own'
  BY <1>1, <1>14 DEF SetPool
<1>15. CASE PoolScreen
  BY <1>14, <1>15 DEF PoolScreen, ToggleMember
<1>16. CASE Tunnel
  <2>1. CASE Connected
    BY <1>0, <2>1 DEF Connected, Saves, Stored, Covered, Recognised
  <2> QED BY <1>1, <1>16, <2>1 DEF Tunnel, Connect, GivenUp, Disconnected
<1>17. CASE CliStart
  BY <1>17 DEF CliStart
<1>18. CASE CliImport \/ CliReadsConfig \/ CliWritesConfig
             \/ \E p \in clib : CliRemove(p)
  BY <1>18 DEF CliImport, CliReadsConfig, CliWritesConfig, CliRemove
<1>19. CASE CliReset
  BY <1>1, <1>19 DEF CliReset
<1>20. CASE CliEnds
  BY <1>0, <1>20 DEF CliEnds, Stored, Covered, Recognised
<1>21. ASSUME NEW p \in Programs, OpenIndex(p) PROVE Own'
  <2>1. p = "tui" => saving'["tui"] = "cut"
    BY <1>0, <1>21 DEF OpenIndex
  <2>2. UNCHANGED <<tui, shared, cli, lib, files, pend>> /\ (p = "cli" => cli # "off")
    BY <1>21 DEF OpenIndex, Writers
  <2>3. p = "tui" \/ p = "cli"
    BY DEF Programs
  <2> QED BY <2>1, <2>2, <2>3 DEF Stored, Covered, Recognised
<1>22. ASSUME NEW p \in Programs, WriteIndex(p) PROVE Own'
  <2>1. p = "tui" => saving'["tui"] = "no" /\ (saving["tui"] # "crossed" => index' = lib)
    BY <1>0, <1>22 DEF WriteIndex
  <2>2. UNCHANGED <<tui, shared, cli, lib, files, pend>> /\ (p = "cli" => cli # "off")
    BY <1>22 DEF WriteIndex, Writers
  <2>3. p = "tui" \/ p = "cli"
    BY DEF Programs
  <2> QED BY <2>1, <2>2, <2>3 DEF Stored, Covered, Recognised
<1>23. ASSUME NEW t \in Texts, BoxChanges(t) \/ FileAppears(t) PROVE Own'
  BY <1>1, <1>23 DEF BoxChanges, FileAppears
<1>24. CASE UNCHANGED vars \/ Rests
  BY <1>1, <1>24 DEF vars, Rests
<1>25. CASE Stores
  <2>1. /\ FilesOf(lib') = FilesOf(lib) \cup {pend.file} /\ Stored' = Stored
        /\ \A f \in Ids : f # pend.file => files'[f] = files[f]
        /\ tui # "off"
    BY <1>25, StoresHold
  <2>2. pend.file \in Stored
    BY <1>25 DEF Stores, Stored, TypeOK
  <2>3. \A f \in Ids : f # pend.file => Recognised(f)' = Recognised(f)
    BY <2>1 DEF Recognised
  <2>4. Covered(lib, pend.file) => Covered(lib, pend.file)'
    BY <2>1, <2>3 DEF Covered, Stored
  <2>5. saving'["tui"] = "due" /\ UNCHANGED <<tui, shared, cli>>
    BY <1>0, <1>25 DEF Stores, Saves
  <2> QED BY <2>1, <2>2, <2>4, <2>5
<1>26. CASE StoreFails
  <2>1. UNCHANGED <<tui, shared, cli, saving, lib, files, index>> /\ pend.file \notin Stored
    BY <1>26 DEF StoreFails, Stored
  <2>2. Covered(lib, pend.file) => Covered(lib, pend.file)'
    BY <2>1 DEF Covered, Stored, Recognised
  <2> QED BY <2>1, <2>2 DEF Stored
<1> QED BY <1>25, <1>26, <1>2, <1>3, <1>6, <1>7, <1>8, <1>9, <1>10, <1>11, <1>12, <1>13, <1>15, <1>16, <1>17,
           <1>18, <1>19, <1>20, <1>21, <1>22, <1>23, <1>24 DEF Next, Scan,
           LibraryScreen, Command

(* The inductive invariant of the library. *)
Kempt == TypeOK /\ Books /\ Writers /\ Own

LEMMA KemptAlways == Spec => []Kempt
<1>1. Init => Kempt
  <2> SUFFICES ASSUME Init PROVE Kempt
    OBVIOUS
  <2>1. TypeOK
    <3>1. conf \in Config /\ mem \in Config /\ cmem \in Config
          /\ changes \in 0..MaxChanges
      BY BoundAssumption DEF Init, Defaults, Config
    <3>2. pend \in Pending
      BY DEF Init, NoScan, Pending
    <3> QED BY <3>1, <3>2 DEF Init, TypeOK, Pending
  <2>2. Books
    BY DEF Init, Books, Holds, OneEach, Given, Stored, NoScan
  <2> QED BY <2>1, <2>2 DEF Init, Kempt, Writers, Own, Covered, Programs
<1>2. Kempt /\ [Next]_vars => Kempt'
  BY Typed, BooksKept, WritersKept, OwnKept DEF Kempt
<1> QED BY <1>1, <1>2, PTL DEF Spec

(* A library has as many identities, and as many files, as profiles. *)
LEMMA OneToOne ==
  ASSUME IsFiniteSet(Ids), NEW L, L \subseteq Profile, OneEach(L)
  PROVE  /\ Cardinality(IdsOf(L)) = Cardinality(L)
         /\ Cardinality(FilesOf(L)) = Cardinality(L)
<1>1. IdsOf(L) \subseteq Ids /\ \A p \in L : p.id \in IdsOf(L) /\ p.file \in FilesOf(L)
  BY DEF IdsOf, FilesOf, Profile
<1>2. IsFiniteSet(IdsOf(L))
  BY <1>1, FS_Subset
<1> DEFINE ident == [p \in L |-> p.id]
           file == [p \in L |-> p.file]
<1>3. ident \in Injection(L, IdsOf(L)) /\ ident \in Surjection(L, IdsOf(L))
  BY <1>1 DEF Injection, Surjection, IsInjective, OneEach, IdsOf
<1>4. file \in Injection(L, FilesOf(L)) /\ file \in Surjection(L, FilesOf(L))
  BY <1>1 DEF Injection, Surjection, IsInjective, OneEach, FilesOf
<1> HIDE DEF ident, file
<1>5. IsFiniteSet(L) /\ Cardinality(IdsOf(L)) = Cardinality(L)
  BY <1>2, <1>3, FS_Injection
<1>6. Cardinality(FilesOf(L)) = Cardinality(L)
  BY <1>4, <1>5, FS_Surjection
<1> QED BY <1>5, <1>6

(* While nothing else writes profiles/, every profile has a file of its own and *)
(* every file a profile, but the one being stored and those whose protocol      *)
(* cannot be told, as a kill between opening and writing one leaves them; and   *)
(* the index is the library whenever it is whole (profiles.py:273-331, 484-502, *)
(* 516-523).                                                                    *)
THEOREM LibraryIsAccounted == Spec => []Accounted
<1>1. Kempt => Accounted
  <2> SUFFICES ASSUME Kempt PROVE Accounted
    OBVIOUS
  <2>1. lib \subseteq Profile /\ OneEach(lib)
    BY DEF Kempt, Books, Holds, Given
  <2>2. IsFiniteSet(Ids)
    BY IdAssumption
  <2>3. /\ Cardinality(IdsOf(lib)) = Cardinality(lib)
        /\ Cardinality(FilesOf(lib)) = Cardinality(lib)
    BY <2>1, <2>2, OneToOne
  <2> QED BY <2>3 DEF Kempt, Own, Covered, Accounted, FilesOf
<1> QED BY <1>1, KemptAlways, PTL

(* The rotation is the resolved pool until a scan changes the library. *)
Fresh ==
  \/ tui \in {"boot", "idle"}
  \/ tui = "scan" /\ ~pend.changed /\ pend.forget = None
  => IdsOf(rotation) = IdsOf(Pool(lib, mem.pool))

(* The library is what the drop-box holds, but for what the scan still imports  *)
(* and drops, for files that are gone and for the current profile.            *)
Mirrors(import, drop) ==
  /\ \A t \in box : Usable(Inner(t)) => t \in HeldTexts(lib) \cup import
  /\ \A p \in lib :
       \/ Text(p) \in box \cup {None} \cup HeldTexts(drop)
       \/ \E q \in lib : q.id = current /\ Text(p) = Text(q)

(* From the beginning of a scan that changes nothing to the next event. *)
Settling ==
  /\ settled = "yes" => tui = "idle" /\ pend.file = None /\ Mirrors({}, {})
  /\ settled # "no" /\ pend.file # None => files[pend.file] # None
  /\ settled = "begun" =>
       /\ tui = "scan"
       /\ ~pend.changed /\ pend.forget = None /\ pend.file = None =>
            Mirrors(pend.import, pend.drop)

(* A pool has the same identities in two libraries with the same identities. *)
LEMMA SamePool ==
  ASSUME NEW L, NEW M, NEW ids, IdsOf(L) = IdsOf(M)
  PROVE  IdsOf(Pool(L, ids)) = IdsOf(Pool(M, ids))
<1>1. ASSUME NEW K PROVE IdsOf({p \in K : p.id \in ids}) = IdsOf(K) \cap ids
  BY DEF IdsOf
<1>2. ASSUME NEW K PROVE K = {} <=> IdsOf(K) = {}
  BY DEF IdsOf
<1>3. ASSUME NEW K
      PROVE  IdsOf(Pool(K, ids)) = LET kept == IdsOf(K) \cap ids
                                        IN  IF kept = {} THEN IdsOf(K) ELSE kept
  <2> DEFINE chosen == {p \in K : p.id \in ids}
  <2>1. Pool(K, ids) = IF chosen = {} THEN K ELSE chosen
    BY DEF Pool
  <2>2. IdsOf(chosen) = IdsOf(K) \cap ids
    BY <1>1
  <2> HIDE DEF chosen
  <2>3. chosen = {} <=> IdsOf(chosen) = {}
    BY <1>2
  <2> QED BY <2>1, <2>2, <2>3
<1> QED BY <1>3

LEMMA FreshKept ==
  ASSUME Kempt, Fresh, [Next]_vars
  PROVE  Fresh'
<1> USE DEF Fresh, disk, command, screen, tunnel
<1>0. TypeOK /\ Books /\ pend \in Pending
  BY DEF Kempt, TypeOK, Pending
<1>1. ASSUME Refresh PROVE Fresh'
  BY <1>1 DEF Refresh
<1>2. ASSUME UNCHANGED <<tui, pend, rotation, lib, mem>> PROVE Fresh'
  BY <1>2
<1>3. CASE Start
  <2>1. conf = mem' /\ rotation' = Pool(lib', conf.pool)
    BY <1>3 DEF Start
  <2> QED BY <2>1
<1>4. CASE Ends
  BY <1>4 DEF Ends
<1>5. CASE BeginScan
  BY <1>5 DEF BeginScan
<1>6. ASSUME NEW t \in pend.import, ScanImport(t) PROVE Fresh'
  <2>1. tui' = "scan" /\ tui = "scan" /\ UNCHANGED <<rotation, mem>>
    BY <1>6 DEF ScanImport, Scanning
  <2>2. CASE Import(t)
    <3>1. t \in Texts /\ Store(t) /\ UNCHANGED lib
      BY <1>0, <2>2 DEF Pending, Import, Store
    <3>2. pend'.changed = pend.changed /\ pend'.forget = pend.forget
      BY <1>0, <3>1, StoreHolds
    <3> QED BY <2>1, <3>1, <3>2
  <2>3. CASE pend' = [pend EXCEPT !.import = @ \ {t}] /\ UNCHANGED lib
    BY <1>0, <2>1, <2>3 DEF Pending
  <2> QED BY <1>6, <2>2, <2>3 DEF ScanImport
<1>7. ASSUME NEW p \in pend.drop, ScanDrop(p) PROVE Fresh'
  <2>1. tui' = "scan" /\ tui = "scan" /\ UNCHANGED <<rotation, mem>> /\ p.id # None
    BY <1>0, <1>7, IdAssumption DEF ScanDrop, Scanning, Pending, Profile
  <2>2. CASE pend' = [pend EXCEPT !.drop = @ \ {p}, !.forget = p.id]
    BY <1>0, <2>1, <2>2 DEF Pending
  <2>3. CASE pend' = [pend EXCEPT !.drop = @ \ {p}] /\ UNCHANGED lib
    BY <1>0, <2>1, <2>3 DEF Pending
  <2> QED BY <1>7, <2>2, <2>3 DEF ScanDrop
<1>8. CASE ScanForget
  BY <1>0, <1>8 DEF ScanForget, Pending
<1>9. CASE EndScan
  <2>1. CASE pend.changed
    BY <1>1, <1>9, <2>1 DEF EndScan
  <2>2. CASE ~pend.changed
    BY <1>9, <2>2 DEF EndScan, Scanning
  <2> QED BY <2>1, <2>2
<1>10. ASSUME NEW t \in Texts, ImportProfile(t) PROVE Fresh'
  BY <1>10 DEF ImportProfile, Import, Store, Ready
<1>11. ASSUME NEW p \in lib, DeleteProfile(p) PROVE Fresh'
  BY <1>1, <1>11 DEF DeleteProfile
<1>12. ASSUME NEW p \in lib, EditProfile(p) PROVE Fresh'
  <2>1. IdsOf(lib') = IdsOf(lib) /\ UNCHANGED <<tui, pend, rotation, mem>>
    BY <1>0, <1>12, EditHolds DEF EditProfile
  <2>2. IdsOf(Pool(lib', mem.pool)) = IdsOf(Pool(lib, mem.pool))
    BY <2>1, SamePool
  <2> QED BY <2>1, <2>2
<1>13. ASSUME NEW p \in lib, SetActive(p) PROVE Fresh'
  <2>1. mem'.pool = mem.pool /\ UNCHANGED <<tui, pend, rotation, lib>>
    BY <1>0, <1>13 DEF SetActive, Configure, TypeOK, Config
  <2> QED BY <2>1
<1>14. ASSUME NEW ids, SetPool(ids) PROVE Fresh'
  BY <1>1, <1>14 DEF SetPool
<1>15. CASE PoolScreen
  BY <1>14, <1>15 DEF PoolScreen, ToggleMember
<1>16. CASE Tunnel
  BY <1>2, <1>16 DEF Tunnel, Connect, Connected, GivenUp, Disconnected
<1>17. CASE Command
  BY <1>2, <1>17 DEF Command, CliStart, CliImport, CliReadsConfig,
     CliWritesConfig, CliEnds, CliReset, CliRemove
<1>18. ASSUME NEW p \in Programs, OpenIndex(p) \/ WriteIndex(p) PROVE Fresh'
  BY <1>2, <1>18 DEF OpenIndex, WriteIndex
<1>19. ASSUME NEW t \in Texts, BoxChanges(t) \/ FileAppears(t) PROVE Fresh'
  BY <1>2, <1>19 DEF BoxChanges, FileAppears
<1>20. CASE UNCHANGED vars \/ Rests
  BY <1>2, <1>20 DEF vars, Rests
<1>21. CASE Stores
  <2>1. pend'.changed = (tui = "scan") /\ UNCHANGED tui
    BY <1>0, <1>21, StoresHold DEF Stores
  <2> QED BY <1>1, <1>21, <2>1 DEF Stores
<1>22. CASE StoreFails
  <2>1. pend'.changed = pend.changed /\ pend'.forget = pend.forget
    BY <1>0, <1>22 DEF StoreFails, Pending
  <2> QED BY <1>22, <2>1 DEF StoreFails
<1> QED BY <1>21, <1>22, <1>3, <1>4, <1>5, <1>6, <1>7, <1>8, <1>9, <1>10, <1>11, <1>12, <1>13, <1>15, <1>16,
           <1>17, <1>18, <1>19, <1>20 DEF Next, Scan, LibraryScreen

LEMMA SettlingKept ==
  ASSUME Kempt, Settling, [Next]_vars
  PROVE  Settling'
<1> USE DEF Settling, disk, command, screen, tunnel
<1>0. TypeOK /\ Books /\ pend \in Pending
  BY DEF Kempt, TypeOK, Pending
<1>1. ASSUME Unsettled PROVE Settling'
  BY <1>1 DEF Unsettled
<1>2. ASSUME UNCHANGED <<files, lib, box, current>>, NEW I, NEW D
      PROVE  Mirrors(I, D)' <=> Mirrors(I, D)
  BY <1>2 DEF Mirrors, HeldTexts, Text
<1>3. ASSUME UNCHANGED <<files, lib, box, current, settled, tui, pend>> PROVE Settling'
  BY <1>3 DEF Mirrors, HeldTexts, Text
<1>4. CASE Start
  BY <1>4 DEF Start
<1>5. CASE Ends
  BY <1>1, <1>5 DEF Ends
<1>6. CASE BeginScan
  <2>1. PICK leaving \in SUBSET {p \in lib : Text(p) \notin box \cup {None}} :
           /\ HeldTexts(leaving) = HeldTexts(lib) \ box
           /\ pend' = [NoScan EXCEPT !.drop = leaving, !.import = box \ HeldTexts(lib)]
    BY <1>6 DEF BeginScan
  <2>2. /\ UNCHANGED <<files, lib, box, current>> /\ tui' = "scan" /\ settled' = "begun"
        /\ pend'.drop = leaving /\ pend'.import = box \ HeldTexts(lib)
    BY <1>6, <2>1 DEF BeginScan, NoScan
  <2>3. Mirrors(pend'.import, pend'.drop)
    BY <2>1, <2>2 DEF Mirrors, HeldTexts
  <2>4. Mirrors(pend.import, pend.drop)'
    BY <2>2, <2>3 DEF Mirrors, HeldTexts, Text
  <2>5. pend'.file = None
    BY <2>1 DEF NoScan
  <2> QED BY <2>2, <2>4, <2>5
<1>7. ASSUME NEW t \in pend.import, ScanImport(t) PROVE Settling'
  <2>1. /\ tui' = "scan" /\ tui = "scan" /\ UNCHANGED <<settled, box, current>>
        /\ pend.file = None
    BY <1>7 DEF ScanImport, Scanning, Saved
  <2>2. CASE Import(t)
    <3>1. t \in Texts /\ Store(t)
      BY <1>0, <2>2 DEF Pending, Import
    <3>2. /\ pend'.file \in issued' /\ issued' \subseteq Ids
          /\ Stored' = Stored \cup {pend'.file}
      BY <1>0, <3>1, StoreHolds
    <3>3. pend'.file # None /\ files'[pend'.file] # None
      BY <3>2, IdAssumption DEF Stored
    <3> QED BY <2>1, <3>3
  <2>3. CASE /\ pend' = [pend EXCEPT !.import = @ \ {t}]
             /\ UNCHANGED <<files, lib>> /\ (t \notin box \/ ~Usable(Inner(t)))
    <3>1. /\ pend'.import = pend.import \ {t}
          /\ UNCHANGED <<pend.drop, pend.changed, pend.forget, pend.file>>
      BY <1>0, <2>3 DEF Pending
    <3>2. Mirrors(pend.import, pend.drop) => Mirrors(pend.import, pend.drop)'
      BY <2>1, <2>3, <3>1 DEF Mirrors, HeldTexts, Text
    <3> QED BY <2>1, <3>1, <3>2
  <2> QED BY <1>7, <2>2, <2>3 DEF ScanImport
<1>8. ASSUME NEW p \in pend.drop, ScanDrop(p) PROVE Settling'
  <2>1. /\ tui' = "scan" /\ tui = "scan" /\ UNCHANGED <<settled, box, current>>
        /\ p.id # None /\ pend.file = None
        /\ p \in lib
    BY <1>0, <1>8, IdAssumption DEF ScanDrop, Scanning, Saved, Pending, Profile, Books
  <2>2. CASE pend' = [pend EXCEPT !.drop = @ \ {p}, !.forget = p.id]
    BY <1>0, <2>1, <2>2 DEF Pending
  <2>3. CASE /\ pend' = [pend EXCEPT !.drop = @ \ {p}] /\ UNCHANGED <<files, lib>>
             /\ p.id = current
    <3>1. /\ pend'.drop = pend.drop \ {p}
          /\ UNCHANGED <<pend.import, pend.changed, pend.forget, pend.file>>
      BY <1>0, <2>3 DEF Pending
    <3>2. Mirrors(pend.import, pend.drop) => Mirrors(pend.import, pend.drop)'
      BY <2>1, <2>3, <3>1 DEF Mirrors, HeldTexts, Text
    <3> QED BY <2>1, <3>1, <3>2
  <2> QED BY <1>8, <2>2, <2>3 DEF ScanDrop, Spared
<1>9. CASE ScanForget
  BY <1>0, <1>9 DEF ScanForget, Saved, Pending
<1>10. CASE EndScan
  <2>1. CASE settled' = "yes"
    <3>1. /\ ~pend.changed /\ settled \in {"begun", "yes"} /\ tui = "scan" /\ tui' = "idle"
          /\ pend.forget = None /\ pend.import = {} /\ pend.drop = {}
          /\ pend.file = None /\ pend'.file = None
      BY <1>0, <1>10, <2>1 DEF EndScan, Scanning, Saved, NoScan, TypeOK
    <3>2. Mirrors({}, {})
      BY <3>1
    <3>3. UNCHANGED <<files, lib, box, current>>
      BY <1>10 DEF EndScan
    <3> QED BY <1>2, <2>1, <3>1, <3>2, <3>3
  <2>2. CASE settled' = "no"
    BY <2>2
  <2> QED BY <1>10, <2>1, <2>2 DEF EndScan
<1>11. ASSUME NEW p \in lib, EditProfile(p) PROVE Settling'
  <2> DEFINE new == [p EXCEPT !.edited = TRUE]
  <2>1. new.id = p.id /\ new.file = p.file
    BY <1>0 DEF TypeOK, Profile
  <2>2. lib' = (lib \ {p}) \cup {new} /\ UNCHANGED <<files, box, current, settled, tui, pend>>
        /\ tui = "idle"
    BY <1>11 DEF EditProfile, Ready
  <2> HIDE DEF new
  <2>3. Text(new)' = Text(p) /\ \A q : Text(q)' = Text(q)
    BY <2>1, <2>2 DEF Text
  <2>4. HeldTexts(lib)' = HeldTexts(lib) /\ HeldTexts({})' = HeldTexts({})
    BY <2>1, <2>2 DEF Text, HeldTexts
  <2>5. Mirrors({}, {}) => Mirrors({}, {})'
    BY <2>1, <2>2, <2>3, <2>4 DEF Mirrors
  <2> QED BY <2>2, <2>5
<1>12. CASE (\E t \in Texts : ImportProfile(t)) \/ \E p \in lib : DeleteProfile(p)
  BY <1>1, <1>12 DEF ImportProfile, DeleteProfile
<1>13. ASSUME NEW p \in lib, SetActive(p) PROVE Settling'
  BY <1>3, <1>13 DEF SetActive
<1>14. ASSUME NEW ids, SetPool(ids) PROVE Settling'
  BY <1>3, <1>14 DEF SetPool
<1>15. CASE PoolScreen
  BY <1>14, <1>15 DEF PoolScreen, ToggleMember
<1>16. CASE Tunnel
  BY <1>1, <1>3, <1>16 DEF Tunnel, Connect, Connected, GivenUp, Disconnected
<1>17. CASE \E p \in clib : CliRemove(p)
  BY <1>1, <1>17 DEF CliRemove
<1>18. CASE CliStart \/ CliImport \/ CliReadsConfig \/ CliWritesConfig
             \/ CliEnds \/ CliReset
  BY <1>3, <1>18 DEF CliStart, CliImport, CliReadsConfig, CliWritesConfig,
     CliEnds, CliReset
<1>19. ASSUME NEW p \in Programs, OpenIndex(p) \/ WriteIndex(p) PROVE Settling'
  BY <1>3, <1>19 DEF OpenIndex, WriteIndex
<1>20. ASSUME NEW t \in Texts, BoxChanges(t) \/ FileAppears(t) PROVE Settling'
  BY <1>1, <1>20 DEF BoxChanges, FileAppears
<1>21. CASE UNCHANGED vars \/ Rests
  BY <1>3, <1>21 DEF vars, Rests
<1>22. CASE Stores
  <2>1. /\ pend'.changed = (tui = "scan") /\ pend'.file = None /\ pend.file # None
        /\ UNCHANGED <<tui, settled>>
    BY <1>0, <1>22, StoresHold DEF Stores
  <2> QED BY <2>1
<1>23. CASE StoreFails
  <2>1. pend.file # None /\ files[pend.file] = None /\ UNCHANGED settled
    BY <1>23 DEF StoreFails
  <2> QED BY <1>0, <2>1 DEF TypeOK
<1> QED BY <1>22, <1>23, <1>4, <1>5, <1>6, <1>7, <1>8, <1>9, <1>10, <1>11, <1>12, <1>13, <1>15, <1>16, <1>17,
           <1>18, <1>19, <1>20, <1>21 DEF Next, Scan, LibraryScreen, Command

(* The idle interface rotates over the configured pool of its library           *)
(* (manager.py:117-121, profiles.py:345-349).                                   *)
THEOREM RotationIsResolved == Spec => []PoolResolved
<1>1. Init => Fresh
  BY DEF Init, Fresh
<1>2. Kempt /\ Fresh /\ [Next]_vars => Fresh'
  BY FreshKept
<1>3. Fresh => PoolResolved
  BY DEF Fresh, PoolResolved
<1> QED BY <1>1, <1>2, <1>3, KemptAlways, PTL DEF Spec

(* A scan that reports no change leaves the library the mirror of the drop-box  *)
(* (runtime.py:210-219, 246-312).                                               *)
THEOREM ScanMirrors == Spec => []ScanSettles
<1>1. Init => Settling
  BY DEF Init, Settling
<1>2. Kempt /\ Settling /\ [Next]_vars => Settling'
  BY SettlingKept
<1>3. Settling => ScanSettles
  <2> SUFFICES ASSUME Mirrors({}, {}), NEW p \in lib
               PROVE  Text(p) \in box \cup {None}
                                       \cup {Text(q) : q \in {r \in lib : r.id = current}}
    BY DEF Settling, ScanSettles, Mirrors
  <2> QED BY DEF Mirrors, HeldTexts
<1> QED BY <1>1, <1>2, <1>3, KemptAlways, PTL DEF Spec
=============================================================================
