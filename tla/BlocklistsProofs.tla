-------------------------- MODULE BlocklistsProofs --------------------------
(* Theorems about Blocklists, for any lists, addresses and workers, and any number *)
(* of changes.                                                                      *)
EXTENDS Blocklists, TLAPS

(* Next, with the workers and programs taken apart. *)
LEMMA NextCases ==
  ASSUME Next
  PROVE  \/ Start \/ Ends \/ BeginScan \/ MergeCatalogue \/ EndScan
         \/ (\E n \in scan.todo : ScanFile(n)) \/ (\E n \in scan.held : ScanRemove(n))
         \/ (\E n \in dir : ToggleList(n)) \/ (\E n \in dir : RemoveList(n))
         \/ (\E j \in Jobs : Update(j)) \/ (\E j \in Jobs, n \in Files : ImportList(j, n))
         \/ (\E j \in Jobs : Adopt(j)) \/ (\E j \in Jobs : StoreList(j))
         \/ (\E j \in Jobs : StoreFails(j)) \/ (\E j \in Jobs : EnableImported(j))
         \/ (\E j \in Jobs : Updated(j)) \/ (\E j \in Jobs : \E u \in job[j].left : Fetch(j, u))
         \/ CliUpdate \/ CliReset \/ CliReadsConfig \/ CliWritesConfig \/ CliKilled
         \/ (\E u \in cli.left : CliFetch(u))
         \/ CatalogueDropped \/ (\E n \in Files : BoxChanges(n))
         \/ (\E u \in Urls : CatalogueEdited(u)) \/ UNCHANGED vars
  BY DEF Next, Scan, ShieldScreen, Worker, Command, Rests

LEMMA AsksBounded ==
  ASSUME TypeOK, Asks
  PROVE  changes' \in 0..MaxChanges
  BY BoundAssumption DEF TypeOK, Asks

LEMMA EmptyWork == NoJob \in Work /\ NoScan \in Scans
  BY DEF NoJob, Work, NoScan, Scans

LEMMA WorkFetched ==
  ASSUME NEW r \in Work, NEW u \in Urls, NEW ok \in BOOLEAN
  PROVE  Fetched(r, u, ok) \in Work
  BY DEF Fetched, Work, Names

LEMMA FreeIsOwn ==
  ASSUME NEW n \in Own, NEW taken
  PROVE  Free(n, taken) \subseteq Own
  BY DEF Free, Own

LEMMA WorkNamed ==
  ASSUME NEW r \in Work, NEW n \in Own, NEW s \in {"adopt", "store", "enable"}
  PROVE  [r EXCEPT !.step = s, !.name = n] \in Work
  BY DEF Work

(* An import in progress has a list. *)
Named == \A j \in Jobs : job[j].step \in {"adopt", "store", "enable"} => job[j].name \in Own

LEMMA BlocklistsTypeStep ==
  ASSUME TypeOK, Named, [Next]_vars
  PROVE  TypeOK'
<1> USE DEF sources, interface
<1>0. Own \subseteq Names /\ (\A u \in Urls : Filename(u) \in Names) /\ Files \subseteq Own
  BY DEF Names, Own
<1>1. CASE Start
  BY <1>1 DEF Start, TypeOK
<1>2. CASE Ends
  BY <1>2, EmptyWork DEF Ends, Unsettled, TypeOK
<1>3. CASE BeginScan
  <2>1. Downloaded \subseteq Names
    BY <1>0 DEF Downloaded, Listed
  <2>2. IsUrlCatalogue \in BOOLEAN
    BY DEF IsUrlCatalogue
  <2>3. box \subseteq Own /\ dir \subseteq Names /\ mem \subseteq Names
    BY DEF TypeOK
  <2>4. scan' = [todo |-> box, merge |-> IsUrlCatalogue, held |-> dir, kept |-> Downloaded,
                 wanted |-> {}, enabled |-> mem, changed |-> FALSE]
    BY <1>3 DEF BeginScan, NoScan
  <2>5. scan' \in Scans
    BY <2>1, <2>2, <2>3, <2>4 DEF Scans
  <2> QED BY <1>3, <2>5 DEF BeginScan, TypeOK
<1>4. CASE MergeCatalogue
  <2>1. scan' \in Scans
    BY <1>4 DEF MergeCatalogue, TypeOK, Scans
  <2>2. catalogue' \in [Urls -> {"absent", "on", "off"}]
    BY <1>4 DEF MergeCatalogue, TypeOK
  <2> QED BY <1>4, <2>1, <2>2 DEF MergeCatalogue, TypeOK
<1>5. CASE EndScan
  <2>1. scan.enabled \subseteq Names
    BY DEF TypeOK, Scans
  <2> QED BY <1>5, <2>1, EmptyWork DEF EndScan, Enable, TypeOK
<1>6. ASSUME NEW n \in scan.todo, ScanFile(n) PROVE TypeOK'
  <2> DEFINE looked == [scan EXCEPT !.todo = @ \ {n}, !.wanted = @ \cup {n}]
  <2>1. n \in Own /\ n \in Names /\ scan \in Scans
    BY <1>0 DEF TypeOK, Scans
  <2>2. looked \in Scans
    BY <2>1 DEF Scans
  <2>3. CASE scan' = looked /\ UNCHANGED dir
    BY <1>6, <2>2, <2>3 DEF ScanFile, TypeOK
  <2>4. ASSUME NEW m \in Free(n, dir), dir' = dir \cup {m},
               scan' = [looked EXCEPT !.enabled = @ \cup {m}, !.changed = TRUE]
        PROVE  TypeOK'
    <3>1. m \in Names
      BY <1>0, <2>1, FreeIsOwn
    <3>2. scan' \in Scans
      <4> HIDE DEF looked
      <4> QED BY <2>2, <2>4, <3>1 DEF Scans
    <3> QED BY <1>6, <2>4, <3>1, <3>2 DEF ScanFile, TypeOK
  <2> QED BY <1>6, <2>3, <2>4 DEF ScanFile
<1>7. ASSUME NEW n \in scan.held, ScanRemove(n) PROVE TypeOK'
  <2>1. scan' \in Scans
    BY <1>7 DEF ScanRemove, TypeOK, Scans
  <2> QED BY <1>7, <2>1 DEF ScanRemove, TypeOK
<1>8. ASSUME NEW n \in dir, ToggleList(n) \/ RemoveList(n) PROVE TypeOK'
  <2>1. changes' \in 0..MaxChanges
    BY <1>8, AsksBounded DEF ToggleList, RemoveList
  <2> QED BY <1>8, <2>1 DEF ToggleList, RemoveList, Enable, Unsettled, TypeOK
<1>9. ASSUME NEW j \in Jobs, Update(j) PROVE TypeOK'
  <2>1. [NoJob EXCEPT !.step = "fetch", !.left = Listed({"on"}), !.saw = mem] \in Work
    BY DEF NoJob, Work, Listed, TypeOK
  <2>2. changes' \in 0..MaxChanges
    BY <1>9, AsksBounded DEF Update
  <2> QED BY <1>9, <2>1, <2>2 DEF Update, Becomes, TypeOK
<1>10. ASSUME NEW j \in Jobs, NEW n \in Files, ImportList(j, n) PROVE TypeOK'
  <2>1. [NoJob EXCEPT !.step = "adopt", !.name = n] \in Work
    BY <1>0, EmptyWork, WorkNamed
  <2>2. changes' \in 0..MaxChanges
    BY <1>10, AsksBounded DEF ImportList
  <2> QED BY <1>10, <2>1, <2>2 DEF ImportList, Becomes, TypeOK
<1>11. ASSUME NEW j \in Jobs, Adopt(j) PROVE TypeOK'
  <2>1. job[j] \in Work /\ job[j].name \in Own
    BY <1>11 DEF Adopt, TypeOK, Named
  <2>2. PICK m \in {job[j].name} \cup (IF job[j].name \in box THEN Spares \ box ELSE {}) :
          box' = box \cup {m} /\ Becomes(j, [job[j] EXCEPT !.step = "store", !.name = m])
    BY <1>11 DEF Adopt
  <2>3. m \in Own
    BY <2>1, <2>2 DEF Own
  <2>4. [job[j] EXCEPT !.step = "store", !.name = m] \in Work
    BY <2>1, <2>3, WorkNamed
  <2> QED BY <1>11, <2>2, <2>3, <2>4 DEF Adopt, Becomes, Unsettled, TypeOK
<1>12. ASSUME NEW j \in Jobs, StoreList(j) PROVE TypeOK'
  <2>1. job[j] \in Work /\ job[j].name \in Own
    BY <1>12 DEF StoreList, TypeOK, Named
  <2>2. PICK m \in Free(job[j].name, dir) :
          dir' = dir \cup {m} /\ Becomes(j, [job[j] EXCEPT !.step = "enable", !.name = m])
    BY <1>12 DEF StoreList
  <2>3. m \in Own /\ m \in Names
    BY <1>0, <2>1, <2>2, FreeIsOwn
  <2>4. [job[j] EXCEPT !.step = "enable", !.name = m] \in Work
    BY <2>1, <2>3, WorkNamed
  <2> QED BY <1>12, <2>2, <2>3, <2>4 DEF StoreList, Becomes, Unsettled, TypeOK
<1>13. ASSUME NEW j \in Jobs, StoreFails(j) PROVE TypeOK'
  BY <1>13, EmptyWork DEF StoreFails, Becomes, TypeOK
<1>14. ASSUME NEW j \in Jobs, EnableImported(j) PROVE TypeOK'
  <2>1. job[j].name \in Names
    BY <1>0, <1>14 DEF EnableImported, Named
  <2> QED BY <1>14, <2>1, EmptyWork DEF EnableImported, Becomes, Enable, TypeOK
<1>15. ASSUME NEW j \in Jobs, Updated(j) PROVE TypeOK'
  <2>1. job[j].wrote \subseteq Names
    BY DEF TypeOK, Work
  <2> QED BY <1>15, <2>1, EmptyWork DEF Updated, Becomes, EnablesWritten, Enable, TypeOK
<1>16. ASSUME NEW j \in Jobs, NEW u \in job[j].left, Fetch(j, u) PROVE TypeOK'
  <2>1. job[j] \in Work /\ u \in Urls
    BY DEF TypeOK, Work
  <2>2. PICK ok \in BOOLEAN : Written(u, ok) /\ Becomes(j, Fetched(job[j], u, ok))
    BY <1>16 DEF Fetch
  <2>3. Fetched(job[j], u, ok) \in Work
    BY <2>1, WorkFetched
  <2> QED BY <1>0, <1>16, <2>1, <2>2, <2>3 DEF Fetch, Written, Becomes, Unsettled, TypeOK
<1>17. CASE CliUpdate
  <2>1. [NoJob EXCEPT !.step = "fetch", !.left = Listed({"on"})] \in Work
    BY DEF NoJob, Work, Listed
  <2>2. changes' \in 0..MaxChanges
    BY <1>17, AsksBounded DEF CliUpdate
  <2> QED BY <1>17, <2>1, <2>2 DEF CliUpdate, TypeOK
<1>18. CASE CliReset
  BY <1>18, AsksBounded DEF CliReset, TypeOK
<1>19. CASE CliReadsConfig
  <2>1. [cli EXCEPT !.step = "save", !.saw = conf] \in Work
    BY DEF TypeOK, Work
  <2> QED BY <1>19, <2>1 DEF CliReadsConfig, TypeOK
<1>20. CASE CliWritesConfig
  <2>1. cli.saw \cup cli.wrote \subseteq Names
    BY DEF TypeOK, Work
  <2> QED BY <1>20, <2>1, EmptyWork DEF CliWritesConfig, TypeOK
<1>21. CASE CliKilled
  BY <1>21, EmptyWork DEF CliKilled, TypeOK
<1>22. ASSUME NEW u \in cli.left, CliFetch(u) PROVE TypeOK'
  <2>1. cli \in Work /\ u \in Urls
    BY DEF TypeOK, Work
  <2>2. PICK ok \in BOOLEAN : Written(u, ok) /\ cli' = Fetched(cli, u, ok)
    BY <1>22 DEF CliFetch
  <2>3. cli' \in Work
    BY <2>1, <2>2, WorkFetched
  <2> QED BY <1>0, <1>22, <2>1, <2>2, <2>3 DEF CliFetch, Written, Unsettled, TypeOK
<1>23. CASE CatalogueDropped
  BY <1>23, AsksBounded DEF CatalogueDropped, Unsettled, TypeOK
<1>24. ASSUME NEW n \in Files, BoxChanges(n) PROVE TypeOK'
  <2>1. changes' \in 0..MaxChanges
    BY <1>24, AsksBounded DEF BoxChanges
  <2> QED BY <1>0, <1>24, <2>1 DEF BoxChanges, Unsettled, TypeOK
<1>25. ASSUME NEW u \in Urls, CatalogueEdited(u) PROVE TypeOK'
  <2>1. changes' \in 0..MaxChanges
    BY <1>25, AsksBounded DEF CatalogueEdited
  <2> QED BY <1>25, <2>1 DEF CatalogueEdited, Unsettled, TypeOK
<1>26. CASE UNCHANGED vars
  BY <1>26 DEF vars, TypeOK
<1> QED
  BY <1>1, <1>2, <1>3, <1>4, <1>5, <1>6, <1>7, <1>8, <1>9, <1>10, <1>11, <1>12, <1>13, <1>14,
     <1>15, <1>16, <1>17, <1>18, <1>19, <1>20, <1>21, <1>22, <1>23, <1>24, <1>25, <1>26, NextCases

-----------------------------------------------------------------------------
LEMMA NamedStep ==
  ASSUME TypeOK, Named, [Next]_vars
  PROVE  Named'
<1>1. CASE UNCHANGED job
  BY <1>1 DEF Named
<1>2. CASE Ends
  BY <1>2 DEF Ends, Named, NoJob
<1>3. ASSUME NEW j \in Jobs, NEW r, Becomes(j, r),
             r.step \in {"adopt", "store", "enable"} => r.name \in Own
      PROVE  Named'
  BY <1>3 DEF Becomes, Named, TypeOK
<1>4. ASSUME NEW j \in Jobs, Update(j) PROVE Named'
  BY <1>3, <1>4 DEF Update, NoJob
<1>5. ASSUME NEW j \in Jobs, NEW n \in Files, ImportList(j, n) PROVE Named'
  BY <1>3, <1>5 DEF ImportList, NoJob, Own
<1>6. ASSUME NEW j \in Jobs, Adopt(j) PROVE Named'
  <2>1. job[j] \in Work /\ job[j].name \in Own
    BY <1>6 DEF Adopt, TypeOK, Named
  <2>2. PICK m \in {job[j].name} \cup (IF job[j].name \in box THEN Spares \ box ELSE {}) :
          Becomes(j, [job[j] EXCEPT !.step = "store", !.name = m])
    BY <1>6 DEF Adopt
  <2>3. m \in Own
    BY <2>1, <2>2 DEF Own
  <2> QED BY <1>3, <2>1, <2>2, <2>3 DEF Work
<1>7. ASSUME NEW j \in Jobs, StoreList(j) PROVE Named'
  <2>1. job[j] \in Work /\ job[j].name \in Own
    BY <1>7 DEF StoreList, TypeOK, Named
  <2>2. PICK m \in Free(job[j].name, dir) :
          Becomes(j, [job[j] EXCEPT !.step = "enable", !.name = m])
    BY <1>7 DEF StoreList
  <2>3. m \in Own
    BY <2>1, <2>2, FreeIsOwn
  <2> QED BY <1>3, <2>1, <2>2, <2>3 DEF Work
<1>8. ASSUME NEW j \in Jobs, StoreFails(j) \/ EnableImported(j) \/ Updated(j) PROVE Named'
  BY <1>3, <1>8 DEF StoreFails, EnableImported, Updated, NoJob
<1>9. ASSUME NEW j \in Jobs, NEW u \in job[j].left, Fetch(j, u) PROVE Named'
  <2>1. job[j] \in Work
    BY DEF TypeOK
  <2>2. PICK ok \in BOOLEAN : Becomes(j, Fetched(job[j], u, ok))
    BY <1>9 DEF Fetch
  <2>3. Fetched(job[j], u, ok).step = job[j].step
    BY <2>1 DEF Fetched, Work
  <2>4. job[j].step = "fetch"
    BY <1>9 DEF Fetch
  <2> QED BY <1>3, <2>2, <2>3, <2>4
<1> QED
  BY <1>1, <1>2, <1>4, <1>5, <1>6, <1>7, <1>8, <1>9, NextCases
     DEF Start, BeginScan, MergeCatalogue, EndScan, ScanFile, ScanRemove, ToggleList, RemoveList,
         CliUpdate, CliReset, CliReadsConfig, CliWritesConfig, CliKilled, CliFetch,
         CatalogueDropped, BoxChanges, CatalogueEdited, vars

(* Every variable keeps its type; an import in progress has a list (shield.py:213-232). *)
THEOREM BlocklistsTypeCorrect == Spec => []TypeOK
<1>1. Init => TypeOK /\ Named
  BY EmptyWork, BoundAssumption DEF Init, TypeOK, Named, NoJob
<1>2. TypeOK /\ Named /\ [Next]_vars => TypeOK' /\ Named'
  BY BlocklistsTypeStep, NamedStep
<1> QED BY <1>1, <1>2, PTL DEF Spec

-----------------------------------------------------------------------------
(* What the user switched on is also among what a scan under way is going to write. *)
ChoiceInv ==
  /\ chosen \subseteq mem /\ (tui = "off" => chosen = {})
  /\ tui = "scan" => chosen \subseteq scan.enabled

LEMMA ChoiceStep ==
  ASSUME TypeOK, ChoiceInv, [Next]_vars
  PROVE  ChoiceInv'
<1> USE DEF ChoiceInv, sources, interface
<1>1. CASE UNCHANGED <<chosen, mem, tui, scan>>
  BY <1>1
<1>2. CASE Start
  BY <1>2 DEF Start
<1>3. CASE Ends
  BY <1>3 DEF Ends
<1>4. CASE BeginScan
  <2>1. scan'.enabled = mem
    BY <1>4 DEF BeginScan, NoScan
  <2> QED BY <1>4, <2>1 DEF BeginScan
<1>5. CASE MergeCatalogue
  <2>1. scan'.enabled = scan.enabled
    BY <1>5 DEF MergeCatalogue, TypeOK, Scans
  <2> QED BY <1>5, <2>1 DEF MergeCatalogue
<1>6. CASE EndScan
  BY <1>6 DEF EndScan, Enable
<1>7. ASSUME NEW n \in scan.todo, ScanFile(n) PROVE ChoiceInv'
  <2> DEFINE looked == [scan EXCEPT !.todo = @ \ {n}, !.wanted = @ \cup {n}]
  <2>1. looked.enabled = scan.enabled /\ "enabled" \in DOMAIN looked
    BY DEF TypeOK, Scans
  <2>2. scan' = looked \/ \E m : scan' = [looked EXCEPT !.enabled = @ \cup {m}, !.changed = TRUE]
    BY <1>7 DEF ScanFile
  <2>3. scan.enabled \subseteq scan'.enabled
    <3> HIDE DEF looked
    <3> QED BY <2>1, <2>2
  <2> QED BY <1>7, <2>3 DEF ScanFile
<1>8. ASSUME NEW n \in scan.held, ScanRemove(n) PROVE ChoiceInv'
  <2>1. scan'.enabled = scan.enabled \ {n}
    BY <1>8 DEF ScanRemove, TypeOK, Scans
  <2> QED BY <1>8, <2>1 DEF ScanRemove
<1>9. ASSUME NEW n \in dir, ToggleList(n) \/ RemoveList(n) PROVE ChoiceInv'
  BY <1>9 DEF ToggleList, RemoveList, Enable
<1>10. ASSUME NEW j \in Jobs, EnableImported(j) \/ Updated(j) PROVE ChoiceInv'
  BY <1>10 DEF EnableImported, Updated, EnablesWritten, Enable
<1> QED
  BY <1>1, <1>2, <1>3, <1>4, <1>5, <1>6, <1>7, <1>8, <1>9, <1>10, NextCases
     DEF Update, ImportList, Adopt, StoreList, StoreFails, Fetch, CliUpdate, CliReset,
         CliReadsConfig, CliWritesConfig, CliKilled, CliFetch, CatalogueDropped, BoxChanges,
         CatalogueEdited, vars

(* A list the user switched on stays on, whatever downloads, imports and scans end in *)
(* between (runtime.py:184-197, 389-451, shield.py:213-250).                          *)
THEOREM ChoiceIsKept == Spec => []ChoiceKept
<1>1. Init => ChoiceInv
  BY DEF Init, ChoiceInv
<1>2. ChoiceInv => ChoiceKept
  BY DEF ChoiceInv, ChoiceKept
<1> QED BY <1>1, <1>2, ChoiceStep, BlocklistsTypeCorrect, PTL DEF Spec

-----------------------------------------------------------------------------
(* While nothing else happens, a scan that has changed nothing has looked at this very *)
(* drop-box, folder and catalogue, and every file it looked at is held.                *)
ScanInv ==
  /\ settled = "begun" =>
       /\ tui = "scan"
       /\ ~scan.changed => /\ scan.held = dir /\ scan.kept = Downloaded
                           /\ scan.wanted \subseteq scan.held /\ scan.todo \cup scan.wanted = box
  /\ settled = "yes" => tui = "idle"
  /\ ListsSettle

LEMMA ScanStep ==
  ASSUME TypeOK, ScanInv, [Next]_vars
  PROVE  ScanInv'
<1> USE DEF ScanInv, ListsSettle, sources, interface
<1>1. CASE UNCHANGED <<tui, scan, settled, box, dir, catalogue>>
  BY <1>1 DEF Downloaded, Listed
<1>2. CASE settled' = "no"
  BY <1>2
<1>3. CASE BeginScan
  <2>1. scan'.held = dir /\ scan'.kept = Downloaded /\ scan'.wanted = {} /\ scan'.todo = box
    BY <1>3 DEF BeginScan, NoScan
  <2> QED BY <1>3, <2>1 DEF BeginScan, Downloaded, Listed
<1>4. CASE MergeCatalogue
  <2>1. /\ scan'.held = scan.held /\ scan'.kept = scan.kept /\ scan'.wanted = scan.wanted
        /\ scan'.todo = scan.todo /\ (scan'.changed <=> scan.changed \/ catalogue' # catalogue)
    BY <1>4 DEF MergeCatalogue, TypeOK, Scans
  <2>2. ~scan'.changed => Downloaded' = Downloaded
    BY <2>1 DEF Downloaded, Listed
  <2> QED BY <1>4, <2>1, <2>2 DEF MergeCatalogue
<1>5. CASE EndScan
  <2>1. CASE settled = "begun" /\ ~scan.changed
    BY <1>5, <2>1 DEF EndScan, Leaving, Downloaded, Listed
  <2>2. CASE ~(settled = "begun" /\ ~scan.changed)
    BY <1>5, <2>2 DEF EndScan, TypeOK
  <2> QED BY <2>1, <2>2
<1>6. ASSUME NEW n \in scan.todo, ScanFile(n) PROVE ScanInv'
  <2> DEFINE looked == [scan EXCEPT !.todo = @ \ {n}, !.wanted = @ \cup {n}]
  <2>1. /\ looked.held = scan.held /\ looked.kept = scan.kept /\ looked.changed = scan.changed
        /\ looked.wanted = scan.wanted \cup {n} /\ looked.todo = scan.todo \ {n}
    BY DEF TypeOK, Scans
  <2>2. CASE n \in scan.held \cup (Own \ box) /\ scan' = looked /\ UNCHANGED dir
    BY <1>6, <2>1, <2>2 DEF ScanFile, Downloaded, Listed
  <2>3. ASSUME NEW m, scan' = [looked EXCEPT !.enabled = @ \cup {m}, !.changed = TRUE]
        PROVE  ScanInv'
    <3>1. scan'.changed
      BY <2>3 DEF TypeOK, Scans
    <3> QED BY <1>6, <3>1 DEF ScanFile
  <2> QED BY <1>6, <2>2, <2>3 DEF ScanFile
<1>7. ASSUME NEW n \in scan.held, ScanRemove(n) PROVE ScanInv'
  <2>1. scan'.changed
    BY <1>7 DEF ScanRemove, TypeOK, Scans
  <2> QED BY <1>7, <2>1 DEF ScanRemove
<1>8. ASSUME tui = "idle", tui' = "idle", UNCHANGED <<settled, box, dir, catalogue>> PROVE ScanInv'
  BY <1>8 DEF Downloaded, Listed
<1>9. CASE Start
  BY <1>9 DEF Start
<1> QED
  BY <1>1, <1>2, <1>3, <1>4, <1>5, <1>6, <1>7, <1>8, <1>9, NextCases
     DEF Ends, ToggleList, RemoveList, Update, ImportList, Adopt, StoreList, StoreFails, Fetch,
         EnableImported, Updated, CliUpdate, CliReset, CliReadsConfig, CliWritesConfig, CliKilled,
         CliFetch, CatalogueDropped, BoxChanges, CatalogueEdited, Unsettled, vars

(* A scan that reports no change leaves the lists of the drop-box and what was         *)
(* downloaded, and nothing else (runtime.py:389-451, shield.py:213-232).               *)
THEOREM ListsAreSettled == Spec => []ListsSettle
<1>1. Init => ScanInv
  BY DEF Init, ScanInv, ListsSettle
<1>2. ScanInv => ListsSettle
  BY DEF ScanInv
<1> QED BY <1>1, <1>2, ScanStep, BlocklistsTypeCorrect, PTL DEF Spec
=============================================================================
