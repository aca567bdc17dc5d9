--------------------------- MODULE FilesJob_proofs ---------------------------
(* Theorems about FilesJob, for any tree of folders and files, any number of *)
(* versions, listings in any order, both connectors and every fault budget.  *)
(* The last part is about SiteProvisioning, which gives those files the       *)
(* library they go to.                                                       *)
EXTENDS FilesJob, FiniteSetTheorems, TLAPS

USE DEF source, db, listing, rounds, hand, ghosts, run, Items, Versions, Fault, Processes

\* The job goes through a listing.
Running == {"batch", "record"}

\* A run that does not go through a listing has nothing to process; only a file is
\* ever in hand, and its driveItem exists.
Phases ==
  /\ IsFiniteSet(DOMAIN store)
  /\ pc \in Running => newCursor # NoCursor
  /\ pc \notin Running => batch = {} /\ still = {} /\ deferred = {} /\ failures = 0
                            /\ phase = "pass"
  /\ phase = "orphans" => still = {}
  /\ mode = "delta" => cursor # NoCursor
  /\ IF pc = "record" THEN cur \in Files /\ curDest \in DOMAIN store
     ELSE cur = NoItem /\ curDest = NoId

\* A destination path ends in the name of its item.
LEMMA PathOfItem ==
  ASSUME TypeOK, NEW i \in Items
  PROVE  /\ DestPath(i) \in Paths
         /\ Len(DestPath(i)) > 0 /\ DestPath(i)[Len(DestPath(i))] = Name[i]
<1> DEFINE Names == {Name[j] : j \in Items}
           folder == IF Known(i) THEN folderMap[Parent[i]] ELSE << >>
<1>1. Name[i] \in Names
  OBVIOUS
<1>2. DestPath(i) = Append(folder, Name[i]) /\ Paths = Seq(Names)
  BY DEF DestPath, Paths
<1> HIDE DEF Names
<1>3. CASE Known(i)
  <2>1. folder = folderMap[Parent[i]] /\ folder # NoId /\ Parent[i] \in Folders
    BY <1>3 DEF Known
  <2>2. folder \in Seq(Names)
    BY <1>2, <2>1 DEF TypeOK
  <2> HIDE DEF folder
  <2> QED
    BY <1>1, <1>2, <2>2
<1>4. CASE ~Known(i)
  <2>1. folder = << >>
    BY <1>4
  <2> HIDE DEF folder
  <2> QED
    BY <1>1, <1>2, <2>1
<1> QED
  BY <1>3, <1>4

\* There is always a name left for a driveItem.
LEMMA FreshIsId ==
  ASSUME IsFiniteSet(DOMAIN store), NEW path \in Paths
  PROVE  Fresh(path) \in FileIds
<1> DEFINE places == Cardinality(DOMAIN store) + 1
           id == [n \in 1..places |-> <<path, n>>]
<1>1. Cardinality(DOMAIN store) \in Nat
  BY FS_CardinalityType
<1>2. IsFiniteSet(1..places) /\ Cardinality(DOMAIN store) < Cardinality(1..places)
  BY <1>1, FS_Interval
<1>3. Free(path) # {}
  <2> SUFFICES ASSUME Free(path) = {} PROVE FALSE
    OBVIOUS
  <2>1. id \in [1..places -> DOMAIN store]
    BY DEF Free
  <2>2. \A x, y \in 1..places : id[x] = id[y] => x = y
    OBVIOUS
  <2> DEFINE S == 1..places
             T == DOMAIN store
  <2>3. IsFiniteSet(S) /\ IsFiniteSet(T) /\ Cardinality(T) < Cardinality(S) /\ id \in [S -> T]
    BY <1>2, <2>1
  <2>4. \A x, y \in S : id[x] = id[y] => x = y
    BY <2>2
  <2> HIDE DEF id, S, T
  <2> QED
    BY <2>3, <2>4, FS_PigeonHole
<1>4. Free(path) \subseteq Nat \ {0}
  BY <1>1 DEF Free
<1> QED
  BY <1>3, <1>4 DEF Fresh, FileIds

\* The driveItem an upload writes to: the one on record, or one whose name is the file's.
LEMMA TargetIsId ==
  ASSUME TypeOK, Phases, NEW f \in Files
  PROVE  /\ Target(f) \in FileIds
         /\ Existing(f) # NoId => Target(f) = Existing(f) /\ Target(f) = destId[f]
         /\ Existing(f) = NoId => Target(f)[1] = DestPath(f)
<1>1. DestPath(f) \in Paths
  BY PathOfItem
<1>2. Fresh(DestPath(f)) \in FileIds /\ Fresh(DestPath(f))[1] = DestPath(f)
  BY <1>1, FreshIsId DEF Phases, Fresh
<1>3. <<DestPath(f), 1>> \in FileIds
  BY <1>1 DEF FileIds
<1>4. Existing(f) # NoId => Existing(f) = destId[f] /\ destId[f] \in FileIds
  BY DEF Existing, TypeOK
<1> QED
  BY <1>2, <1>3, <1>4 DEF Target

\* Writing one driveItem leaves the others alone.
LEMMA WritePuts ==
  ASSUME NEW f, Write(f)
  PROVE  /\ DOMAIN store' = DOMAIN store \cup {Target(f)}
         /\ store'[Target(f)] = [item |-> f, ver |-> ver[f]]
         /\ \A d \in DOMAIN store \ {Target(f)} : store'[d] = store[d]
  BY DEF Write

\* The drives, the database and the run are well typed in every reachable state.
THEOREM TypeCorrect == Spec => [](TypeOK /\ Phases)
<1> USE TreeAssumption, BoundsAssumption, NoValueAssumption
<1>1. Init => TypeOK /\ Phases
  <2> SUFFICES ASSUME Init PROVE TypeOK /\ Phases
    OBVIOUS
  <2>1. DOMAIN store = {} /\ unsupported \in SUBSET Files
    BY DEF Init
  <2> QED
    BY <2>1, FS_EmptySet DEF Init, Idle, TypeOK, Phases, Running
<1>2. TypeOK /\ Phases /\ [Next]_vars => (TypeOK /\ Phases)'
  <2> SUFFICES ASSUME TypeOK, Phases, [Next]_vars PROVE TypeOK' /\ Phases'
    OBVIOUS
  <2>A. ASSUME NEW f \in Files, Write(f)
        PROVE  /\ DOMAIN store' = DOMAIN store \cup {Target(f)} /\ Target(f) \in FileIds
               /\ DOMAIN store' \subseteq FileIds /\ IsFiniteSet(DOMAIN store')
               /\ \A d \in DOMAIN store' : store'[d] \in [item : Files, ver : Versions]
    <3>1. DOMAIN store' = DOMAIN store \cup {Target(f)} /\ Target(f) \in FileIds
      BY <2>A, WritePuts, TargetIsId
    <3>2. [item |-> f, ver |-> ver[f]] \in [item : Files, ver : Versions]
      BY DEF TypeOK
    <3>3. IsFiniteSet(DOMAIN store')
      BY <3>1, FS_AddElement DEF Phases
    <3>4. DOMAIN store \subseteq FileIds /\ \A d \in DOMAIN store : store[d] \in [item : Files, ver : Versions]
      BY DEF TypeOK
    <3>5. \A d \in DOMAIN store' : store'[d] \in [item : Files, ver : Versions]
      <4> SUFFICES ASSUME NEW d \in DOMAIN store'
                   PROVE  store'[d] \in [item : Files, ver : Versions]
        OBVIOUS
      <4>1. /\ store'[Target(f)] = [item |-> f, ver |-> ver[f]]
            /\ \A x \in DOMAIN store \ {Target(f)} : store'[x] = store[x]
        BY <2>A, WritePuts
      <4>2. CASE d = Target(f)
        BY <3>2, <4>1, <4>2
      <4>3. CASE d # Target(f)
        BY <3>1, <3>4, <4>1, <4>3
      <4> QED
        BY <4>2, <4>3
    <3> QED
      BY <3>1, <3>3, <3>4, <3>5
  <2>B. ASSUME NEW f \in Files PROVE Existing(f) \in FileIds \cup {NoId}
    BY DEF Existing, TypeOK
  <2>C. ASSUME NEW i \in Items PROVE DestPath(i) \in Paths
    BY PathOfItem
  <2> USE DEF TypeOK, Phases, Running, Upsert
  <2>1. ASSUME NEW i \in Items, Add(i) PROVE TypeOK' /\ Phases'
    BY <2>1 DEF Add
  <2>2. ASSUME NEW f \in Files, Edit(f) \/ Trash(f) PROVE TypeOK' /\ Phases'
    BY <2>2 DEF Edit, Trash
  <2>3. ASSUME NEW m \in {"full", "delta"}, Start(m) PROVE TypeOK' /\ Phases'
    BY <2>3 DEF Start
  <2>4. CASE Capture
    BY <2>4 DEF Capture, Cursors
  <2>5. CASE ListFiles
    BY <2>5 DEF ListFiles, Cursors
  <2>6. ASSUME NEW i \in Items, Defer(i) PROVE TypeOK' /\ Phases'
    BY <2>6 DEF Defer, Defers
  <2>7. ASSUME NEW i \in Items, FailForParent(i) PROVE TypeOK' /\ Phases'
    BY <2>7 DEF FailForParent, MarkFailed
  <2>8. ASSUME NEW a \in Folders, MakeFolder(a) PROVE TypeOK' /\ Phases'
    <3>1. folderMap' \in [Folders -> Paths \cup {NoId}]
      BY <2>8, <2>C DEF MakeFolder
    <3> QED
      BY <2>8, <3>1 DEF MakeFolder
  <2>9. ASSUME NEW a \in Folders, FolderFails(a) PROVE TypeOK' /\ Phases'
    BY <2>9 DEF FolderFails, MarkFailed
  <2>10. ASSUME NEW f \in Files, SkipUnchanged(f) PROVE TypeOK' /\ Phases'
    BY <2>10 DEF SkipUnchanged
  <2>11. ASSUME NEW f \in Files, SkipUnsupported(f) PROVE TypeOK' /\ Phases'
    BY <2>11 DEF SkipUnsupported
  <2>12. ASSUME NEW f \in Files, Upload(f) PROVE TypeOK' /\ Phases'
    BY <2>12, <2>A DEF Upload
  <2>13. ASSUME NEW f \in Files, UploadLost(f) PROVE TypeOK' /\ Phases'
    <3>1. lost' \in SUBSET FileIds /\ destId' \in [Files -> FileIds \cup {NoId}]
      <4>1. Target(f) \in FileIds
        BY <2>13, <2>A DEF UploadLost
      <4>2. lost' = (lost \cup {destId[f], Target(f)}) \ {NoId, Existing(f)}
        BY <2>13 DEF UploadLost
      <4>3. destId' = [destId EXCEPT ![f] = Existing(f)]
        BY <2>13 DEF UploadLost
      <4>4. lost \in SUBSET FileIds /\ destId \in [Files -> FileIds \cup {NoId}]
        OBVIOUS
      <4> HIDE DEF TypeOK, Phases, FileIds, Target
      <4> QED
        BY <2>B, <4>1, <4>2, <4>3, <4>4
    <3>2. /\ DOMAIN store' \subseteq FileIds /\ IsFiniteSet(DOMAIN store')
          /\ \A d \in DOMAIN store' : store'[d] \in [item : Files, ver : Versions]
      BY <2>13, <2>A DEF UploadLost
    <3>3. faults' \in 0..MaxFaults /\ failures' \in Nat /\ pc = "batch"
      BY <2>13 DEF UploadLost
    <3> QED
      BY <2>13, <3>1, <3>2, <3>3 DEF UploadLost
  <2>14. ASSUME NEW f \in Files, UploadFails(f) PROVE TypeOK' /\ Phases'
    <3>1. lost' \in SUBSET FileIds /\ destId' \in [Files -> FileIds \cup {NoId}]
      BY <2>14, <2>B DEF UploadFails, MarkFailed
    <3>2. faults' \in 0..MaxFaults
      BY <2>14 DEF UploadFails
    <3> QED
      BY <2>14, <3>1, <3>2 DEF UploadFails, MarkFailed
  <2>15. CASE Record
    BY <2>15 DEF Record
  <2>16. CASE NextRound
    BY <2>16 DEF NextRound, Remaining
  <2>17. CASE PlaceOrphans
    BY <2>17 DEF PlaceOrphans, Remaining, Orphans
  <2>18. CASE Finish
    BY <2>18 DEF Finish, EndRun, NextCursor
  <2>19. CASE Interrupt
    BY <2>19 DEF Interrupt, EndRun
  <2>20. CASE UNCHANGED vars
    BY <2>20 DEF vars
  <2> HIDE DEF TypeOK, Phases
  <2> QED
    BY <2>1, <2>2, <2>3, <2>4, <2>5, <2>6, <2>7, <2>8, <2>9, <2>10, <2>11, <2>12,
       <2>13, <2>14, <2>15, <2>16, <2>17, <2>18, <2>19, <2>20 DEF Next, Step, Process
<1> QED
  BY <1>1, <1>2, PTL DEF Spec

-----------------------------------------------------------------------------
(* Copies *)

\* A file with no export format has no copy and is never in hand.
Unexported == \A f \in unsupported : destId[f] = NoId /\ cur # f

\* Every driveItem is on record, in hand, or lost by a fault, in every reachable
\* state: no step of a job forgets a copy it has made.
THEOREM CopiesAccountedHolds == Spec => [](CopiesAccounted /\ Unexported)
<1> USE TreeAssumption, NoValueAssumption
<1>1. Init /\ TypeOK => Unexported /\ CopiesAccounted
  <2> SUFFICES ASSUME Init, TypeOK PROVE Unexported /\ CopiesAccounted
    OBVIOUS
  <2>1. DOMAIN store = {} /\ unsupported \in SUBSET Files
    BY DEF Init
  <2> QED
    BY <2>1 DEF Init, Idle, Unexported, CopiesAccounted
<1>2. TypeOK /\ Phases /\ TypeOK' /\ Unexported /\ CopiesAccounted /\ [Next]_vars
      => Unexported' /\ CopiesAccounted'
  <2> SUFFICES ASSUME TypeOK, Phases, TypeOK', Unexported, CopiesAccounted, [Next]_vars
               PROVE  Unexported' /\ CopiesAccounted'
    OBVIOUS
  <2>A. /\ unsupported \subseteq Files /\ unsupported' = unsupported
        /\ DOMAIN store \subseteq FileIds /\ NoId \notin DOMAIN store
        /\ pc # "record" => cur = NoItem /\ curDest = NoId
    <3>1. unsupported' = unsupported
      BY DEF Next, Add, Edit, Trash, Start, Step, Capture, ListFiles, Process, Defer,
             FailForParent, MakeFolder, FolderFails, SkipUnchanged, SkipUnsupported, Upload,
             UploadLost, UploadFails, Record, NextRound, PlaceOrphans, Finish, Interrupt, vars
    <3> QED
      BY <3>1 DEF TypeOK, Phases
  <2> USE DEF Unexported, CopiesAccounted
  <2>1. CASE \/ UNCHANGED vars
             \/ \E i \in Items : Add(i)
             \/ \E f \in Files : Edit(f) \/ Trash(f)
             \/ \E m \in {"full", "delta"} : Start(m)
             \/ Capture \/ ListFiles \/ NextRound \/ PlaceOrphans
             \/ \E i \in Items : Defer(i)
             \/ \E f \in Files : SkipUnchanged(f)
    BY <2>1 DEF vars, Add, Edit, Trash, Start, Capture, ListFiles, NextRound, PlaceOrphans,
                Defer, SkipUnchanged
  <2>2. ASSUME NEW a \in Folders, MakeFolder(a) PROVE Unexported' /\ CopiesAccounted'
    BY <2>2, <2>A DEF MakeFolder, Upsert
  <2>3. ASSUME NEW i \in Items, FailForParent(i) PROVE Unexported' /\ CopiesAccounted'
    BY <2>3, <2>A DEF FailForParent, MarkFailed, Upsert, TypeOK
  <2>4. ASSUME NEW a \in Folders, FolderFails(a) PROVE Unexported' /\ CopiesAccounted'
    BY <2>4, <2>A DEF FolderFails, MarkFailed, Upsert, TypeOK
  <2>5. ASSUME NEW f \in Files, SkipUnsupported(f) PROVE Unexported' /\ CopiesAccounted'
    <3>1. destId' = destId /\ store' = store /\ lost' = lost /\ curDest' = curDest
      BY <2>5 DEF SkipUnsupported, Upsert, TypeOK
    <3> QED
      BY <2>5, <2>A, <3>1 DEF SkipUnsupported
  <2>6. ASSUME NEW f \in Files, Upload(f) PROVE Unexported' /\ CopiesAccounted'
    <3>1. DOMAIN store' = DOMAIN store \cup {Target(f)}
      BY <2>6, WritePuts DEF Upload
    <3>2. pc = "batch" /\ f \notin unsupported
      BY <2>6 DEF Upload, Ready, Wanted
    <3> QED
      BY <2>6, <2>A, <3>1, <3>2 DEF Upload
  <2>7. ASSUME NEW f \in Files, UploadLost(f) PROVE Unexported' /\ CopiesAccounted'
    <3>1. DOMAIN store' = DOMAIN store \cup {Target(f)} /\ Target(f) \in FileIds
      BY <2>7, WritePuts, TargetIsId DEF UploadLost
    <3>2. pc = "batch" /\ f \notin unsupported
      BY <2>7 DEF UploadLost, Ready, Wanted
    <3>3. destId' = [destId EXCEPT ![f] = Existing(f)]
      BY <2>7 DEF UploadLost, Upsert
    <3>4. lost' = (lost \cup {destId[f], Target(f)}) \ {NoId, Existing(f)}
      BY <2>7 DEF UploadLost
    <3>5. cur' = cur /\ curDest' = curDest
      BY <2>7 DEF UploadLost
    <3>6. destId \in [Files -> FileIds \cup {NoId}]
      BY DEF TypeOK
    <3> QED
      BY <2>A, <3>1, <3>2, <3>3, <3>4, <3>5, <3>6
  <2>8. ASSUME NEW f \in Files, UploadFails(f) PROVE Unexported' /\ CopiesAccounted'
    <3>1. destId' = [destId EXCEPT ![f] = Existing(f)] /\ store' = store
      BY <2>8 DEF UploadFails, MarkFailed, Upsert
    <3>2. lost' = IF Existing(f) = NoId /\ destId[f] # NoId THEN lost \cup {destId[f]} ELSE lost
      BY <2>8 DEF UploadFails, MarkFailed
    <3>3. cur' = cur /\ curDest' = curDest /\ f \notin unsupported
      BY <2>8 DEF UploadFails, Ready, Wanted
    <3>4. Existing(f) # NoId => Existing(f) = destId[f]
      BY DEF Existing
    <3> QED
      BY <2>A, <3>1, <3>2, <3>3, <3>4 DEF TypeOK
  <2>9. CASE Record
    BY <2>9, <2>A DEF Record, Upsert, TypeOK, Phases
  <2>10. CASE Finish
    BY <2>10, <2>A DEF Finish, EndRun
  <2>11. CASE Interrupt
    BY <2>11, <2>A DEF Interrupt, EndRun, TypeOK
  <2> HIDE DEF Unexported, CopiesAccounted
  <2> QED
    BY <2>1, <2>2, <2>3, <2>4, <2>5, <2>6, <2>7, <2>8, <2>9, <2>10, <2>11
       DEF Next, Step, Process
<1> QED
  BY <1>1, <1>2, TypeCorrect, PTL DEF Spec

-----------------------------------------------------------------------------
(* The inductive invariant *)

\* The names of files tell them apart, so that no upload by path meets the
\* driveItem of another file.
UniqueNames == \A f, g \in Files : Name[f] = Name[g] => f = g

\* Nothing remembered of an item is ahead of the source, and no cursor is ahead of
\* the listing the run goes through.
Past ==
  /\ \A i \in Items :
       /\ listed[i] <= ver[i]
       /\ cursor # NoCursor => cursor[i] <= ver[i]
       /\ newCursor # NoCursor => newCursor[i] <= ver[i]
       /\ pc \in Running => newCursor[i] <= listed[i]
       /\ pc \in Running /\ cursor # NoCursor => cursor[i] <= listed[i]
  /\ \A d \in DOMAIN store : store[d].ver <= ver[store[d].item]

\* A driveItem has the name of its file, and a row points to a copy of its own file.
OwnCopies ==
  /\ \A d \in DOMAIN store : d[1][Len(d[1])] = Name[store[d].item]
  /\ \A f \in Files : destId[f] # NoId =>
       destId[f] \in DOMAIN store /\ store[destId[f]].item = f

\* The file in hand is stored as new as it was listed, in a delta pass in the place
\* it already had.
HandTrue ==
  pc = "record" =>
    /\ store[curDest].item = cur /\ store[curDest].ver >= listed[cur]
    /\ mode = "delta" /\ destId[cur] # NoId => curDest = destId[cur]

\* What the hash of a row says was stored is stored.
RecordsTrue == \A f \in Files : hash[f] > 0 => StoredUpTo(f, hash[f])

\* The items a run has still to process.
Pending == batch \cup Remaining

\* What the captured cursor covers is stored or still to be processed, as long as
\* nothing has failed.
RunCovers ==
  pc \in Running /\ failures = 0 =>
    /\ \A f \in Files \ (unsupported \cup trashed \cup stale) :
         newCursor[f] > 0 => f \in Pending \/ StoredUpTo(f, newCursor[f])
    /\ \A a \in Folders : newCursor[a] > 0 => a \in Pending \/ folderMap[a] # NoId

IInv == Past /\ OwnCopies /\ HandTrue /\ RecordsTrue /\ RunCovers /\ BehindCursorStored

\* An upload overwrites only a copy of its own file, and by one that is not older: what
\* is stored of a file stays stored, and the other files keep their copies.
LEMMA StoredKept ==
  ASSUME TypeOK, Phases, Past, OwnCopies, UniqueNames, NEW f \in Files, Write(f)
  PROVE  /\ \A g \in Files, v \in Nat : StoredUpTo(g, v) => StoredUpTo(g, v)'
         /\ \A g \in Files \ {f} : Copies(g)' = Copies(g)
         /\ Target(f) \in DOMAIN store => store[Target(f)].item = f
         /\ \A d \in DOMAIN store : store'[d].item = store[d].item
         /\ Target(f)[1][Len(Target(f)[1])] = Name[f]
<1>1. /\ DOMAIN store' = DOMAIN store \cup {Target(f)}
      /\ store'[Target(f)] = [item |-> f, ver |-> ver[f]]
      /\ \A d \in DOMAIN store \ {Target(f)} : store'[d] = store[d]
  BY WritePuts
<1>2. Target(f)[1][Len(Target(f)[1])] = Name[f]
  <2>1. CASE Existing(f) # NoId
    BY <2>1, TargetIsId DEF OwnCopies
  <2>2. CASE Existing(f) = NoId
    BY <2>2, TargetIsId, PathOfItem
  <2> QED
    BY <2>1, <2>2
<1>3. ASSUME Target(f) \in DOMAIN store PROVE store[Target(f)].item = f
  <2>1. store[Target(f)].item \in Files
    BY <1>3 DEF TypeOK
  <2>2. Name[store[Target(f)].item] = Name[f]
    BY <1>2, <1>3 DEF OwnCopies
  <2> QED
    BY <2>1, <2>2 DEF UniqueNames
<1>4. ASSUME NEW d \in DOMAIN store
      PROVE  store'[d].item = store[d].item /\ store'[d].ver >= store[d].ver
  <2>1. store[d].item \in Files /\ store[d].ver \in Nat /\ ver[f] \in Nat
    BY DEF TypeOK
  <2>2. CASE d = Target(f)
    <3>1. store[d].item = f /\ store[d].ver <= ver[f]
      BY <1>3, <2>2 DEF Past
    <3>2. store'[d].item = f /\ store'[d].ver = ver[f]
      BY <1>1, <2>2
    <3> QED
      BY <2>1, <3>1, <3>2
  <2>3. CASE d # Target(f)
    BY <1>1, <2>1, <2>3
  <2> QED
    BY <2>2, <2>3
<1>5. ASSUME NEW g \in Files, NEW v \in Nat, StoredUpTo(g, v) PROVE StoredUpTo(g, v)'
  <2>1. PICK d \in DOMAIN store : store[d].item = g /\ store[d].ver >= v
    BY <1>5 DEF StoredUpTo
  <2>2. d \in DOMAIN store' /\ store'[d].item = g /\ store'[d].ver >= store[d].ver
    BY <1>1, <1>4, <2>1
  <2>3. store[d].ver \in Nat /\ store'[d].ver \in Nat
    <3>1. store'[d].ver = store[d].ver \/ store'[d].ver = ver[f]
      BY <1>1
    <3> QED
      BY <3>1 DEF TypeOK
  <2> QED
    BY <2>1, <2>2, <2>3 DEF StoredUpTo
<1>6. ASSUME NEW g \in Files \ {f} PROVE Copies(g)' = Copies(g)
  <2>1. store'[Target(f)].item = f
    BY <1>1
  <2> QED
    BY <1>1, <1>3, <1>4, <2>1 DEF Copies
<1> QED
  BY <1>2, <1>3, <1>4, <1>5, <1>6

\* Nothing stored changes as long as no driveItem is written.
LEMMA NothingWritten ==
  ASSUME store' = store
  PROVE  \A f, v : StoredUpTo(f, v)' <=> StoredUpTo(f, v)
  BY DEF StoredUpTo

\* The source drive only moves on: the invariant keeps while it is edited.
LEMMA SourceKeeps ==
  ASSUME TypeOK, Phases, TypeOK', IInv, NEW i \in Items, Add(i) \/ Edit(i) \/ Trash(i)
  PROVE  IInv'
<1>1. /\ \A j \in Items : ver'[j] >= ver[j] /\ ver[j] \in Nat /\ ver'[j] \in Nat
      /\ trashed \subseteq trashed'
  BY DEF Add, Edit, Trash, TypeOK
<1>2. UNCHANGED <<unsupported, store, db, run, ghosts>>
  BY DEF Add, Edit, Trash
<1>3. \A f, v : StoredUpTo(f, v)' <=> StoredUpTo(f, v)
  BY <1>2, NothingWritten
<1>4. Past'
  <2>1. \A j \in Items :
          /\ listed[j] \in Nat
          /\ cursor # NoCursor => cursor[j] \in Nat
          /\ newCursor # NoCursor => newCursor[j] \in Nat
    BY DEF TypeOK, Cursors
  <2>2. \A d \in DOMAIN store : store[d].ver \in Nat /\ store[d].item \in Items
    BY DEF TypeOK
  <2> QED
    BY <1>1, <1>2, <2>1, <2>2 DEF IInv, Past, Running
<1>5. OwnCopies' /\ HandTrue' /\ RecordsTrue'
  BY <1>2, <1>3 DEF IInv, OwnCopies, HandTrue, RecordsTrue
<1>6. RunCovers' /\ BehindCursorStored'
  BY <1>1, <1>2, <1>3 DEF IInv, RunCovers, Running, Pending, Remaining, BehindCursorStored
<1> QED
  BY <1>4, <1>5, <1>6 DEF IInv

\* A run begins with nothing settled, and a listing shows all that its cursor covers,
\* but for what the committed cursor covers already.
LEMMA BeginKeeps ==
  ASSUME TypeOK, Phases, TypeOK', IInv, (\E m \in {"full", "delta"} : Start(m)) \/ Capture \/ ListFiles
  PROVE  IInv'
<1>1. UNCHANGED <<source, store, db, rounds, hand, failures, ghosts>>
  BY DEF Start, Capture, ListFiles
<1>2. \A f, v : StoredUpTo(f, v)' <=> StoredUpTo(f, v)
  BY <1>1, NothingWritten
<1>3. \A j \in Items : ver[j] \in Nat /\ listed[j] \in Nat
  BY DEF TypeOK
<1>4. Past'
  <2>1. CASE (\E m \in {"full", "delta"} : Start(m)) \/ Capture
    BY <1>1, <1>3, <2>1 DEF IInv, Past, Running, Start, Capture
  <2>2. CASE ListFiles
    <3>1. listed' = ver /\ newCursor' = IF newCursor = NoCursor THEN ver ELSE newCursor
      BY <2>2 DEF ListFiles
    <3> QED
      BY <1>1, <1>3, <3>1 DEF IInv, Past
  <2> QED
    BY <2>1, <2>2
<1>5. OwnCopies' /\ RecordsTrue' /\ BehindCursorStored'
  BY <1>1, <1>2 DEF IInv, OwnCopies, RecordsTrue, BehindCursorStored
<1>6. HandTrue'
  BY DEF HandTrue, Start, Capture, ListFiles
<1>7. RunCovers'
  <2>1. CASE (\E m \in {"full", "delta"} : Start(m)) \/ Capture
    BY <2>1 DEF RunCovers, Running, Start, Capture
  <2>2. CASE ListFiles
    <3>1. /\ batch' = {i \in Items : Exists(i) /\ (mode = "delta" => ver[i] > cursor[i])}
          /\ newCursor' = IF newCursor = NoCursor THEN ver ELSE newCursor
      BY <2>2 DEF ListFiles
    <3>2. \A i \in Items : newCursor'[i] <= ver[i] /\ newCursor'[i] \in Nat
      BY <1>3, <3>1 DEF IInv, Past, TypeOK, Cursors
    <3>3. mode = "delta" => cursor # NoCursor /\ \A i \in Items : cursor[i] \in Nat /\ cursor[i] <= ver[i]
      BY DEF IInv, Past, Phases, TypeOK, Cursors
    <3>4. ASSUME NEW i \in Items \ trashed, newCursor'[i] > 0, i \notin batch'
          PROVE  mode = "delta" /\ cursor # NoCursor /\ cursor[i] > 0 /\ newCursor'[i] <= cursor[i]
      BY <1>3, <3>1, <3>2, <3>3, <3>4 DEF Exists
    <3>5. ASSUME NEW f \in Files \ (unsupported \cup trashed \cup stale),
                 newCursor'[f] > 0, f \notin batch'
          PROVE  StoredUpTo(f, newCursor'[f])
      <4>1. StoredUpTo(f, cursor[f]) /\ newCursor'[f] <= cursor[f]
        BY <3>4, <3>5 DEF IInv, BehindCursorStored
      <4>2. cursor[f] \in Nat /\ newCursor'[f] \in Nat
        BY <3>2, <3>3, <3>4, <3>5
      <4>3. \A d \in DOMAIN store : store[d].ver \in Nat
        BY DEF TypeOK
      <4> QED
        BY <4>1, <4>2, <4>3 DEF StoredUpTo
    <3>6. ASSUME NEW a \in Folders, newCursor'[a] > 0, a \notin batch'
          PROVE  folderMap[a] # NoId
      <4>1. a \notin trashed
        BY TreeAssumption DEF TypeOK
      <4> QED
        BY <3>4, <3>6, <4>1 DEF IInv, BehindCursorStored
    <3> QED
      BY <1>1, <3>5, <3>6 DEF RunCovers, Pending, StoredUpTo
  <2> QED
    BY <2>1, <2>2
<1> QED
  BY <1>4, <1>5, <1>6, <1>7 DEF IInv

\* An item deferred is still to be processed, one skipped is stored as it was listed (or
\* noted as stale), and a folder made is on record.
LEMMA PassKeeps ==
  ASSUME TypeOK, Phases, TypeOK', IInv, NEW i \in Items,
         Defer(i) \/ (i \in Files /\ SkipUnchanged(i)) \/ (i \in Folders /\ MakeFolder(i))
  PROVE  IInv'
<1>1. /\ UNCHANGED <<source, store, cursor, mode, newCursor, listed, phase, deferred, pc, hand,
                     failures, destId>>
      /\ pc = "batch" /\ batch' = batch \ {i}
      /\ stale \subseteq stale'
  BY TreeAssumption DEF Defer, SkipUnchanged, MakeFolder, Upsert, TypeOK
<1>2. \A f, v : StoredUpTo(f, v)' <=> StoredUpTo(f, v)
  BY <1>1, NothingWritten
<1>3. \A j \in Items : listed[j] \in Nat /\ newCursor[j] \in Nat /\ hash[j] \in Nat
  BY <1>1 DEF TypeOK, Phases, Running, Cursors
<1>4. Past' /\ OwnCopies' /\ HandTrue'
  BY <1>1 DEF IInv, Past, OwnCopies, HandTrue, Running
<1>5. /\ \A f \in Files : hash'[f] = hash[f]
      /\ \A a \in Folders : folderMap[a] # NoId => folderMap'[a] # NoId
      /\ i \in Folders => i \in Pending' \/ folderMap'[i] # NoId
  <2>1. CASE Defer(i)
    BY <2>1 DEF Defer, Defers, Pending, Remaining
  <2>2. CASE i \in Files /\ SkipUnchanged(i)
    BY <2>2, TreeAssumption DEF SkipUnchanged
  <2>3. CASE i \in Folders /\ MakeFolder(i)
    <3>1. DestPath(i) # NoId
      BY PathOfItem, NoValueAssumption
    <3>2. /\ folderMap' = [folderMap EXCEPT ![i] = DestPath(i)]
          /\ hash' = [hash EXCEPT ![i] = listed[i]]
      BY <2>3 DEF MakeFolder, Upsert
    <3> QED
      BY <2>3, <3>1, <3>2, TreeAssumption DEF TypeOK
  <2> QED
    BY <2>1, <2>2, <2>3
<1>6. RecordsTrue' /\ BehindCursorStored'
  BY <1>1, <1>2, <1>5 DEF IInv, RecordsTrue, BehindCursorStored
<1>7. /\ Pending \ {i} \subseteq Pending'
      /\ i \in Files => i \in Pending' \/ i \in stale' \/ hash[i] = listed[i]
  <2>1. CASE Defer(i)
    BY <1>1, <2>1 DEF Defer, Defers, Pending, Remaining
  <2>2. CASE i \in Files /\ SkipUnchanged(i)
    BY <1>1, <2>2 DEF SkipUnchanged, Pending, Remaining
  <2>3. CASE i \in Folders /\ MakeFolder(i)
    BY <1>1, <2>3, TreeAssumption DEF MakeFolder, Pending, Remaining
  <2> QED
    BY <2>1, <2>2, <2>3
<1>8. ASSUME i \in Files, hash[i] = listed[i], newCursor[i] > 0 PROVE StoredUpTo(i, newCursor[i])
  <2>1. newCursor[i] <= listed[i]
    BY <1>1 DEF IInv, Past, Running
  <2>2. StoredUpTo(i, listed[i])
    BY <1>3, <1>8, <2>1 DEF IInv, RecordsTrue
  <2>3. \A d \in DOMAIN store : store[d].ver \in Nat
    BY DEF TypeOK
  <2> QED
    BY <1>3, <2>1, <2>2, <2>3 DEF StoredUpTo
<1>9. RunCovers'
  <2> SUFFICES ASSUME failures = 0 PROVE RunCovers'
    BY <1>1 DEF RunCovers
  <2>1. ASSUME NEW f \in Files \ (unsupported \cup trashed \cup stale'), newCursor[f] > 0,
               f \notin Pending'
        PROVE  StoredUpTo(f, newCursor[f])
    BY <1>1, <1>7, <1>8, <2>1 DEF IInv, RunCovers, Running
  <2>2. ASSUME NEW a \in Folders, newCursor[a] > 0, a \notin Pending' PROVE folderMap'[a] # NoId
    BY <1>1, <1>5, <1>7, <2>2 DEF IInv, RunCovers, Running
  <2> QED
    BY <1>1, <1>2, <2>1, <2>2 DEF RunCovers
<1> QED
  BY <1>4, <1>6, <1>9 DEF IInv

\* What fails is counted, what cannot be exported is excepted, and neither row claims
\* that something is stored.
LEMMA FailureKeeps ==
  ASSUME TypeOK, Phases, Unexported, TypeOK', IInv, NEW i \in Items,
         \/ FailForParent(i)
         \/ i \in Folders /\ FolderFails(i)
         \/ i \in Files /\ (SkipUnsupported(i) \/ UploadFails(i))
  PROVE  IInv'
<1>1. /\ UNCHANGED <<source, store, folderMap, cursor, listing, rounds, pc, hand, stale>>
      /\ pc = "batch" /\ batch' = batch \ {i}
      /\ hash' = [hash EXCEPT ![i] = 0]
      /\ failures' = failures + 1 \/ (failures' = failures /\ i \in unsupported)
  BY DEF FailForParent, FolderFails, SkipUnsupported, UploadFails, MarkFailed, Upsert
<1>2. \A f, v : StoredUpTo(f, v)' <=> StoredUpTo(f, v)
  BY <1>1, NothingWritten
<1>3. \A f \in Files : destId'[f] = destId[f] \/ destId'[f] = NoId
  BY DEF FailForParent, FolderFails, SkipUnsupported, UploadFails, MarkFailed, Upsert,
         Existing, TypeOK
<1>4. Past' /\ HandTrue'
  BY <1>1 DEF IInv, Past, HandTrue, Running
<1>5. OwnCopies'
  BY <1>1, <1>3 DEF IInv, OwnCopies
<1>6. RecordsTrue' /\ BehindCursorStored'
  <2>1. \A f \in Files : hash'[f] = hash[f] \/ hash'[f] = 0
    BY <1>1 DEF TypeOK
  <2> QED
    BY <1>1, <1>2, <2>1 DEF IInv, RecordsTrue, BehindCursorStored
<1>7. RunCovers'
  <2>1. failures \in Nat /\ (failures' = 0 => failures = 0 /\ i \in unsupported)
    BY <1>1 DEF TypeOK
  <2>2. i \in unsupported => i \notin Folders
    BY TreeAssumption DEF TypeOK
  <2>3. Pending \ {i} \subseteq Pending'
    BY <1>1 DEF Pending, Remaining
  <2> QED
    BY <1>1, <1>2, <2>1, <2>2, <2>3 DEF IInv, RunCovers
<1> QED
  BY <1>4, <1>5, <1>6, <1>7 DEF IInv

\* An upload stores the file at least as new as it was listed, whether or not the
\* answer arrives, and takes nothing from any other file.
LEMMA UploadKeeps ==
  ASSUME TypeOK, Phases, TypeOK', IInv, UniqueNames, NEW f \in Files, Upload(f) \/ UploadLost(f)
  PROVE  IInv'
<1>1. /\ UNCHANGED <<source, folderMap, cursor, listing, rounds, stale>>
      /\ pc = "batch" /\ batch' = batch \ {f} /\ Write(f)
      /\ hash' = hash \/ hash' = [hash EXCEPT ![f] = 0]
      /\ destId' = destId \/ destId' = [destId EXCEPT ![f] = Existing(f)]
      /\ failures' = failures \/ failures' = failures + 1
  BY DEF Upload, UploadLost, Upsert
<1>2. /\ \A g \in Files, v \in Nat : StoredUpTo(g, v) => StoredUpTo(g, v)'
      /\ Target(f) \in DOMAIN store => store[Target(f)].item = f
      /\ \A d \in DOMAIN store : store'[d].item = store[d].item
      /\ Target(f)[1][Len(Target(f)[1])] = Name[f]
  BY <1>1, StoredKept DEF IInv
<1>3. /\ DOMAIN store' = DOMAIN store \cup {Target(f)}
      /\ store'[Target(f)].item = f /\ store'[Target(f)].ver = ver[f]
      /\ \A d \in DOMAIN store \ {Target(f)} : store'[d] = store[d]
  <2>1. store'[Target(f)] = [item |-> f, ver |-> ver[f]]
    BY <1>1, WritePuts
  <2> QED
    BY <1>1, <2>1, WritePuts
<1>4. \A i \in Items : /\ ver[i] \in Nat /\ listed[i] \in Nat /\ hash[i] \in Nat
                       /\ newCursor[i] \in Nat
                       /\ cursor # NoCursor => cursor[i] \in Nat
  BY <1>1 DEF TypeOK, Phases, Running, Cursors
<1>5. \A g \in Files : destId'[g] = destId[g] \/ destId'[g] = NoId
  BY <1>1 DEF Existing, TypeOK
<1>6. \A v \in Nat : v <= ver[f] => StoredUpTo(f, v)'
  BY <1>3, <1>4 DEF StoredUpTo
<1>7. Past'
  <2>1. \A i \in Items :
          /\ listed'[i] <= ver'[i]
          /\ cursor' # NoCursor => cursor'[i] <= ver'[i]
          /\ newCursor' # NoCursor => newCursor'[i] <= ver'[i]
          /\ newCursor'[i] <= listed'[i]
          /\ cursor' # NoCursor => cursor'[i] <= listed'[i]
    BY <1>1 DEF IInv, Past, Running
  <2>2. \A d \in DOMAIN store' : store'[d].ver <= ver'[store'[d].item]
    BY <1>1, <1>3, <1>4 DEF IInv, Past
  <2> QED
    BY <2>1, <2>2 DEF Past
<1>8. OwnCopies'
  <2>1. \A d \in DOMAIN store' : d[1][Len(d[1])] = Name[store'[d].item]
    BY <1>2, <1>3 DEF IInv, OwnCopies
  <2>2. \A g \in Files : destId'[g] # NoId =>
          destId'[g] \in DOMAIN store' /\ store'[destId'[g]].item = g
    BY <1>2, <1>3, <1>5 DEF IInv, OwnCopies
  <2> QED
    BY <2>1, <2>2 DEF OwnCopies
<1>9. HandTrue'
  <2>1. CASE Upload(f)
    <3>1. cur' = f /\ curDest' = Target(f) /\ destId' = destId
      BY <2>1 DEF Upload
    <3>2. mode = "delta" /\ destId[f] # NoId => Target(f) = destId[f]
      BY TargetIsId DEF Existing
    <3>3. ver[f] >= listed[f]
      BY <1>4 DEF IInv, Past
    <3> QED
      BY <1>1, <1>3, <3>1, <3>2, <3>3 DEF HandTrue
  <2>2. CASE UploadLost(f)
    BY <1>1, <2>2 DEF HandTrue, UploadLost
  <2> QED
    BY <2>1, <2>2
<1>10. RecordsTrue'
  <2>1. \A g \in Files : hash'[g] = hash[g] \/ hash'[g] = 0
    BY <1>1 DEF TypeOK
  <2> QED
    BY <1>2, <1>4, <2>1 DEF IInv, RecordsTrue
<1>11. BehindCursorStored'
  BY <1>1, <1>2, <1>4 DEF IInv, BehindCursorStored
<1>12. RunCovers'
  <2> SUFFICES ASSUME failures' = 0 PROVE RunCovers'
    BY DEF RunCovers
  <2>1. failures = 0
    BY <1>1 DEF TypeOK
  <2>2. newCursor[f] <= ver[f]
    BY <1>1 DEF IInv, Past, Phases, Running
  <2>3. Pending \ {f} \subseteq Pending'
    BY <1>1 DEF Pending, Remaining
  <2>4. ASSUME NEW g \in Files \ (unsupported \cup trashed \cup stale), NEW v \in Nat,
               v = newCursor[g], v > 0, g \notin Pending'
        PROVE  StoredUpTo(g, v)'
    <3>1. CASE g = f
      BY <1>6, <2>2, <2>4, <3>1
    <3>2. CASE g # f
      <4>1. StoredUpTo(g, newCursor[g])
        BY <1>1, <2>1, <2>3, <2>4, <3>2 DEF IInv, RunCovers, Running
      <4> QED
        BY <1>2, <2>4, <4>1
    <3> QED
      BY <3>1, <3>2
  <2>5. ASSUME NEW a \in Folders, newCursor[a] > 0, a \notin Pending' PROVE folderMap[a] # NoId
    <3>1. a # f
      BY TreeAssumption
    <3> QED
      BY <1>1, <2>1, <2>3, <2>5, <3>1 DEF IInv, RunCovers, Running
  <2>6. \A g \in Files \ (unsupported \cup trashed \cup stale) :
          newCursor'[g] > 0 => g \in Pending' \/ StoredUpTo(g, newCursor[g])'
    BY <1>1, <1>4, <2>4
  <2> QED
    BY <1>1, <2>5, <2>6 DEF RunCovers
<1> QED
  BY <1>7, <1>8, <1>9, <1>10, <1>11, <1>12 DEF IInv

\* The row of the file in hand claims what HandTrue says is stored.
LEMMA RecordKeeps ==
  ASSUME TypeOK, Phases, TypeOK', IInv, Record
  PROVE  IInv'
<1>1. /\ UNCHANGED <<source, store, folderMap, cursor, listing, rounds, batch, failures>>
      /\ pc = "record" /\ pc' = "batch" /\ cur \in Files
      /\ hash' = [hash EXCEPT ![cur] = listed[cur]]
      /\ destId' = [destId EXCEPT ![cur] = curDest]
      /\ stale' = stale \ {cur}
  BY DEF Record, Upsert, Phases
<1>2. \A f, v : StoredUpTo(f, v)' <=> StoredUpTo(f, v)
  BY <1>1, NothingWritten
<1>3. /\ \A i \in Items : listed[i] \in Nat /\ newCursor[i] \in Nat
      /\ cursor # NoCursor => \A i \in Items : cursor[i] \in Nat
      /\ \A d \in DOMAIN store : store[d].ver \in Nat
  BY <1>1 DEF TypeOK, Phases, Running, Cursors
<1>4. /\ curDest \in DOMAIN store /\ store[curDest].item = cur
      /\ store[curDest].ver >= listed[cur]
  BY <1>1 DEF IInv, HandTrue, Phases
<1>5. \A v \in Nat : v <= listed[cur] => StoredUpTo(cur, v)
  BY <1>1, <1>3, <1>4 DEF StoredUpTo
<1>6. /\ newCursor[cur] <= listed[cur]
      /\ cursor # NoCursor => cursor[cur] <= listed[cur]
  BY <1>1 DEF IInv, Past, Running
<1>7. Past' /\ HandTrue'
  BY <1>1 DEF IInv, Past, HandTrue, Running
<1>8. OwnCopies'
  BY <1>1, <1>4 DEF IInv, OwnCopies, TypeOK
<1>9. RecordsTrue'
  <2>1. \A f \in Files : hash'[f] = IF f = cur THEN listed[cur] ELSE hash[f]
    BY <1>1 DEF TypeOK
  <2> QED
    BY <1>1, <1>2, <1>3, <1>5, <2>1 DEF IInv, RecordsTrue
<1>10. BehindCursorStored'
  BY <1>1, <1>2, <1>3, <1>5, <1>6 DEF IInv, BehindCursorStored
<1>11. RunCovers'
  BY <1>1, <1>2, <1>3, <1>5, <1>6 DEF IInv, RunCovers, Running, Pending, Remaining
<1> QED
  BY <1>7, <1>8, <1>9, <1>10, <1>11 DEF IInv

\* A new round has to process just what the last one left.
LEMMA RoundKeeps ==
  ASSUME TypeOK, Phases, TypeOK', IInv, NextRound \/ PlaceOrphans
  PROVE  IInv'
<1>1. /\ UNCHANGED <<source, store, db, pc, listing, failedFolders, failures, hand, ghosts>>
      /\ Pending' = Pending
  <2>1. CASE NextRound
    BY <2>1 DEF NextRound, Pending, Remaining
  <2>2. CASE PlaceOrphans
    <3>1. /\ batch = {} /\ phase = "round" /\ phase' = "orphans"
          /\ batch' = Orphans(still) /\ deferred' = still \ Orphans(still)
      BY <2>2 DEF PlaceOrphans, Stuck
    <3>2. Orphans(still) \subseteq still
      BY DEF Orphans
    <3> QED
      BY <2>2, <3>1, <3>2 DEF PlaceOrphans, Pending, Remaining
  <2> QED
    BY <2>1, <2>2
<1>2. \A f, v : StoredUpTo(f, v)' <=> StoredUpTo(f, v)
  BY <1>1, NothingWritten
<1> QED
  BY <1>1, <1>2 DEF IInv, Past, OwnCopies, HandTrue, RecordsTrue, RunCovers, BehindCursorStored,
                    Running

\* A cursor is committed when nothing is left and nothing has failed: then all it covers
\* is stored.
LEMMA EndKeeps ==
  ASSUME TypeOK, Phases, TypeOK', IInv, Finish \/ Interrupt
  PROVE  IInv'
<1>1. /\ UNCHANGED <<source, store, status, hash, destId, folderMap, stale>>
      /\ pc' = "idle" /\ newCursor' = NoCursor /\ listed' = [i \in Items |-> 0]
      /\ cursor' = cursor \/ (pc = "batch" /\ Pending = {} /\ failures = 0 /\ cursor' = newCursor)
  BY DEF Finish, Interrupt, EndRun, NextCursor, Pending
<1>2. \A f, v : StoredUpTo(f, v)' <=> StoredUpTo(f, v)
  BY <1>1, NothingWritten
<1>3. Past'
  <2>1. \A i \in Items : ver[i] \in Nat
    BY DEF TypeOK
  <2> QED
    BY <1>1, <2>1 DEF IInv, Past, Running
<1>4. OwnCopies' /\ HandTrue' /\ RecordsTrue' /\ RunCovers'
  BY <1>1, <1>2 DEF IInv, OwnCopies, HandTrue, RecordsTrue, RunCovers, Running
<1>5. BehindCursorStored'
  BY <1>1, <1>2 DEF IInv, RunCovers, BehindCursorStored, Running
<1> QED
  BY <1>3, <1>4, <1>5 DEF IInv

\* The inductive invariant, of any drive whose files have names of their own.
THEOREM IInvHolds == ASSUME UniqueNames PROVE Spec => []IInv
<1>1. Init /\ TypeOK => IInv
  <2> SUFFICES ASSUME Init, TypeOK PROVE IInv
    OBVIOUS
  <2>1. DOMAIN store = {}
    BY DEF Init
  <2>2. \A i \in Items : ver[i] \in Nat
    BY DEF TypeOK
  <2> QED
    BY <2>1, <2>2 DEF Init, Idle, IInv, Past, OwnCopies, HandTrue, RecordsTrue, RunCovers, Running,
                      BehindCursorStored
<1>2. TypeOK /\ Phases /\ Unexported /\ TypeOK' /\ IInv /\ [Next]_vars => IInv'
  <2> SUFFICES ASSUME TypeOK, Phases, Unexported, TypeOK', IInv, [Next]_vars PROVE IInv'
    OBVIOUS
  <2>1. ASSUME NEW i \in Items, Add(i) \/ Edit(i) \/ Trash(i) PROVE IInv'
    BY <2>1, SourceKeeps
  <2>2. CASE (\E m \in {"full", "delta"} : Start(m)) \/ Capture \/ ListFiles
    BY <2>2, BeginKeeps
  <2>3. ASSUME NEW i \in Items,
               Defer(i) \/ (i \in Files /\ SkipUnchanged(i)) \/ (i \in Folders /\ MakeFolder(i))
        PROVE  IInv'
    BY <2>3, PassKeeps
  <2>4. ASSUME NEW i \in Items,
               \/ FailForParent(i)
               \/ i \in Folders /\ FolderFails(i)
               \/ i \in Files /\ (SkipUnsupported(i) \/ UploadFails(i))
        PROVE  IInv'
    BY <2>4, FailureKeeps
  <2>5. ASSUME NEW f \in Files, Upload(f) \/ UploadLost(f) PROVE IInv'
    BY <2>5, UploadKeeps
  <2>6. CASE Record
    BY <2>6, RecordKeeps
  <2>7. CASE NextRound \/ PlaceOrphans
    BY <2>7, RoundKeeps
  <2>8. CASE Finish \/ Interrupt
    BY <2>8, EndKeeps
  <2>9. CASE UNCHANGED vars
    BY <2>9 DEF vars, IInv, Past, OwnCopies, HandTrue, RecordsTrue, RunCovers, Running, Pending,
                Remaining, BehindCursorStored, StoredUpTo
  <2> QED
    BY <2>1, <2>2, <2>3, <2>4, <2>5, <2>6, <2>7, <2>8, <2>9 DEF Next, Step, Process
<1> QED
  BY <1>1, <1>2, TypeCorrect, CopiesAccountedHolds, PTL DEF Spec

\* No committed cursor covers an edit that no copy of the file has, or a folder that was
\* not made: whatever order the listings come in and wherever a job is cut off.
THEOREM BehindCursorHolds == ASSUME UniqueNames PROVE Spec => []BehindCursorStored
<1>1. IInv => BehindCursorStored
  BY DEF IInv
<1> QED
  BY <1>1, IInvHolds, PTL

\* A delta pass updates in place the files whose destination is on record, and forgets
\* none of these records.
THEOREM UpdatesInPlace == ASSUME UniqueNames PROVE Spec => DeltaUpdatesInPlace
<1>1. TypeOK /\ Phases /\ Unexported /\ IInv /\ [Next]_vars
      => [mode = "delta" => \A f \in Files : KeepsCopy(f)]_vars
  <2> SUFFICES ASSUME TypeOK, Phases, Unexported, IInv, Next, mode = "delta",
                      NEW f \in Files, destId[f] # NoId
               PROVE  Copies(f)' = Copies(f) /\ destId'[f] = destId[f]
    BY DEF KeepsCopy
  <2>1. Existing(f) = destId[f] /\ Target(f) = destId[f]
    BY TargetIsId DEF Existing
  <2>2. destId[f] \in DOMAIN store /\ store[destId[f]].item = f
    BY DEF IInv, OwnCopies
  <2>3. ASSUME NEW g \in Files, Upload(g) \/ UploadLost(g)
        PROVE  Copies(f)' = Copies(f) /\ destId'[f] = destId[f]
    <3>1. Write(g)
      BY <2>3 DEF Upload, UploadLost
    <3>2. destId'[f] = destId[f]
      BY <2>1, <2>3 DEF Upload, UploadLost, Upsert, TypeOK
    <3>3. CASE g # f
      BY <3>1, <3>2, <3>3, StoredKept DEF IInv
    <3>4. CASE g = f
      <4>1. /\ DOMAIN store' = DOMAIN store
            /\ store'[Target(f)] = [item |-> f, ver |-> ver[f]]
            /\ \A d \in DOMAIN store \ {Target(f)} : store'[d] = store[d]
        BY <2>1, <2>2, <3>1, <3>4, WritePuts
      <4>2. \A d \in DOMAIN store : store'[d].item = store[d].item
        BY <2>1, <2>2, <4>1
      <4> QED
        BY <3>2, <4>1, <4>2 DEF Copies
    <3> QED
      BY <3>3, <3>4
  <2>4. CASE Record
    <3>1. destId'[f] = IF f = cur THEN curDest ELSE destId[f]
      BY <2>4 DEF Record, Upsert, TypeOK, Phases
    <3>2. f = cur => curDest = destId[f]
      BY <2>4 DEF Record, IInv, HandTrue
    <3> QED
      BY <2>4, <3>1, <3>2 DEF Record, Copies
  <2>5. ASSUME NEW i \in Items,
               \/ FailForParent(i)
               \/ i \in Folders /\ (MakeFolder(i) \/ FolderFails(i))
               \/ i \in Files /\ (SkipUnsupported(i) \/ UploadFails(i))
        PROVE  Copies(f)' = Copies(f) /\ destId'[f] = destId[f]
    <3>1. store' = store
      BY <2>5 DEF FailForParent, MakeFolder, FolderFails, SkipUnsupported, UploadFails
    <3>2. destId'[f] = destId[f]
      <4>1. CASE FailForParent(i)
        BY <2>1, <4>1 DEF FailForParent, NeedsParent, MarkFailed, Upsert, TypeOK
      <4>2. CASE i \in Folders /\ (MakeFolder(i) \/ FolderFails(i))
        BY <4>2, TreeAssumption DEF MakeFolder, FolderFails, MarkFailed, Upsert
      <4>3. CASE i \in Files /\ SkipUnsupported(i)
        BY <4>3 DEF SkipUnsupported, Upsert, Unexported, TypeOK
      <4>4. CASE i \in Files /\ UploadFails(i)
        BY <2>1, <4>4 DEF UploadFails, MarkFailed, Upsert, TypeOK
      <4> QED
        BY <2>5, <4>1, <4>2, <4>3, <4>4
    <3> QED
      BY <3>1, <3>2 DEF Copies
  <2>6. CASE \/ \E i \in Items : Add(i) \/ Edit(i) \/ Trash(i) \/ Defer(i)
             \/ \E m \in {"full", "delta"} : Start(m)
             \/ Capture \/ ListFiles \/ NextRound \/ PlaceOrphans \/ Finish \/ Interrupt
             \/ \E g \in Files : SkipUnchanged(g)
    BY <2>6 DEF Copies, Add, Edit, Trash, Defer, Start, Capture, ListFiles, NextRound,
                PlaceOrphans, Finish, Interrupt, SkipUnchanged
  <2> QED
    BY <2>3, <2>4, <2>5, <2>6 DEF Next, Step, Process
<1> QED
  BY <1>1, TypeCorrect, CopiesAccountedHolds, IInvHolds, PTL DEF Spec, DeltaUpdatesInPlace

-----------------------------------------------------------------------------
(* Placement *)

\* The values of h go down the tree: base under the root, step from folder to item.
Descends(h, base, step) ==
  \A i \in Items : h[i] = IF Parent[i] = Top THEN base[i] ELSE step[<<i, h[Parent[i]]>>]

\* The drive being a tree, there is such a function for any base and any step.
LEMMA TreeRecursion ==
  ASSUME NEW V, NEW base, NEW step, base \in [Items -> V], step \in [Items \X V -> V]
  PROVE  \E h \in [Items -> V] : Descends(h, base, step)
<1> DEFINE Closed(S) == \A i \in S : Parent[i] \in S \cup {Top}
           Solves(S, h) ==
             /\ h \in [S -> V]
             /\ \A i \in S : h[i] = IF Parent[i] = Top THEN base[i] ELSE step[<<i, h[Parent[i]]>>]
           Solution(S, h) == S \subseteq Items /\ Closed(S) /\ Solves(S, h)
           ValueOf(i, v) == \E S, h : Solution(S, h) /\ i \in S /\ v = h[i]
           Reach == {i \in Items : \E v \in V : ValueOf(i, v)}
           H == [i \in Reach |-> CHOOSE v \in V : ValueOf(i, v)]
<1>0. Top \notin Items /\ \A i \in Items : Parent[i] \in Items \cup {Top}
  BY TreeAssumption
<1> HIDE DEF Items
<1>1. ASSUME NEW S, NEW T, NEW g, NEW h, Solution(S, g), Solution(T, h)
      PROVE  \A i \in S \cap T : g[i] = h[i]
  <2> DEFINE Bad == {i \in S \cap T : g[i] # h[i]}
  <2> SUFFICES ASSUME Bad # {} PROVE FALSE
    OBVIOUS
  <2>1. PICK i \in Bad : Parent[i] \notin Bad
    <3>1. Bad \in (SUBSET Items) \ {{}}
      BY <1>1
    <3> HIDE DEF Bad
    <3> QED
      BY <3>1, AcyclicAssumption
  <2>2. i \in S /\ i \in T /\ g[i] # h[i]
    BY <2>1
  <2>3. /\ g[i] = IF Parent[i] = Top THEN base[i] ELSE step[<<i, g[Parent[i]]>>]
        /\ h[i] = IF Parent[i] = Top THEN base[i] ELSE step[<<i, h[Parent[i]]>>]
    BY <1>1, <2>2
  <2>4. Parent[i] = Top \/ (Parent[i] \in S /\ Parent[i] \in T)
    BY <1>1, <2>2
  <2>5. Parent[i] = Top \/ g[Parent[i]] = h[Parent[i]]
    BY <2>1, <2>4
  <2> QED
    BY <2>2, <2>3, <2>5
<1>2. ASSUME NEW S, NEW h, Solution(S, h)
      PROVE  S \subseteq Reach /\ \A i \in S : H[i] = h[i]
  <2> SUFFICES ASSUME NEW i \in S PROVE i \in Reach /\ H[i] = h[i]
    OBVIOUS
  <2>1. i \in Items /\ h[i] \in V
    BY <1>2
  <2>2. ASSUME NEW v, ValueOf(i, v) PROVE v = h[i]
    <3>1. PICK T, g : Solution(T, g) /\ i \in T /\ v = g[i]
      BY <2>2
    <3> HIDE DEF Solution
    <3> QED
      BY <1>1, <1>2, <3>1
  <2>3. ValueOf(i, h[i])
    <3> HIDE DEF Solution
    <3> QED
      BY <1>2
  <2> HIDE DEF ValueOf
  <2>4. i \in Reach
    BY <2>1, <2>3
  <2>5. H[i] = CHOOSE v \in V : ValueOf(i, v)
    BY <2>4
  <2>6. (CHOOSE v \in V : ValueOf(i, v)) = h[i]
    BY <2>1, <2>2, <2>3
  <2> QED
    BY <2>4, <2>5, <2>6
<1>3. ASSUME NEW i \in Reach
      PROVE  /\ i \in Items /\ Parent[i] \in Reach \cup {Top} /\ H[i] \in V
             /\ H[i] = IF Parent[i] = Top THEN base[i] ELSE step[<<i, H[Parent[i]]>>]
  <2>1. PICK v \in V : ValueOf(i, v)
    <3> HIDE DEF ValueOf
    <3> QED
      OBVIOUS
  <2>2. PICK S, h : Solution(S, h) /\ i \in S
    <3> HIDE DEF Solution
    <3> QED
      BY <2>1
  <2>3. S \subseteq Reach /\ \A j \in S : H[j] = h[j]
    <3> HIDE DEF Solution, H, Reach
    <3> QED
      BY <1>2, <2>2
  <2>4. /\ h[i] \in V /\ i \in Items /\ Parent[i] \in S \cup {Top}
        /\ h[i] = IF Parent[i] = Top THEN base[i] ELSE step[<<i, h[Parent[i]]>>]
    BY <2>2
  <2> HIDE DEF H, Reach, Solution
  <2> QED
    BY <2>2, <2>3, <2>4
<1>4. Solution(Reach, H)
  <2>1. H \in [Reach -> V]
    <3>1. H = [i \in Reach |-> H[i]]
      <4> HIDE DEF ValueOf, Reach
      <4> QED
        OBVIOUS
    <3> HIDE DEF H, Reach
    <3> QED
      BY <1>3, <3>1
  <2> HIDE DEF H, Reach
  <2> QED
    BY <1>3, <2>1
<1>5. Reach = Items
  <2>1. Reach \subseteq Items
    BY <1>3
  <2> SUFFICES ASSUME Items \ Reach # {} PROVE FALSE
    BY <2>1
  <2>2. PICK i \in Items \ Reach : Parent[i] \notin Items \ Reach
    <3>1. Items \ Reach \in (SUBSET Items) \ {{}}
      OBVIOUS
    <3> HIDE DEF Reach
    <3> QED
      BY <3>1, AcyclicAssumption
  <2>3. Parent[i] \in Reach \cup {Top}
    <3> HIDE DEF Reach
    <3> QED
      BY <1>0, <2>2
  <2> DEFINE S == Reach \cup {i}
             value == IF Parent[i] = Top THEN base[i] ELSE step[<<i, H[Parent[i]]>>]
             h == [j \in S |-> IF j = i THEN value ELSE H[j]]
  <2>4. Solution(S, h)
    <3> HIDE DEF H, Reach
    <3>1. H \in [Reach -> V] /\ i \notin Reach /\ i \in Items
      BY <1>4, <2>2
    <3>2. value \in V
      BY <2>3, <3>1
    <3>3. h \in [S -> V]
      BY <3>1, <3>2
    <3>4. \A j \in S : Parent[j] \in Reach \cup {Top}
      BY <1>4, <2>3
    <3>5. \A j \in Reach : h[j] = H[j]
      BY <3>1
    <3>6. \A j \in S : h[j] = IF Parent[j] = Top THEN base[j] ELSE step[<<j, h[Parent[j]]>>]
      <4>1. \A j \in S : Parent[j] = Top \/ h[Parent[j]] = H[Parent[j]]
        BY <3>4, <3>5
      <4>2. h[i] = value
        OBVIOUS
      <4> HIDE DEF h
      <4> SUFFICES ASSUME NEW j \in S
                   PROVE  h[j] = IF Parent[j] = Top THEN base[j] ELSE step[<<j, h[Parent[j]]>>]
        OBVIOUS
      <4>3. CASE j = i
        BY <4>1, <4>2, <4>3
      <4>4. CASE j \in Reach
        BY <1>4, <3>5, <4>1, <4>4
      <4> QED
        BY <4>3, <4>4
    <3> HIDE DEF h
    <3> QED
      BY <2>1, <3>1, <3>3, <3>4, <3>6
  <2>5. S \subseteq Reach
    <3> HIDE DEF Solution, H, Reach, h, S
    <3> QED
      BY <1>2, <2>4
  <2> HIDE DEF Reach
  <2> QED
    BY <2>2, <2>5
<1> HIDE DEF H, Reach
<1> QED
  BY <1>4, <1>5 DEF Descends

\* The path of an item at the source is that of its folder, and its own name.
LEMMA HomeIs ==
  \A i \in Items :
    Home[i] = IF Parent[i] = Top THEN <<Name[i]>> ELSE Append(Home[Parent[i]], Name[i])
<1> USE TreeAssumption
<1> DEFINE Names == {Name[i] : i \in Items}
           base == [i \in Items |-> <<Name[i]>>]
           step == [x \in Items \X Paths |-> Append(x[2], Name[x[1]])]
           Path(h, i) == IF Parent[i] = Top THEN <<Name[i]>> ELSE Append(h[Parent[i]], Name[i])
<1>1. \A i \in Items : Name[i] \in Names
  OBVIOUS
<1>2. Paths = Seq(Names)
  BY DEF Paths
<1> HIDE DEF Names
<1>3. base \in [Items -> Paths] /\ step \in [Items \X Paths -> Paths]
  BY <1>1, <1>2
<1>4. PICK h \in [Items -> Paths] : Descends(h, base, step)
  <2> HIDE DEF base, step, Items
  <2> QED
    BY <1>3, TreeRecursion
<1>5. h = [i \in Items |-> Path(h, i)]
  BY <1>4 DEF Descends
<1>6. Home = [i \in Items |-> Path(Home, i)]
  BY <1>5 DEF Home
<1> QED
  BY <1>6

\* What is above an item is its folder and what is above that.
LEMMA AboveIs ==
  \A i \in Items :
    Above[i] = IF Parent[i] = Top THEN {} ELSE {Parent[i]} \cup Above[Parent[i]]
<1> USE TreeAssumption
<1> DEFINE base == [i \in Items |-> {}]
           step == [x \in Items \X SUBSET (Folders \cup {Top}) |-> {Parent[x[1]]} \cup x[2]]
           Over(h, i) == IF Parent[i] = Top THEN {} ELSE {Parent[i]} \cup h[Parent[i]]
<1>1. /\ base \in [Items -> SUBSET (Folders \cup {Top})]
      /\ step \in [Items \X SUBSET (Folders \cup {Top}) -> SUBSET (Folders \cup {Top})]
  OBVIOUS
<1>2. PICK h \in [Items -> SUBSET (Folders \cup {Top})] : Descends(h, base, step)
  <2> HIDE DEF base, step, Items
  <2> QED
    BY <1>1, TreeRecursion
<1>3. h = [i \in Items |-> Over(h, i)]
  BY <1>2 DEF Descends
<1>4. Above = [i \in Items |-> Over(Above, i)]
  BY <1>3 DEF Above
<1> QED
  BY <1>4

\* An item is where it was at the source, or below a folder that was cut off.
CutOff(i) == Above[i] \cap cutOff # {}
GoodPath(i, path) == path = Home[i] \/ CutOff(i)

\* An item exists in a folder that exists, and a captured cursor covers what exists.
SourceTree ==
  /\ \A i \in Items : ver[i] > 0 /\ Parent[i] # Top => ver[Parent[i]] > 0
  /\ newCursor # NoCursor => \A i \in Items : newCursor[i] > 0 => ver[i] > 0

\* The folders the committed cursor covers are made, and so are those the captured one
\* covers, as long as nothing has failed, but for those still to be processed.
FoldersMade ==
  /\ cursor # NoCursor => \A a \in Folders : cursor[a] > 0 => folderMap[a] # NoId
  /\ pc \in Running /\ failures = 0 =>
       \A a \in Folders : newCursor[a] > 0 => a \in Pending \/ folderMap[a] # NoId

\* The folder of an item still to be processed is made, still to be processed, failed and
\* remembered so, or cut off; when orphans are placed, it is no more to be processed.
ParentsKnown ==
  pc \in Running =>
    /\ \A i \in Pending : Parent[i] # Top =>
         folderMap[Parent[i]] # NoId \/ Parent[i] \in Pending \cup failedFolders \cup cutOff
    /\ phase = "orphans" => \A i \in batch : Parent[i] \notin Pending

HandPlaced == pc = "record" => GoodPath(cur, curDest[1])

PInv == SourceTree /\ FoldersMade /\ ParentsKnown /\ HandPlaced /\ PlacedUnlessCutOff

\* Where an item is put when it is placed: under the copy of its folder, or at the root
\* because that is its folder or because its folder was cut off.
LEMMA GoodPlace ==
  ASSUME TypeOK, PInv, pc = "batch", NEW i \in batch, Placeable(i)
  PROVE  GoodPath(i, DestPath(i))
<1>0. i \in Items /\ Parent[i] \in Folders \cup {Top} /\ Top \notin Items
  BY TreeAssumption DEF TypeOK
<1>1. CASE Known(i)
  <2>1. /\ Parent[i] \in Folders /\ Parent[i] # Top
        /\ folderMap[Parent[i]] # NoId
        /\ DestPath(i) = Append(folderMap[Parent[i]], Name[i])
    BY <1>0, <1>1 DEF Known, DestPath
  <2>2. folderMap[Parent[i]] = Home[Parent[i]] \/ CutOff(Parent[i])
    BY <2>1 DEF PInv, PlacedUnlessCutOff, Placed, CutOff
  <2>3. Home[i] = Append(Home[Parent[i]], Name[i]) /\ Above[Parent[i]] \subseteq Above[i]
    BY <1>0, <2>1, HomeIs, AboveIs
  <2> QED
    BY <2>1, <2>2, <2>3 DEF GoodPath, CutOff
<1>2. CASE ~Known(i)
  <2>1. phase = "orphans" /\ Parent[i] \notin failedFolders /\ DestPath(i) = <<Name[i]>>
    BY <1>2 DEF Placeable, Undecided, DestPath
  <2>2. CASE Parent[i] = Top
    BY <1>0, <2>1, <2>2, HomeIs DEF GoodPath
  <2>3. CASE Parent[i] # Top
    <3>1. Parent[i] \in cutOff
      BY <1>0, <1>2, <2>1, <2>3 DEF PInv, ParentsKnown, Running, Pending, Known
    <3>2. Parent[i] \in Above[i]
      BY <1>0, <2>3, AboveIs
    <3> QED
      BY <3>1, <3>2 DEF GoodPath, CutOff
  <2> QED
    BY <2>2, <2>3
<1> QED
  BY <1>1, <1>2

\* What a run remembers of an item it has processed: a folder is made, still to be
\* processed, or has failed and is remembered as failed or cut off.
LEMMA ProcessSettles ==
  ASSUME TypeOK, NEW i \in Items, Process(i)
  PROVE  /\ pc = "batch" /\ i \in batch /\ batch' = batch \ {i}
         /\ UNCHANGED <<source, cursor, mode, newCursor, listed, phase, deferred>>
         /\ Pending \ {i} \subseteq Pending' /\ Pending' \subseteq Pending
         /\ failures' \in Nat /\ (failures' = 0 => failures = 0)
         /\ failedFolders \subseteq failedFolders' /\ cutOff \subseteq cutOff'
         /\ \A a \in Folders \ {i} : folderMap'[a] = folderMap[a]
         /\ i \in Folders =>
              /\ folderMap'[i] = folderMap[i] \/ (Placeable(i) /\ folderMap'[i] = DestPath(i))
              /\ \/ i \in Pending' /\ folderMap'[i] = folderMap[i]
                 \/ folderMap'[i] # NoId
                 \/ failures' > 0 /\ i \in failedFolders' \cup cutOff'
<1>1. CASE Defer(i)
  BY <1>1 DEF Defer, Defers, Pending, Remaining, TypeOK
<1>2. CASE FailForParent(i)
  BY <1>2 DEF FailForParent, MarkFailed, Pending, Remaining, TypeOK
<1>3. CASE i \in Folders /\ MakeFolder(i)
  <2>1. DestPath(i) # NoId
    BY PathOfItem, NoValueAssumption
  <2> QED
    BY <1>3, <2>1 DEF MakeFolder, Pending, Remaining, TypeOK
<1>4. CASE i \in Folders /\ FolderFails(i)
  BY <1>4 DEF FolderFails, MarkFailed, Pending, Remaining, TypeOK
<1>5. CASE i \in Files /\ (SkipUnchanged(i) \/ SkipUnsupported(i) \/ UploadFails(i))
  BY <1>5, TreeAssumption DEF SkipUnchanged, SkipUnsupported, UploadFails, MarkFailed, Pending, Remaining,
     TypeOK
<1>6. CASE i \in Files /\ (Upload(i) \/ UploadLost(i))
  BY <1>6, TreeAssumption DEF Upload, UploadLost, Pending, Remaining, TypeOK
<1> QED
  BY <1>1, <1>2, <1>3, <1>4, <1>5, <1>6 DEF Process

\* Processing an item places it well or not at all.
LEMMA ProcessPlaces ==
  ASSUME TypeOK, Phases, TypeOK', PInv, NEW i \in Items, Process(i)
  PROVE  PInv'
<1>1. /\ pc = "batch" /\ i \in batch /\ batch' = batch \ {i}
      /\ UNCHANGED <<source, cursor, mode, newCursor, listed, phase, deferred>>
      /\ Pending \ {i} \subseteq Pending' /\ Pending' \subseteq Pending
      /\ failures' \in Nat /\ (failures' = 0 => failures = 0)
      /\ failedFolders \subseteq failedFolders' /\ cutOff \subseteq cutOff'
      /\ \A a \in Folders \ {i} : folderMap'[a] = folderMap[a]
  BY ProcessSettles
<1>2. i \in Folders =>
        /\ folderMap'[i] = folderMap[i] \/ (Placeable(i) /\ folderMap'[i] = DestPath(i))
        /\ \/ i \in Pending' /\ folderMap'[i] = folderMap[i]
           \/ folderMap'[i] # NoId
           \/ failures' > 0 /\ i \in failedFolders' \cup cutOff'
  BY ProcessSettles
<1>3. \A j \in Items : Parent[j] # Top => Parent[j] \in Folders
  BY TreeAssumption
<1>4. SourceTree'
  BY <1>1 DEF PInv, SourceTree
<1>5. FoldersMade'
  <2>1. ASSUME NEW a \in Folders, folderMap[a] # NoId PROVE folderMap'[a] # NoId
    BY <1>1, <1>2, <2>1, PathOfItem, NoValueAssumption
  <2>2. ASSUME NEW a \in Folders, failures' = 0, newCursor[a] > 0, a \notin Pending'
        PROVE  folderMap'[a] # NoId
    BY <1>1, <1>2, <2>1, <2>2 DEF PInv, FoldersMade, Running
  <2> QED
    BY <1>1, <2>1, <2>2 DEF PInv, FoldersMade
<1>6. ParentsKnown'
  <2>1. ASSUME NEW j \in Pending', Parent[j] # Top
        PROVE  folderMap'[Parent[j]] # NoId \/ Parent[j] \in Pending' \cup failedFolders' \cup cutOff'
    <3>1. j \in Pending /\ Parent[j] \in Folders
      BY <1>1, <1>3, <2>1 DEF Pending, Remaining, TypeOK
    <3>2. folderMap[Parent[j]] # NoId \/ Parent[j] \in Pending \cup failedFolders \cup cutOff
      BY <1>1, <2>1, <3>1 DEF PInv, ParentsKnown, Running
    <3>3. CASE Parent[j] = i
      BY <1>1, <1>2, <3>1, <3>2, <3>3
    <3>4. CASE Parent[j] # i
      BY <1>1, <3>1, <3>2, <3>4
    <3> QED
      BY <3>3, <3>4
  <2>2. phase' = "orphans" => \A j \in batch' : Parent[j] \notin Pending'
    BY <1>1 DEF PInv, ParentsKnown, Running
  <2> QED
    BY <2>1, <2>2 DEF ParentsKnown
<1>7. \A f \in Files : destId'[f] = destId[f] \/ destId'[f] = NoId
  BY DEF Process, Defer, FailForParent, MakeFolder, FolderFails, SkipUnchanged, SkipUnsupported,
         Upload, UploadLost, UploadFails, MarkFailed, Upsert, Existing, TypeOK
<1>8. PlacedUnlessCutOff'
  <2> SUFFICES ASSUME NEW j \in Items PROVE Placed(j)' \/ CutOff(j)'
    BY DEF PlacedUnlessCutOff, CutOff
  <2>1. (Placed(j) \/ CutOff(j)) /\ (CutOff(j) => CutOff(j)')
    BY <1>1 DEF PInv, PlacedUnlessCutOff, CutOff
  <2>2. CASE j \in Files
    <3>1. j \notin Folders
      BY <2>2, TreeAssumption
    <3> QED
      BY <1>7, <2>1, <2>2, <3>1 DEF Placed
  <2>3. CASE j \in Folders
    <3>1. CASE folderMap'[j] = folderMap[j]
      BY <2>1, <2>3, <3>1 DEF Placed
    <3>2. CASE folderMap'[j] # folderMap[j]
      <4>1. j = i /\ Placeable(i) /\ folderMap'[j] = DestPath(i)
        BY <1>1, <1>2, <2>3, <3>2
      <4>2. GoodPath(i, DestPath(i))
        BY <1>1, <4>1, GoodPlace
      <4> QED
        BY <2>1, <2>3, <4>1, <4>2 DEF Placed, GoodPath
    <3> QED
      BY <3>1, <3>2
  <2> QED
    BY <2>2, <2>3
<1>9. HandPlaced'
  <2>1. ASSUME NEW f \in Files, f = i, Upload(f) PROVE HandPlaced'
    <3>1. cur' = f /\ curDest' = Target(f) /\ Ready(f)
      BY <2>1 DEF Upload
    <3>2. GoodPath(f, Target(f)[1])
      <4>1. CASE Existing(f) # NoId
        <5>1. Target(f) = destId[f] /\ destId[f] # NoId /\ f \notin Folders
          BY <4>1, TargetIsId, TreeAssumption
        <5> QED
          BY <5>1 DEF PInv, PlacedUnlessCutOff, Placed, GoodPath, CutOff
      <4>2. CASE Existing(f) = NoId
        <5>1. Placeable(f) /\ Target(f)[1] = DestPath(f)
          BY <3>1, <4>2, TargetIsId DEF Ready, NeedsParent
        <5> QED
          BY <1>1, <2>1, <5>1, GoodPlace
      <4> QED
        BY <4>1, <4>2
    <3> QED
      BY <1>1, <3>1, <3>2 DEF HandPlaced, GoodPath, CutOff
  <2>2. CASE ~(i \in Files /\ Upload(i))
    <3>1. pc' = "batch"
      BY <1>1, <2>2 DEF Process, Defer, FailForParent, MakeFolder, FolderFails, SkipUnchanged,
                        SkipUnsupported, UploadLost, UploadFails
    <3> QED
      BY <3>1 DEF HandPlaced
  <2> QED
    BY <2>1, <2>2
<1> QED
  BY <1>4, <1>5, <1>6, <1>8, <1>9 DEF PInv

\* Files land in the right folder regardless of listing order: whatever order an item and
\* its folder come in, over any number of runs, rounds and faults, an item that is at the
\* destination has the path it has at the source, unless a folder above it failed because
\* its own folder had.
THEOREM PlacedHolds == Spec => []PlacedUnlessCutOff
<1>1. Init /\ TypeOK => PInv
  <2> SUFFICES ASSUME Init, TypeOK PROVE PInv
    OBVIOUS
  <2>1. SourceTree
    <3>1. \A i \in Items : Parent[i] # Top => Parent[i] \in Items
      BY TreeAssumption
    <3> QED
      BY <3>1 DEF Init, Idle, SourceTree
  <2>2. FoldersMade /\ ParentsKnown /\ HandPlaced
    BY DEF Init, Idle, FoldersMade, ParentsKnown, HandPlaced, Running
  <2>3. PlacedUnlessCutOff
    BY DEF Init, PlacedUnlessCutOff, Placed
  <2> QED
    BY <2>1, <2>2, <2>3 DEF PInv
<1>2. TypeOK /\ Phases /\ TypeOK' /\ PInv /\ [Next]_vars => PInv'
  <2> SUFFICES ASSUME TypeOK, Phases, TypeOK', PInv, [Next]_vars PROVE PInv'
    OBVIOUS
  <2>0. \A i \in Items : Parent[i] # Top => Parent[i] \in Folders /\ Parent[i] \notin Files
    BY TreeAssumption
  <2>1. ASSUME NEW i \in Items, Add(i) \/ (i \in Files /\ (Edit(i) \/ Trash(i))) PROVE PInv'
    <3>1. /\ UNCHANGED <<store, db, run, ghosts>>
          /\ \A j \in Items : ver[j] > 0 => ver'[j] > 0
      BY <2>1 DEF Add, Edit, Trash, TypeOK
    <3>2. SourceTree'
      <4>1. \A j \in Items : ver'[j] > 0 => ver[j] > 0 \/ (j = i /\ (Parent[i] # Top => ver[Parent[i]] > 0))
        BY <2>1 DEF Add, Edit, Trash, Exists, TypeOK
      <4> QED
        BY <2>0, <3>1, <4>1 DEF PInv, SourceTree
    <3> QED
      BY <3>1, <3>2 DEF PInv, FoldersMade, ParentsKnown, HandPlaced, PlacedUnlessCutOff, Placed,
                        GoodPath, CutOff, Pending, Remaining, Running
  <2>2. CASE (\E m \in {"full", "delta"} : Start(m)) \/ Capture
    <3>1. /\ UNCHANGED <<source, db, rounds, batch, ghosts>> /\ pc' \notin Running
          /\ newCursor' = newCursor \/ newCursor' = NoCursor \/ newCursor' = ver
      BY <2>2 DEF Start, Capture, Running
    <3> QED
      BY <3>1 DEF PInv, SourceTree, FoldersMade, ParentsKnown, HandPlaced, PlacedUnlessCutOff,
                  Placed, Running
  <2>3. CASE ListFiles
    <3>1. /\ UNCHANGED <<source, db, rounds, ghosts>> /\ pc = "list" /\ pc' = "batch"
          /\ newCursor' = IF newCursor = NoCursor THEN ver ELSE newCursor
          /\ batch' = {i \in Items : Exists(i) /\ (mode = "delta" => ver[i] > cursor[i])}
      BY <2>3 DEF ListFiles
    <3>2. /\ Pending' = batch' /\ phase' = "pass"
          /\ mode = "delta" => cursor # NoCursor
      BY <3>1 DEF Phases, Pending, Remaining, Running
    <3>3. ASSUME NEW a \in Folders, ver[a] > 0 PROVE a \in batch' \/ folderMap[a] # NoId
      <4>1. a \notin trashed /\ ver[a] \in Nat
        BY TreeAssumption DEF TypeOK
      <4>2. cursor # NoCursor => cursor[a] \in Nat
        BY DEF TypeOK, Cursors
      <4> QED
        BY <3>1, <3>2, <3>3, <4>1, <4>2 DEF Exists, PInv, FoldersMade
    <3>4. SourceTree'
      BY <3>1 DEF PInv, SourceTree
    <3>5. FoldersMade'
      BY <3>1, <3>2, <3>3, <3>4 DEF PInv, FoldersMade, SourceTree, Phases, Running
    <3>6. ParentsKnown'
      <4>1. \A i \in batch' : i \in Items /\ ver[i] > 0
        BY <3>1 DEF Exists
      <4> QED
        BY <2>0, <3>1, <3>2, <3>3, <4>1 DEF PInv, SourceTree, ParentsKnown
    <3> QED
      BY <3>1, <3>4, <3>5, <3>6 DEF PInv, HandPlaced, PlacedUnlessCutOff, Placed
  <2>4. ASSUME NEW i \in Items, Process(i) PROVE PInv'
    BY <2>4, ProcessPlaces
  <2>5. CASE Record
    <3>1. /\ UNCHANGED <<source, folderMap, cursor, listing, rounds, batch, failedFolders,
                         failures, cutOff>>
          /\ pc = "record" /\ pc' = "batch"
          /\ destId' = [destId EXCEPT ![cur] = curDest]
      BY <2>5 DEF Record, Upsert, Phases
    <3>2. SourceTree' /\ FoldersMade' /\ ParentsKnown' /\ HandPlaced'
      BY <3>1 DEF PInv, SourceTree, FoldersMade, ParentsKnown, HandPlaced, Pending, Remaining, Running
    <3>3. \A f \in Files : destId'[f] = destId[f] \/ (f = cur /\ destId'[f] = curDest)
      BY <3>1 DEF TypeOK
    <3>4. cur \in Files /\ (curDest[1] = Home[cur] \/ Above[cur] \cap cutOff # {})
      BY <3>1 DEF PInv, HandPlaced, GoodPath, CutOff, Phases
    <3>5. PlacedUnlessCutOff'
      BY <3>1, <3>3, <3>4, TreeAssumption DEF PInv, PlacedUnlessCutOff, Placed
    <3> QED
      BY <3>2, <3>5 DEF PInv
  <2>6. CASE NextRound \/ PlaceOrphans
    <3>1. /\ UNCHANGED <<source, store, db, pc, listing, failedFolders, failures, hand, ghosts>>
          /\ Pending' = Pending /\ pc = "batch"
          /\ phase' = "orphans" => \A i \in batch' : Parent[i] \notin Pending
      <4>1. CASE NextRound
        BY <4>1 DEF NextRound, Pending, Remaining
      <4>2. CASE PlaceOrphans
        <5>1. /\ batch = {} /\ phase = "round" /\ phase' = "orphans" /\ still # {}
              /\ batch' = Orphans(still) /\ deferred' = still \ Orphans(still)
          BY <4>2 DEF PlaceOrphans, Stuck, Remaining
        <5>2. \E i \in still : Parent[i] \notin still
          BY <5>1, AcyclicAssumption DEF TypeOK
        <5>3. Orphans(still) = {i \in still : Parent[i] \notin still}
          BY <5>2 DEF Orphans
        <5> QED
          BY <4>2, <5>1, <5>3 DEF PlaceOrphans, Pending, Remaining
      <4> QED
        BY <2>6, <4>1, <4>2
    <3> QED
      BY <3>1 DEF PInv, SourceTree, FoldersMade, ParentsKnown, HandPlaced, PlacedUnlessCutOff,
                  Placed, GoodPath, CutOff, Running
  <2>7. CASE Finish \/ Interrupt
    <3>1. /\ UNCHANGED <<source, destId, folderMap, cutOff>> /\ pc' = "idle" /\ newCursor' = NoCursor
          /\ \/ cursor' = cursor
             \/ pc = "batch" /\ Pending = {} /\ failures = 0 /\ cursor' = newCursor
      BY <2>7 DEF Finish, Interrupt, EndRun, NextCursor, Pending
    <3> QED
      BY <3>1 DEF PInv, SourceTree, FoldersMade, ParentsKnown, HandPlaced, PlacedUnlessCutOff,
                  Placed, Running
  <2>8. CASE UNCHANGED vars
    BY <2>8 DEF vars, PInv, SourceTree, FoldersMade, ParentsKnown, HandPlaced, PlacedUnlessCutOff,
                Placed, GoodPath, CutOff, Pending, Remaining, Running
  <2> QED
    BY <2>1, <2>2, <2>3, <2>4, <2>5, <2>6, <2>7, <2>8 DEF Next, Step
<1>3. PInv => PlacedUnlessCutOff
  BY DEF PInv
<1> QED
  BY <1>1, <1>2, <1>3, TypeCorrect, PTL DEF Spec

-----------------------------------------------------------------------------
(* The sites that stand behind the drives.  run_shared_drives and             *)
(* run_sharepoint_sites get a drive its library before they hand its files to *)
(* the job above: what follows is about SiteProvisioning, for every           *)
(* configuration of drives, every choice of their aliases (shared ones        *)
(* included) and every fault budget.                                          *)

CONSTANTS Drives, Rank, Alias, NoDrive, NoGroup

VARIABLES groups, ready, maker, groupRow, siteRow, sitePc, left, drive, group,
          opened, siteFaults

Sites == INSTANCE SiteProvisioning WITH pc <- sitePc, faults <- siteFaults

\* The bookkeeping of the tenant and of the process is well typed in every
\* reachable state.
THEOREM SiteTypeCorrect ==
  ASSUME Sites!DrivesAssumption, Sites!BudgetAssumption
  PROVE  Sites!Spec => []Sites!TypeOK
<1> USE Sites!DrivesAssumption, Sites!BudgetAssumption
<1>1. Sites!Init => Sites!TypeOK
  BY DEF Sites!Init, Sites!TypeOK
<1>2. Sites!TypeOK /\ [Sites!Next]_(Sites!vars) => Sites!TypeOK'
  <2> SUFFICES ASSUME Sites!TypeOK, [Sites!Next]_(Sites!vars) PROVE Sites!TypeOK'
    OBVIOUS
  <2>0. \A d \in Drives : Alias[d] \in Sites!Aliases
    BY DEF Sites!Aliases
  <2> USE <2>0 DEF Sites!TypeOK, Sites!tenant, Sites!rows, Sites!Fault
  <2>1. ASSUME NEW g \in Sites!Aliases, Sites!SiteAppears(g) PROVE Sites!TypeOK'
    BY <2>1 DEF Sites!SiteAppears
  <2>2. CASE Sites!Start
    BY <2>2 DEF Sites!Start
  <2>3. ASSUME NEW d \in Drives, Sites!Skip(d) PROVE Sites!TypeOK'
    BY <2>3 DEF Sites!Skip
  <2>4. ASSUME NEW d \in Drives, Sites!Reuse(d) PROVE Sites!TypeOK'
    BY <2>4 DEF Sites!Reuse
  <2>5. ASSUME NEW d \in Drives, Sites!Take(d) PROVE Sites!TypeOK'
    BY <2>5 DEF Sites!Take, Sites!Pending
  <2>6. CASE Sites!PostGroup
    BY <2>6 DEF Sites!PostGroup
  <2>7. CASE Sites!PostRefused
    BY <2>7 DEF Sites!PostRefused, Sites!Abort
  <2>8. CASE Sites!RecordGroup
    BY <2>8 DEF Sites!RecordGroup
  <2>9. CASE Sites!Poll
    BY <2>9 DEF Sites!Poll
  <2>10. CASE Sites!PollFails
    BY <2>10 DEF Sites!PollFails, Sites!Abort
  <2>11. CASE Sites!RecordSite
    BY <2>11 DEF Sites!RecordSite, Sites!Hand
  <2>12. CASE Sites!LibraryRefused
    BY <2>12 DEF Sites!LibraryRefused, Sites!Abort
  <2>13. CASE Sites!Finish
    BY <2>13 DEF Sites!Finish
  <2>14. CASE Sites!Interrupt
    BY <2>14 DEF Sites!Interrupt, Sites!Abort
  <2>15. CASE UNCHANGED Sites!vars
    BY <2>15 DEF Sites!vars
  <2> QED
    BY <2>1, <2>2, <2>3, <2>4, <2>5, <2>6, <2>7, <2>8, <2>9, <2>10, <2>11, <2>12,
       <2>13, <2>14, <2>15 DEF Sites!Next, Sites!Step
<1> QED
  BY <1>1, <1>2, PTL DEF Sites!Spec

-----------------------------------------------------------------------------
(* The inductive invariant of SiteProvisioning *)

\* What is on record is the drive's own: the group was made for the drive, and
\* the library is that of a group that was made for it and has its site.
SiteRowsAreOwn ==
  \A d \in Drives :
    /\ groupRow[d] # NoGroup => groupRow[d] \in groups /\ maker[groupRow[d]] = d
    /\ siteRow[d] # NoGroup => siteRow[d] \in ready /\ maker[siteRow[d]] = d

\* Files went to no library but the one on record.
SitesOpenedOnRecord == \A open \in opened : siteRow[open[1]] = open[2]

\* What the process holds: a drive without a library, a group that was made for
\* that drive, and one that is on record unless it is just about to be.
SiteHandIsOwn ==
  /\ sitePc # "idle" /\ sitePc # "next" => siteRow[drive] = NoGroup
  /\ sitePc \in {"post", "record"} => groupRow[drive] = NoGroup
  /\ sitePc \in {"record", "poll", "library"} => group \in groups /\ maker[group] = drive
  /\ sitePc \in {"poll", "library"} => groupRow[drive] = group
  /\ sitePc = "library" => group \in ready

SiteIInv == Sites!TypeOK /\ SiteRowsAreOwn /\ SitesOpenedOnRecord /\ SiteHandIsOwn

\* The process drops what it holds, and its rows and the tenant stay: whatever
\* call was under way, nothing of the invariant depended on it.
LEMMA SiteAbortKeeps ==
  ASSUME SiteIInv, Sites!TypeOK', Sites!Abort
  PROVE  SiteIInv'
  BY DEF SiteIInv, SiteRowsAreOwn, SitesOpenedOnRecord, SiteHandIsOwn, Sites!Abort,
         Sites!tenant, Sites!rows

\* The invariant is inductive.
THEOREM SiteIInvHolds ==
  ASSUME Sites!DrivesAssumption, Sites!BudgetAssumption
  PROVE  Sites!Spec => []SiteIInv
<1>1. Sites!Init => SiteIInv
  <2> SUFFICES ASSUME Sites!Init PROVE SiteIInv
    OBVIOUS
  <2>1. Sites!TypeOK
    BY Sites!DrivesAssumption, Sites!BudgetAssumption DEF Sites!Init, Sites!TypeOK
  <2> QED
    BY <2>1 DEF Sites!Init, SiteIInv, SiteRowsAreOwn, SitesOpenedOnRecord, SiteHandIsOwn
<1>2. Sites!TypeOK' /\ SiteIInv /\ [Sites!Next]_(Sites!vars) => SiteIInv'
  <2> SUFFICES ASSUME Sites!TypeOK', SiteIInv, [Sites!Next]_(Sites!vars) PROVE SiteIInv'
    OBVIOUS
  <2>0. \A d \in Drives : Alias[d] \in Sites!Aliases
    BY DEF Sites!Aliases
  <2> USE <2>0, Sites!DrivesAssumption DEF SiteIInv, SiteRowsAreOwn, SitesOpenedOnRecord,
                                           SiteHandIsOwn, Sites!tenant, Sites!rows
  <2>1. ASSUME NEW g \in Sites!Aliases, Sites!SiteAppears(g) PROVE SiteIInv'
    BY <2>1 DEF Sites!SiteAppears
  <2>2. CASE Sites!Start
    BY <2>2 DEF Sites!Start
  <2>3. ASSUME NEW d \in Drives, Sites!Skip(d) PROVE SiteIInv'
    BY <2>3 DEF Sites!Skip
  <2>4. ASSUME NEW d \in Drives, Sites!Reuse(d) PROVE SiteIInv'
    BY <2>4 DEF Sites!Reuse
  <2>5. ASSUME NEW d \in Drives, Sites!Take(d) PROVE SiteIInv'
    BY <2>5 DEF Sites!Take, Sites!Pending
  <2>6. CASE Sites!PostGroup
    BY <2>6 DEF Sites!PostGroup, Sites!TypeOK
  <2>7. CASE Sites!PostRefused
    BY <2>7, SiteAbortKeeps DEF Sites!PostRefused
  <2>8. CASE Sites!RecordGroup
    BY <2>8 DEF Sites!RecordGroup, Sites!TypeOK
  <2>9. CASE Sites!Poll
    BY <2>9 DEF Sites!Poll
  <2>10. CASE Sites!PollFails
    BY <2>10, SiteAbortKeeps DEF Sites!PollFails
  <2>11. CASE Sites!RecordSite
    \* The library is handed on under the row just written; what was handed on
    \* before was on record, so it was not of this drive.
    <3>1. drive \in Drives /\ group \in Sites!Aliases /\ siteRow[drive] = NoGroup
      BY <2>11 DEF Sites!RecordSite, Sites!TypeOK
    <3>2. siteRow' = [siteRow EXCEPT ![drive] = group]
          /\ opened' = opened \cup {<<drive, group>>}
      BY <2>11 DEF Sites!RecordSite, Sites!Hand
    <3>3. SitesOpenedOnRecord'
      <4> SUFFICES ASSUME NEW open \in opened' PROVE siteRow'[open[1]] = open[2]
        OBVIOUS
      <4>1. CASE open = <<drive, group>>
        BY <4>1, <3>1, <3>2 DEF Sites!TypeOK
      <4>2. CASE open \in opened
        <5>1. open[1] \in Drives /\ open[2] \in Sites!Aliases /\ siteRow[open[1]] = open[2]
          BY <4>2 DEF Sites!TypeOK
        <5>2. open[1] # drive
          BY <5>1, <3>1
        <5> QED
          BY <5>1, <5>2, <3>1, <3>2 DEF Sites!TypeOK
      <4> QED
        BY <4>1, <4>2, <3>2
    <3>4. SiteRowsAreOwn'
      BY <2>11, <3>1, <3>2 DEF Sites!RecordSite, Sites!TypeOK
    <3>5. SiteHandIsOwn'
      BY <2>11 DEF Sites!RecordSite, Sites!Hand
    <3> QED
      BY <3>3, <3>4, <3>5
  <2>12. CASE Sites!LibraryRefused
    BY <2>12, SiteAbortKeeps DEF Sites!LibraryRefused
  <2>13. CASE Sites!Finish
    BY <2>13 DEF Sites!Finish
  <2>14. CASE Sites!Interrupt
    BY <2>14, SiteAbortKeeps DEF Sites!Interrupt
  <2>15. CASE UNCHANGED Sites!vars
    BY <2>15 DEF Sites!vars
  <2> QED
    BY <2>1, <2>2, <2>3, <2>4, <2>5, <2>6, <2>7, <2>8, <2>9, <2>10, <2>11, <2>12,
       <2>13, <2>14, <2>15 DEF Sites!Next, Sites!Step
<1> QED
  BY <1>1, <1>2, SiteTypeCorrect, PTL DEF Sites!Spec

-----------------------------------------------------------------------------
(* What the runs check of SiteProvisioning *)

\* Every library a drive's files were given to is the one library the drive has
\* on record, of a provisioned group that was made for this very drive.
THEOREM OwnLibraryHolds ==
  ASSUME Sites!DrivesAssumption, Sites!BudgetAssumption
  PROVE  Sites!Spec => []Sites!OwnLibrary
<1>1. SiteIInv => Sites!OwnLibrary
  <2> SUFFICES ASSUME SiteIInv PROVE Sites!OwnLibrary
    OBVIOUS
  <2>1. ASSUME NEW open \in opened
        PROVE  siteRow[open[1]] = open[2] /\ maker[open[2]] = open[1] /\ open[2] \in ready
    <3>1. open[1] \in Drives /\ open[2] \in Sites!Aliases /\ siteRow[open[1]] = open[2]
      BY DEF SiteIInv, Sites!TypeOK, SitesOpenedOnRecord
    <3> QED
      BY <3>1, Sites!DrivesAssumption DEF SiteIInv, SiteRowsAreOwn
  <2> QED
    BY <2>1 DEF SiteIInv, SiteRowsAreOwn, Sites!OwnLibrary
<1> QED
  BY <1>1, SiteIInvHolds, PTL

\* No step, fault or re-run forgets the group a drive has on record, or asks for
\* a second one while it has one.
THEOREM NeverPostsAgainHolds ==
  ASSUME Sites!DrivesAssumption, Sites!BudgetAssumption
  PROVE  Sites!Spec => Sites!NeverPostsAgain
<1>1. SiteIInv /\ SiteIInv' /\ [Sites!Next]_(Sites!vars) =>
        [\A d \in Drives : groupRow[d] # NoGroup =>
           /\ groupRow'[d] = groupRow[d]
           /\ ~(drive = d /\ groups' # groups)
           /\ ~(drive' = d /\ sitePc' = "post")]_(Sites!vars)
  <2> SUFFICES ASSUME SiteIInv, SiteIInv', Sites!Next,
                      NEW d \in Drives, groupRow[d] # NoGroup
               PROVE  /\ groupRow'[d] = groupRow[d]
                      /\ drive = d => groups' = groups
    BY DEF SiteIInv, SiteHandIsOwn
  <2>1. CASE Sites!PostGroup
    BY <2>1 DEF Sites!PostGroup, Sites!rows, SiteIInv, SiteHandIsOwn
  <2>2. CASE Sites!RecordGroup
    BY <2>2 DEF Sites!RecordGroup, Sites!tenant, SiteIInv, SiteHandIsOwn, Sites!TypeOK
  <2>3. CASE ~Sites!PostGroup /\ ~Sites!RecordGroup
    BY <2>3 DEF Sites!Next, Sites!Step, Sites!SiteAppears, Sites!Start, Sites!Skip,
                Sites!Reuse, Sites!Take, Sites!PostRefused, Sites!Poll,
                Sites!PollFails, Sites!RecordSite, Sites!LibraryRefused, Sites!Finish,
                Sites!Interrupt, Sites!Abort, Sites!tenant, Sites!rows
  <2> QED
    BY <2>1, <2>2, <2>3
<1> QED
  BY <1>1, SiteIInvHolds, PTL DEF Sites!Spec, Sites!NeverPostsAgain
=============================================================================
