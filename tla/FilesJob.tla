------------------------------ MODULE FilesJob ------------------------------
(***************************************************************************)
(* The files workload for one drive (a OneDrive, a shared drive or a       *)
(* SharePoint library): run_files, _migrate, _parent_for and _process_file *)
(* in workloads/files_job.py, with the Drive or Graph change feed in front *)
(* of it, the state database and the destination drive behind it.          *)
(*                                                                         *)
(* A listing promises no order, so an item may come before its folder.     *)
(* Such an item is deferred; rounds over the deferred items go on until    *)
(* one makes no progress, and then the items whose folder is not itself    *)
(* deferred are placed at the drive root.  Items directly under the root   *)
(* of the source drive always take that way: the root is in no listing.    *)
(*                                                                         *)
(* Abstractions: a listing is taken at one instant; contents and content   *)
(* hashes are version numbers; a destination folder is its path, since     *)
(* ensure_folder finds it by parent and name; nothing else writes to the   *)
(* destination drive; items are not renamed or moved at the source.        *)
(***************************************************************************)
EXTENDS Naturals, Sequences, FiniteSets

CONSTANTS
  Folders, Files,   \* items that can ever exist in the source drive
  Top,              \* the root of the source drive, in no listing
  Parent,           \* folder (or Top) each item is in
  Name,             \* name of each item, sanitized
  Large,            \* files over 4 MB: upload session instead of one PUT
  Connector,        \* "google_workspace" or "microsoft365"
  MaxVer,           \* bound on the versions of a file
  FaultKinds,       \* the faults the environment may inject, see Fault
  MaxFaults,        \* bound on the number of faults of a behaviour
  NoItem, NoId, NoCursor

Items == Folders \cup Files
Versions == 0..MaxVer

ASSUME TreeAssumption ==
  /\ Folders \cap Files = {}
  /\ Large \subseteq Files
  /\ Top \notin Items
  /\ NoItem \notin Items
  /\ Parent \in [Items -> Folders \cup {Top}]
\* No folder is in itself, however far down.
ASSUME AcyclicAssumption ==
  \A S \in (SUBSET Items) \ {{}} : \E i \in S : Parent[i] \notin S
ASSUME BoundsAssumption == MaxVer \in Nat \ {0} /\ MaxFaults \in Nat

VARIABLES
  \* the source drive
  ver,            \* current version of each item, 0 before it is created
  trashed,        \* files removed from the drive
  unsupported,    \* native Google files with no export format
  \* the destination drive: driveItem id |-> content
  store,
  \* the state database
  status, hash, destId,   \* rows of ItemMap (destId of files only)
  folderMap,              \* FolderMap, and with it _FolderIndex.ids
  cursor,                 \* SyncCursor: the versions it covers
  \* locals of the run in progress
  pc, mode,
  newCursor,      \* cursor the connector captured
  listed,         \* version of each item the listing shows
  phase,          \* "pass", "round" or "orphans"
  batch,          \* items _run has still to process
  still,          \* items it deferred so far
  deferred,       \* the deferred items this round started from
  failedFolders,  \* _FolderIndex.failed
  failures,
  cur, curDest,   \* file uploaded but not yet recorded, and its new id
  \* observers, read by no action
  faults,
  lost,           \* driveItems that no row of ItemMap points to any more
  stale,          \* files a full pass skipped although they had been edited
  cutOff          \* folders that failed because their own folder had

source == <<ver, trashed, unsupported>>
db == <<status, hash, destId, folderMap, cursor>>
listing == <<mode, newCursor, listed>>
rounds == <<phase, still, deferred>>
hand == <<cur, curDest>>
run == <<pc, listing, rounds, batch, failedFolders, failures, hand>>
ghosts == <<faults, lost, stale, cutOff>>
vars == <<ver, trashed, unsupported, store, status, hash, destId, folderMap, cursor, pc, mode,
          newCursor, listed, phase, batch, still, deferred, failedFolders,
          failures, cur, curDest, faults, lost, stale, cutOff>>

Paths == Seq({Name[i] : i \in Items})
FileIds == Paths \X (Nat \ {0})
Cursors == [Items -> Versions]

ASSUME NoValueAssumption == NoId \notin FileIds \cup Paths /\ NoCursor \notin Cursors

TypeOK ==
  /\ ver \in [Items -> Versions]
  /\ trashed \in SUBSET Files /\ unsupported \in SUBSET Files
  /\ DOMAIN store \subseteq FileIds
  /\ \A d \in DOMAIN store : store[d] \in [item : Files, ver : Versions]
  /\ status \in [Items -> {"none", "failed", "skipped", "done"}]
  /\ hash \in [Items -> Versions]
  /\ destId \in [Files -> FileIds \cup {NoId}]
  /\ folderMap \in [Folders -> Paths \cup {NoId}]
  /\ cursor \in Cursors \cup {NoCursor}
  /\ pc \in {"idle", "capture", "list", "batch", "record"}
  /\ mode \in {"full", "delta"}
  /\ newCursor \in Cursors \cup {NoCursor}
  /\ listed \in [Items -> Versions]
  /\ phase \in {"pass", "round", "orphans"}
  /\ batch \in SUBSET Items /\ still \in SUBSET Items /\ deferred \in SUBSET Items
  /\ failedFolders \in SUBSET Folders
  /\ failures \in Nat
  /\ cur \in Files \cup {NoItem}
  /\ curDest \in FileIds \cup {NoId}
  /\ faults \in 0..MaxFaults
  /\ lost \in SUBSET FileIds
  /\ stale \in SUBSET Files
  /\ cutOff \in SUBSET Folders

Idle ==
  /\ pc = "idle" /\ mode = "full" /\ newCursor = NoCursor
  /\ listed = [i \in Items |-> 0]
  /\ phase = "pass" /\ batch = {} /\ still = {} /\ deferred = {}
  /\ failedFolders = {} /\ failures = 0
  /\ cur = NoItem /\ curDest = NoId

Exists(i) == ver[i] > 0 /\ i \notin trashed

Init ==
  /\ ver \in [Items -> {0, 1}]
  /\ \A i \in Items : ver[i] = 1 /\ Parent[i] # Top => ver[Parent[i]] = 1
  /\ trashed = {}
  /\ unsupported \in SUBSET Files
  /\ Connector = "microsoft365" => unsupported = {}
  /\ store = [d \in {} |-> 0]
  /\ status = [i \in Items |-> "none"]
  /\ hash = [i \in Items |-> 0]
  /\ destId = [f \in Files |-> NoId]
  /\ folderMap = [a \in Folders |-> NoId]
  /\ cursor = NoCursor
  /\ Idle
  /\ faults = 0 /\ lost = {} /\ stale = {} /\ cutOff = {}

-----------------------------------------------------------------------------
(* Helpers *)

\* The environment makes the current call fail in one of these ways:
\*   "folder"     ensure_folder is refused
\*   "upload"     the content cannot be fetched, uploaded or updated
\*   "lost"       the upload is executed but reported as failed
\*   "interrupt"  the process dies, or an exception leaves run_files
Fault(kind) ==
  /\ kind \in FaultKinds
  /\ faults < MaxFaults
  /\ faults' = faults + 1

EndRun ==
  /\ pc' = "idle" /\ mode' = "full" /\ newCursor' = NoCursor
  /\ listed' = [i \in Items |-> 0]
  /\ phase' = "pass" /\ batch' = {} /\ still' = {} /\ deferred' = {}
  /\ failedFolders' = {} /\ failures' = 0
  /\ cur' = NoItem /\ curDest' = NoId

\* upsert_item: every column is overwritten, NULL where it is not given.
Upsert(i, s, h, d) ==
  /\ status' = [status EXCEPT ![i] = s]
  /\ hash' = [hash EXCEPT ![i] = h]
  /\ destId' = IF i \in Files THEN [destId EXCEPT ![i] = d] ELSE destId

\* Variants.  An operator marked so is a plausible mistake in the definition
\* that follows it; the README says which property finds it out.

\* A failed file keeps the destination id the run knew of, if any.
MarkFailed(i, d) ==
  /\ Upsert(i, "failed", 0, d)
  /\ failures' = failures + 1
  /\ lost' = IF i \in Files /\ d = NoId /\ destId[i] # NoId
             THEN lost \cup {destId[i]} ELSE lost

\* _FolderIndex.resolve and _parent_for
Known(i) == Parent[i] \in Folders /\ folderMap[Parent[i]] # NoId
ParentFailed(i) == ~Known(i) /\ Parent[i] \in failedFolders
Undecided(i) == ~Known(i) /\ Parent[i] \notin failedFolders
Defers(i) == Undecided(i) /\ phase # "orphans"
Placeable(i) == Known(i) \/ (Undecided(i) /\ phase = "orphans")
DestPath(i) == Append(IF Known(i) THEN folderMap[Parent[i]] ELSE << >>, Name[i])

\* A file is left alone when a full pass finds it done, or a delta pass finds
\* its hash unchanged.
Unchanged(f) ==
  IF mode = "full" THEN status[f] = "done" ELSE hash[f] # 0 /\ hash[f] = listed[f]
Wanted(f) == ~Unchanged(f) /\ f \notin unsupported

\* Only a delta pass looks for the copy an earlier run made.  Variant: none does.
ExistingForgotten(f) == NoId
Existing(f) == IF mode = "delta" THEN destId[f] ELSE NoId

NeedsParent(i) == i \in Files => (Wanted(i) /\ Existing(i) = NoId)

\* The driveItem an upload of f creates or overwrites: a small file is PUT by
\* path, a large one is created under a fresh name.
Free(path) ==
  {n \in 1..(Cardinality(DOMAIN store) + 1) : <<path, n>> \notin DOMAIN store}
Fresh(path) == <<path, CHOOSE n \in Free(path) : TRUE>>
Target(f) ==
  IF Existing(f) # NoId THEN Existing(f)
  ELSE IF f \in Large THEN Fresh(DestPath(f)) ELSE <<DestPath(f), 1>>

\* The content is the one at the time of the fetch, not of the listing.
Write(f) ==
  store' = [d \in DOMAIN store \cup {Target(f)} |->
              IF d = Target(f) THEN [item |-> f, ver |-> ver[f]] ELSE store[d]]

-----------------------------------------------------------------------------
(* The source drive (environment) *)

Add(i) ==
  /\ ver[i] = 0
  /\ Parent[i] # Top => ver[Parent[i]] > 0
  /\ ver' = [ver EXCEPT ![i] = 1]
  /\ UNCHANGED <<trashed, unsupported, store, db, run, ghosts>>

Edit(f) ==
  /\ Exists(f)
  /\ ver[f] < MaxVer
  /\ ver' = [ver EXCEPT ![f] = @ + 1]
  /\ UNCHANGED <<trashed, unsupported, store, db, run, ghosts>>

Trash(f) ==
  /\ Exists(f)
  /\ trashed' = trashed \cup {f}
  /\ UNCHANGED <<ver, unsupported, store, db, run, ghosts>>

-----------------------------------------------------------------------------
(* The run *)

\* Without a stored cursor a delta run warns and returns.
Start(m) ==
  /\ pc = "idle"
  /\ m = "delta" => cursor # NoCursor
  /\ pc' = "capture"
  /\ mode' = m
  /\ UNCHANGED <<source, store, db, newCursor, listed, rounds, batch,
                 failedFolders, failures, hand, ghosts>>

\* A full pass over Google Drive takes its start token before it lists; the
\* change feeds hand out the next cursor with the listing itself.
Capture ==
  /\ pc = "capture"
  /\ newCursor' = IF Connector = "google_workspace" /\ mode = "full" THEN ver ELSE NoCursor
  /\ pc' = "list"
  /\ UNCHANGED <<source, store, db, mode, listed, rounds, batch, failedFolders,
                 failures, hand, ghosts>>

ListFiles ==
  /\ pc = "list"
  /\ newCursor' = IF newCursor = NoCursor THEN ver ELSE newCursor
  /\ listed' = ver
  /\ batch' = {i \in Items : Exists(i) /\ (mode = "delta" => ver[i] > cursor[i])}
  /\ pc' = "batch"
  /\ UNCHANGED <<source, store, db, mode, rounds, failedFolders, failures, hand, ghosts>>

Processes(i) ==
  /\ pc = "batch"
  /\ i \in batch
  /\ batch' = batch \ {i}

Defer(i) ==
  /\ Processes(i)
  /\ NeedsParent(i)
  /\ Defers(i)
  /\ still' = still \cup {i}
  /\ UNCHANGED <<source, store, db, pc, listing, phase, deferred, failedFolders,
                 failures, hand, ghosts>>

\* The item's own row says so, but a folder failing here is not remembered in
\* _FolderIndex.failed.
FailForParent(i) ==
  /\ Processes(i)
  /\ NeedsParent(i)
  /\ ParentFailed(i)
  /\ MarkFailed(i, NoId)
  /\ cutOff' = cutOff \cup ({i} \cap Folders)
  /\ UNCHANGED <<source, store, folderMap, cursor, pc, listing, rounds,
                 failedFolders, hand, faults, stale>>

MakeFolder(a) ==
  /\ Processes(a)
  /\ Placeable(a)
  /\ folderMap' = [folderMap EXCEPT ![a] = DestPath(a)]
  /\ Upsert(a, "done", listed[a], NoId)
  /\ UNCHANGED <<source, store, cursor, pc, listing, rounds, failedFolders,
                 failures, hand, ghosts>>

FolderFails(a) ==
  /\ Processes(a)
  /\ Placeable(a)
  /\ Fault("folder")
  /\ failedFolders' = failedFolders \cup {a}
  /\ MarkFailed(a, NoId)
  /\ UNCHANGED <<source, store, folderMap, cursor, pc, listing, rounds, hand,
                 stale, cutOff>>

SkipUnchanged(f) ==
  /\ Processes(f)
  /\ Unchanged(f)
  /\ stale' = IF hash[f] # listed[f] THEN stale \cup {f} ELSE stale
  /\ UNCHANGED <<source, store, db, pc, listing, rounds, failedFolders,
                 failures, hand, faults, lost, cutOff>>

SkipUnsupported(f) ==
  /\ Processes(f)
  /\ ~Unchanged(f)
  /\ f \in unsupported
  /\ Upsert(f, "skipped", 0, NoId)
  /\ UNCHANGED <<source, store, folderMap, cursor, pc, listing, rounds,
                 failedFolders, failures, hand, ghosts>>

Ready(f) == Wanted(f) /\ (NeedsParent(f) => Placeable(f))

Upload(f) ==
  /\ Processes(f)
  /\ Ready(f)
  /\ f \notin trashed
  /\ Write(f)
  /\ pc' = "record"
  /\ cur' = f
  /\ curDest' = Target(f)
  /\ UNCHANGED <<source, db, listing, rounds, failedFolders, failures, ghosts>>

UploadLost(f) ==
  /\ Processes(f)
  /\ Ready(f)
  /\ f \notin trashed
  /\ Fault("lost")
  /\ Write(f)
  /\ Upsert(f, "failed", 0, Existing(f))
  /\ failures' = failures + 1
  /\ lost' = (lost \cup {destId[f], Target(f)}) \ {NoId, Existing(f)}
  /\ UNCHANGED <<source, folderMap, cursor, pc, listing, rounds, failedFolders,
                 hand, stale, cutOff>>

\* A file trashed since it was listed answers 404 for ever.
UploadFails(f) ==
  /\ Processes(f)
  /\ Ready(f)
  /\ IF f \in trashed THEN UNCHANGED faults ELSE Fault("upload")
  /\ MarkFailed(f, Existing(f))
  /\ UNCHANGED <<source, store, folderMap, cursor, pc, listing, rounds,
                 failedFolders, hand, stale, cutOff>>

\* The hash recorded is that of the listing.  Variant: the id is left out.
RecordWithoutId ==
  /\ pc = "record"
  /\ Upsert(cur, "done", listed[cur], NoId)
  /\ pc' = "batch"
  /\ cur' = NoItem
  /\ curDest' = NoId
  /\ UNCHANGED <<source, store, folderMap, cursor, listing, rounds, batch,
                 failedFolders, failures, ghosts>>
Record ==
  /\ pc = "record"
  /\ Upsert(cur, "done", listed[cur], curDest)
  /\ pc' = "batch"
  /\ cur' = NoItem
  /\ curDest' = NoId
  /\ lost' = (lost \cup {destId[cur]}) \ {NoId, curDest}
  /\ stale' = stale \ {cur}
  /\ UNCHANGED <<source, store, folderMap, cursor, listing, rounds, batch,
                 failedFolders, failures, faults, cutOff>>

-----------------------------------------------------------------------------
(* The loop of _migrate over the deferred items *)

\* The items placed at the root when a round defers all it was given.
\* Variant: all of them.
OrphansAll(remaining) == remaining
Orphans(remaining) ==
  LET outside == {i \in remaining : Parent[i] \notin remaining}
  IN IF outside = {} THEN remaining ELSE outside

\* What the pass, a round or the placing of orphans leaves for a next round.
Remaining == IF phase = "orphans" THEN deferred ELSE still

\* A round made no progress.  Variant: nobody notices.
StuckNever == FALSE
Stuck == phase = "round" /\ still = deferred

NextRound ==
  /\ pc = "batch"
  /\ batch = {}
  /\ Remaining # {}
  /\ ~Stuck
  /\ phase' = "round"
  /\ batch' = Remaining
  /\ deferred' = Remaining
  /\ still' = {}
  /\ UNCHANGED <<source, store, db, pc, listing, failedFolders, failures, hand, ghosts>>

PlaceOrphans ==
  /\ pc = "batch"
  /\ batch = {}
  /\ Stuck
  /\ Remaining # {}
  /\ phase' = "orphans"
  /\ batch' = Orphans(still)
  /\ deferred' = still \ Orphans(still)
  /\ still' = {}
  /\ UNCHANGED <<source, store, db, pc, listing, failedFolders, failures, hand, ghosts>>

\* The cursor moves only if nothing failed.  Variant: it always does.
NextCursorDespiteFailures == newCursor
NextCursor == IF failures = 0 THEN newCursor ELSE cursor

Finish ==
  /\ pc = "batch"
  /\ batch = {}
  /\ Remaining = {}
  /\ cursor' = NextCursor
  /\ EndRun
  /\ UNCHANGED <<source, store, status, hash, destId, folderMap, ghosts>>

Interrupt ==
  /\ pc # "idle"
  /\ Fault("interrupt")
  /\ EndRun
  /\ lost' = (lost \cup {curDest}) \ ({NoId} \cup {destId[f] : f \in Files})
  /\ UNCHANGED <<source, store, db, stale, cutOff>>

Process(i) ==
  \/ Defer(i) \/ FailForParent(i)
  \/ i \in Folders /\ (MakeFolder(i) \/ FolderFails(i))
  \/ i \in Files /\ (SkipUnchanged(i) \/ SkipUnsupported(i))
  \/ i \in Files /\ (Upload(i) \/ UploadLost(i) \/ UploadFails(i))

Step ==
  \/ Capture \/ ListFiles
  \/ \E i \in Items : Process(i)
  \/ Record
  \/ NextRound \/ PlaceOrphans \/ Finish

Next ==
  \/ \E i \in Items : Add(i)
  \/ \E f \in Files : Edit(f) \/ Trash(f)
  \/ \E m \in {"full", "delta"} : Start(m)
  \/ Step
  \/ Interrupt

Spec == Init /\ [][Next]_vars

\* A run that has started goes on: every call returns or raises in time; and the operator keeps scheduling delta passes.
FairSpec == Spec /\ WF_vars(Step) /\ SF_vars(Start("delta"))

-----------------------------------------------------------------------------
(* Properties *)

\* The path an item has at the source.
Home[i \in Items] ==
  IF Parent[i] = Top THEN <<Name[i]>> ELSE Append(Home[Parent[i]], Name[i])

\* Whatever order listings came in, every migrated item is where it was at the
\* source (TODO.md: "Files land in the right folder regardless of listing
\* order"): files under the copy of their own folder, and so up to the root.
Placed(i) ==
  IF i \in Folders THEN folderMap[i] \in {NoId, Home[i]}
  ELSE destId[i] # NoId => destId[i][1] = Home[i]
PlacedUnderParent == \A i \in Items : Placed(i)

\* So it is, but for what is in a folder that failed because its own folder had
\* failed: nothing remembers such a folder, and what is in it goes to the root.
Above[i \in Items] ==
  IF Parent[i] = Top THEN {} ELSE {Parent[i]} \cup Above[Parent[i]]
PlacedUnlessCutOff == \A i \in Items : Placed(i) \/ Above[i] \cap cutOff # {}

\* The committed cursor never covers an edit that no copy of the file has:
\* no later delta would list it again (README: "nothing falls behind the
\* delta").  Excepted are the files a full pass skipped as done although they
\* had been edited.
StoredUpTo(f, v) ==
  \E d \in DOMAIN store : store[d].item = f /\ store[d].ver >= v
BehindCursorStored ==
  cursor # NoCursor =>
    /\ \A f \in Files \ (unsupported \cup trashed \cup stale) :
         cursor[f] > 0 => StoredUpTo(f, cursor[f])
    /\ \A a \in Folders : cursor[a] > 0 => folderMap[a] # NoId

\* Every driveItem at the destination is the one a row of ItemMap records, the
\* one just uploaded, or one that was lost by a fault.
CopiesAccounted ==
  /\ TypeOK
  /\ DOMAIN store \subseteq {destId[f] : f \in Files} \cup {curDest} \cup lost

\* A file whose destination is on record is updated in place: a step of a
\* delta pass neither makes another copy of it nor forgets the record
\* (files_job.py: "its dest_id is kept even when the update fails so the
\* retry never re-creates it").
Copies(f) == {d \in DOMAIN store : store[d].item = f}
KeepsCopy(f) ==
  destId[f] # NoId => Copies(f)' = Copies(f) /\ destId'[f] = destId[f]
DeltaUpdatesInPlace == [][mode = "delta" => \A f \in Files : KeepsCopy(f)]_vars

\* Once a cursor has been committed, delta passes alone bring the latest
\* version of every file over sooner or later, unless a full pass skipped the
\* file as done.
EditsArrive ==
  \A f \in Files : \A v \in 1..MaxVer :
    (cursor # NoCursor /\ ver[f] >= v)
      ~> (StoredUpTo(f, v) \/ f \in trashed \cup stale \cup unsupported)
=============================================================================
