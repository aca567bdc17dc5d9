----------------------------- MODULE ContactsJob -----------------------------
(***************************************************************************)
(* The contacts workload for one mailbox: run_contacts in                  *)
(* workloads/contacts_job.py with the People API or Graph listing in front *)
(* of it, the state database and the destination contact folders behind.   *)
(*                                                                         *)
(* A contact is a version number; deleting it at the source takes it to    *)
(* the version Gone.  A contact is patched in place when its row holds a   *)
(* destination id, in full passes too.  Contact folders and photos are     *)
(* left out: the former are found or created by name, the latter are best  *)
(* effort and no later step depends on them.                               *)
(***************************************************************************)
EXTENDS Naturals, FiniteSets

CONSTANTS
  Contacts,      \* contacts that can ever exist at the source
  Connector,     \* "google_workspace" or "microsoft365"
  MaxVer,        \* bound on the versions of a contact
  FaultKinds,    \* the faults the environment may inject, see Fault
  MaxFaults,     \* bound on the number of faults of a behaviour
  NoContact, NoId, NoCursor

ASSUME ContactsAssumption ==
  /\ NoContact \notin Contacts
  /\ NoId \notin Contacts \X (Nat \ {0})
  /\ NoCursor \notin [Contacts -> 0..(MaxVer + 1)]
ASSUME BoundsAssumption == MaxVer \in Nat \ {0} /\ MaxFaults \in Nat

VARIABLES
  ver,           \* the source: version of each contact, 0 before it exists
  live,          \* the destination: id |-> version, of the contacts there
  made,          \* number of destination contacts ever made of each contact
  status, hash, destId, cursor,   \* ItemMap and SyncCursor
  pc, mode,      \* locals of the run in progress
  newCursor,     \* cursor the connector captured
  listed,        \* version of each contact the listing shows
  todo,          \* contacts the listing has still to yield
  cur, curDest,  \* contact in hand, and the id just created or patched
  failures,
  faults,        \* observers: faults so far,
  lost,          \* ... destination contacts no row points to,
  passedOver,    \* ... version of each that a full pass skipped as done,
  fellBack       \* ... whether this delta pass lists everything anew

dest == <<live, made>>
rows == <<status, hash, destId>>
listing == <<mode, newCursor, listed>>
ghosts == <<faults, lost, passedOver, fellBack>>
vars == <<ver, live, made, status, hash, destId, cursor, pc, mode, newCursor,
          listed, todo, cur, curDest, failures, faults, lost, passedOver,
          fellBack>>

Gone == MaxVer + 1
Versions == 0..Gone
Cursors == [Contacts -> Versions] \cup {NoCursor}
Ids == Contacts \X (Nat \ {0})
InHand == {"write", "record", "drop"}

TypeOK ==
  /\ ver \in [Contacts -> Versions]
  /\ DOMAIN live \subseteq Ids
  /\ \A d \in DOMAIN live : live[d] \in 1..MaxVer
  /\ made \in [Contacts -> Nat]
  /\ status \in [Contacts -> {"none", "failed", "skipped", "done"}]
  /\ hash \in [Contacts -> Versions]
  /\ destId \in [Contacts -> Ids \cup {NoId}]
  /\ cursor \in Cursors
  /\ pc \in {"idle", "capture", "list", "loop"} \cup InHand
  /\ mode \in {"full", "delta"}
  /\ newCursor \in Cursors
  /\ listed \in [Contacts -> Versions]
  /\ todo \in SUBSET Contacts
  /\ cur \in Contacts \cup {NoContact}
  /\ (cur # NoContact) <=> (pc \in InHand)
  /\ curDest \in Ids \cup {NoId}
  /\ failures \in Nat
  /\ faults \in 0..MaxFaults
  /\ lost \in SUBSET Ids
  /\ passedOver \in [Contacts -> 0..MaxVer]
  /\ fellBack \in BOOLEAN

Init ==
  /\ ver \in [Contacts -> {0, 1}]
  /\ live = [d \in {} |-> 0]
  /\ made = [c \in Contacts |-> 0]
  /\ status = [c \in Contacts |-> "none"]
  /\ hash = [c \in Contacts |-> 0]
  /\ destId = [c \in Contacts |-> NoId]
  /\ cursor = NoCursor
  /\ pc = "idle" /\ mode = "full" /\ newCursor = NoCursor
  /\ listed = [c \in Contacts |-> 0]
  /\ todo = {} /\ cur = NoContact /\ curDest = NoId /\ failures = 0
  /\ faults = 0 /\ lost = {} /\ fellBack = FALSE
  /\ passedOver = [c \in Contacts |-> 0]

-----------------------------------------------------------------------------
(* Helpers *)

\* The environment makes the current call fail in one of these ways:
\*   "write"      a create or a patch is refused
\*   "delete"     a delete is refused, with another status than 404
\*   "lost"       a create is executed but its answer is lost
\*   "expired"    the People sync token has expired (410)
\*   "interrupt"  the process dies, or an exception leaves run_contacts
Fault(kind) ==
  /\ kind \in FaultKinds
  /\ faults < MaxFaults
  /\ faults' = faults + 1

EndRun ==
  /\ pc' = "idle" /\ mode' = "full" /\ newCursor' = NoCursor
  /\ listed' = [c \in Contacts |-> 0]
  /\ todo' = {} /\ cur' = NoContact /\ curDest' = NoId /\ failures' = 0
  /\ fellBack' = FALSE

BackToLoop == pc' = "loop" /\ cur' = NoContact /\ curDest' = NoId

\* upsert_item: every column is overwritten, NULL where it is not given.
Upsert(c, s, h, d) ==
  /\ status' = [status EXCEPT ![c] = s]
  /\ hash' = [hash EXCEPT ![c] = h]
  /\ destId' = [destId EXCEPT ![c] = d]

\* Variants.  An operator marked so is a plausible mistake in the definition
\* that follows it; the README says which property finds it out.

\* Variant: the call forgets the destination id.
MarkFailedForgetting(c, h) ==
  /\ Upsert(c, "failed", h, NoId)
  /\ failures' = failures + 1
MarkFailed(c, h) ==
  /\ Upsert(c, "failed", h, destId[c])
  /\ failures' = failures + 1

NewId(c) == <<c, made[c] + 1>>
Put(d, v) == live' = [x \in DOMAIN live \cup {d} |-> IF x = d THEN v ELSE live[x]]

\* A People delta yields tombstones; a Graph delta, a filter on the time of the
\* last change, does not; neither does a full listing.
Alive == {c \in Contacts : ver[c] \in 1..MaxVer}
Changed ==
  {c \in Contacts : ver[c] > cursor[c]} \cap
    (IF Connector = "google_workspace" THEN Contacts ELSE Alive)

-----------------------------------------------------------------------------
(* The source (environment) *)

Edit(c) ==
  /\ ver[c] < MaxVer
  /\ ver' = [ver EXCEPT ![c] = @ + 1]
  /\ UNCHANGED <<dest, rows, cursor, pc, listing, todo, cur, curDest, failures, ghosts>>

Delete(c) ==
  /\ c \in Alive
  /\ ver' = [ver EXCEPT ![c] = Gone]
  /\ UNCHANGED <<dest, rows, cursor, pc, listing, todo, cur, curDest, failures, ghosts>>

-----------------------------------------------------------------------------
(* The run *)

\* Without a stored cursor a delta run warns and returns.
Start(m) ==
  /\ pc = "idle"
  /\ m = "delta" => cursor # NoCursor
  /\ pc' = "capture"
  /\ mode' = m
  /\ UNCHANGED <<ver, dest, rows, cursor, newCursor, listed, todo, cur, curDest,
                 failures, ghosts>>

\* Microsoft 365: the cursor is the time before the listing starts.  The
\* People API hands out its token with the listing.
Capture ==
  /\ pc = "capture"
  /\ newCursor' = IF Connector = "microsoft365" THEN ver ELSE NoCursor
  /\ pc' = "list"
  /\ UNCHANGED <<ver, dest, rows, cursor, mode, listed, todo, cur, curDest,
                 failures, ghosts>>

Listing(contacts) ==
  /\ pc = "list"
  /\ newCursor' = IF newCursor = NoCursor THEN ver ELSE newCursor
  /\ listed' = ver
  /\ todo' = contacts
  /\ pc' = "loop"
  /\ UNCHANGED <<ver, dest, rows, cursor, mode, cur, curDest, failures, lost, passedOver>>

ListContacts ==
  /\ Listing(IF mode = "full" THEN Alive ELSE Changed)
  /\ UNCHANGED <<faults, fellBack>>

\* 410: the connector lists everything anew, the job still runs as a delta.
ListExpired ==
  /\ Connector = "google_workspace"
  /\ mode = "delta"
  /\ Fault("expired")
  /\ Listing(Alive)
  /\ fellBack' = TRUE

Yields(c) ==
  /\ pc = "loop"
  /\ c \in todo
  /\ todo' = todo \ {c}

\* delete_contact counts a 404 as success.
RemoveCopy(c) ==
  /\ Yields(c)
  /\ listed[c] = Gone
  /\ destId[c] # NoId
  /\ live' = [d \in DOMAIN live \ {destId[c]} |-> live[d]]
  /\ pc' = "drop"
  /\ cur' = c
  /\ UNCHANGED <<ver, made, rows, cursor, listing, curDest, failures, ghosts>>

RemoveFails(c) ==
  /\ Yields(c)
  /\ listed[c] = Gone
  /\ destId[c] # NoId
  /\ Fault("delete")
  /\ MarkFailed(c, 0)
  /\ UNCHANGED <<ver, dest, cursor, pc, listing, cur, curDest, lost, passedOver,
                 fellBack>>

\* Variant: the row keeps the id.
RecordRemovalKeepingId ==
  /\ pc = "drop"
  /\ Upsert(cur, "skipped", 0, destId[cur])
  /\ BackToLoop
  /\ UNCHANGED <<ver, dest, cursor, listing, todo, failures, ghosts>>
RecordRemoval ==
  /\ pc = "drop"
  /\ Upsert(cur, "skipped", 0, NoId)
  /\ BackToLoop
  /\ UNCHANGED <<ver, dest, cursor, listing, todo, failures, ghosts>>

NeverMigrated(c) ==
  /\ Yields(c)
  /\ listed[c] = Gone
  /\ destId[c] = NoId
  /\ Upsert(c, "skipped", 0, NoId)
  /\ UNCHANGED <<ver, dest, cursor, pc, listing, cur, curDest, failures, ghosts>>

Unchanged(c) == status[c] = "done" /\ (mode = "full" \/ hash[c] = listed[c])

SkipDone(c) ==
  /\ Yields(c)
  /\ listed[c] # Gone
  /\ Unchanged(c)
  /\ passedOver' = [passedOver EXCEPT ![c] = IF hash[c] # listed[c] THEN listed[c] ELSE @]
  /\ UNCHANGED <<ver, dest, rows, cursor, pc, listing, cur, curDest, failures,
                 faults, lost, fellBack>>

Take(c) ==
  /\ Yields(c)
  /\ listed[c] # Gone
  /\ ~Unchanged(c)
  /\ pc' = "write"
  /\ cur' = c
  /\ UNCHANGED <<ver, dest, rows, cursor, listing, curDest, failures, ghosts>>

\* What is written is the body that came with the listing.
Update ==
  /\ pc = "write"
  /\ destId[cur] \in DOMAIN live
  /\ Put(destId[cur], listed[cur])
  /\ curDest' = destId[cur]
  /\ pc' = "record"
  /\ UNCHANGED <<ver, made, rows, cursor, listing, todo, cur, failures, ghosts>>

Create ==
  /\ pc = "write"
  /\ destId[cur] = NoId
  /\ Put(NewId(cur), listed[cur])
  /\ made' = [made EXCEPT ![cur] = @ + 1]
  /\ curDest' = NewId(cur)
  /\ pc' = "record"
  /\ UNCHANGED <<ver, rows, cursor, listing, todo, cur, failures, ghosts>>

\* The POST is executed, its answer times out, and GraphClient sends it again.
CreateLost ==
  /\ pc = "write"
  /\ destId[cur] = NoId
  /\ Fault("lost")
  /\ Put(NewId(cur), listed[cur])
  /\ made' = [made EXCEPT ![cur] = @ + 1]
  /\ lost' = lost \cup {NewId(cur)}
  /\ UNCHANGED <<ver, rows, cursor, pc, listing, todo, cur, curDest, failures, passedOver,
                 fellBack>>

\* The row keeps its destination id and the hash that copy still reflects.
WriteFails ==
  /\ pc = "write"
  /\ Fault("write")
  /\ MarkFailed(cur, hash[cur])
  /\ BackToLoop
  /\ UNCHANGED <<ver, dest, cursor, listing, todo, lost, passedOver, fellBack>>

Record ==
  /\ pc = "record"
  /\ Upsert(cur, "done", listed[cur], curDest)
  /\ passedOver' = [passedOver EXCEPT ![cur] = 0]
  /\ BackToLoop
  /\ UNCHANGED <<ver, dest, cursor, listing, todo, failures, faults, lost, fellBack>>

\* The cursor moves only if nothing failed.  Variant: it always does.
NextCursorDespiteFailures == newCursor
NextCursor == IF failures = 0 THEN newCursor ELSE cursor

Finish ==
  /\ pc = "loop"
  /\ todo = {}
  /\ cursor' = NextCursor
  /\ EndRun
  /\ UNCHANGED <<ver, dest, rows, faults, lost, passedOver>>

Interrupt ==
  /\ pc # "idle"
  /\ Fault("interrupt")
  /\ EndRun
  /\ lost' = IF curDest \in {NoId} \cup {destId[c] : c \in Contacts} THEN lost
             ELSE lost \cup {curDest}
  /\ UNCHANGED <<ver, dest, rows, cursor, passedOver>>

Step ==
  \/ Capture \/ ListContacts \/ ListExpired
  \/ \E c \in Contacts : RemoveCopy(c) \/ RemoveFails(c) \/ NeverMigrated(c)
  \/ RecordRemoval
  \/ \E c \in Contacts : SkipDone(c) \/ Take(c)
  \/ Update \/ Create \/ CreateLost \/ WriteFails \/ Record
  \/ Finish

Next ==
  \/ \E c \in Contacts : Edit(c) \/ Delete(c)
  \/ \E m \in {"full", "delta"} : Start(m)
  \/ Step
  \/ Interrupt

Spec == Init /\ [][Next]_vars

\* A run that has started goes on (every call returns or raises in time), and
\* the operator keeps scheduling delta passes.
FairSpec == Spec /\ WF_vars(Step) /\ SF_vars(Start("delta"))

-----------------------------------------------------------------------------
(* Properties *)

\* A version needs no more work when the recorded copy reflects it or a later one.
\* A version that a full pass skipped as done is excepted.
Applied(c, v) ==
  (destId[c] \in DOMAIN live /\ live[destId[c]] >= v) \/ passedOver[c] >= v

\* The run implements the promise of DeltaSync, for which every version of a contact
\* is a change: the cursor covers no version that is neither at the destination nor
\* gone with its contact, it never goes back, and no run, patch or retry undoes a
\* version that is there (README: "nothing falls behind the delta").
Until(versions) ==
  {change \in Contacts \X (1..MaxVer) : change[2] <= versions[change[1]]}
Sync == INSTANCE DeltaSync WITH
  Changes <- Contacts \X (1..MaxVer),
  arrived <- Until(ver),
  box <- {change \in Until(ver) : ver[change[1]] # Gone},
  settled <- {change \in Until(ver) : Applied(change[1], change[2])},
  cursor <- IF cursor = NoCursor THEN NoCursor ELSE Until(cursor)
ImplementsDeltaSync == Sync!Spec

\* Rows and destination agree.  A recorded destination id is that of a contact
\* at the destination (TODO.md: it "means exists at the destination even after
\* a failed update"), made of that very contact; only a removal that is not
\* recorded yet is excepted.  And every contact at the destination is the one a
\* row records, the one in hand, or one lost by a fault between its creation
\* and the record.
RowsMatchCopies ==
  /\ TypeOK
  /\ \A c \in Contacts : destId[c] # NoId =>
       /\ destId[c][1] = c
       /\ destId[c] \in DOMAIN live \/ (ver[c] = Gone /\ status[c] # "skipped")
  /\ DOMAIN live \subseteq {destId[c] : c \in Contacts} \cup {curDest} \cup lost

\* No pass of either mode makes another copy of a contact it has a destination
\* id for or forgets the id of a copy that is there, and none removes a copy
\* while the contact is at the source.
KeepsCopy(c) ==
  /\ destId[c] # NoId => made'[c] = made[c]
  /\ destId[c] \in DOMAIN live => destId'[c] = destId[c]
  /\ c \in Alive => \A d \in DOMAIN live : d[1] = c => d \in DOMAIN live'
UpdatesInPlace == [][\A c \in Contacts : KeepsCopy(c)]_vars

\* A delta pass that takes the cursor past the deletion of a contact leaves no
\* recorded copy of it (README: "deleted contacts and cancelled events are
\* removed").  The fallback for an expired token is excepted: like a full pass
\* it takes the cursor past deletions that its listing does not show.
Passes(c) == cursor # NoCursor /\ cursor[c] # Gone /\ cursor'[c] = Gone
DeltaRemovesDeleted ==
  [][mode = "delta" /\ ~fellBack =>
       \A c \in Contacts : Passes(c) => destId[c] \notin DOMAIN live]_vars

\* Once there is a cursor, delta passes alone bring the destination up to date
\* with every contact over and over: the latest version is there, and what was
\* deleted is not unless the cursor was taken past it, whatever (finitely many)
\* faults occur; a version that a full pass skipped is excepted.
UpToDate(c) ==
  \/ ver[c] = 0
  \/ c \in Alive /\ destId[c] \in DOMAIN live /\ live[destId[c]] = ver[c]
  \/ ver[c] = Gone /\ (destId[c] \notin DOMAIN live \/ cursor[c] = Gone)
ChangesArrive ==
  \A c \in Contacts : cursor # NoCursor ~> (cursor # NoCursor /\ (passedOver[c] = ver[c] \/ UpToDate(c)))
=============================================================================
