----------------------------- MODULE ImapSource -----------------------------
(***************************************************************************)
(* An IMAP mailbox as the mail workload sees it: iter_messages, _status    *)
(* and _fetch_message of connectors/imap.py under the loop of run_mail,    *)
(* against a server that numbers the messages of every folder.             *)
(*                                                                         *)
(* A message is known to the state database by its folder, the folder's    *)
(* UIDVALIDITY and its UID.  The connector asks for UIDVALIDITY and        *)
(* UIDNEXT with STATUS, selects the folder and searches it only then; it   *)
(* keeps one cursor entry per folder.  A server renumbers a folder by      *)
(* raising its UIDVALIDITY, at any time but while the folder is selected.  *)
(*                                                                         *)
(* Importing a message and recording it are one step here: what can happen *)
(* between the two is the subject of MailJob.  Rows that say "failed" are  *)
(* left out, since the mail workload never reads them.                     *)
(***************************************************************************)
EXTENDS Naturals, FiniteSets

CONSTANTS
  Msgs,         \* messages that can ever exist in the mailbox
  Folders,
  FolderOf,     \* folder each message arrives in
  MaxValidity,  \* bound on the UIDVALIDITY of a folder
  FaultKinds,   \* the faults the environment may inject, see Fault
  MaxFaults,    \* bound on the number of faults of a behaviour
  NoFolder, NoCursor

ASSUME FolderAssumption == FolderOf \in [Msgs -> Folders] /\ NoFolder \notin Folders
ASSUME BoundsAssumption == MaxValidity \in Nat \ {0} /\ MaxFaults \in Nat

VARIABLES
  \* the server
  uidvalidity, uidnext,   \* of each folder
  uid,          \* UID of each message in its folder, 0 before it arrives
  box,          \* messages that are still there
  \* the destination and the state database
  copies,       \* copies made of each message
  done,         \* ids of the rows that say "done"
  cursor,       \* SyncCursor: a STATUS answer per folder
  \* locals of the run in progress
  pc, since, newCursor,
  left,         \* folders still to visit
  folder,       \* folder being visited
  todo,         \* messages of it the search found and that were not yielded
  failures,
  faults,       \* observers: faults so far,
  missed        \* ... messages a refused search left out

server == <<uidvalidity, uidnext, uid, box>>
ghosts == <<faults, missed>>
vars == <<uidvalidity, uidnext, uid, box, copies, done, cursor, pc, since,
          newCursor, left, folder, todo, failures, faults, missed>>

Answers == [uidvalidity : 0..MaxValidity, uidnext : Nat \ {0}]
Cursors == [Folders -> Answers]

\* What _status returns when it cannot tell.
NoAnswer == [uidvalidity |-> 0, uidnext |-> 1]

\* The id _fetch_message gives m, from the STATUS answer of this run.
Id(m) == <<folder, newCursor[folder].uidvalidity, uid[m]>>

TypeOK ==
  /\ uidvalidity \in [Folders -> 1..MaxValidity]
  /\ uidnext \in [Folders -> Nat \ {0}]
  /\ uid \in [Msgs -> Nat]
  /\ box \in SUBSET Msgs
  /\ copies \in [Msgs -> Nat]
  /\ done \subseteq Folders \X (0..MaxValidity) \X (Nat \ {0})
  /\ cursor \in Cursors \cup {NoCursor}
  /\ pc \in {"idle", "status", "search", "fetch"}
  /\ since \in Cursors \cup {NoCursor}
  /\ newCursor \in Cursors
  /\ left \in SUBSET Folders
  /\ folder \in Folders \cup {NoFolder}
  /\ (folder # NoFolder) <=> (pc \in {"search", "fetch"})
  /\ todo \in SUBSET Msgs
  /\ failures \in Nat
  /\ faults \in 0..MaxFaults
  /\ missed \in SUBSET Msgs

Init ==
  /\ uidvalidity = [f \in Folders |-> 1]
  /\ uidnext = [f \in Folders |-> 1]
  /\ uid = [m \in Msgs |-> 0]
  /\ box = {}
  /\ copies = [m \in Msgs |-> 0]
  /\ done = {}
  /\ cursor = NoCursor
  /\ pc = "idle" /\ since = NoCursor /\ newCursor = [f \in Folders |-> NoAnswer]
  /\ left = {} /\ folder = NoFolder /\ todo = {} /\ failures = 0
  /\ faults = 0
  /\ missed = {}

-----------------------------------------------------------------------------
(* Helpers *)

\* The environment makes a call fail in one of these ways:
\*   "status"     STATUS is answered NO
\*   "search"     UID SEARCH is answered NO
\*   "fetch"      FETCH of a message fails, or the import that follows it
\*   "interrupt"  the connection or the process dies
Fault(kind) ==
  /\ kind \in FaultKinds
  /\ faults < MaxFaults
  /\ faults' = faults + 1

EndRun ==
  /\ pc' = "idle" /\ since' = NoCursor /\ newCursor' = [f \in Folders |-> NoAnswer]
  /\ left' = {} /\ folder' = NoFolder /\ todo' = {} /\ failures' = 0

\* Variants.  An operator marked so is a plausible mistake in the definition
\* that follows it; the README says which property finds it out.

\* The first UID of interest, given the answer to STATUS.
StartUid(f, answer) ==
  IF since # NoCursor /\ since[f].uidvalidity = answer.uidvalidity
  THEN since[f].uidnext ELSE 1

\* With a cursor that is up to date the folder is not even selected.
UpToDate(f, answer) ==
  /\ since # NoCursor
  /\ since[f].uidvalidity = answer.uidvalidity
  /\ since[f].uidnext >= answer.uidnext

In(f) == {m \in box : FolderOf[m] = f}

-----------------------------------------------------------------------------
(* The server (environment) *)

Arrive(m) ==
  LET f == FolderOf[m]
  IN /\ uid[m] = 0
     /\ uid' = [uid EXCEPT ![m] = uidnext[f]]
     /\ uidnext' = [uidnext EXCEPT ![f] = @ + 1]
     /\ box' = box \cup {m}
     /\ UNCHANGED <<uidvalidity, copies, done, cursor, pc, since, newCursor, left,
                    folder, todo, failures, ghosts>>

Expunge(m) ==
  /\ m \in box
  /\ box' = box \ {m}
  /\ UNCHANGED <<uidvalidity, uidnext, uid, copies, done, cursor, pc, since,
                 newCursor, left, folder, todo, failures, ghosts>>

\* The messages of the folder are numbered anew, from 1, in any order.
Renumber(f) ==
  /\ uidvalidity[f] < MaxValidity
  /\ ~(pc = "fetch" /\ folder = f)
  /\ uidvalidity' = [uidvalidity EXCEPT ![f] = @ + 1]
  /\ uidnext' = [uidnext EXCEPT ![f] = Cardinality(In(f)) + 1]
  /\ \E number \in [In(f) -> 1..Cardinality(In(f))] :
       /\ \A m, n \in In(f) : number[m] = number[n] => m = n
       /\ uid' = [m \in Msgs |-> IF m \in In(f) THEN number[m] ELSE uid[m]]
  /\ UNCHANGED <<box, copies, done, cursor, pc, since, newCursor, left, folder,
                 todo, failures, ghosts>>

-----------------------------------------------------------------------------
(* The run *)

StartFull ==
  /\ pc = "idle"
  /\ pc' = "status"
  /\ left' = Folders
  /\ UNCHANGED <<server, copies, done, cursor, since, newCursor, folder, todo,
                 failures, ghosts>>

\* Without a stored cursor a delta run warns and returns.
StartDelta ==
  /\ pc = "idle"
  /\ cursor # NoCursor
  /\ pc' = "status"
  /\ since' = cursor
  /\ left' = Folders
  /\ UNCHANGED <<server, copies, done, cursor, newCursor, folder, todo, failures, ghosts>>

\* The answer becomes the folder's cursor entry, whatever it is.
Visit(f, answer) ==
  /\ pc = "status"
  /\ f \in left
  /\ left' = left \ {f}
  /\ newCursor' = [newCursor EXCEPT ![f] = answer]
  /\ IF UpToDate(f, answer) THEN UNCHANGED <<pc, folder>>
     ELSE pc' = "search" /\ folder' = f
  /\ UNCHANGED <<server, copies, done, cursor, since, todo, failures, missed>>

Status(f) ==
  /\ Visit(f, [uidvalidity |-> uidvalidity[f], uidnext |-> uidnext[f]])
  /\ UNCHANGED faults

StatusFails(f) == Fault("status") /\ Visit(f, NoAnswer)

Found == {m \in In(folder) : uid[m] >= StartUid(folder, newCursor[folder])}

\* SELECT and UID SEARCH see the folder as it is now.  Variant: the range is
\* taken for message sequence numbers.
Sequence(m) == Cardinality({n \in In(FolderOf[m]) : uid[n] <= uid[m]})
SearchSequence ==
  /\ pc = "search"
  /\ todo' = {m \in In(folder) : Sequence(m) >= StartUid(folder, newCursor[folder])}
  /\ pc' = "fetch"
  /\ UNCHANGED <<server, copies, done, cursor, since, newCursor, left, folder,
                 failures, ghosts>>
Search ==
  /\ pc = "search"
  /\ todo' = Found
  /\ pc' = "fetch"
  /\ UNCHANGED <<server, copies, done, cursor, since, newCursor, left, folder,
                 failures, ghosts>>

\* `continue`: the folder's cursor entry stays.
SearchFails ==
  /\ pc = "search"
  /\ Fault("search")
  /\ pc' = "status"
  /\ folder' = NoFolder
  /\ missed' = missed \cup Found
  /\ UNCHANGED <<server, copies, done, cursor, since, newCursor, left, todo, failures>>

Yields(m) ==
  /\ pc = "fetch"
  /\ m \in todo
  /\ todo' = todo \ {m}

SkipDone(m) ==
  /\ Yields(m)
  /\ m \in box
  /\ Id(m) \in done
  /\ UNCHANGED <<server, copies, done, cursor, pc, since, newCursor, left, folder,
                 failures, ghosts>>

\* Variant: nobody asks is_done.
ImportAgain(m) ==
  /\ Yields(m)
  /\ m \in box
  /\ copies' = [copies EXCEPT ![m] = @ + 1]
  /\ done' = done \cup {Id(m)}
  /\ UNCHANGED <<server, cursor, pc, since, newCursor, left, folder, failures, ghosts>>
Import(m) ==
  /\ Yields(m)
  /\ m \in box
  /\ Id(m) \notin done
  /\ copies' = [copies EXCEPT ![m] = @ + 1]
  /\ done' = done \cup {Id(m)}
  /\ UNCHANGED <<server, cursor, pc, since, newCursor, left, folder, failures, ghosts>>

\* A message expunged since the search has no body any more; like every other
\* failure it counts, unless an earlier run is known to have imported it.
FetchFails(m) ==
  /\ Yields(m)
  /\ IF m \in box THEN Fault("fetch") ELSE UNCHANGED faults
  /\ failures' = IF Id(m) \in done THEN failures ELSE failures + 1
  /\ UNCHANGED <<server, copies, done, cursor, pc, since, newCursor, left, folder,
                 missed>>

NextFolder ==
  /\ pc = "fetch"
  /\ todo = {}
  /\ pc' = "status"
  /\ folder' = NoFolder
  /\ UNCHANGED <<server, copies, done, cursor, since, newCursor, left, todo,
                 failures, ghosts>>

\* The cursor moves only if nothing failed.  Variant: it always does.
NextCursorDespiteFailures == newCursor
NextCursor == IF failures = 0 THEN newCursor ELSE cursor

Finish ==
  /\ pc = "status"
  /\ left = {}
  /\ cursor' = NextCursor
  /\ EndRun
  /\ UNCHANGED <<server, copies, done, ghosts>>

Interrupt ==
  /\ pc # "idle"
  /\ Fault("interrupt")
  /\ EndRun
  /\ UNCHANGED <<server, copies, done, cursor, missed>>

Step ==
  \/ \E f \in Folders : Status(f) \/ StatusFails(f)
  \/ Search \/ SearchFails
  \/ \E m \in Msgs : SkipDone(m) \/ Import(m) \/ FetchFails(m)
  \/ NextFolder \/ Finish

Next ==
  \/ \E m \in Msgs : Arrive(m) \/ Expunge(m)
  \/ \E f \in Folders : Renumber(f)
  \/ StartFull \/ StartDelta
  \/ Step
  \/ Interrupt

Spec == Init /\ [][Next]_vars

\* A run that has started goes on (every call returns or raises in time), and
\* the operator keeps scheduling delta passes.
FairSpec == Spec /\ WF_vars(Step) /\ SF_vars(StartDelta)

-----------------------------------------------------------------------------
(* Properties *)

\* As long as a folder keeps the UIDVALIDITY of its cursor entry, no message
\* with a UID below the entry's UIDNEXT is missing at the destination: no
\* delta will ask for it again (README: "nothing falls behind the delta").
\* A refused search is excepted: it passes for a folder without new mail.
NothingBehindCursor ==
  /\ TypeOK
  /\ cursor # NoCursor =>
       \A m \in box \ missed :
         LET entry == cursor[FolderOf[m]]
         IN entry.uidvalidity = uidvalidity[FolderOf[m]] /\ uid[m] < entry.uidnext
              => copies[m] > 0

\* A message recorded as done under the UIDVALIDITY its folder has now is not
\* imported again (README: "Finished messages are never re-imported."), unless
\* the run was not told the UIDVALIDITY and uses 0 for it.
TrueId(m) == <<FolderOf[m], uidvalidity[FolderOf[m]], uid[m]>>
Informed == folder # NoFolder => newCursor[folder] # NoAnswer
FinishedNeverReimported ==
  [][Informed => \A m \in box : TrueId(m) \in done => copies'[m] = copies[m]]_vars

\* Once a first clean pass has left a cursor, delta passes alone bring every
\* message over sooner or later, whatever faults and renumberings occur, again
\* but for what a refused search left out.
DeltaCatchesUp ==
  \A m \in Msgs :
    (cursor # NoCursor /\ m \in box) ~> (copies[m] > 0 \/ m \notin box \/ m \in missed)
=============================================================================
