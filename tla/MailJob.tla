------------------------------ MODULE MailJob ------------------------------
(***************************************************************************)
(* The mail workload for one mailbox: run_mail in workloads/mail_job.py    *)
(* with the Gmail or Microsoft 365 connector that feeds it, the state      *)
(* database it records its progress in and the Graph calls that create the *)
(* messages.  A run is a full pass or a delta pass; runs follow one        *)
(* another for ever, any of them may be cut short at any point, and mail   *)
(* keeps arriving at (and leaving) the source mailbox all along.           *)
(*                                                                         *)
(* The Gmail and Graph listings are lazy, so a message that arrives while  *)
(* pages are still being read may or may not show up in this run.          *)
(***************************************************************************)
EXTENDS Naturals, FiniteSets

CONSTANTS
  Msgs,         \* messages that can ever exist in the source mailbox
  Bulky,        \* those whose attachments are uploaded after the create
  Labelled,     \* those also copied to a second folder (policy "duplicate")
  Connector,    \* "google_workspace" or "microsoft365"
  FaultKinds,   \* the faults the environment may inject, see Fault
  MaxFaults,    \* bound on the number of faults of a behaviour
  NoCursor,     \* no sync cursor
  NoMsg         \* no message in hand

ASSUME NoCursorAssumption == NoCursor \notin SUBSET Msgs
ASSUME NoMsgAssumption == NoMsg \notin Msgs
ASSUME BudgetAssumption == MaxFaults \in Nat

VARIABLES
  \* the source mailbox
  arrived,      \* messages that have arrived so far
  box,          \* messages still there
  \* the destination mailbox
  copies,       \* copies of each message made by a primary import
  extras,       \* copies made in further folders
  \* the state database: rows of ItemMap and SyncCursor
  status,       \* ItemMap.status of each message, "none" without a row
  cursor,       \* SyncCursor.cursor_value
  \* locals of the run in progress
  pc,           \* where the run is
  since,        \* cursor the listing starts from (NoCursor: full pass)
  newCursor,    \* cursor the connector captured
  todo,         \* messages the listing has still to yield
  cur,          \* message in hand
  failures,     \* messages that failed in this run
  \* observers, read by no action
  faults,       \* faults injected so far
  orphaned,     \* primary copies that no row of ItemMap stands for
  spare         \* further copies left by an import that a fault cut off

source == <<arrived, box>>
dest == <<copies, extras>>
db == <<status, cursor>>
run == <<pc, since, newCursor, todo, cur, failures>>
ghosts == <<faults, orphaned, spare>>
vars == <<arrived, box, copies, extras, status, cursor, pc, since, newCursor,
          todo, cur, failures, faults, orphaned, spare>>

Cursors == (SUBSET Msgs) \cup {NoCursor}
Status == {"none", "failed", "done"}
Reading == {"loop", "create", "attach", "record", "extra"}
PC == {"idle", "capture", "list"} \cup Reading

TypeOK ==
  /\ arrived \in SUBSET Msgs
  /\ box \in SUBSET arrived
  /\ copies \in [Msgs -> Nat]
  /\ extras \in [Msgs -> Nat]
  /\ status \in [Msgs -> Status]
  /\ cursor \in Cursors
  /\ pc \in PC
  /\ since \in Cursors
  /\ newCursor \in Cursors
  /\ todo \in SUBSET arrived
  /\ cur \in arrived \cup {NoMsg}
  /\ (cur # NoMsg) <=> (pc \in {"create", "attach", "record", "extra"})
  /\ failures \in Nat
  /\ faults \in 0..MaxFaults
  /\ orphaned \in [Msgs -> Nat]
  /\ spare \in [Msgs -> Nat]

Init ==
  /\ arrived \in SUBSET Msgs
  /\ box = arrived
  /\ copies = [m \in Msgs |-> 0]
  /\ extras = [m \in Msgs |-> 0]
  /\ status = [m \in Msgs |-> "none"]
  /\ cursor = NoCursor
  /\ pc = "idle"
  /\ since = NoCursor
  /\ newCursor = NoCursor
  /\ todo = {}
  /\ cur = NoMsg
  /\ failures = 0
  /\ faults = 0
  /\ orphaned = [m \in Msgs |-> 0]
  /\ spare = [m \in Msgs |-> 0]

-----------------------------------------------------------------------------
(* Helpers *)

Bump(f, m) == [f EXCEPT ![m] = @ + 1]

Done == {m \in Msgs : status[m] = "done"}
Gone == arrived \ box

\* The environment makes the current call fail in one of these ways:
\*   "fetch"      the source answers the body fetch with an error
\*   "create"     the folder lookup or the create is refused
\*   "lost"       a create is executed but its answer is lost
\*   "attach"     an attachment upload fails after the create
\*   "extra"      a further copy is refused
\*   "interrupt"  the process dies, or an exception leaves run_mail
Fault(kind) ==
  /\ kind \in FaultKinds
  /\ faults < MaxFaults
  /\ faults' = faults + 1

\* The locals of run_mail when no run is in progress.
EndRun ==
  /\ pc' = "idle"
  /\ since' = NoCursor
  /\ newCursor' = NoCursor
  /\ todo' = {}
  /\ cur' = NoMsg
  /\ failures' = 0

BackToLoop ==
  /\ pc' = "loop"
  /\ cur' = NoMsg

\* Variants.  An operator marked so is a plausible mistake in the definition
\* that follows it; the README says which property finds it out.

\* is_done at the head of the loop.  Variant: nobody asks.
PendingAlways(m) == TRUE
Pending(m) == status[m] # "done"

\* upsert_item(status="failed") followed by `continue`.
MarkFailed(m) ==
  /\ status' = [status EXCEPT ![m] = "failed"]
  /\ failures' = failures + 1
  /\ BackToLoop

\* What a listing from cursor s may consist of.  Gmail answers 404 when the
\* historyId has expired and the connector then lists the whole mailbox.
Listings(s) ==
  IF s = NoCursor THEN {box}
  ELSE {box \ s} \cup (IF Connector = "google_workspace" THEN {box} ELSE {})

-----------------------------------------------------------------------------
(* The source mailbox (environment) *)

Arrive(m) ==
  /\ m \in Msgs \ arrived
  /\ arrived' = arrived \cup {m}
  /\ box' = box \cup {m}
  /\ todo' \in {todo} \cup (IF pc \in Reading THEN {todo \cup {m}} ELSE {})
  /\ UNCHANGED <<dest, db, pc, since, newCursor, cur, failures, ghosts>>

Remove(m) ==
  /\ m \in box
  /\ box' = box \ {m}
  /\ UNCHANGED <<arrived, dest, db, run, ghosts>>

-----------------------------------------------------------------------------
(* The run *)

StartFull ==
  /\ pc = "idle"
  /\ pc' = "capture"
  /\ since' = NoCursor
  /\ UNCHANGED <<source, dest, db, newCursor, todo, cur, failures, ghosts>>

\* Without a stored cursor a delta run warns and returns.
StartDelta ==
  /\ pc = "idle"
  /\ cursor # NoCursor
  /\ pc' = "capture"
  /\ since' = cursor
  /\ UNCHANGED <<source, dest, db, newCursor, todo, cur, failures, ghosts>>

\* The connector captures the next cursor before it lists anything.  Gmail
\* does so in a full pass only: a Gmail delta never produces a new cursor.  Graph's
\* cursor is the time of the capture, taken here for what had arrived by then:
\* the clocks of the two sides are assumed to agree.
Capture ==
  /\ pc = "capture"
  /\ newCursor' = IF Connector = "google_workspace" /\ since # NoCursor
                  THEN NoCursor ELSE arrived
  /\ pc' = "list"
  /\ UNCHANGED <<source, dest, db, since, todo, cur, failures, ghosts>>

ListMessages ==
  /\ pc = "list"
  /\ todo' \in Listings(since)
  /\ pc' = "loop"
  /\ UNCHANGED <<source, dest, db, since, newCursor, cur, failures, ghosts>>

\* A listed message answers 404 when it is fetched: the connector skips it.
Vanished(m) ==
  /\ pc = "loop"
  /\ m \in todo \ box
  /\ todo' = todo \ {m}
  /\ UNCHANGED <<source, dest, db, pc, since, newCursor, cur, failures, ghosts>>

SkipDone(m) ==
  /\ pc = "loop"
  /\ m \in todo \cap box
  /\ status[m] = "done"
  /\ todo' = todo \ {m}
  /\ UNCHANGED <<source, dest, db, pc, since, newCursor, cur, failures, ghosts>>

\* The connector yields a stub carrying fetch_error.
FetchError(m) ==
  /\ pc = "loop"
  /\ m \in todo \cap box
  /\ Pending(m)
  /\ Fault("fetch")
  /\ todo' = todo \ {m}
  /\ MarkFailed(m)
  /\ UNCHANGED <<source, dest, cursor, since, newCursor, orphaned, spare>>

Take(m) ==
  /\ pc = "loop"
  /\ m \in todo \cap box
  /\ Pending(m)
  /\ todo' = todo \ {m}
  /\ cur' = m
  /\ pc' = "create"
  /\ UNCHANGED <<source, dest, db, since, newCursor, failures, ghosts>>

\* _get_folder, then the POST that creates the message, is answered 201.
Create ==
  /\ pc = "create"
  /\ copies' = Bump(copies, cur)
  /\ pc' = IF cur \in Bulky THEN "attach" ELSE "record"
  /\ UNCHANGED <<source, extras, db, since, newCursor, todo, cur, failures, ghosts>>

\* The POST is executed, its answer times out, and GraphClient sends it again.
CreateLost ==
  /\ pc = "create"
  /\ Fault("lost")
  /\ copies' = Bump(copies, cur)
  /\ orphaned' = Bump(orphaned, cur)
  /\ UNCHANGED <<source, extras, db, run, spare>>

\* The folder cannot be resolved, the create is refused or retries run out.
CreateFails ==
  /\ pc = "create"
  /\ Fault("create")
  /\ MarkFailed(cur)
  /\ UNCHANGED <<source, dest, cursor, since, newCursor, todo, orphaned, spare>>

Attach ==
  /\ pc = "attach"
  /\ pc' = "record"
  /\ UNCHANGED <<source, dest, db, since, newCursor, todo, cur, failures, ghosts>>

\* The exception reaches the handler that also serves a refused create.
AttachFails ==
  /\ pc = "attach"
  /\ Fault("attach")
  /\ MarkFailed(cur)
  /\ orphaned' = Bump(orphaned, cur)
  /\ UNCHANGED <<source, dest, cursor, since, newCursor, todo, spare>>

\* The upload is refused as unparsable, which import_mime_message takes for a
\* refusal of the body: it sends the message again, in another form.
AttachRetried ==
  /\ pc = "attach"
  /\ Fault("attach")
  /\ orphaned' = Bump(orphaned, cur)
  /\ pc' = "create"
  /\ UNCHANGED <<source, dest, db, since, newCursor, todo, cur, failures, spare>>

\* upsert_item(status="done"), before any further copy is attempted.
Record ==
  /\ pc = "record"
  /\ status' = [status EXCEPT ![cur] = "done"]
  /\ IF cur \in Labelled THEN pc' = "extra" /\ UNCHANGED cur ELSE BackToLoop
  /\ UNCHANGED <<source, dest, cursor, since, newCursor, todo, failures, ghosts>>

\* The further copy goes the way of the primary one, create and attachments.
CopyExtra ==
  /\ pc = "extra"
  /\ extras' = Bump(extras, cur)
  /\ BackToLoop
  /\ UNCHANGED <<source, copies, db, since, newCursor, todo, failures, ghosts>>

\* A further copy is there when its import is cut off: the answer to the
\* create is lost, or an attachment cannot be uploaded.
ExtraCutOff ==
  /\ pc = "extra"
  /\ \/ Fault("lost")
     \/ cur \in Bulky /\ Fault("attach")
  /\ extras' = Bump(extras, cur)
  /\ spare' = Bump(spare, cur)
  /\ UNCHANGED <<source, copies, db, since, newCursor, todo, failures, orphaned>>

\* The create is sent again, or the message in another form.
ExtraRetried == ExtraCutOff /\ UNCHANGED <<pc, cur>>

\* Logged only, whether or not a copy is left: the primary copy is safe.
ExtraFails ==
  \/ ExtraCutOff /\ BackToLoop
  \/ /\ pc = "extra"
     /\ Fault("extra")
     /\ BackToLoop
     /\ UNCHANGED <<source, dest, db, since, newCursor, todo, failures, orphaned, spare>>

\* Variant: failures do not hold the cursor back.
NextCursorDespiteFailures == IF newCursor # NoCursor THEN newCursor ELSE cursor
NextCursor == IF newCursor # NoCursor /\ failures = 0 THEN newCursor ELSE cursor

\* The listing is exhausted: the cursor moves only if nothing failed.
Finish ==
  /\ pc = "loop"
  /\ todo = {}
  /\ cursor' = NextCursor
  /\ EndRun
  /\ UNCHANGED <<source, dest, status, ghosts>>

\* A crash, or an exception run_mail does not catch (a page that cannot be
\* listed, a locked state database): whatever was committed stays.
Interrupt ==
  /\ pc # "idle"
  /\ Fault("interrupt")
  /\ EndRun
  /\ orphaned' = IF pc \in {"attach", "record"} THEN Bump(orphaned, cur) ELSE orphaned
  /\ UNCHANGED <<source, dest, db, spare>>

Step ==
  \/ Capture \/ ListMessages
  \/ \E m \in Msgs : Vanished(m) \/ SkipDone(m) \/ FetchError(m) \/ Take(m)
  \/ Create \/ CreateLost \/ CreateFails
  \/ Attach \/ AttachRetried \/ AttachFails
  \/ Record \/ CopyExtra \/ ExtraRetried \/ ExtraFails
  \/ Finish

Next ==
  \/ \E m \in Msgs : Arrive(m) \/ Remove(m)
  \/ StartFull \/ StartDelta
  \/ Step
  \/ Interrupt

Spec == Init /\ [][Next]_vars

(***************************************************************************)
(* A run that has started goes on (every call returns or raises within its *)
(* timeout), and the operator keeps scheduling delta passes.  Nothing is   *)
(* assumed about full passes beyond the one that left the first cursor.    *)
(***************************************************************************)
FairSpec ==
  /\ Spec
  /\ WF_vars(Step)
  /\ SF_vars(StartDelta)

-----------------------------------------------------------------------------
(* Properties *)

\* The committed cursor never covers a message that is still in the source
\* mailbox and not recorded as migrated: no later delta would list it again
\* (README: "nothing falls behind the delta").
NothingBehindCursor == cursor # NoCursor => cursor \subseteq Done \cup Gone

\* Every primary copy at the destination is the one its "done" row stands
\* for, the one in hand, or one orphaned by a fault between the create and
\* the record: the job itself never makes a second copy.
PrimaryCopies ==
  \A m \in Msgs :
    copies[m] = orphaned[m]
                + (IF status[m] = "done" THEN 1 ELSE 0)
                + (IF cur = m /\ pc \in {"attach", "record"} THEN 1 ELSE 0)
CopiesAccounted == TypeOK /\ PrimaryCopies

\* A message recorded as migrated stays so and is never imported again
\* (README: "Finished messages are never re-imported."); and a further copy is
\* made only of a message whose primary copy is recorded, and only while every
\* earlier further copy of it is one that a fault cut off: a lost answer or a
\* failed attachment can double it, a later pass cannot.
KeepsFinished(m) ==
  /\ status[m] = "done" => status'[m] = "done" /\ copies'[m] = copies[m]
  /\ extras'[m] # extras[m] => status[m] = "done" /\ extras[m] = spare[m]
FinishedNeverReimported == [][\A m \in Msgs : KeepsFinished(m)]_vars

\* Further copies come after the record, and while one is being made there are
\* none but those that a fault cut off.
ExtrasAfterRecord ==
  \A m \in Msgs :
    /\ status[m] # "done" => extras[m] = 0 /\ spare[m] = 0
    /\ pc = "extra" /\ cur = m => extras[m] = spare[m]

\* Why NothingBehindCursor is inductive.  A cursor holds what had arrived when
\* it was captured, never less than the committed one; while a run without
\* failures reads, whatever its captured cursor covers is accounted for, still
\* to be yielded, or in hand; a message in hand is recorded just before its
\* further copies are made and not earlier.
IInv ==
  /\ NothingBehindCursor
  /\ Done \subseteq arrived
  /\ since # NoCursor => since \subseteq Done \cup Gone
  /\ newCursor # NoCursor =>
       /\ newCursor \subseteq arrived
       /\ cursor # NoCursor => cursor \subseteq newCursor
       /\ pc \in Reading /\ failures = 0 =>
            newCursor \subseteq Done \cup Gone \cup todo \cup {cur}
  /\ pc \in {"create", "attach", "record"} => status[cur] # "done"
  /\ pc = "extra" => status[cur] = "done"
  /\ ExtrasAfterRecord

\* The run implements the promise of DeltaSync: recording a message settles
\* it, a clean finish commits the cursor, everything else is a stutter.
Sync == INSTANCE DeltaSync WITH Changes <- Msgs, settled <- Done
ImplementsDeltaSync == Sync!Spec

\* Once a first clean pass has left a cursor, delta passes alone bring every
\* message over sooner or later, whatever (finitely many) faults occur: a
\* failed message holds the cursor back, so the next delta lists it again.
DeltaCatchesUp ==
  \A m \in Msgs :
    (cursor # NoCursor /\ m \in arrived) ~> (status[m] = "done" \/ m \notin box)
=============================================================================
