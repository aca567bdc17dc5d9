----------------------------- MODULE CalendarJob -----------------------------
(***************************************************************************)
(* The calendar workload for one calendar: the body of the loop of         *)
(* run_calendar in workloads/calendar_job.py, with _apply_exception and    *)
(* _handle_cancelled, the listing of the connector, the state database and *)
(* the destination calendar, and the exit code the CLI derives from it.    *)
(*                                                                         *)
(* A single event or a series is an Event; a modified or cancelled single  *)
(* occurrence of a series is an Occurrence, which the listing yields in    *)
(* any order with its series and the job applies after everything else.    *)
(* Either is a version number; cancelling it takes it to version Gone.     *)
(***************************************************************************)
EXTENDS Naturals, FiniteSets

CONSTANTS
  Events, Occurrences,  \* what can ever exist in the source calendar
  Master,               \* the series each occurrence belongs to
  Connector,            \* "google_workspace" or "microsoft365"
  MaxVer,               \* bound on the versions of an item
  FaultKinds,           \* the faults the environment may inject, see Fault
  MaxFaults,            \* bound on the number of faults of a behaviour
  NoItem, NoId, NoCursor

Items == Events \cup Occurrences

ASSUME ItemsAssumption ==
  /\ Events \cap Occurrences = {}
  /\ NoItem \notin Items
  /\ Master \in [Occurrences -> Events]
  \* Graph lists series only; their exceptions are not yielded
  /\ Connector = "microsoft365" => Occurrences = {}
  /\ NoId \notin Events \X (Nat \ {0})
  /\ NoCursor \notin [Items -> 0..(MaxVer + 1)]
ASSUME BoundsAssumption == MaxVer \in Nat \ {0} /\ MaxFaults \in Nat

VARIABLES
  ver,           \* the source: version of each item, 0 before it exists
  flat,          \* ... and the series whose rule Graph cannot express
  live,          \* the destination: id |-> version, of the events there
  made,          \* number of destination events ever made of each event
  instance,      \* version each occurrence of the recorded series shows
  away,          \* ... and those that are out of the window find_instance reads
  status, hash, destId, cursor,   \* ItemMap and SyncCursor
  pc, mode,      \* locals of the run in progress
  newCursor,     \* cursor the connector captured
  listed,        \* version of each item the listing shows
  todo,          \* items the listing has still to yield
  exceptions,    \* occurrences put off until the pass is over
  cur, curDest,  \* item in hand, and the id just created or patched
  failures,
  touched,       \* rows the run left "failed"
  exitCode,      \* of the last command, NoCode while one runs
  faults,        \* observers: faults so far,
  stale,         \* ... items a full pass skipped although changed,
  kept,          \* ... events whose cancellation was not acted upon,
  broken         \* ... listings of this run that broke off

dest == <<live, made, instance, away>>
rows == <<status, hash, destId>>
listing == <<mode, newCursor, listed>>
hand == <<cur, curDest>>
outcome == <<failures, touched, exitCode>>
ghosts == <<faults, stale, kept, broken>>
vars == <<ver, flat, live, made, instance, away, status, hash, destId, cursor, pc,
          mode, newCursor, listed, todo, exceptions, cur, curDest, failures, touched,
          exitCode, faults, stale, kept, broken>>

NoCode == 2
Gone == MaxVer + 1
Versions == 0..Gone
Cursors == [Items -> Versions] \cup {NoCursor}
Ids == Events \X (Nat \ {0})
InHand == {"write", "record", "drop", "noteOcc"}

TypeOK ==
  /\ ver \in [Items -> Versions]
  /\ flat \in SUBSET Events
  /\ DOMAIN live \subseteq Ids
  /\ \A d \in DOMAIN live : live[d] \in 1..MaxVer
  /\ made \in [Events -> Nat]
  /\ instance \in [Occurrences -> Versions]
  /\ away \in SUBSET Occurrences
  /\ status \in [Items -> {"none", "failed", "skipped", "done"}]
  /\ hash \in [Items -> Versions]
  /\ destId \in [Events -> Ids \cup {NoId}]
  /\ cursor \in Cursors
  /\ pc \in {"idle", "capture", "list", "loop", "exceptions"} \cup InHand
  /\ mode \in {"full", "delta"}
  /\ newCursor \in Cursors
  /\ listed \in [Items -> Versions]
  /\ todo \in SUBSET Items
  /\ exceptions \in SUBSET Occurrences
  /\ cur \in Items \cup {NoItem}
  /\ (cur # NoItem) <=> (pc \in InHand)
  /\ curDest \in Ids \cup {NoId}
  /\ failures \in Nat
  /\ touched \in SUBSET Items
  /\ exitCode \in {0, 1, NoCode}
  /\ faults \in 0..MaxFaults
  /\ stale \in SUBSET Items
  /\ kept \in SUBSET Events
  /\ broken \in 0..1

Init ==
  /\ ver \in [Items -> {0, 1}]
  /\ \A o \in Occurrences : ver[o] <= ver[Master[o]]
  /\ flat \in SUBSET {Master[o] : o \in Occurrences}
  /\ live = [d \in {} |-> 0]
  /\ made = [e \in Events |-> 0]
  /\ instance = [o \in Occurrences |-> 0] /\ away = {}
  /\ status = [i \in Items |-> "none"]
  /\ hash = [i \in Items |-> 0]
  /\ destId = [e \in Events |-> NoId]
  /\ cursor = NoCursor
  /\ pc = "idle" /\ mode = "full" /\ newCursor = NoCursor
  /\ listed = [i \in Items |-> 0]
  /\ todo = {} /\ exceptions = {} /\ cur = NoItem /\ curDest = NoId
  /\ failures = 0 /\ touched = {} /\ exitCode = NoCode
  /\ faults = 0 /\ stale = {} /\ kept = {} /\ broken = 0

-----------------------------------------------------------------------------
(* Helpers *)

\* The environment makes the current call fail in one of these ways:
\*   "write"      a create or a patch is refused
\*   "delete"     the delete of a cancelled event is refused
\*   "lost"       a create is executed but its answer is lost
\*   "enumerate"  the listing fails, or an event of it cannot be converted
\*   "interrupt"  the process dies, or an exception leaves run_calendar
Fault(kind) ==
  /\ kind \in FaultKinds
  /\ faults < MaxFaults
  /\ faults' = faults + 1

EndRun(code) ==
  /\ pc' = "idle" /\ mode' = "full" /\ newCursor' = NoCursor
  /\ listed' = [i \in Items |-> 0]
  /\ todo' = {} /\ exceptions' = {} /\ cur' = NoItem /\ curDest' = NoId
  /\ failures' = 0 /\ touched' = {} /\ exitCode' = code /\ broken' = 0

BackTo(where) == pc' = where /\ cur' = NoItem /\ curDest' = NoId

\* upsert_item: every column is overwritten, NULL where it is not given.
Upsert(i, s, h, d) ==
  /\ status' = [status EXCEPT ![i] = s]
  /\ hash' = [hash EXCEPT ![i] = h]
  /\ destId' = IF i \in Events THEN [destId EXCEPT ![i] = d] ELSE destId

\* Variants.  An operator marked so is a plausible mistake in the definition
\* that follows it; the README says which property finds it out.

\* Counted, and left in a row that count_failed_items_since will find.  Variants:
\* it forgets the destination id; the row keeps its old time stamp.
MarkFailedForgetting(i, h, d) ==
  /\ Upsert(i, "failed", h, NoId)
  /\ failures' = failures + 1
  /\ touched' = touched \cup {i}
  /\ UNCHANGED exitCode
MarkFailedUnstamped(i, h, d) ==
  /\ Upsert(i, "failed", h, d)
  /\ failures' = failures + 1
  /\ touched' = IF status[i] = "none" THEN touched \cup {i} ELSE touched
  /\ UNCHANGED exitCode
MarkFailed(i, h, d) ==
  /\ Upsert(i, "failed", h, d)
  /\ failures' = failures + 1
  /\ touched' = touched \cup {i}
  /\ UNCHANGED exitCode

NewId(e) == <<e, made[e] + 1>>
Put(d, v) == live' = [x \in DOMAIN live \cup {d} |-> IF x = d THEN v ELSE live[x]]

\* Google lists what was cancelled, in a full pass too (showDeleted), but not
\* the exceptions of a series that is itself cancelled.
Listable(i) == ver[i] > 0 /\ (i \in Occurrences => ver[Master[i]] # Gone)

Done(i) == status[i] = "done"
Same(i) == Done(i) /\ hash[i] = listed[i]

-----------------------------------------------------------------------------
(* The source (environment) *)

Change(i, v) ==
  /\ ver[i] < v
  /\ i \in Occurrences => ver[Master[i]] \in 1..MaxVer
  /\ ver' = [ver EXCEPT ![i] = v]
  /\ UNCHANGED <<flat, dest, rows, cursor, pc, listing, todo, exceptions, hand,
                 outcome, ghosts>>

Edit(i) == ver[i] < MaxVer /\ Change(i, ver[i] + 1)
Cancel(i) == (i \in Events => ver[i] > 0) /\ Change(i, Gone)

-----------------------------------------------------------------------------
(* The run *)

\* Without a stored cursor a delta run warns and skips the calendar.
Start(m) ==
  /\ pc = "idle"
  /\ m = "delta" => cursor # NoCursor
  /\ pc' = "capture"
  /\ mode' = m
  /\ exitCode' = NoCode
  /\ UNCHANGED <<ver, flat, dest, rows, cursor, newCursor, listed, todo, exceptions,
                 hand, failures, touched, ghosts>>

\* Microsoft 365: the cursor is the time before the listing starts.  Google
\* hands out its sync token with the listing.
Capture ==
  /\ pc = "capture"
  /\ newCursor' = IF Connector = "microsoft365" THEN ver ELSE NoCursor
  /\ pc' = "list"
  /\ UNCHANGED <<ver, flat, dest, rows, cursor, mode, listed, todo, exceptions, hand,
                 outcome, ghosts>>

ListEvents ==
  /\ pc = "list"
  /\ newCursor' = IF newCursor = NoCursor THEN ver ELSE newCursor
  /\ listed' = ver
  /\ todo' = {i \in Items : Listable(i) /\ (mode = "delta" => ver[i] > cursor[i])}
  /\ pc' = "loop"
  /\ UNCHANGED <<ver, flat, dest, rows, cursor, mode, exceptions, hand, outcome, ghosts>>

Yields(i) ==
  /\ pc = "loop"
  /\ i \in todo
  /\ todo' = todo \ {i}

\* The loop also catches a listing that fails as a whole ...
ListFails ==
  /\ pc = "list"
  /\ Fault("enumerate")
  /\ failures' = failures + 1
  /\ broken' = 1
  /\ pc' = "loop"
  /\ UNCHANGED <<ver, flat, dest, rows, cursor, listing, todo, exceptions, hand, touched,
                 exitCode, stale, kept>>

\* ... or half way.  What is left of it is dropped; no row says so.  Google's
\* is complete by then, and only a body that is to be written is converted.
EnumerationFails ==
  /\ pc = "loop"
  /\ todo # {}
  /\ Connector = "google_workspace" => \E i \in todo : listed[i] # Gone
  /\ Fault("enumerate")
  /\ todo' = {}
  /\ failures' = failures + 1
  /\ broken' = 1
  /\ UNCHANGED <<ver, flat, dest, rows, cursor, pc, listing, exceptions, hand, touched,
                 exitCode, stale, kept>>

\* A full pass skips what is done unless it is cancelled, a delta pass skips
\* an event that is unchanged.  Variant: a full pass skips all that is done.
SkipsCancelled(i) ==
  IF mode = "full" THEN Done(i) ELSE listed[i] # Gone /\ i \in Events /\ Same(i)
Skips(i) ==
  /\ listed[i] # Gone
  /\ IF mode = "full" THEN Done(i) ELSE i \in Events /\ Same(i)

SkipDone(i) ==
  /\ Yields(i)
  /\ Skips(i)
  /\ stale' = IF hash[i] # listed[i] THEN stale \cup {i} ELSE stale
  /\ UNCHANGED <<ver, flat, dest, rows, cursor, pc, listing, exceptions, hand, outcome,
                 faults, kept, broken>>

PutOff(o) ==
  /\ Yields(o)
  /\ ~Skips(o)
  /\ exceptions' = exceptions \cup {o}
  /\ UNCHANGED <<ver, flat, dest, rows, cursor, pc, listing, hand, outcome, ghosts>>

\* _handle_cancelled looks for a row that is "done" and acts on no other.
CancelIgnored(e) ==
  /\ Yields(e)
  /\ listed[e] = Gone
  /\ ~Done(e) \/ destId[e] = NoId
  /\ kept' = kept \cup {e}
  /\ UNCHANGED <<ver, flat, dest, rows, cursor, pc, listing, exceptions, hand, outcome,
                 faults, stale, broken>>

DeleteCancelled(e) ==
  /\ Yields(e)
  /\ listed[e] = Gone
  /\ Done(e) /\ destId[e] \in DOMAIN live
  /\ live' = [d \in DOMAIN live \ {destId[e]} |-> live[d]]
  /\ pc' = "drop"
  /\ cur' = e
  /\ UNCHANGED <<ver, flat, made, instance, away, rows, cursor, listing, exceptions, curDest,
                 outcome, ghosts>>

\* Logged, not counted.  An event that is already gone answers 404.
DeleteFails(e) ==
  /\ Yields(e)
  /\ listed[e] = Gone
  /\ Done(e) /\ destId[e] # NoId
  /\ IF destId[e] \in DOMAIN live THEN Fault("delete") ELSE UNCHANGED faults
  /\ kept' = kept \cup {e}
  /\ UNCHANGED <<ver, flat, dest, rows, cursor, pc, listing, exceptions, hand, outcome,
                 stale, broken>>

\* Only the status changes: the row keeps its destination id and hash.
RecordCancelled ==
  /\ pc = "drop"
  /\ status' = [status EXCEPT ![cur] = "skipped"]
  /\ BackTo("loop")
  /\ UNCHANGED <<ver, flat, dest, hash, destId, cursor, listing, todo, exceptions,
                 outcome, ghosts>>

Take(e) ==
  /\ Yields(e)
  /\ listed[e] # Gone
  /\ ~Skips(e)
  /\ pc' = "write"
  /\ cur' = e
  /\ UNCHANGED <<ver, flat, dest, rows, cursor, listing, exceptions, curDest, outcome, ghosts>>

Patch ==
  /\ pc = "write"
  /\ destId[cur] \in DOMAIN live
  /\ Put(destId[cur], listed[cur])
  /\ curDest' = destId[cur]
  /\ pc' = "record"
  /\ UNCHANGED <<ver, flat, made, instance, away, rows, cursor, listing, todo, exceptions, cur,
                 outcome, ghosts>>

Create ==
  /\ pc = "write"
  /\ destId[cur] = NoId
  /\ Put(NewId(cur), listed[cur])
  /\ made' = [made EXCEPT ![cur] = @ + 1]
  /\ curDest' = NewId(cur)
  /\ pc' = "record"
  /\ UNCHANGED <<ver, flat, instance, away, rows, cursor, listing, todo, exceptions, cur,
                 outcome, ghosts>>

\* The POST is executed, its answer times out, and GraphClient sends it again.
CreateLost ==
  /\ pc = "write"
  /\ destId[cur] = NoId
  /\ Fault("lost")
  /\ Put(NewId(cur), listed[cur])
  /\ made' = [made EXCEPT ![cur] = @ + 1]
  /\ UNCHANGED <<ver, flat, instance, away, rows, cursor, pc, listing, todo, exceptions, hand,
                 outcome, stale, kept, broken>>

\* The row keeps its destination id and the hash that copy still reflects.
WriteFails ==
  /\ pc = "write"
  /\ Fault("write")
  /\ MarkFailed(cur, hash[cur], destId[cur])
  /\ BackTo("loop")
  /\ UNCHANGED <<ver, flat, dest, cursor, listing, todo, exceptions, stale, kept,
                 broken>>

Record ==
  /\ pc = "record"
  /\ Upsert(cur, "done", listed[cur], curDest)
  /\ stale' = stale \ {cur}
  /\ BackTo("loop")
  /\ UNCHANGED <<ver, flat, dest, cursor, listing, todo, exceptions, outcome, faults, kept, broken>>

-----------------------------------------------------------------------------
(* The exceptions, after the pass: _apply_exception *)

BeginExceptions ==
  /\ pc = "loop"
  /\ todo = {}
  /\ pc' = "exceptions"
  /\ UNCHANGED <<ver, flat, dest, rows, cursor, listing, todo, exceptions, hand, outcome, ghosts>>

Applies(o) ==
  /\ pc = "exceptions"
  /\ o \in exceptions
  /\ exceptions' = exceptions \ {o}

AlreadyApplied(o) ==
  /\ Applies(o)
  /\ Same(o)
  /\ UNCHANGED <<ver, flat, dest, rows, cursor, pc, listing, todo, hand, outcome, ghosts>>

\* get_dest_id knows a series only by a row that is "done"; find_instance reads
\* the instances around the original start (a day either way, the same date for
\* an all-day event), so it finds no occurrence that was deleted before, none of
\* a series that was migrated as a single event, and none that an earlier version
\* has moved farther than that.
MasterReady(o) == Done(Master[o]) /\ destId[Master[o]] \in DOMAIN live
HasInstance(o) == instance[o] # Gone /\ o \notin away /\ Master[o] \notin flat
Found(o) == MasterReady(o) /\ HasInstance(o)

\* PATCH or DELETE of the occurrence.  A new version may move it anywhere.
ApplyException(o) ==
  /\ Applies(o)
  /\ ~Same(o)
  /\ Found(o)
  /\ instance' = [instance EXCEPT ![o] = listed[o]]
  /\ away' \in {away} \cup (IF listed[o] \in {instance[o], Gone} THEN {} ELSE {away \cup {o}})
  /\ pc' = "noteOcc"
  /\ cur' = o
  /\ UNCHANGED <<ver, flat, live, made, rows, cursor, listing, todo, curDest, outcome, ghosts>>

RecordException ==
  /\ pc = "noteOcc"
  /\ Upsert(cur, "done", listed[cur], NoId)
  /\ stale' = stale \ {cur}
  /\ BackTo("exceptions")
  /\ UNCHANGED <<ver, flat, dest, cursor, listing, todo, exceptions, outcome, faults, kept, broken>>

\* A cancelled occurrence that is not found counts as gone already, also when it
\* is there and has only been moved.
AlreadyGone(o) ==
  /\ Applies(o)
  /\ ~Same(o)
  /\ MasterReady(o) /\ ~HasInstance(o) /\ listed[o] = Gone
  /\ Upsert(o, "skipped", 0, NoId)
  /\ UNCHANGED <<ver, flat, dest, cursor, pc, listing, todo, hand, outcome, ghosts>>

ExceptionFails(o) ==
  /\ Applies(o)
  /\ ~Same(o)
  /\ IF Found(o) THEN Fault("write")
     ELSE /\ UNCHANGED faults
          /\ MasterReady(o) /\ listed[o] = Gone => Master[o] \in flat
  /\ MarkFailed(o, 0, NoId)
  /\ UNCHANGED <<ver, flat, dest, cursor, pc, listing, todo, hand, stale, kept, broken>>

\* The cursor moves only if nothing failed.  Variant: it always does.
NextCursorDespiteFailures == newCursor
NextCursor == IF failures = 0 THEN newCursor ELSE cursor

\* The command exits 1 if a row was left "failed".
Finish ==
  /\ pc = "exceptions"
  /\ exceptions = {}
  /\ cursor' = NextCursor
  /\ EndRun(IF \E i \in touched : status[i] = "failed" THEN 1 ELSE 0)
  /\ UNCHANGED <<ver, flat, dest, rows, faults, stale, kept>>

Interrupt ==
  /\ pc # "idle"
  /\ Fault("interrupt")
  /\ EndRun(1)
  /\ UNCHANGED <<ver, flat, dest, rows, cursor, stale, kept>>

Step ==
  \/ Capture \/ ListEvents \/ ListFails \/ EnumerationFails
  \/ \E i \in Items : SkipDone(i)
  \/ \E o \in Occurrences : PutOff(o)
  \/ \E e \in Events : CancelIgnored(e) \/ DeleteCancelled(e) \/ DeleteFails(e) \/ Take(e)
  \/ RecordCancelled
  \/ Patch \/ Create \/ CreateLost \/ WriteFails \/ Record
  \/ BeginExceptions
  \/ \E o \in Occurrences :
       AlreadyApplied(o) \/ ApplyException(o) \/ AlreadyGone(o) \/ ExceptionFails(o)
  \/ RecordException
  \/ Finish

Next ==
  \/ \E i \in Items : Edit(i) \/ Cancel(i)
  \/ \E m \in {"full", "delta"} : Start(m)
  \/ Step
  \/ Interrupt

Spec == Init /\ [][Next]_vars

\* A run that has started goes on, and the operator keeps scheduling delta
\* passes.
FairSpec == Spec /\ WF_vars(Step) /\ SF_vars(Start("delta"))

-----------------------------------------------------------------------------
(* Properties *)

\* The committed cursor covers no version of an event, no exception to a series
\* and no cancellation that the destination lacks (README: "nothing falls behind
\* the delta", "cancelled events are removed").  Excepted are what a full pass
\* skipped as done, the exceptions of a series that was migrated as a single
\* event, the cancellations the job did not act on, since the delete was refused
\* or the row was not "done", and the cancellation of an occurrence that an
\* earlier version moved away: it stays, and the cursor passes.
BehindCursorApplied ==
  /\ TypeOK
  /\ cursor # NoCursor =>
       /\ \A e \in Events \ stale : cursor[e] \in 1..MaxVer /\ ver[e] # Gone =>
            destId[e] \in DOMAIN live /\ live[destId[e]] >= cursor[e]
       /\ \A o \in Occurrences \ stale :
            /\ ver[Master[o]] # Gone /\ Master[o] \notin flat
            /\ ~(o \in away /\ cursor[o] = Gone)
            => instance[o] >= cursor[o]
       /\ \A e \in Events \ kept : cursor[e] = Gone => destId[e] \notin DOMAIN live

\* No pass of either mode makes another copy of an event it has a destination
\* id for or forgets the id of a copy that is there, none takes an event away
\* that is not cancelled, and no occurrence goes back to an earlier version.
KeepsCopy(e) ==
  /\ destId[e] # NoId => made'[e] = made[e]
  /\ destId[e] \in DOMAIN live => destId'[e] = destId[e]
  /\ ver[e] # Gone => \A d \in DOMAIN live : d[1] = e => d \in DOMAIN live'
UpdatesInPlace ==
  [][/\ \A e \in Events : KeepsCopy(e)
     /\ \A o \in Occurrences : instance'[o] >= instance[o]]_vars

\* A command that leaves an item failed exits 1, however often it failed before
\* (README: exit 1 for "any item that ended `failed`").  A listing that broke off
\* is counted too, but it leaves no item failed.
FailedItemReported ==
  [][pc = "exceptions" /\ pc' = "idle" /\ failures > broken => exitCode' = 1]_vars

\* A cursor that covers the cancellation of an event leaves no recorded copy
\* of it, whether or not the job acted on the cancellation.
EveryCancelledRemoved ==
  cursor # NoCursor =>
    \A e \in Events : cursor[e] = Gone => destId[e] \notin DOMAIN live

\* Once a cursor has been committed, delta passes alone bring over every
\* version of an event and every exception of a series, whatever failed on the
\* way, unless a full pass skipped the item as done or the event is cancelled.
\* An exception of a series that was migrated as a single event never arrives,
\* nor does a later version of an occurrence that an earlier one moved away: an
\* edit fails in every run, a cancellation is taken for done.
ChangesArrive ==
  /\ \A e \in Events : \A v \in 1..MaxVer :
       (cursor # NoCursor /\ ver[e] >= v)
         ~> \/ ver[e] = Gone \/ e \in stale
            \/ destId[e] \in DOMAIN live /\ live[destId[e]] >= v
  /\ \A o \in Occurrences : \A v \in 1..Gone :
       (cursor # NoCursor /\ ver[o] >= v)
         ~> \/ ver[Master[o]] = Gone \/ o \in stale \/ Master[o] \in flat
            \/ o \in away \/ instance[o] >= v
=============================================================================
