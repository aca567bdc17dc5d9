-------------------------- MODULE CalendarJob_proofs --------------------------
(* Theorems about CalendarJob, for any calendar of events and occurrences,  *)
(* any number of their versions, any series Graph cannot express and every  *)
(* fault budget, for both connectors.                                       *)
EXTENDS CalendarJob, TLAPS

USE DEF dest, rows, listing, hand, outcome, ghosts, Gone, Versions, InHand

\* The job goes through a listing.
Running == {"loop", "exceptions"} \cup InHand

\* Only what exists is listed, and a pass that is over has nothing ahead of it.
\* Events are written and removed in the pass, occurrences after it; only what was
\* not cancelled when it was listed is written.
Targets ==
  /\ pc \notin Running =>
       todo = {} /\ exceptions = {} /\ failures = 0 /\ touched = {} /\ broken = 0
  /\ pc \in {"exceptions", "noteOcc"} => todo = {}
  /\ \A i \in todo : listed[i] > 0
  /\ pc \in {"write", "record", "drop"} => cur \in Events
  /\ pc = "noteOcc" => cur \in Occurrences
  /\ pc \in {"write", "record"} => listed[cur] \in 1..MaxVer
  /\ mode = "delta" => cursor # NoCursor
  /\ broken = 1 => todo = {}

\* Writing one destination event leaves the others alone.
LEMMA PutWrites ==
  ASSUME NEW d, NEW v, Put(d, v)
  PROVE  /\ DOMAIN live' = DOMAIN live \cup {d}
         /\ live'[d] = v
         /\ \A x \in DOMAIN live \ {d} : live'[x] = live[x]
  BY DEF Put

\* The databases and the run are well typed in every reachable state.
THEOREM TypeCorrect == Spec => [](TypeOK /\ Targets)
<1> USE ItemsAssumption, BoundsAssumption
<1>1. Init => TypeOK /\ Targets
  <2> SUFFICES ASSUME Init PROVE TypeOK /\ Targets
    OBVIOUS
  <2>1. DOMAIN live = {} /\ flat \in SUBSET Events
    BY DEF Init
  <2> QED
    BY <2>1 DEF Init, TypeOK, Targets, Cursors, Running, NoCode, Items
<1>2. TypeOK /\ Targets /\ [Next]_vars => (TypeOK /\ Targets)'
  <2> SUFFICES ASSUME TypeOK, Targets, [Next]_vars PROVE TypeOK' /\ Targets'
    OBVIOUS
  <2> USE DEF TypeOK, Targets, Running, Cursors, Ids, Fault, BackTo, Upsert, Items, NoCode
  <2>1. ASSUME NEW i \in Items, Edit(i) \/ Cancel(i) PROVE TypeOK' /\ Targets'
    BY <2>1 DEF Edit, Cancel, Change
  <2>2. ASSUME NEW m \in {"full", "delta"}, Start(m) PROVE TypeOK' /\ Targets'
    BY <2>2 DEF Start
  <2>3. CASE Capture
    BY <2>3 DEF Capture
  <2>4. CASE ListEvents
    BY <2>4 DEF ListEvents, Listable
  <2>5. CASE ListFails
    BY <2>5 DEF ListFails
  <2>6. CASE EnumerationFails
    BY <2>6 DEF EnumerationFails
  <2>7. ASSUME NEW i \in Items, SkipDone(i) PROVE TypeOK' /\ Targets'
    BY <2>7 DEF SkipDone, Yields
  <2>8. ASSUME NEW o \in Occurrences, PutOff(o) PROVE TypeOK' /\ Targets'
    BY <2>8 DEF PutOff, Yields
  <2>9. ASSUME NEW e \in Events, CancelIgnored(e) \/ DeleteFails(e) PROVE TypeOK' /\ Targets'
    <3>1. faults' \in 0..MaxFaults
      BY <2>9 DEF CancelIgnored, DeleteFails
    <3> QED
      BY <2>9, <3>1 DEF CancelIgnored, DeleteFails, Yields
  <2>10. ASSUME NEW e \in Events, DeleteCancelled(e) PROVE TypeOK' /\ Targets'
    BY <2>10 DEF DeleteCancelled, Yields
  <2>11. ASSUME NEW e \in Events, Take(e) PROVE TypeOK' /\ Targets'
    <3>1. listed[e] \in 1..MaxVer /\ pc = "loop"
      BY <2>11 DEF Take, Yields
    <3> QED
      BY <2>11, <3>1 DEF Take, Yields
  <2>12. CASE RecordCancelled
    BY <2>12 DEF RecordCancelled
  <2>13. CASE Patch
    <3>0. destId[cur] \in Ids /\ Put(destId[cur], listed[cur])
      BY <2>13 DEF Patch
    <3>1. /\ DOMAIN live' = DOMAIN live \cup {destId[cur]} /\ live'[destId[cur]] = listed[cur]
          /\ \A d \in DOMAIN live \ {destId[cur]} : live'[d] = live[d]
      BY <3>0, PutWrites
    <3> QED
      BY <2>13, <3>0, <3>1 DEF Patch
  <2>14. CASE Create \/ CreateLost
    <3>0. NewId(cur) \in Ids /\ Put(NewId(cur), listed[cur]) /\ pc = "write"
      BY <2>14 DEF Create, CreateLost, NewId
    <3>1. /\ DOMAIN live' = DOMAIN live \cup {NewId(cur)} /\ live'[NewId(cur)] = listed[cur]
          /\ \A d \in DOMAIN live \ {NewId(cur)} : live'[d] = live[d]
      BY <3>0, PutWrites
    <3> QED
      BY <2>14, <3>0, <3>1 DEF Create, CreateLost
  <2>15. CASE WriteFails
    BY <2>15 DEF WriteFails, MarkFailed
  <2>16. CASE Record
    BY <2>16 DEF Record
  <2>17. CASE BeginExceptions
    BY <2>17 DEF BeginExceptions
  <2>18. ASSUME NEW o \in Occurrences, AlreadyApplied(o) \/ AlreadyGone(o)
         PROVE  TypeOK' /\ Targets'
    BY <2>18 DEF AlreadyApplied, AlreadyGone, Applies
  <2>19. ASSUME NEW o \in Occurrences, ApplyException(o) PROVE TypeOK' /\ Targets'
    BY <2>19 DEF ApplyException, Applies
  <2>20. ASSUME NEW o \in Occurrences, ExceptionFails(o) PROVE TypeOK' /\ Targets'
    BY <2>20 DEF ExceptionFails, Applies, MarkFailed
  <2>21. CASE RecordException
    BY <2>21 DEF RecordException
  <2>22. CASE Finish
    BY <2>22 DEF Finish, EndRun, NextCursor
  <2>23. CASE Interrupt
    BY <2>23 DEF Interrupt, EndRun
  <2>24. CASE UNCHANGED vars
    BY <2>24 DEF vars
  <2> HIDE DEF TypeOK, Targets
  <2> QED
    BY <2>1, <2>2, <2>3, <2>4, <2>5, <2>6, <2>7, <2>8, <2>9, <2>10, <2>11, <2>12,
       <2>13, <2>14, <2>15, <2>16, <2>17, <2>18, <2>19, <2>20, <2>21, <2>22, <2>23, <2>24
       DEF Next, Step
<1> QED
  BY <1>1, <1>2, PTL DEF Spec

-----------------------------------------------------------------------------
(* The inductive invariant *)

\* Nothing remembered of an item is ahead of the source.
Past ==
  \A i \in Items :
    /\ hash[i] <= ver[i] /\ listed[i] <= ver[i]
    /\ cursor # NoCursor => cursor[i] <= ver[i]
    /\ newCursor # NoCursor => newCursor[i] <= ver[i]
    /\ i \in Occurrences => instance[i] <= ver[i]

\* Items the run has still to settle: each is in one place, and what is remembered
\* of it is not ahead of the listing.  Where occurrences are listed, the cursor
\* comes with the listing and covers just what it shows.
Ahead == todo \cup exceptions \cup (IF cur = NoItem THEN {} ELSE {cur})
AheadTrue ==
  /\ todo \cap exceptions = {} /\ cur \notin todo \cup exceptions
  /\ \A i \in Ahead :
       /\ hash[i] <= listed[i]
       /\ cursor # NoCursor => cursor[i] <= listed[i]
       /\ newCursor # NoCursor => newCursor[i] <= listed[i]
       /\ i \in Occurrences =>
            instance[i] <= listed[i] /\ (newCursor # NoCursor => newCursor[i] = listed[i])
  /\ pc = "list" /\ Occurrences # {} => newCursor = NoCursor

\* A destination id is one made for its event, and a row that is "done" tells of
\* a version that is there.
RowsTrue ==
  /\ \A e \in Events :
       /\ destId[e] # NoId => destId[e][1] = e
       /\ Done(e) /\ ver[e] # Gone =>
            destId[e] \in DOMAIN live /\ live[destId[e]] >= hash[e]
  /\ \A o \in Occurrences : Done(o) => instance[o] >= hash[o]

\* What the run holds is at the destination, or gone from it.
HandTrue ==
  /\ pc = "record" =>
       /\ curDest \in DOMAIN live /\ curDest[1] = cur /\ live[curDest] = listed[cur]
       /\ destId[cur] \in {NoId, curDest}
  /\ pc = "drop" => listed[cur] = Gone /\ destId[cur] \notin DOMAIN live
  /\ pc = "noteOcc" => instance[cur] = listed[cur]

\* What a cursor that is committed promises of an item it has at version v.
Applied(i, v) ==
  /\ i \in Events =>
       /\ i \notin stale /\ v \in 1..MaxVer /\ ver[i] # Gone =>
            destId[i] \in DOMAIN live /\ live[destId[i]] >= v
       /\ i \notin kept /\ v = Gone => destId[i] \notin DOMAIN live
  /\ i \in Occurrences =>
       (/\ i \notin stale /\ ver[Master[i]] # Gone /\ Master[i] \notin flat
        /\ ~(i \in away /\ v = Gone)
        => instance[i] >= v)

Committed == cursor # NoCursor => \A i \in Items : Applied(i, cursor[i])

\* A run without a failure has applied what is behind it.
RunApplies ==
  pc \in Running /\ failures = 0 =>
    newCursor # NoCursor /\ \A i \in Items \ Ahead : Applied(i, newCursor[i])

\* What the run counts as failed it has left in a row, but for the listings that
\* broke off, and it does not come back to it.
Reported ==
  /\ \A i \in touched : status[i] = "failed" /\ i \notin Ahead
  /\ failures > broken => touched # {}

IInv == Past /\ AheadTrue /\ RowsTrue /\ HandTrue /\ Committed /\ RunApplies /\ Reported

\* Versions are numbers.
LEMMA VersionsAreNumbers ==
  ASSUME TypeOK
  PROVE  /\ Gone \in Nat
         /\ \A i \in Items :
              /\ ver[i] \in 0..Gone /\ hash[i] \in 0..Gone /\ listed[i] \in 0..Gone
              /\ cursor # NoCursor => cursor[i] \in 0..Gone
              /\ newCursor # NoCursor => newCursor[i] \in 0..Gone
              /\ i \in Occurrences => instance[i] \in 0..Gone
BY BoundsAssumption DEF TypeOK, Cursors

\* Ids are not the value that stands for none.
LEMMA NoIdIsNone == TypeOK => NoId \notin DOMAIN live
BY ItemsAssumption DEF TypeOK, Ids

\* What was applied stays so while the destination and the rows are left alone.
LEMMA AppliedKept ==
  ASSUME NEW i \in Items, NEW v, Applied(i, v),
         \A k \in Items : ver[k] = Gone => ver'[k] = Gone,
         UNCHANGED <<flat, dest, destId>>,
         stale \subseteq stale', kept \subseteq kept'
  PROVE  Applied(i, v)'
BY ItemsAssumption DEF Applied, Items

\* Edits and cancellations at the source move versions up, and what is cancelled
\* stays so.
LEMMA SourceKeeps ==
  ASSUME TypeOK, IInv, NEW i \in Items, Edit(i) \/ Cancel(i)
  PROVE  IInv'
<1> USE ItemsAssumption, BoundsAssumption
<1>1. /\ \A k \in Items : ver[k] <= ver'[k] /\ (ver[k] = Gone => ver'[k] = Gone)
                          /\ ver[k] \in Nat /\ ver'[k] \in Nat
      /\ UNCHANGED <<flat, dest, rows, cursor, pc, listing, todo, exceptions, hand, outcome, ghosts>>
  BY DEF Edit, Cancel, Change, TypeOK
<1>2. Past'
  BY <1>1, VersionsAreNumbers DEF IInv, Past
<1>3. AheadTrue' /\ HandTrue' /\ Reported'
  BY <1>1 DEF IInv, AheadTrue, HandTrue, Reported, Ahead
<1>4. RowsTrue'
  BY <1>1 DEF IInv, RowsTrue, Done, Items
<1>5. \A k \in Items, v \in Nat : Applied(k, v) => Applied(k, v)'
  BY <1>1, AppliedKept
<1>6. Committed' /\ RunApplies'
  BY <1>1, <1>5, VersionsAreNumbers DEF IInv, Committed, RunApplies, Applied, Ahead
<1> QED
  BY <1>2, <1>3, <1>4, <1>6 DEF IInv

\* A listing shows everything the new cursor covers that is not behind the old one.
LEMMA ListingKeeps ==
  ASSUME TypeOK, Targets, IInv, ListEvents
  PROVE  IInv'
<1> USE ItemsAssumption, BoundsAssumption
<1>1. /\ pc = "list" /\ pc' = "loop" /\ listed' = ver /\ cur = NoItem /\ exceptions = {}
      /\ newCursor' = IF newCursor = NoCursor THEN ver ELSE newCursor
      /\ todo' = {i \in Items : Listable(i) /\ (mode = "delta" => ver[i] > cursor[i])}
      /\ failures = 0 /\ touched = {}
      /\ UNCHANGED <<ver, flat, dest, rows, cursor, mode, exceptions, hand, outcome, ghosts>>
  BY DEF ListEvents, TypeOK, Targets, Running
<1>2. newCursor' # NoCursor /\ newCursor' \in Cursors
  BY <1>1 DEF TypeOK, Cursors
<1>3. \A i \in Items : newCursor'[i] <= ver[i] /\ newCursor'[i] \in Nat /\ ver[i] \in Nat
  BY <1>1, VersionsAreNumbers DEF IInv, Past
<1>e. \A i \in Occurrences : newCursor'[i] = ver[i]
  BY <1>1 DEF IInv, AheadTrue
<1>4. Past' /\ RowsTrue' /\ HandTrue' /\ Reported'
  BY <1>1, <1>3 DEF IInv, Past, RowsTrue, HandTrue, Reported, Done
<1>5. AheadTrue'
  BY <1>1, <1>3, <1>e DEF IInv, Past, AheadTrue, Ahead
<1>6. Committed'
  BY <1>1 DEF IInv, Committed, Applied
<1>7. ASSUME NEW i \in Items, i \notin todo' PROVE Applied(i, newCursor'[i])
  <2>1. CASE ver[i] = 0
    BY <1>3, <2>1, VersionsAreNumbers DEF Applied, Items
  <2>2. CASE i \in Occurrences /\ ver[Master[i]] = Gone
    BY <2>2 DEF Applied
  <2>3. CASE Listable(i)
    <3>1. mode = "delta" /\ cursor # NoCursor /\ cursor[i] <= ver[i] /\ ~(ver[i] > cursor[i])
      BY <1>1, <1>7, <2>3 DEF TypeOK, Targets, IInv, Past
    <3>2. cursor[i] = ver[i] /\ Applied(i, cursor[i])
      BY <3>1, VersionsAreNumbers DEF IInv, Committed
    <3> QED
      BY <1>3, <1>e, <3>2, VersionsAreNumbers DEF Applied, TypeOK, Items
  <2> QED
    BY <2>1, <2>2, <2>3, VersionsAreNumbers DEF Listable
<1>8. RunApplies'
  BY <1>1, <1>2, <1>7 DEF RunApplies, Applied, Ahead
<1> QED
  BY <1>4, <1>5, <1>6, <1>8 DEF IInv

\* An item that is passed over has been applied or is excepted from now on; the
\* others are put off or in hand.
LEMMA YieldKeeps ==
  ASSUME TypeOK, Targets, IInv, NEW i \in Items,
         \/ SkipDone(i)
         \/ i \in Occurrences /\ PutOff(i)
         \/ i \in Events /\ (CancelIgnored(i) \/ DeleteFails(i) \/ Take(i))
  PROVE  IInv'
<1> USE ItemsAssumption, BoundsAssumption
<1>1. /\ pc = "loop" /\ pc' \in {"loop", "write"} /\ i \in todo /\ todo' = todo \ {i}
      /\ cur = NoItem /\ stale \subseteq stale' /\ kept \subseteq kept'
      /\ UNCHANGED <<ver, flat, dest, rows, cursor, listing, outcome, broken>>
  BY DEF SkipDone, PutOff, CancelIgnored, DeleteFails, Take, Yields, TypeOK
<1>2. /\ Ahead' \subseteq Ahead /\ Ahead \ {i} \subseteq Ahead' /\ i \notin todo' /\ i \notin exceptions
      /\ (todo' \cap exceptions' = {} /\ cur' \notin todo' \cup exceptions')
      /\ i \in Ahead' \/ (exceptions' = exceptions /\ cur' = NoItem)
  <2>1. i \notin exceptions /\ todo \cap exceptions = {} /\ NoItem \notin Items
    BY <1>1 DEF IInv, AheadTrue
  <2>2. CASE exceptions' = exceptions /\ cur' = NoItem
    BY <1>1, <2>1, <2>2 DEF Ahead, IInv, AheadTrue, TypeOK
  <2>3. CASE PutOff(i)
    <3>1. cur' = cur /\ exceptions' = exceptions \cup {i}
      BY <2>3 DEF PutOff
    <3>2. Ahead' = todo' \cup exceptions \cup {i} /\ Ahead = todo \cup exceptions
      BY <1>1, <2>1, <3>1 DEF Ahead
    <3>3. NoItem \notin todo /\ NoItem \notin exceptions'
      BY <2>1, <3>1 DEF TypeOK, Items
    <3> QED
      BY <1>1, <2>1, <3>1, <3>2, <3>3
  <2>4. CASE Take(i)
    <3>1. cur' = i /\ exceptions' = exceptions
      BY <2>4 DEF Take
    <3>2. Ahead' = todo' \cup exceptions \cup {i} /\ Ahead = todo \cup exceptions
      BY <1>1, <2>1, <3>1 DEF Ahead
    <3> QED
      BY <1>1, <2>1, <3>1, <3>2
  <2>5. SkipDone(i) \/ CancelIgnored(i) \/ DeleteFails(i) => exceptions' = exceptions /\ cur' = cur
    BY DEF SkipDone, CancelIgnored, DeleteFails
  <2> QED
    BY <1>1, <2>2, <2>3, <2>4, <2>5
<1>3. Past' /\ RowsTrue'
  BY <1>1 DEF IInv, Past, RowsTrue, Done
<1>4. HandTrue'
  BY <1>1 DEF HandTrue
<1>5. AheadTrue' /\ Reported'
  BY <1>1, <1>2 DEF IInv, AheadTrue, Reported
<1>6. \A k \in Items, v \in Nat : Applied(k, v) => Applied(k, v)'
  BY <1>1, AppliedKept
<1>7. Committed'
  BY <1>1, <1>6, VersionsAreNumbers DEF IInv, Committed, Applied
<1>8. ASSUME failures = 0, i \notin Ahead', NEW v \in Nat, v = newCursor[i]
      PROVE  Applied(i, v)'
  <2>0. v <= listed[i] /\ newCursor # NoCursor /\ listed[i] <= ver[i]
    BY <1>1, <1>8 DEF IInv, RunApplies, Running, AheadTrue, Ahead, Past
  <2>1. CASE SkipDone(i) /\ hash[i] = listed[i] /\ i \notin stale'
    <3>1. Done(i) /\ listed[i] # Gone
      BY <2>1 DEF SkipDone, Skips, Same
    <3>2. CASE i \in Events
      BY <1>1, <2>0, <2>1, <3>1, <3>2, VersionsAreNumbers DEF IInv, RowsTrue, Applied, TypeOK
    <3>3. CASE i \in Occurrences
      BY <1>1, <2>0, <2>1, <3>1, <3>3, VersionsAreNumbers DEF IInv, RowsTrue, Applied
    <3> QED
      BY <3>2, <3>3 DEF Items
  <2>2. CASE SkipDone(i) /\ i \in stale'
    BY <2>0, <2>2, <1>1, VersionsAreNumbers DEF Applied, SkipDone, Skips, Items
  <2>3. CASE i \in Events /\ (CancelIgnored(i) \/ DeleteFails(i))
    <3>1. listed[i] = Gone /\ i \in kept'
      BY <2>3 DEF CancelIgnored, DeleteFails
    <3>2. ver'[i] = Gone
      BY <1>1, <2>0, <3>1, VersionsAreNumbers
    <3> QED
      BY <2>3, <3>1, <3>2 DEF Applied
  <2>4. CASE PutOff(i) \/ Take(i)
    BY <1>1, <1>8, <2>4 DEF PutOff, Take, Ahead, TypeOK
  <2> QED
    BY <2>1, <2>2, <2>3, <2>4 DEF SkipDone
<1>9. RunApplies'
  <2>1. \A k \in Items \ Ahead' : k # i => k \in Items \ Ahead
    BY <1>2
  <2> QED
    BY <1>1, <1>6, <1>8, <2>1, VersionsAreNumbers DEF IInv, RunApplies, Applied, Running
<1> QED
  BY <1>3, <1>4, <1>5, <1>7, <1>9 DEF IInv

\* The event that is taken away is cancelled, and it is its own.
LEMMA RemovalKeeps ==
  ASSUME TypeOK, Targets, IInv, RecordCancelled \/ \E e \in Events : DeleteCancelled(e)
  PROVE  IInv'
<1> USE ItemsAssumption, BoundsAssumption
<1>1. ASSUME NEW e \in Events, DeleteCancelled(e) PROVE IInv'
  <2>1. /\ pc = "loop" /\ pc' = "drop" /\ cur = NoItem /\ cur' = e /\ e \in todo /\ todo' = todo \ {e}
        /\ listed[e] = Gone /\ destId[e] \in DOMAIN live /\ e \in Items
        /\ UNCHANGED <<ver, flat, made, instance, away, rows, cursor, listing, exceptions, curDest,
                       outcome, ghosts>>
    BY <1>1 DEF DeleteCancelled, Yields, TypeOK, Items
  <2>2. ver[e] = Gone /\ e # NoItem
    BY <2>1, VersionsAreNumbers DEF IInv, Past
  <2>3. /\ DOMAIN live' = DOMAIN live \ {destId[e]}
        /\ \A d \in DOMAIN live' : live'[d] = live[d]
    BY <1>1 DEF DeleteCancelled
  <2>4. \A k \in Events : k # e /\ destId[k] \in DOMAIN live => destId[k] \in DOMAIN live'
    BY <2>1, <2>3, NoIdIsNone DEF IInv, RowsTrue
  <2>5. \A k \in Items, v \in Nat : Applied(k, v) => Applied(k, v)'
    BY <2>1, <2>2, <2>3, <2>4 DEF Applied
  <2>6. Ahead' = Ahead
    BY <2>1, <2>2 DEF Ahead
  <2>7. AheadTrue' /\ Reported'
    <3>1. e \notin todo' \cup exceptions' /\ todo' \cap exceptions' = {}
      BY <2>1 DEF IInv, AheadTrue
    <3> QED
      BY <2>1, <2>6, <3>1 DEF IInv, AheadTrue, Reported
  <2>8. Past' /\ HandTrue'
    BY <2>1, <2>3 DEF IInv, Past, HandTrue
  <2>9. RowsTrue'
    BY <2>1, <2>2, <2>3, <2>4 DEF IInv, RowsTrue, Done
  <2>10. Committed'
    BY <2>1, <2>5, VersionsAreNumbers DEF IInv, Committed, Applied
  <2>11. RunApplies'
    BY <2>1, <2>5, <2>6, VersionsAreNumbers DEF IInv, RunApplies, Applied, Running
  <2> QED
    BY <2>7, <2>8, <2>9, <2>10, <2>11 DEF IInv
<1>2. CASE RecordCancelled
  <2>1. /\ pc = "drop" /\ pc' = "loop" /\ cur \in Events /\ cur' = NoItem /\ cur \in Items
        /\ listed[cur] = Gone /\ destId[cur] \notin DOMAIN live
        /\ status' = [status EXCEPT ![cur] = "skipped"]
        /\ UNCHANGED <<ver, flat, dest, hash, destId, cursor, listing, todo, exceptions,
                       outcome, ghosts>>
    BY <1>2 DEF RecordCancelled, BackTo, Targets, IInv, HandTrue, Items
  <2>2. ver[cur] = Gone
    BY <2>1, VersionsAreNumbers DEF IInv, Past
  <2>3. Ahead' = Ahead \ {cur} /\ cur \in Ahead
    BY <2>1 DEF Ahead, IInv, AheadTrue
  <2>4. \A k \in Items, v \in Nat : Applied(k, v) => Applied(k, v)'
    BY <2>1, AppliedKept
  <2>5. \A v \in Nat : Applied(cur, v)
    BY <2>1, <2>2 DEF Applied
  <2>6. AheadTrue' /\ Reported'
    <3>1. NoItem \notin todo \cup exceptions
      BY DEF TypeOK, Items
    <3>2. \A k \in touched : k # cur /\ status'[k] = status[k]
      BY <2>1, <2>3 DEF IInv, Reported, TypeOK
    <3> QED
      BY <2>1, <2>3, <3>1, <3>2 DEF IInv, AheadTrue, Reported
  <2>7. Past' /\ HandTrue'
    BY <2>1 DEF IInv, Past, HandTrue
  <2>8. RowsTrue'
    BY <2>1 DEF IInv, RowsTrue, Done, TypeOK
  <2>9. Committed'
    BY <2>1, <2>4, VersionsAreNumbers DEF IInv, Committed, Applied
  <2>10. RunApplies'
    <3> SUFFICES ASSUME failures = 0
                 PROVE  newCursor # NoCursor /\ \A k \in Items \ Ahead' : Applied(k, newCursor[k])
      BY <2>1 DEF RunApplies, Applied
    <3> QED
      BY <2>1, <2>3, <2>5, VersionsAreNumbers DEF IInv, RunApplies, Running
  <2> QED
    BY <2>6, <2>7, <2>8, <2>9, <2>10 DEF IInv
<1> QED
  BY <1>1, <1>2

\* A write goes to the event's own copy or to a new one.
LEMMA WriteKeeps ==
  ASSUME TypeOK, Targets, IInv, Patch \/ Create \/ CreateLost
  PROVE  IInv'
<1> USE ItemsAssumption, BoundsAssumption
<1>0. /\ pc = "write" /\ cur \in Events /\ cur \in Items /\ listed[cur] \in Nat
      /\ listed[cur] # Gone /\ cur # NoItem /\ cur \in Ahead
  BY VersionsAreNumbers DEF Patch, Create, CreateLost, Targets, Items, Ahead
<1>1. ASSUME NEW d \in Ids, d[1] = cur, destId[cur] \in {NoId, d},
             Put(d, listed[cur]),
             UNCHANGED <<ver, flat, instance, away, rows, cursor, listing, todo, exceptions, cur,
                         outcome, stale, kept, broken>>,
             \/ pc' = "record" /\ curDest' = d
             \/ pc' = "write"
      PROVE  IInv'
  <2>1. /\ DOMAIN live' = DOMAIN live \cup {d} /\ live'[d] = listed[cur]
        /\ \A x \in DOMAIN live \ {d} : live'[x] = live[x]
    BY <1>1, PutWrites
  <2>2. \A k \in Events : k # cur /\ destId[k] # NoId => destId[k] # d
    BY <1>1 DEF IInv, RowsTrue
  <2>c. d # NoId /\ NoId \notin DOMAIN live
    BY NoIdIsNone DEF Ids
  <2>3. ASSUME NEW k \in Items, NEW v \in Nat, Applied(k, v), k = cur => v <= listed[k]
        PROVE  Applied(k, v)'
    <3>1. k \in Events /\ k # cur /\ destId[k] \in DOMAIN live =>
            destId[k] \in DOMAIN live' /\ live'[destId[k]] = live[destId[k]]
      BY <2>1, <2>2, <2>c
    <3>2. k \in Events /\ k # cur /\ destId[k] \notin DOMAIN live => destId[k] \notin DOMAIN live'
      BY <2>1, <2>2, <2>c
    <3>3. k = cur /\ destId[k] \in DOMAIN live => destId[k] \in DOMAIN live' /\ live'[destId[k]] = listed[cur]
      BY <1>1, <2>1, <2>c
    <3>4. k = cur => v # Gone
      BY <1>0, <2>3, VersionsAreNumbers
    <3> QED
      BY <1>0, <1>1, <2>3, <3>1, <3>2, <3>3, <3>4 DEF Applied
  <2>4. \A k \in Ahead : /\ cursor # NoCursor => cursor[k] <= listed[k]
                         /\ newCursor # NoCursor => newCursor[k] <= listed[k]
                         /\ hash[k] <= listed[k]
    BY DEF IInv, AheadTrue
  <2>5. Past' /\ AheadTrue' /\ Reported' /\ HandTrue' /\ Ahead' = Ahead
    BY <1>0, <1>1, <2>1 DEF IInv, Past, AheadTrue, Reported, HandTrue, Ahead
  <2>6. RowsTrue'
    <3>1. ASSUME NEW k \in Events, Done(k), ver[k] # Gone
          PROVE  destId[k] \in DOMAIN live' /\ live'[destId[k]] >= hash[k]
      <4>1. CASE k = cur
        BY <4>1, <3>1, <1>0, <1>1, <2>1, <2>4, <2>c DEF IInv, RowsTrue
      <4>2. CASE k # cur
        BY <4>2, <3>1, <2>1, <2>2, <2>c DEF IInv, RowsTrue
      <4> QED
        BY <4>1, <4>2
    <3> QED
      BY <1>1, <3>1 DEF IInv, RowsTrue, Done
  <2>7. Committed'
    BY <1>0, <1>1, <2>3, <2>4, VersionsAreNumbers DEF IInv, Committed, Applied
  <2>8. RunApplies'
    <3> SUFFICES ASSUME failures = 0
                 PROVE  newCursor # NoCursor /\ \A k \in Items \ Ahead : Applied(k, newCursor[k])'
      BY <1>1, <2>5 DEF RunApplies
    <3> QED
      BY <1>0, <1>1, <2>3, VersionsAreNumbers DEF IInv, RunApplies, Applied, Running
  <2> QED
    BY <2>5, <2>6, <2>7, <2>8 DEF IInv
<1>2. CASE Patch
  <2>1. destId[cur] \in Ids /\ destId[cur][1] = cur
    BY <1>0, <1>2, NoIdIsNone DEF Patch, TypeOK, IInv, RowsTrue
  <2> QED
    BY <1>0, <1>1, <1>2, <2>1 DEF Patch
<1>3. CASE Create \/ CreateLost
  <2>1. NewId(cur) \in Ids /\ NewId(cur)[1] = cur
    BY <1>0 DEF NewId, TypeOK, Ids
  <2> QED
    BY <1>0, <1>1, <1>3, <2>1 DEF Create, CreateLost
<1> QED
  BY <1>2, <1>3

\* The record points to the copy in hand, or keeps what it said of one that could
\* not be written.
LEMMA RecordKeeps ==
  ASSUME TypeOK, Targets, IInv, Record \/ WriteFails
  PROVE  IInv'
<1> USE ItemsAssumption, BoundsAssumption
<1>0. /\ pc \in {"record", "write"} /\ cur \in Events /\ cur \in Items /\ listed[cur] # Gone
      /\ pc' = "loop" /\ cur' = NoItem /\ curDest' = NoId
      /\ UNCHANGED <<ver, flat, dest, cursor, listing, todo, exceptions, kept, broken>>
  BY DEF Record, WriteFails, BackTo, Targets, Items
<1>1. Ahead' = Ahead \ {cur} /\ cur \in Ahead /\ cur \notin touched
  BY <1>0 DEF Ahead, IInv, AheadTrue, Reported
<1>2. /\ listed[cur] \in Nat /\ listed[cur] <= ver[cur] /\ hash[cur] <= listed[cur] /\ ver[cur] \in Nat
      /\ cursor # NoCursor => cursor[cur] \in Nat /\ cursor[cur] <= listed[cur]
      /\ newCursor # NoCursor => newCursor[cur] \in Nat /\ newCursor[cur] <= listed[cur]
  BY <1>0, <1>1, VersionsAreNumbers DEF IInv, AheadTrue, Past
<1>3. todo' \cap exceptions' = {} /\ cur' \notin todo' \cup exceptions'
  BY <1>0 DEF IInv, AheadTrue, TypeOK, Items
<1>4. CASE Record
  <2>1. /\ pc = "record" /\ stale' = stale \ {cur} /\ UNCHANGED <<outcome, kept>>
        /\ curDest \in DOMAIN live /\ curDest[1] = cur /\ live[curDest] = listed[cur]
        /\ destId[cur] \in {NoId, curDest}
    BY <1>4 DEF Record, IInv, HandTrue
  <2>2. /\ \A k \in Items : /\ status'[k] = IF k = cur THEN "done" ELSE status[k]
                            /\ hash'[k] = IF k = cur THEN listed[cur] ELSE hash[k]
        /\ \A k \in Events : destId'[k] = IF k = cur THEN curDest ELSE destId[k]
    BY <1>0, <1>4 DEF Record, Upsert, TypeOK
  <2>3. \A k \in Items, v \in Nat : k # cur /\ Applied(k, v) => Applied(k, v)'
    BY <1>0, <2>1, <2>2 DEF Applied
  <2>4. ASSUME NEW k \in Items, k = cur, NEW v \in Nat, v <= listed[k] PROVE Applied(k, v)'
    BY <1>0, <1>2, <2>1, <2>2, <2>4, VersionsAreNumbers DEF Applied
  <2>5. Past'
    BY <1>0, <1>2, <2>2 DEF IInv, Past
  <2>6. AheadTrue' /\ Reported'
    <3>0. \A k \in Ahead' : k \in Ahead /\ hash'[k] = hash[k]
      BY <1>1, <2>2 DEF Ahead, TypeOK, Items
    <3>1. AheadTrue'
      BY <1>0, <1>3, <2>1, <3>0 DEF IInv, AheadTrue
    <3>2. Reported'
      BY <1>0, <1>1, <2>1, <2>2 DEF IInv, Reported, TypeOK
    <3> QED
      BY <3>1, <3>2
  <2>7. RowsTrue'
    <3>1. hash'[cur] = listed[cur] /\ destId'[cur] = curDest /\ listed[cur] >= listed[cur]
      BY <1>0, <1>2, <2>2
    <3>2. \A o \in Occurrences : o # cur
      BY <1>0
    <3> QED
      BY <1>0, <2>1, <2>2, <3>1, <3>2 DEF IInv, RowsTrue, Done, Items
  <2>8. HandTrue'
    BY <1>0 DEF HandTrue
  <2>9. Committed'
    BY <1>0, <1>2, <2>3, <2>4, VersionsAreNumbers DEF IInv, Committed, Applied
  <2>10. RunApplies'
    <3> SUFFICES ASSUME failures = 0
                 PROVE  newCursor # NoCursor /\ \A k \in Items \ Ahead' : Applied(k, newCursor[k])'
      BY <1>0, <2>1 DEF RunApplies
    <3> QED
      BY <1>0, <1>1, <1>2, <2>3, <2>4, VersionsAreNumbers DEF IInv, RunApplies, Applied, Running
  <2> QED
    BY <2>5, <2>6, <2>7, <2>8, <2>9, <2>10 DEF IInv
<1>5. CASE WriteFails
  <2>1. /\ failures' = failures + 1 /\ failures \in Nat /\ touched' = touched \cup {cur}
        /\ UNCHANGED <<stale, kept>>
    BY <1>5 DEF WriteFails, MarkFailed, TypeOK
  <2>2. /\ hash' = hash /\ destId' = destId
        /\ \A k \in Items : status'[k] = IF k = cur THEN "failed" ELSE status[k]
    BY <1>0, <1>5 DEF WriteFails, MarkFailed, Upsert, TypeOK
  <2>3. \A k \in Items, v \in Nat : Applied(k, v) => Applied(k, v)'
    BY <1>0, <2>1, <2>2, AppliedKept
  <2>4. Past' /\ HandTrue' /\ RunApplies'
    BY <1>0, <2>1, <2>2 DEF IInv, Past, HandTrue, RunApplies
  <2>5. AheadTrue'
    BY <1>0, <1>1, <1>3, <2>2 DEF IInv, AheadTrue
  <2>6. Reported'
    BY <1>0, <1>1, <2>1, <2>2 DEF IInv, Reported, TypeOK
  <2>7. RowsTrue'
    BY <1>0, <2>2 DEF IInv, RowsTrue, Done, Items
  <2>8. Committed'
    BY <1>0, <2>3, VersionsAreNumbers DEF IInv, Committed, Applied
  <2> QED
    BY <2>4, <2>5, <2>6, <2>7, <2>8 DEF IInv
<1> QED
  BY <1>4, <1>5

\* An occurrence is brought to the version listed, or excepted, or counted.
LEMMA ExceptionKeeps ==
  ASSUME TypeOK, Targets, IInv, NEW o \in Occurrences,
         AlreadyApplied(o) \/ ApplyException(o) \/ AlreadyGone(o) \/ ExceptionFails(o)
  PROVE  IInv'
<1> USE ItemsAssumption, BoundsAssumption
<1>0. /\ pc = "exceptions" /\ cur = NoItem /\ o \in exceptions /\ exceptions' = exceptions \ {o}
      /\ o \in Items /\ o # NoItem /\ o \notin Events
      /\ UNCHANGED <<ver, flat, live, made, cursor, listing, todo, curDest, stale, kept, broken>>
  BY DEF AlreadyApplied, ApplyException, AlreadyGone, ExceptionFails, Applies, TypeOK, Items
<1>1. Ahead = todo \cup exceptions /\ o \in Ahead /\ o \notin todo /\ o \notin touched
  BY <1>0 DEF Ahead, IInv, AheadTrue, Reported
<1>2. /\ listed[o] \in Nat /\ listed[o] <= ver[o] /\ listed[o] <= Gone /\ hash[o] <= listed[o]
      /\ instance[o] \in Nat /\ instance[o] <= listed[o] /\ ver[o] \in Nat /\ hash[o] \in Nat
      /\ cursor # NoCursor => cursor[o] \in Nat /\ cursor[o] <= listed[o]
      /\ newCursor # NoCursor => newCursor[o] \in Nat /\ newCursor[o] <= listed[o]
  BY <1>0, <1>1, VersionsAreNumbers DEF IInv, AheadTrue, Past
<1>3. CASE AlreadyApplied(o)
  <2>1. /\ Done(o) /\ hash[o] = listed[o] /\ pc' = pc
        /\ UNCHANGED <<rows, dest, hand, outcome>>
    BY <1>3 DEF AlreadyApplied, Same
  <2>2. Ahead' = Ahead \ {o}
    BY <1>0, <1>1, <2>1 DEF Ahead
  <2>3. \A k \in Items, v \in Nat : Applied(k, v) => Applied(k, v)'
    BY <1>0, <2>1, AppliedKept
  <2>4. \A v \in Nat : v <= listed[o] => Applied(o, v)
    BY <1>0, <1>2, <2>1 DEF IInv, RowsTrue, Applied
  <2>5. Past' /\ RowsTrue' /\ HandTrue'
    BY <1>0, <2>1 DEF IInv, Past, RowsTrue, HandTrue, Done
  <2>6. AheadTrue' /\ Reported'
    BY <1>0, <2>1, <2>2 DEF IInv, AheadTrue, Reported
  <2>7. Committed'
    BY <1>0, <2>3, VersionsAreNumbers DEF IInv, Committed, Applied
  <2>8. RunApplies'
    <3> SUFFICES ASSUME failures = 0
                 PROVE  newCursor # NoCursor /\ \A k \in Items \ Ahead' : Applied(k, newCursor[k])
      BY <1>0, <2>1 DEF RunApplies, Applied
    <3> QED
      BY <1>0, <1>2, <2>2, <2>4 DEF IInv, RunApplies, Running
  <2> QED
    BY <2>5, <2>6, <2>7, <2>8 DEF IInv
<1>4. CASE ApplyException(o)
  <2>1. /\ pc' = "noteOcc" /\ cur' = o /\ UNCHANGED <<rows, outcome>>
        /\ instance' = [instance EXCEPT ![o] = listed[o]] /\ away \subseteq away'
    BY <1>4 DEF ApplyException
  <2>2. Ahead' = Ahead
    BY <1>0, <1>1, <2>1 DEF Ahead
  <2>i. \A k \in Occurrences : instance'[k] = IF k = o THEN listed[o] ELSE instance[k]
    BY <2>1 DEF TypeOK
  <2>m. \A k \in Occurrences : instance'[k] >= instance[k]
    BY <1>2, <2>i, VersionsAreNumbers DEF Items
  <2>3. \A k \in Items, v \in Nat : Applied(k, v) => Applied(k, v)'
    <3> SUFFICES ASSUME NEW k \in Items, NEW v \in Nat, Applied(k, v) PROVE Applied(k, v)'
      OBVIOUS
    <3>1. k \in Occurrences => instance[k] \in Nat /\ instance'[k] \in Nat
      BY <1>2, <2>i, VersionsAreNumbers
    <3>2. k \in Occurrences /\ instance[k] >= v => instance'[k] >= v
      BY <2>m, <3>1
    <3> QED
      BY <1>0, <2>1, <3>2 DEF Applied
  <2>4. Past'
    BY <1>0, <1>2, <2>1, <2>i DEF IInv, Past
  <2>5. AheadTrue' /\ Reported'
    BY <1>0, <1>1, <1>2, <2>1, <2>2, <2>i DEF IInv, AheadTrue, Reported
  <2>6. HandTrue'
    BY <1>0, <2>1, <2>i DEF HandTrue
  <2>7. RowsTrue'
    <3>1. \A k \in Occurrences : Done(k) => instance'[k] >= hash[k]
      BY <1>2, <2>i, VersionsAreNumbers DEF IInv, RowsTrue
    <3> QED
      BY <1>0, <2>1, <3>1 DEF IInv, RowsTrue, Done
  <2>8. Committed'
    BY <1>0, <2>3, VersionsAreNumbers DEF IInv, Committed, Applied
  <2>9. RunApplies'
    BY <1>0, <2>1, <2>2, <2>3, VersionsAreNumbers DEF IInv, RunApplies, Applied, Running
  <2> QED
    BY <2>4, <2>5, <2>6, <2>7, <2>8, <2>9 DEF IInv
<1>5. CASE AlreadyGone(o) \/ ExceptionFails(o)
  <2>1. /\ pc' = pc /\ UNCHANGED <<dest, hand>>
        /\ \E s \in {"skipped", "failed"} : Upsert(o, s, 0, NoId)
        /\ \/ UNCHANGED outcome /\ AlreadyGone(o)
           \/ failures' = failures + 1 /\ touched' = touched \cup {o} /\ Upsert(o, "failed", 0, NoId)
    BY <1>5 DEF AlreadyGone, ExceptionFails, MarkFailed
  <2>2. /\ destId' = destId
        /\ \A k \in Items : /\ k # o => status'[k] = status[k]
                            /\ hash'[k] = IF k = o THEN 0 ELSE hash[k]
        /\ status'[o] \in {"skipped", "failed"}
        /\ failures' # failures => status'[o] = "failed"
    BY <1>0, <2>1 DEF Upsert, TypeOK
  <2>3. Ahead' = Ahead \ {o}
    BY <1>0, <1>1, <2>1 DEF Ahead
  <2>4. \A k \in Items, v \in Nat : Applied(k, v) => Applied(k, v)'
    BY <1>0, <2>1, <2>2, AppliedKept
  <2>5. Past' /\ HandTrue'
    BY <1>0, <1>2, <2>1, <2>2 DEF IInv, Past, HandTrue
  <2>6. AheadTrue'
    <3>1. \A k \in Ahead' : k \in Ahead /\ hash'[k] = hash[k]
      BY <1>1, <2>2, <2>3 DEF TypeOK, Items
    <3> QED
      BY <1>0, <2>1, <3>1 DEF IInv, AheadTrue
  <2>7. Reported'
    BY <1>0, <1>1, <2>1, <2>2, <2>3 DEF IInv, Reported, TypeOK
  <2>8. RowsTrue'
    BY <1>0, <2>1, <2>2 DEF IInv, RowsTrue, Done, Items
  <2>9. Committed'
    BY <1>0, <2>4, VersionsAreNumbers DEF IInv, Committed, Applied
  <2>10. AlreadyGone(o) => Applied(o, listed[o])
    BY <1>0, <1>2 DEF AlreadyGone, HasInstance, Applied
  <2>11. RunApplies'
    <3>1. CASE failures' # 0
      BY <3>1 DEF RunApplies
    <3>2. CASE failures' = 0
      <4>1. AlreadyGone(o) /\ failures = 0
        BY <2>1, <3>2 DEF TypeOK
      <4>0. newCursor # NoCursor => newCursor[o] = listed[o]
        BY <1>1 DEF IInv, AheadTrue
      <4>2. newCursor # NoCursor /\ \A k \in Items \ Ahead' : Applied(k, newCursor[k])
        BY <1>0, <2>3, <2>10, <4>0, <4>1 DEF IInv, RunApplies, Running
      <4> QED
        BY <1>0, <2>4, <4>2, VersionsAreNumbers DEF RunApplies, Applied
    <3> QED
      BY <3>1, <3>2
  <2> QED
    BY <2>5, <2>6, <2>7, <2>8, <2>9, <2>11 DEF IInv
<1> QED
  BY <1>3, <1>4, <1>5

\* The row of an occurrence tells of the version it shows.
LEMMA NoteKeeps ==
  ASSUME TypeOK, Targets, IInv, RecordException
  PROVE  IInv'
<1> USE ItemsAssumption, BoundsAssumption
<1>0. /\ pc = "noteOcc" /\ cur \in Occurrences /\ cur \in Items /\ cur \notin Events
      /\ pc' = "exceptions" /\ cur' = NoItem /\ stale' = stale \ {cur}
      /\ instance[cur] = listed[cur]
      /\ UNCHANGED <<ver, flat, dest, cursor, listing, todo, exceptions, outcome, kept, broken>>
  BY DEF RecordException, BackTo, Targets, Items, IInv, HandTrue
<1>1. Ahead' = Ahead \ {cur} /\ cur \in Ahead /\ cur \notin touched
  BY <1>0 DEF Ahead, IInv, AheadTrue, Reported
<1>2. /\ listed[cur] \in Nat /\ listed[cur] <= ver[cur]
      /\ cursor # NoCursor => cursor[cur] \in Nat /\ cursor[cur] <= listed[cur]
      /\ newCursor # NoCursor => newCursor[cur] \in Nat /\ newCursor[cur] <= listed[cur]
  BY <1>0, <1>1, VersionsAreNumbers DEF IInv, AheadTrue, Past
<1>3. todo' \cap exceptions' = {} /\ cur' \notin todo' \cup exceptions'
  BY <1>0 DEF IInv, AheadTrue, TypeOK, Items
<1>4. /\ destId' = destId
      /\ \A k \in Items : /\ status'[k] = IF k = cur THEN "done" ELSE status[k]
                          /\ hash'[k] = IF k = cur THEN listed[cur] ELSE hash[k]
  BY <1>0 DEF RecordException, Upsert, TypeOK
<1>5. \A k \in Items, v \in Nat : k # cur /\ Applied(k, v) => Applied(k, v)'
  BY <1>0, <1>4 DEF Applied
<1>6. ASSUME NEW k \in Items, k = cur, NEW v \in Nat, v <= listed[k] PROVE Applied(k, v)'
  BY <1>0, <1>6 DEF Applied
<1>7. Past' /\ HandTrue'
  BY <1>0, <1>2, <1>4 DEF IInv, Past, HandTrue
<1>8. AheadTrue'
  <2>1. \A k \in Ahead' : k \in Ahead /\ hash'[k] = hash[k]
    BY <1>1, <1>4 DEF Ahead, TypeOK, Items
  <2> QED
    BY <1>0, <1>3, <2>1 DEF IInv, AheadTrue
<1>9. Reported'
  BY <1>0, <1>1, <1>4 DEF IInv, Reported, TypeOK
<1>10. RowsTrue'
  BY <1>0, <1>2, <1>4 DEF IInv, RowsTrue, Done, Items
<1>11. Committed'
  BY <1>0, <1>2, <1>5, <1>6, VersionsAreNumbers DEF IInv, Committed, Applied
<1>12. RunApplies'
  <2> SUFFICES ASSUME failures = 0
               PROVE  newCursor # NoCursor /\ \A k \in Items \ Ahead' : Applied(k, newCursor[k])'
    BY <1>0 DEF RunApplies
  <2> QED
    BY <1>0, <1>1, <1>2, <1>5, <1>6, VersionsAreNumbers DEF IInv, RunApplies, Applied, Running
<1> QED
  BY <1>7, <1>8, <1>9, <1>10, <1>11, <1>12 DEF IInv

\* A listing that breaks off is counted, and nothing of it is left ahead.
LEMMA BrokenListingKeeps ==
  ASSUME TypeOK, Targets, IInv, ListFails \/ EnumerationFails
  PROVE  IInv'
<1>1. /\ pc' = "loop" /\ todo' = {} /\ cur = NoItem /\ failures' = failures + 1 /\ broken' = 1
      /\ failures \in Nat /\ broken = 0
      /\ UNCHANGED <<ver, flat, dest, rows, cursor, listing, exceptions, hand, touched, stale, kept>>
  BY DEF ListFails, EnumerationFails, TypeOK, Targets, Running
<1>2. Ahead' \subseteq Ahead
  BY <1>1 DEF Ahead
<1>3. AheadTrue' /\ Reported'
  BY <1>1, <1>2 DEF IInv, AheadTrue, Reported, TypeOK, Items
<1>4. Past' /\ RowsTrue' /\ HandTrue' /\ Committed' /\ RunApplies'
  BY <1>1 DEF IInv, Past, RowsTrue, HandTrue, Committed, RunApplies, Applied, Done
<1> QED
  BY <1>3, <1>4 DEF IInv

\* A clean end commits what was applied, every other end keeps the cursor.
LEMMA EndKeeps ==
  ASSUME TypeOK, Targets, IInv, Finish \/ Interrupt
  PROVE  IInv'
<1> USE ItemsAssumption, BoundsAssumption
<1>1. /\ pc' = "idle" /\ newCursor' = NoCursor /\ todo' = {} /\ exceptions' = {} /\ cur' = NoItem
      /\ touched' = {} /\ failures' = 0 /\ broken' = 0 /\ listed' = [i \in Items |-> 0]
      /\ UNCHANGED <<ver, flat, dest, rows, stale, kept>>
  BY DEF Finish, Interrupt, EndRun
<1>2. AheadTrue' /\ HandTrue' /\ RunApplies' /\ Reported'
  BY <1>1 DEF AheadTrue, Ahead, HandTrue, RunApplies, Reported, Running
<1>3. RowsTrue'
  BY <1>1 DEF IInv, RowsTrue, Done
<1>4. CASE cursor' = cursor
  BY <1>1, <1>2, <1>3, <1>4, VersionsAreNumbers DEF IInv, Past, Committed, Applied
<1>5. CASE cursor' # cursor
  <2>1. /\ cursor' = newCursor /\ failures = 0 /\ pc = "exceptions" /\ cur = NoItem
        /\ todo = {} /\ exceptions = {}
    BY <1>5 DEF Finish, Interrupt, NextCursor, TypeOK, Targets
  <2>2. Ahead = {}
    BY <2>1 DEF Ahead
  <2>3. Committed'
    BY <1>1, <2>1, <2>2 DEF IInv, RunApplies, Committed, Applied, Running
  <2>4. Past'
    BY <1>1, <2>1, VersionsAreNumbers DEF IInv, Past
  <2> QED
    BY <1>2, <1>3, <2>3, <2>4 DEF IInv
<1> QED
  BY <1>4, <1>5

\* The invariant is inductive.
THEOREM IInvHolds == Spec => []IInv
<1> USE ItemsAssumption, BoundsAssumption
<1>1. Init => IInv
  <2> SUFFICES ASSUME Init PROVE IInv
    OBVIOUS
  <2>1. \A i \in Items : ver[i] \in Nat /\ hash[i] = 0 /\ listed[i] = 0
    BY DEF Init
  <2> QED
    BY <2>1 DEF Init, IInv, Past, AheadTrue, Ahead, RowsTrue, Done, HandTrue, Committed,
       RunApplies, Reported, Running, Items
<1>2. TypeOK /\ Targets /\ IInv /\ [Next]_vars => IInv'
  <2> SUFFICES ASSUME TypeOK, Targets, IInv, [Next]_vars PROVE IInv'
    OBVIOUS
  <2>1. ASSUME NEW m \in {"full", "delta"}, Start(m) PROVE IInv'
    BY <2>1 DEF Start, IInv, Past, AheadTrue, Ahead, RowsTrue, Done, HandTrue, Committed,
       RunApplies, Reported, Applied, Running
  <2>2. CASE Capture
    <3>1. \A i \in Items : ver[i] <= ver[i]
      BY VersionsAreNumbers
    <3>2. Ahead = {} /\ Ahead' = {}
      BY <2>2 DEF Capture, Ahead, Targets, TypeOK, Running
    <3> QED
      BY <2>2, <3>1, <3>2 DEF Capture, IInv, Past, AheadTrue, RowsTrue, Done, HandTrue,
         Committed, RunApplies, Reported, Applied, Running
  <2>3. CASE BeginExceptions
    BY <2>3 DEF BeginExceptions, IInv, Past, AheadTrue, Ahead, RowsTrue, Done, HandTrue,
       Committed, RunApplies, Reported, Applied, Running
  <2>4. CASE UNCHANGED vars
    BY <2>4 DEF vars, IInv, Past, AheadTrue, Ahead, RowsTrue, Done, HandTrue, Committed,
       RunApplies, Reported, Applied
  <2> QED
    BY <2>1, <2>2, <2>3, <2>4, SourceKeeps, ListingKeeps, YieldKeeps, RemovalKeeps, WriteKeeps,
       RecordKeeps, ExceptionKeeps, NoteKeeps, BrokenListingKeeps, EndKeeps DEF Next, Step, Items
<1> QED
  BY <1>1, <1>2, TypeCorrect, PTL DEF Spec

-----------------------------------------------------------------------------
(* What the runs check *)

\* The committed cursor covers no version of an event, no exception and no
\* cancellation the destination lacks, but for the exceptions the property names.
THEOREM BehindCursorHolds == Spec => []BehindCursorApplied
<1>1. TypeOK /\ IInv => BehindCursorApplied
  BY BoundsAssumption, VersionsAreNumbers DEF IInv, Committed, Applied, BehindCursorApplied, Items
<1> QED
  BY <1>1, TypeCorrect, IInvHolds, PTL

\* No pass copies an event twice, forgets a copy that is there, takes away an event
\* that is not cancelled, or takes an occurrence back to an earlier version.
THEOREM UpdatesInPlaceHolds == Spec => UpdatesInPlace
<1> USE ItemsAssumption, BoundsAssumption
<1> DEFINE InPlace == /\ \A e \in Events : KeepsCopy(e)
                      /\ \A o \in Occurrences : instance'[o] >= instance[o]
<1>1. TypeOK /\ Targets /\ IInv /\ [Next]_vars => [InPlace]_vars
  <2> SUFFICES ASSUME TypeOK, Targets, IInv, Next PROVE InPlace
    OBVIOUS
  <2>0. \A o \in Occurrences : instance[o] >= instance[o]
    BY VersionsAreNumbers DEF Items
  <2>1. ASSUME UNCHANGED <<dest, destId>> PROVE InPlace
    BY <2>0, <2>1 DEF KeepsCopy
  <2>2. ASSUME NEW e \in Events, DeleteCancelled(e) PROVE InPlace
    <3>1. ver[e] = Gone
      BY <2>2, VersionsAreNumbers DEF DeleteCancelled, IInv, Past, Items
    <3>2. destId[e] # NoId /\ DOMAIN live' = DOMAIN live \ {destId[e]} /\ destId[e][1] = e
      BY <2>2, NoIdIsNone DEF DeleteCancelled, IInv, RowsTrue
    <3>3. UNCHANGED <<made, instance, destId>>
      BY <2>2 DEF DeleteCancelled
    <3> QED
      BY <2>0, <3>1, <3>2, <3>3 DEF KeepsCopy
  <2>3. CASE Patch \/ Create \/ CreateLost
    <3>1. PICK d : Put(d, listed[cur])
      BY <2>3 DEF Patch, Create, CreateLost
    <3>2. DOMAIN live \subseteq DOMAIN live'
      BY <3>1, PutWrites
    <3>3. /\ UNCHANGED <<instance, destId>>
          /\ made' = made \/ (destId[cur] = NoId /\ made' = [made EXCEPT ![cur] = @ + 1])
      BY <2>3 DEF Patch, Create, CreateLost
    <3> QED
      BY <2>0, <3>2, <3>3 DEF KeepsCopy, TypeOK
  <2>4. CASE Record
    <3>1. /\ pc = "record" /\ UNCHANGED dest
          /\ cur \in Events /\ cur \in Items /\ destId' = [destId EXCEPT ![cur] = curDest]
      BY <2>4 DEF Record, Upsert, Targets, Items
    <3>2. destId[cur] \in {NoId, curDest}
      BY <3>1 DEF IInv, HandTrue
    <3> QED
      BY <2>0, <3>1, <3>2, NoIdIsNone DEF KeepsCopy, TypeOK
  <2>5. CASE WriteFails
    <3>1. destId' = destId /\ UNCHANGED dest
      BY <2>5 DEF WriteFails, MarkFailed, Upsert, TypeOK
    <3> QED
      BY <2>1, <3>1
  <2>6. ASSUME NEW o \in Occurrences, ApplyException(o) PROVE InPlace
    <3>1. instance' = [instance EXCEPT ![o] = listed[o]] /\ UNCHANGED <<live, made, destId>>
      BY <2>6 DEF ApplyException
    <3>2. listed[o] >= instance[o] /\ o \in Items
      BY <2>6, VersionsAreNumbers DEF ApplyException, Applies, IInv, AheadTrue, Ahead, Items
    <3> QED
      BY <2>0, <3>1, <3>2, VersionsAreNumbers DEF KeepsCopy, TypeOK
  <2>7. ASSUME NEW o \in Occurrences, AlreadyGone(o) \/ ExceptionFails(o) PROVE InPlace
    BY <2>1, <2>7 DEF AlreadyGone, ExceptionFails, MarkFailed, Upsert
  <2>8. CASE RecordException
    BY <2>1, <2>8 DEF RecordException, Upsert, Targets
  <2>9. ASSUME NEW i \in Items,
               \/ Edit(i) \/ Cancel(i) \/ SkipDone(i)
               \/ i \in Occurrences /\ (PutOff(i) \/ AlreadyApplied(i))
               \/ i \in Events /\ (CancelIgnored(i) \/ DeleteFails(i) \/ Take(i))
        PROVE  InPlace
    BY <2>1, <2>9 DEF Edit, Cancel, Change, SkipDone, PutOff, AlreadyApplied, CancelIgnored,
       DeleteFails, Take
  <2>10. CASE \/ \E m \in {"full", "delta"} : Start(m)
              \/ Capture \/ ListEvents \/ ListFails \/ EnumerationFails \/ RecordCancelled
              \/ BeginExceptions \/ Finish \/ Interrupt
    BY <2>1, <2>10 DEF Start, Capture, ListEvents, ListFails, EnumerationFails, RecordCancelled,
       BeginExceptions, Finish, Interrupt
  <2> QED
    BY <2>2, <2>3, <2>4, <2>5, <2>6, <2>7, <2>8, <2>9, <2>10 DEF Next, Step, Items
<1> QED
  BY <1>1, TypeCorrect, IInvHolds, PTL DEF Spec, UpdatesInPlace

\* A command that leaves an item failed exits 1, whatever the run did to the other
\* items after that.
THEOREM FailedItemReportedHolds == Spec => FailedItemReported
<1> DEFINE Told == pc = "exceptions" /\ pc' = "idle" /\ failures > broken => exitCode' = 1
<1>1. TypeOK /\ Targets /\ IInv /\ [Next]_vars => [Told]_vars
  <2> SUFFICES ASSUME TypeOK, IInv, Next, pc = "exceptions", pc' = "idle", failures > broken
               PROVE  exitCode' = 1
    OBVIOUS
  <2>1. Finish \/ Interrupt
    BY DEF Next, Step, Edit, Cancel, Change, Start, Capture, ListEvents, ListFails, EnumerationFails,
       SkipDone, PutOff, CancelIgnored, DeleteCancelled, DeleteFails, Take, Yields, RecordCancelled,
       Patch, Create, CreateLost, WriteFails, Record, BeginExceptions, AlreadyApplied,
       ApplyException, AlreadyGone, ExceptionFails, RecordException, BackTo
  <2>2. \E i \in touched : status[i] = "failed"
    BY DEF IInv, Reported
  <2> QED
    BY <2>1, <2>2 DEF Finish, Interrupt, EndRun
<1> QED
  BY <1>1, TypeCorrect, IInvHolds, PTL DEF Spec, FailedItemReported
=============================================================================
