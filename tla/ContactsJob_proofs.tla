-------------------------- MODULE ContactsJob_proofs --------------------------
(* Theorems about ContactsJob, for any address book, any number of versions *)
(* of its contacts and every fault budget; for both connectors unless a     *)
(* theorem names one.                                                       *)
EXTENDS ContactsJob, TLAPS

USE DEF dest, rows, listing, ghosts, Gone, Versions, InHand

\* The job goes through a listing.
Running == {"loop"} \cup InHand

\* Only what exists is listed, only what still did when it was listed is written,
\* and only a job that has a cursor lists what has changed.
Targets ==
  /\ pc \notin Running => todo = {}
  /\ \A c \in todo : listed[c] > 0
  /\ pc \in InHand => listed[cur] > 0
  /\ pc \in {"write", "record"} => listed[cur] # Gone
  /\ mode = "delta" => cursor # NoCursor

\* Writing one destination contact leaves the others alone.
LEMMA PutWrites ==
  ASSUME NEW d, NEW v, Put(d, v)
  PROVE  /\ DOMAIN live' = DOMAIN live \cup {d}
         /\ live'[d] = v
         /\ \A x \in DOMAIN live \ {d} : live'[x] = live[x]
  BY DEF Put

\* The databases and the run are well typed in every reachable state.
THEOREM TypeCorrect == Spec => [](TypeOK /\ Targets)
<1> USE ContactsAssumption, BoundsAssumption
<1>1. Init => TypeOK /\ Targets
  <2> SUFFICES ASSUME Init PROVE TypeOK /\ Targets
    OBVIOUS
  <2>1. DOMAIN live = {}
    BY DEF Init
  <2>2. fellBack \in BOOLEAN /\ lost \in SUBSET Ids
    BY DEF Init
  <2> QED
    BY <2>1, <2>2 DEF Init, TypeOK, Targets, Cursors, Running
<1>2. TypeOK /\ Targets /\ [Next]_vars => (TypeOK /\ Targets)'
  <2> SUFFICES ASSUME TypeOK, Targets, [Next]_vars PROVE TypeOK' /\ Targets'
    OBVIOUS
  <2> USE DEF TypeOK, Targets, Running, Cursors, Ids, Fault, EndRun, BackToLoop, Upsert
  <2>1. ASSUME NEW c \in Contacts, Edit(c) \/ Delete(c) PROVE TypeOK' /\ Targets'
    BY <2>1 DEF Edit, Delete, Alive
  <2>2. ASSUME NEW m \in {"full", "delta"}, Start(m) PROVE TypeOK' /\ Targets'
    BY <2>2 DEF Start
  <2>3. CASE Capture
    BY <2>3 DEF Capture
  <2>4. CASE ListContacts \/ ListExpired
    <3>1. Alive \subseteq {c \in Contacts : ver[c] > 0}
      BY DEF Alive
    <3>2. mode = "delta" => Changed \subseteq {c \in Contacts : ver[c] > 0}
      BY DEF Changed
    <3>3. PICK contacts \in SUBSET {c \in Contacts : ver[c] > 0} : Listing(contacts)
      BY <2>4, <3>1, <3>2 DEF ListContacts, ListExpired
    <3>4. CASE ListContacts
      BY <3>3, <3>4 DEF ListContacts, Listing
    <3>5. CASE ListExpired
      <4>1. fellBack' \in BOOLEAN /\ faults' \in 0..MaxFaults
        BY <3>5 DEF ListExpired
      <4> QED
        BY <3>3, <4>1 DEF Listing
    <3> QED
      BY <2>4, <3>4, <3>5
  <2>5. ASSUME NEW c \in Contacts, RemoveCopy(c) PROVE TypeOK' /\ Targets'
    BY <2>5 DEF RemoveCopy, Yields
  <2>6. ASSUME NEW c \in Contacts, RemoveFails(c) \/ NeverMigrated(c) PROVE TypeOK' /\ Targets'
    BY <2>6 DEF RemoveFails, NeverMigrated, MarkFailed, Yields
  <2>7. CASE RecordRemoval
    BY <2>7 DEF RecordRemoval
  <2>8. ASSUME NEW c \in Contacts, SkipDone(c) \/ Take(c) PROVE TypeOK' /\ Targets'
    <3>1. listed[c] \in 0..MaxVer
      BY <2>8 DEF SkipDone, Take
    <3> QED
      BY <2>8, <3>1 DEF SkipDone, Take, Yields
  <2>9. CASE Update
    <3>0. listed[cur] \in 1..MaxVer /\ destId[cur] \in Ids /\ Put(destId[cur], listed[cur])
      <4>1. pc = "write" /\ cur \in Contacts /\ destId[cur] \in DOMAIN live
            /\ Put(destId[cur], listed[cur])
        BY <2>9 DEF Update
      <4>2. listed[cur] \in 0..(MaxVer + 1) /\ listed[cur] > 0 /\ listed[cur] # MaxVer + 1
        BY <4>1
      <4> QED
        BY <4>1, <4>2
    <3>1. /\ DOMAIN live' = DOMAIN live \cup {destId[cur]} /\ live'[destId[cur]] = listed[cur]
          /\ \A d \in DOMAIN live \ {destId[cur]} : live'[d] = live[d]
      BY <3>0, PutWrites
    <3>2. /\ pc' = "record" /\ curDest' = destId[cur] /\ pc = "write"
          /\ UNCHANGED <<ver, made, status, hash, destId, cursor, mode, newCursor, listed, todo,
                         cur, failures, faults, lost, passedOver, fellBack>>
      BY <2>9 DEF Update
    <3>3. DOMAIN live' \subseteq Ids /\ \A d \in DOMAIN live' : live'[d] \in 1..MaxVer
      BY <3>0, <3>1
    <3> QED
      BY <3>0, <3>2, <3>3
  <2>10. CASE Create \/ CreateLost
    <3>1. NewId(cur) \in Ids /\ Put(NewId(cur), listed[cur]) /\ listed[cur] \in 1..MaxVer
      BY <2>10 DEF NewId, Create, CreateLost
    <3>2. /\ DOMAIN live' = DOMAIN live \cup {NewId(cur)} /\ live'[NewId(cur)] = listed[cur]
          /\ \A d \in DOMAIN live \ {NewId(cur)} : live'[d] = live[d]
      BY <3>1, PutWrites
    <3> QED
      BY <2>10, <3>1, <3>2 DEF Create, CreateLost
  <2>11. CASE WriteFails
    BY <2>11 DEF WriteFails, MarkFailed
  <2>12. CASE Record
    BY <2>12 DEF Record
  <2>13. CASE Finish
    <3>1. fellBack' \in BOOLEAN
      BY <2>13 DEF Finish
    <3>2. cursor' \in Cursors
      BY <2>13 DEF Finish, NextCursor
    <3> QED
      BY <2>13, <3>1, <3>2 DEF Finish
  <2>14. CASE Interrupt
    <3>1. fellBack' \in BOOLEAN
      BY <2>14 DEF Interrupt
    <3>2. lost' \in SUBSET Ids
      BY <2>14 DEF Interrupt
    <3> QED
      BY <2>14, <3>1, <3>2 DEF Interrupt
  <2>15. CASE UNCHANGED vars
    BY <2>15 DEF vars
  <2> QED
    BY <2>1, <2>2, <2>3, <2>4, <2>5, <2>6, <2>7, <2>8, <2>9, <2>10, <2>11, <2>12,
       <2>13, <2>14, <2>15 DEF Next, Step
<1> QED
  BY <1>1, <1>2, PTL DEF Spec

-----------------------------------------------------------------------------
(* The inductive invariant *)

\* Hashes, listings and cursors tell of the past, and a listing is no older than
\* any hash or cursor.
Past ==
  /\ \A c \in Contacts : hash[c] <= ver[c] /\ passedOver[c] <= ver[c]
  /\ cursor # NoCursor => \A c \in Contacts : cursor[c] <= ver[c]
  /\ newCursor # NoCursor => \A c \in Contacts : newCursor[c] <= ver[c]
  /\ pc \in Running =>
       /\ newCursor # NoCursor
       /\ \A c \in Contacts :
            /\ listed[c] <= ver[c] /\ newCursor[c] <= listed[c]
            /\ hash[c] <= listed[c] /\ passedOver[c] <= listed[c]
            /\ cursor # NoCursor => cursor[c] <= listed[c]

\* The People API hands out the cursor of its listing.
TokenOfListing ==
  Connector = "google_workspace" =>
    /\ pc \in {"idle", "capture", "list"} => newCursor = NoCursor
    /\ pc \in Running => newCursor = listed

\* The committed cursor covers no version of a contact that needs work while the
\* contact is at the source.
BehindCursorApplied ==
  cursor # NoCursor =>
    \A c \in Contacts :
      cursor[c] \in 1..MaxVer /\ ver[c] # Gone => Applied(c, cursor[c])

\* A row points to a copy of its contact, one that is there unless the contact is
\* gone, and one that reflects the hash if the row says "done".
RowsTrue ==
  /\ \A c \in Contacts :
       /\ destId[c] # NoId =>
            /\ destId[c][1] = c
            /\ destId[c] \in DOMAIN live \/ (ver[c] = Gone /\ status[c] # "skipped")
       /\ status[c] = "skipped" => destId[c] = NoId
       /\ status[c] = "done" /\ ver[c] # Gone => Applied(c, hash[c])
  /\ DOMAIN live \subseteq {destId[c] : c \in Contacts} \cup {curDest} \cup lost

\* What is in hand: a copy just written, or the place of one just removed.
HandTrue ==
  /\ pc # "record" => curDest = NoId
  /\ pc = "record" =>
       /\ curDest \in DOMAIN live /\ curDest[1] = cur /\ live[curDest] = listed[cur]
       /\ destId[cur] \in {NoId, curDest}
  /\ pc = "drop" => listed[cur] = Gone /\ destId[cur] \notin DOMAIN live

\* As long as nothing failed, what the new cursor covers was applied, or is still
\* to be looked at.
RunApplies ==
  pc \in Running /\ failures = 0 =>
    \A c \in Contacts :
      newCursor[c] \in 1..MaxVer /\ ver[c] # Gone =>
        Applied(c, newCursor[c]) \/ c \in todo \/ c = cur

\* The same for the deletions a People delta takes the cursor past.
RunRemoves ==
  pc \in Running /\ failures = 0 /\ mode = "delta" /\ ~fellBack =>
    \A c \in Contacts :
      cursor[c] # Gone /\ newCursor[c] = Gone =>
        destId[c] \notin DOMAIN live \/ c \in todo \/ c = cur

IInv == Past /\ TokenOfListing /\ RowsTrue /\ HandTrue /\ BehindCursorApplied /\ RunApplies

\* Ids are not the value that stands for none.
LEMMA NoIdIsNone == TypeOK => NoId \notin DOMAIN live
BY ContactsAssumption DEF TypeOK, Ids

\* Edits and deletions at the source move versions up.
LEMMA SourceKeeps ==
  ASSUME TypeOK, IInv, NEW c \in Contacts, Edit(c) \/ Delete(c)
  PROVE  IInv'
<1> USE ContactsAssumption, BoundsAssumption
<1>1. /\ \A k \in Contacts : ver[k] <= ver'[k] /\ (ver[k] = Gone => ver'[k] = Gone)
                            /\ ver[k] \in Nat /\ ver'[k] \in Nat
      /\ UNCHANGED <<dest, rows, cursor, pc, listing, todo, cur, curDest, failures, ghosts>>
  BY DEF Edit, Delete, Alive, TypeOK
<1>2. Past'
  <2>1. \A k \in Contacts : /\ hash[k] \in Nat /\ listed[k] \in Nat
                            /\ passedOver[k] \in Nat
                            /\ cursor # NoCursor => cursor[k] \in Nat
                            /\ newCursor # NoCursor => newCursor[k] \in Nat
    BY DEF TypeOK, Cursors
  <2> QED
    BY <1>1, <2>1 DEF IInv, Past
<1>3. TokenOfListing' /\ HandTrue'
  BY <1>1 DEF IInv, TokenOfListing, HandTrue
<1>4. RowsTrue'
  BY <1>1 DEF IInv, RowsTrue, Applied
<1>5. BehindCursorApplied' /\ RunApplies'
  BY <1>1 DEF IInv, BehindCursorApplied, RunApplies, Applied
<1> QED
  BY <1>2, <1>3, <1>4, <1>5 DEF IInv

\* A listing shows everything the new cursor covers that is not behind the old one.
LEMMA ListingKeeps ==
  ASSUME TypeOK, Targets, IInv, ListContacts \/ ListExpired
  PROVE  IInv'
<1> USE ContactsAssumption, BoundsAssumption
<1>1. /\ pc = "list" /\ pc' = "loop" /\ listed' = ver /\ cur = NoContact
      /\ newCursor' = IF newCursor = NoCursor THEN ver ELSE newCursor
      /\ UNCHANGED <<ver, dest, rows, cursor, mode, cur, curDest, failures, lost, passedOver>>
  BY DEF ListContacts, ListExpired, Listing, TypeOK
<1>2. ver # NoCursor
  BY DEF TypeOK
<1>3. \A c \in Contacts : newCursor'[c] <= ver[c] /\ newCursor'[c] \in Nat /\ ver[c] \in Nat
  BY <1>1 DEF TypeOK, Cursors, IInv, Past
<1>4. Past' /\ TokenOfListing' /\ RowsTrue' /\ HandTrue' /\ BehindCursorApplied'
  BY <1>1, <1>2, <1>3 DEF IInv, Past, TokenOfListing, RowsTrue, HandTrue, BehindCursorApplied, Applied,
     Running
<1>5. ASSUME NEW c \in Contacts, newCursor'[c] \in 1..MaxVer, ver[c] # Gone
      PROVE  Applied(c, newCursor'[c]) \/ c \in todo'
  <2>1. c \in Alive
    BY <1>3, <1>5 DEF Alive, TypeOK
  <2>2. CASE todo' = Alive
    BY <2>1, <2>2
  <2>3. CASE todo' = Changed /\ mode = "delta" /\ c \notin Changed
    \* It has not changed since the committed cursor.
    <3>1. cursor # NoCursor /\ cursor[c] <= ver[c] /\ cursor[c] \in Nat
      BY <2>3 DEF Targets, IInv, Past, TypeOK, Cursors
    <3>2. ~(ver[c] > cursor[c])
      BY <2>1, <2>3 DEF Changed
    <3>3. cursor[c] = ver[c]
      BY <1>3, <3>1, <3>2
    <3>4. Applied(c, cursor[c])
      BY <1>5, <2>1, <3>1, <3>3 DEF Alive, IInv, BehindCursorApplied
    <3> QED
      BY <1>3, <3>3, <3>4 DEF Applied, TypeOK
  <2> QED
    BY <1>5, <2>2, <2>3 DEF ListContacts, ListExpired, Listing, TypeOK
<1>6. RunApplies'
  BY <1>1, <1>5 DEF RunApplies, Applied
<1> QED
  BY <1>4, <1>6 DEF IInv

\* A contact that is skipped has its copy, or is excepted from now on; one that is
\* taken up is in hand.
LEMMA YieldKeeps ==
  ASSUME TypeOK, IInv, NEW c \in Contacts, SkipDone(c) \/ Take(c)
  PROVE  IInv'
<1> USE ContactsAssumption, BoundsAssumption
<1>1. /\ pc = "loop" /\ pc' \in {"loop", "write"} /\ todo' = todo \ {c}
      /\ listed[c] # Gone /\ cur = NoContact /\ (pc' = "write" => cur' = c)
      /\ UNCHANGED <<ver, dest, rows, cursor, listing, curDest, failures, lost>>
  BY DEF SkipDone, Take, Yields, TypeOK
<1>2. \A k \in Contacts : /\ passedOver'[k] \in {passedOver[k], listed[k]}
                          /\ passedOver[k] \in Nat /\ listed[k] \in Nat
                          /\ passedOver[k] <= listed[k] /\ listed[k] <= ver[k]
  BY <1>1 DEF SkipDone, Take, TypeOK, IInv, Past, Running
<1>3. \A k \in Contacts, v \in Nat : Applied(k, v) => Applied(k, v)'
  BY <1>1, <1>2 DEF Applied
<1>4. Past'
  BY <1>1, <1>2 DEF IInv, Past, Running
<1>5. TokenOfListing' /\ HandTrue'
  BY <1>1 DEF IInv, TokenOfListing, HandTrue, Running
<1>6. RowsTrue' /\ BehindCursorApplied'
  <2>1. \A k \in Contacts : hash[k] \in Nat /\ (cursor # NoCursor => cursor[k] \in Nat)
    BY DEF TypeOK, Cursors
  <2> QED
    BY <1>1, <1>3, <2>1 DEF IInv, RowsTrue, BehindCursorApplied
<1>7. \A k \in Contacts : newCursor[k] <= listed[k] /\ newCursor[k] \in Nat
  BY <1>1 DEF IInv, Past, Running, TypeOK, Cursors
<1>8. ASSUME SkipDone(c), ver[c] # Gone
      PROVE  Applied(c, newCursor[c])'
  <2>1. CASE hash[c] = listed[c]
    <3>1. status[c] = "done"
      BY <1>8 DEF SkipDone, Unchanged
    <3>2. Applied(c, listed[c])'
      <4>1. Applied(c, hash[c]) /\ listed[c] \in Nat
        BY <1>2, <1>8, <3>1 DEF IInv, RowsTrue
      <4>2. Applied(c, listed[c]) => Applied(c, listed[c])'
        BY <1>1, <1>2 DEF Applied
      <4> QED
        BY <2>1, <4>1, <4>2
    <3> QED
      BY <1>1, <1>2, <1>7, <3>2 DEF Applied, TypeOK
  <2>2. CASE hash[c] # listed[c]
    <3>1. passedOver'[c] = listed[c]
      BY <1>8, <2>2 DEF SkipDone, TypeOK
    <3> QED
      BY <1>1, <1>2, <1>7, <3>1 DEF Applied
  <2> QED
    BY <2>1, <2>2
<1>9. RunApplies'
  <2>1. ASSUME NEW k \in Contacts, failures' = 0, newCursor'[k] \in 1..MaxVer, ver'[k] # Gone
        PROVE  Applied(k, newCursor[k])' \/ k \in todo' \/ k = cur'
    <3>1. Applied(k, newCursor[k]) \/ k \in todo
      BY <1>1, <2>1 DEF IInv, RunApplies, Running
    <3>2. CASE k # c \/ Applied(k, newCursor[k])
      BY <1>1, <1>3, <1>7, <3>1, <3>2
    <3>3. CASE k = c /\ Take(c)
      BY <3>3 DEF Take
    <3>4. CASE k = c /\ SkipDone(c)
      BY <1>1, <1>8, <2>1, <3>4
    <3> QED
      BY <3>2, <3>3, <3>4
  <2> QED
    BY <1>1, <2>1 DEF RunApplies
<1> QED
  BY <1>4, <1>5, <1>6, <1>9 DEF IInv

\* Copies are removed of contacts that are gone, and rows cleared of copies that
\* are: whoever is not gone keeps both.
LEMMA RemovalKeeps ==
  ASSUME TypeOK, IInv,
         RecordRemoval \/ \E c \in Contacts : RemoveCopy(c) \/ RemoveFails(c) \/ NeverMigrated(c)
  PROVE  IInv'
<1> USE ContactsAssumption, BoundsAssumption
<1>0. \A c \in Contacts : listed[c] = Gone /\ pc \in Running => ver[c] = Gone
  BY DEF IInv, Past, TypeOK
<1>1. ASSUME NEW c \in Contacts, RemoveCopy(c) PROVE IInv'
  <2>1. /\ pc = "loop" /\ pc' = "drop" /\ cur' = c /\ todo' = todo \ {c} /\ listed[c] = Gone
        /\ destId[c] # NoId /\ cur = NoContact
        /\ live' = [d \in DOMAIN live \ {destId[c]} |-> live[d]]
        /\ UNCHANGED <<ver, made, rows, cursor, listing, curDest, failures, ghosts>>
    BY <1>1 DEF RemoveCopy, Yields, TypeOK
  <2>2. ver[c] = Gone
    BY <1>0, <2>1 DEF Running
  <2>3. /\ DOMAIN live' = DOMAIN live \ {destId[c]}
        /\ \A d \in DOMAIN live' : live'[d] = live[d]
    BY <2>1
  <2>4. \A k \in Contacts : k # c => destId[k] # destId[c]
    BY <2>1 DEF IInv, RowsTrue
  <2>5. \A k \in Contacts : k # c /\ destId[k] \in DOMAIN live =>
          destId[k] \in DOMAIN live' /\ live'[destId[k]] = live[destId[k]]
    BY <2>3, <2>4
  <2>6. Past' /\ TokenOfListing' /\ HandTrue'
    BY <2>1, <2>3 DEF IInv, Past, TokenOfListing, HandTrue, Running
  <2>7. RowsTrue'
    <3>1. ASSUME NEW k \in Contacts, destId[k] # NoId
          PROVE  destId[k] \in DOMAIN live' \/ (ver[k] = Gone /\ status[k] # "skipped")
      BY <2>1, <2>2, <2>5, <3>1 DEF IInv, RowsTrue
    <3>2. DOMAIN live' \subseteq {destId[k] : k \in Contacts} \cup {curDest} \cup lost
      BY <2>3 DEF IInv, RowsTrue
    <3> QED
      BY <2>1, <2>2, <2>5, <3>1, <3>2 DEF IInv, RowsTrue, Applied
  <2>8. BehindCursorApplied' /\ RunApplies'
    BY <2>1, <2>2, <2>5 DEF IInv, BehindCursorApplied, RunApplies, Applied, Running
  <2> QED
    BY <2>6, <2>7, <2>8 DEF IInv
<1>2. ASSUME NEW c \in Contacts, RemoveFails(c) PROVE IInv'
  <2>1. /\ pc = "loop" /\ todo' = todo \ {c} /\ failures' = failures + 1
        /\ Upsert(c, "failed", 0, destId[c])
        /\ UNCHANGED <<ver, dest, cursor, pc, listing, cur, curDest, lost, passedOver>>
    BY <1>2 DEF RemoveFails, Yields, MarkFailed
  <2>2. destId' = destId /\ failures' # 0
    BY <2>1 DEF Upsert, TypeOK
  <2>3. \A k \in Contacts : /\ hash'[k] \in {0, hash[k]} /\ listed[k] \in Nat /\ ver[k] \in Nat
                            /\ status'[k] \in {"failed", status[k]}
                            /\ status'[k] # "failed" => hash'[k] = hash[k]
    BY <2>1 DEF Upsert, TypeOK
  <2>4. Past'
    BY <2>1, <2>3 DEF IInv, Past
  <2> QED
    BY <2>1, <2>2, <2>3, <2>4 DEF IInv, TokenOfListing, RowsTrue, HandTrue, BehindCursorApplied, RunApplies, Applied
<1>3. ASSUME NEW c \in Contacts, pc \in Running, listed[c] = Gone, destId[c] \notin DOMAIN live,
             Upsert(c, "skipped", 0, NoId), pc' = "loop", curDest' = NoId, cur' = NoContact,
             todo \ {c} \subseteq todo', cur \in {NoContact, c}, curDest = NoId,
             UNCHANGED <<ver, dest, cursor, listing, failures, ghosts>>
      PROVE  IInv'
  <2>1. ver[c] = Gone
    BY <1>0, <1>3
  <2>2. \A k \in Contacts : /\ hash'[k] = IF k = c THEN 0 ELSE hash[k]
                            /\ status'[k] = IF k = c THEN "skipped" ELSE status[k]
                            /\ destId'[k] = IF k = c THEN NoId ELSE destId[k]
                            /\ listed[k] \in Nat /\ ver[k] \in Nat
    BY <1>3 DEF Upsert, TypeOK
  <2>3. Past'
    BY <1>3, <2>2 DEF IInv, Past, Running
  <2>4. RowsTrue'
    BY <1>3, <2>1, <2>2, NoIdIsNone DEF IInv, RowsTrue, Applied
  <2> QED
    BY <1>3, <2>1, <2>2, <2>3, <2>4 DEF IInv, TokenOfListing, HandTrue, BehindCursorApplied, RunApplies, Applied,
       Running
<1>4. ASSUME NEW c \in Contacts, NeverMigrated(c) PROVE IInv'
  BY <1>3, <1>4, NoIdIsNone DEF NeverMigrated, Yields, TypeOK, IInv, HandTrue, Running
<1>5. CASE RecordRemoval
  BY <1>3, <1>5 DEF RecordRemoval, BackToLoop, TypeOK, IInv, HandTrue, Running
<1> QED
  BY <1>1, <1>2, <1>4, <1>5

\* A write brings one copy to the version listed, which is no older than anything
\* a cursor covers.
LEMMA WriteKeeps ==
  ASSUME TypeOK, Targets, IInv, Update \/ Create \/ CreateLost \/ WriteFails
  PROVE  IInv'
<1> USE ContactsAssumption, BoundsAssumption
<1>0. pc = "write" /\ cur \in Contacts /\ curDest = NoId /\ listed[cur] \in Nat
  BY DEF Update, Create, CreateLost, WriteFails, TypeOK, IInv, HandTrue
<1>1. ASSUME NEW d \in Ids, d[1] = cur, destId[cur] \in {NoId, d},
             Put(d, listed[cur]),
             UNCHANGED <<ver, rows, cursor, listing, todo, cur, failures, passedOver>>,
             \/ pc' = "record" /\ curDest' = d /\ UNCHANGED lost
             \/ pc' = "write" /\ curDest' = NoId /\ lost' = lost \cup {d}
      PROVE  IInv'
  <2>1. /\ DOMAIN live' = DOMAIN live \cup {d} /\ live'[d] = listed[cur]
        /\ \A x \in DOMAIN live \ {d} : live'[x] = live[x]
    BY <1>1, PutWrites
  <2>2. \A k \in Contacts : k # cur /\ destId[k] # NoId => destId[k] # d
    BY <1>1 DEF IInv, RowsTrue
  <2>3. ASSUME NEW k \in Contacts, NEW v \in Nat, Applied(k, v), k = cur => v <= listed[k]
        PROVE  Applied(k, v)'
    BY <1>0, <1>1, <2>1, <2>2, <2>3, NoIdIsNone DEF Applied
  <2>4. \A k \in Contacts : /\ hash[k] \in Nat /\ hash[k] <= listed[k]
                            /\ newCursor[k] \in Nat /\ newCursor[k] <= listed[k]
                            /\ cursor # NoCursor => cursor[k] \in Nat /\ cursor[k] <= listed[k]
    BY <1>0 DEF TypeOK, Cursors, IInv, Past, Running
  <2>5. Past' /\ TokenOfListing'
    BY <1>0, <1>1 DEF IInv, Past, TokenOfListing, Running
  <2>6. RowsTrue'
    <3>1. \A k \in Contacts : destId[k] # NoId =>
            destId[k] \in DOMAIN live' \/ (ver[k] = Gone /\ status[k] # "skipped")
      BY <2>1 DEF IInv, RowsTrue
    <3>2. DOMAIN live' \subseteq {destId[k] : k \in Contacts} \cup {curDest'} \cup lost'
      <4>1. DOMAIN live \subseteq {destId[k] : k \in Contacts} \cup lost
        BY <1>0, NoIdIsNone DEF IInv, RowsTrue
      <4>2. lost \subseteq lost' /\ d \in {curDest'} \cup lost'
        BY <1>1
      <4> QED
        BY <2>1, <4>1, <4>2
    <3>3. \A k \in Contacts : status[k] = "done" /\ ver[k] # Gone => Applied(k, hash[k])'
      BY <1>1, <2>3, <2>4 DEF IInv, RowsTrue
    <3> QED
      BY <1>1, <3>1, <3>2, <3>3 DEF IInv, RowsTrue, Applied
  <2>7. HandTrue'
    BY <1>0, <1>1, <2>1 DEF HandTrue
  <2>8. BehindCursorApplied'
    BY <1>1, <2>3, <2>4 DEF IInv, BehindCursorApplied, Applied
  <2>9. RunApplies'
    BY <1>0, <1>1, <2>3, <2>4 DEF IInv, RunApplies, Applied, Running
  <2> QED
    BY <2>5, <2>6, <2>7, <2>8, <2>9 DEF IInv
<1>2. CASE Update
  <2>1. destId[cur] \in Ids /\ destId[cur][1] = cur
    BY <1>0, <1>2, NoIdIsNone DEF Update, TypeOK, IInv, RowsTrue
  <2> QED
    BY <1>0, <1>1, <1>2, <2>1 DEF Update
<1>3. CASE Create \/ CreateLost
  <2>1. NewId(cur) \in Ids /\ NewId(cur)[1] = cur
    BY <1>0 DEF NewId, TypeOK, Ids
  <2> QED
    BY <1>0, <1>1, <1>3, <2>1 DEF Create, CreateLost
<1>4. CASE WriteFails
  <2>1. /\ failures' = failures + 1 /\ pc' = "loop" /\ curDest' = NoId
        /\ Upsert(cur, "failed", hash[cur], destId[cur])
        /\ UNCHANGED <<ver, dest, cursor, listing, todo, lost, passedOver>>
    BY <1>4 DEF WriteFails, MarkFailed, BackToLoop
  <2>2. failures' # 0 /\ hash' = hash /\ destId' = destId
        /\ \A k \in Contacts : status'[k] \in {"failed", status[k]}
    BY <1>0, <2>1 DEF Upsert, TypeOK
  <2> QED
    BY <1>0, <2>1, <2>2 DEF IInv, Past, TokenOfListing, RowsTrue, HandTrue, BehindCursorApplied, RunApplies, Applied,
       Running
<1> QED
  BY <1>2, <1>3, <1>4

\* The record points to the copy in hand, which is of the version listed.
LEMMA RecordKeeps ==
  ASSUME TypeOK, IInv, Record
  PROVE  IInv'
<1> USE ContactsAssumption, BoundsAssumption
<1>1. /\ pc = "record" /\ cur \in Contacts /\ pc' = "loop" /\ curDest' = NoId /\ cur' = NoContact
      /\ passedOver' = [passedOver EXCEPT ![cur] = 0]
      /\ UNCHANGED <<ver, dest, cursor, listing, todo, failures, lost>>
  BY DEF Record, BackToLoop, TypeOK
<1>2. /\ curDest \in DOMAIN live /\ curDest[1] = cur /\ live[curDest] = listed[cur]
      /\ destId[cur] \in {NoId, curDest}
  BY <1>1 DEF IInv, HandTrue
<1>3. \A k \in Contacts : /\ status'[k] = IF k = cur THEN "done" ELSE status[k]
                          /\ hash'[k] = IF k = cur THEN listed[cur] ELSE hash[k]
                          /\ destId'[k] = IF k = cur THEN curDest ELSE destId[k]
  BY <1>1 DEF Record, Upsert, TypeOK
<1>4. destId'[cur] \in DOMAIN live' /\ live'[destId'[cur]] = listed[cur]
  BY <1>1, <1>2, <1>3
<1>5. \A k \in Contacts : /\ newCursor[k] \in Nat /\ newCursor[k] <= listed[k]
                          /\ listed[k] \in Nat /\ listed[k] <= ver[k] /\ ver[k] \in Nat
                          /\ cursor # NoCursor => cursor[k] \in Nat /\ cursor[k] <= listed[k]
  BY <1>1 DEF TypeOK, Cursors, IInv, Past, Running
<1>6. Past' /\ TokenOfListing' /\ HandTrue'
  BY <1>1, <1>3, <1>5 DEF IInv, Past, TokenOfListing, HandTrue, Running
<1>7. RowsTrue'
  <2>1. DOMAIN live \subseteq {destId'[k] : k \in Contacts} \cup {NoId} \cup lost
    BY <1>1, <1>2, <1>3, NoIdIsNone DEF IInv, RowsTrue
  <2>2. hash'[cur] = listed[cur] /\ listed[cur] >= listed[cur]
    BY <1>1, <1>3, <1>5
  <2> QED
    BY <1>1, <1>2, <1>3, <1>4, <2>1, <2>2 DEF IInv, RowsTrue, Applied
<1>8. BehindCursorApplied'
  BY <1>1, <1>3, <1>4, <1>5 DEF IInv, BehindCursorApplied, Applied
<1>9. RunApplies'
  BY <1>1, <1>3, <1>4, <1>5 DEF IInv, RunApplies, Applied, Running
<1> QED
  BY <1>6, <1>7, <1>8, <1>9 DEF IInv

\* A clean end commits what was applied, every other end keeps the cursor, and a
\* copy that is in hand when the process dies is lost.
LEMMA EndKeeps ==
  ASSUME TypeOK, IInv, Finish \/ Interrupt
  PROVE  IInv'
<1> USE ContactsAssumption, BoundsAssumption
<1>1. /\ pc' = "idle" /\ newCursor' = NoCursor /\ curDest' = NoId
      /\ UNCHANGED <<ver, dest, rows, passedOver>>
  BY DEF Finish, Interrupt, EndRun
<1>2. TokenOfListing' /\ HandTrue' /\ RunApplies'
  BY <1>1 DEF TokenOfListing, HandTrue, RunApplies, Running
<1>3. RowsTrue'
  <2>1. {curDest} \cup lost \subseteq {destId[k] : k \in Contacts} \cup {NoId} \cup lost'
    BY DEF Finish, Interrupt, IInv, HandTrue
  <2> QED
    BY <1>1, <2>1 DEF IInv, RowsTrue, Applied
<1>4. CASE cursor' = cursor
  BY <1>1, <1>2, <1>3, <1>4 DEF IInv, Past, BehindCursorApplied, Applied, Running
<1>5. CASE cursor' # cursor
  <2>1. cursor' = newCursor /\ failures = 0 /\ todo = {} /\ pc = "loop" /\ cur = NoContact
    BY <1>5 DEF Finish, Interrupt, NextCursor, TypeOK
  <2>2. BehindCursorApplied'
    BY <1>1, <2>1 DEF IInv, RunApplies, BehindCursorApplied, Applied, Running
  <2>3. Past'
    BY <1>1, <2>1 DEF IInv, Past, Running
  <2> QED
    BY <1>2, <1>3, <2>2, <2>3 DEF IInv
<1> QED
  BY <1>4, <1>5

\* The invariant is inductive.
THEOREM IInvHolds == Spec => []IInv
<1> USE ContactsAssumption, BoundsAssumption
<1>1. Init => IInv
  BY DEF Init, IInv, Past, TokenOfListing, RowsTrue, HandTrue, BehindCursorApplied, RunApplies,
     Running
<1>2. TypeOK /\ Targets /\ IInv /\ [Next]_vars => IInv'
  <2> SUFFICES ASSUME TypeOK, Targets, IInv, [Next]_vars PROVE IInv'
    OBVIOUS
  <2>1. ASSUME NEW m \in {"full", "delta"}, Start(m) PROVE IInv'
    BY <2>1 DEF Start, IInv, Past, TokenOfListing, RowsTrue, HandTrue, BehindCursorApplied,
       RunApplies, Applied, Running
  <2>2. CASE Capture
    <3>1. \A c \in Contacts : ver[c] <= ver[c]
      BY DEF TypeOK
    <3> QED
      BY <2>2, <3>1 DEF Capture, IInv, Past, TokenOfListing, RowsTrue, HandTrue,
         BehindCursorApplied, RunApplies, Applied, Running
  <2>3. CASE UNCHANGED vars
    BY <2>3 DEF vars, IInv, Past, TokenOfListing, RowsTrue, HandTrue, BehindCursorApplied,
       RunApplies, Applied
  <2> QED
    BY <2>1, <2>2, <2>3, SourceKeeps, ListingKeeps, YieldKeeps, RemovalKeeps, WriteKeeps,
       RecordKeeps, EndKeeps DEF Next, Step
<1> QED
  BY <1>1, <1>2, TypeCorrect, PTL DEF Spec

-----------------------------------------------------------------------------
(* What the runs check *)

\* The committed cursor covers no change that the recorded copy lacks, unless a
\* full pass skipped the contact, with either connector.
THEOREM BehindCursorHolds == Spec => []BehindCursorApplied
<1>1. IInv => BehindCursorApplied
  BY DEF IInv
<1> QED
  BY <1>1, IInvHolds, PTL

\* A recorded destination id is that of a copy of the contact, which is there unless
\* its removal is not recorded yet; no copy is there that neither a row, nor the
\* job, nor a lost answer accounts for.
THEOREM RowsMatchCopiesHolds == Spec => []RowsMatchCopies
<1>1. TypeOK /\ IInv => RowsMatchCopies
  BY DEF IInv, RowsTrue, RowsMatchCopies
<1> QED
  BY <1>1, TypeCorrect, IInvHolds, PTL

\* No step makes a second copy of a contact that has one on record, forgets the id
\* of a copy that is there, or removes a copy of a contact that is at the source.
THEOREM UpdatesInPlaceHolds == Spec => UpdatesInPlace
<1>1. ASSUME TypeOK, IInv, Next, NEW c \in Contacts
      PROVE  KeepsCopy(c)
  <2> USE DEF KeepsCopy
  <2>1. CASE Update \/ Create \/ CreateLost
    <3>1. \A d \in DOMAIN live : d \in DOMAIN live'
      BY <2>1, PutWrites DEF Update, Create, CreateLost
    <3>2. UNCHANGED destId
      BY <2>1 DEF Update, Create, CreateLost
    <3>3. destId[c] # NoId => made'[c] = made[c]
      BY <1>1, <2>1 DEF Update, Create, CreateLost, TypeOK
    <3> QED
      BY <3>1, <3>2, <3>3
  <2>2. CASE Record
    BY <1>1, <2>2, NoIdIsNone DEF Record, Upsert, IInv, HandTrue, TypeOK
  <2>3. CASE RecordRemoval
    BY <1>1, <2>3 DEF RecordRemoval, Upsert, IInv, HandTrue, TypeOK
  <2>4. ASSUME NEW k \in Contacts, RemoveCopy(k) PROVE KeepsCopy(c)
    <3>1. /\ live' = [d \in DOMAIN live \ {destId[k]} |-> live[d]]
          /\ destId[k][1] = k /\ listed[k] = Gone
          /\ UNCHANGED <<made, destId>>
      BY <1>1, <2>4 DEF RemoveCopy, IInv, RowsTrue
    <3>2. ver[k] = Gone
      BY <1>1, <2>4, <3>1, BoundsAssumption DEF RemoveCopy, Yields, IInv, Past, Running, TypeOK
    <3>3. k \notin Alive
      BY <3>2, BoundsAssumption DEF Alive
    <3> QED
      BY <3>1, <3>3
  <2>5. ASSUME NEW k \in Contacts, RemoveFails(k) \/ NeverMigrated(k) PROVE KeepsCopy(c)
    BY <1>1, <2>5 DEF RemoveFails, NeverMigrated, MarkFailed, Upsert, TypeOK
  <2>6. CASE WriteFails
    BY <1>1, <2>6 DEF WriteFails, MarkFailed, Upsert, TypeOK
  <2>7. CASE \/ \E k \in Contacts : Edit(k) \/ Delete(k) \/ SkipDone(k) \/ Take(k)
             \/ \E m \in {"full", "delta"} : Start(m)
             \/ Capture \/ ListContacts \/ ListExpired \/ Finish \/ Interrupt
    BY <2>7 DEF Edit, Delete, SkipDone, Take, Start, Capture, ListContacts, ListExpired, Listing,
       Finish, Interrupt
  <2> QED
    BY <1>1, <2>1, <2>2, <2>3, <2>4, <2>5, <2>6, <2>7 DEF Next, Step
<1>2. TypeOK /\ IInv /\ [Next]_vars => [\A c \in Contacts : KeepsCopy(c)]_vars
  BY <1>1
<1> QED
  BY <1>2, TypeCorrect, IInvHolds, PTL DEF Spec, UpdatesInPlace

-----------------------------------------------------------------------------
(* Deletions, which only a People delta lists *)

\* What the listing of a People delta takes the cursor past is removed, or still to
\* be looked at, unless something failed.
LEMMA DeletionsListed ==
  ASSUME Connector = "google_workspace"
  PROVE  Spec => []RunRemoves
<1> USE ContactsAssumption, BoundsAssumption
<1>1. Init => RunRemoves
  BY DEF Init, RunRemoves, Running
<1>2. TypeOK /\ Targets /\ IInv /\ RunRemoves /\ [Next]_vars => RunRemoves'
  <2> SUFFICES ASSUME TypeOK, Targets, IInv, RunRemoves, [Next]_vars PROVE RunRemoves'
    OBVIOUS
  <2>1. ASSUME pc \in Running, pc' \in Running, failures' = 0 => failures = 0,
               UNCHANGED <<cursor, mode, newCursor, fellBack>>,
               failures' = 0 =>
                 \A c \in Contacts : newCursor[c] = Gone =>
                   /\ destId[c] \notin DOMAIN live => destId'[c] \notin DOMAIN live'
                   /\ c \in todo \/ c = cur =>
                        destId'[c] \notin DOMAIN live' \/ c \in todo' \/ c = cur'
        PROVE  RunRemoves'
    BY <2>1 DEF RunRemoves
  <2>2. ASSUME NEW c \in Contacts, newCursor[c] = Gone
        PROVE  pc \in Running => listed[c] = Gone
    BY <2>2 DEF IInv, TokenOfListing
  <2>3. CASE \/ \E m \in {"full", "delta"} : Start(m)
             \/ Capture \/ Finish \/ Interrupt
    BY <2>3 DEF Start, Capture, Finish, Interrupt, EndRun, RunRemoves, Running
  <2>4. ASSUME NEW c \in Contacts, Edit(c) \/ Delete(c) PROVE RunRemoves'
    BY <2>4 DEF Edit, Delete, RunRemoves
  <2>5. CASE UNCHANGED vars
    BY <2>5 DEF vars, RunRemoves
  <2>6. CASE ListContacts
    <3>1. newCursor' = ver /\ todo' = (IF mode = "full" THEN Alive ELSE Changed)
          /\ UNCHANGED <<ver, dest, rows, cursor, mode>>
      BY <2>6 DEF ListContacts, Listing, IInv, TokenOfListing
    <3>2. ASSUME mode = "delta", NEW c \in Contacts, cursor[c] # Gone, ver[c] = Gone
          PROVE  c \in Changed
      BY <3>2 DEF Changed, Targets, TypeOK, Cursors
    <3> QED
      BY <3>1, <3>2 DEF RunRemoves
  <2>7. CASE ListExpired
    BY <2>7 DEF ListExpired, RunRemoves
  <2>8. ASSUME NEW c \in Contacts, RemoveCopy(c) PROVE RunRemoves'
    BY <2>1, <2>8 DEF RemoveCopy, Yields, Running, TypeOK
  <2>9. ASSUME NEW c \in Contacts, RemoveFails(c) PROVE RunRemoves'
    BY <2>9 DEF RemoveFails, MarkFailed, RunRemoves, TypeOK
  <2>10. ASSUME NEW c \in Contacts, NeverMigrated(c) PROVE RunRemoves'
    BY <2>1, <2>10, NoIdIsNone DEF NeverMigrated, Upsert, Yields, Running, TypeOK
  <2>11. CASE RecordRemoval
    BY <2>1, <2>11, NoIdIsNone DEF RecordRemoval, Upsert, BackToLoop, Running, TypeOK
  <2>12. ASSUME NEW c \in Contacts, SkipDone(c) \/ Take(c) PROVE RunRemoves'
    BY <2>1, <2>2, <2>12 DEF SkipDone, Take, Yields, Running, TypeOK
  <2>13. CASE Update \/ Create \/ CreateLost
    <3>1. newCursor[cur] # Gone /\ pc = "write" /\ cur \in Contacts
      BY <2>2, <2>13 DEF Update, Create, CreateLost, Targets, Running, TypeOK
    <3>2. ASSUME NEW c \in Contacts, newCursor[c] = Gone, destId[c] \notin DOMAIN live
          PROVE  destId[c] \notin DOMAIN live'
      <4>1. CASE Update
        <5>1. DOMAIN live' = DOMAIN live \cup {destId[cur]} /\ destId[cur] \in DOMAIN live
          BY <4>1, PutWrites DEF Update
        <5> QED
          BY <3>2, <5>1
      <4>2. CASE Create \/ CreateLost
        <5>1. DOMAIN live' = DOMAIN live \cup {NewId(cur)}
          BY <4>2, PutWrites DEF Create, CreateLost
        <5>2. destId[c] # NewId(cur)
          <6>1. NewId(cur)[1] = cur /\ NewId(cur) \in Ids
            BY <3>1 DEF NewId, Ids, TypeOK
          <6> QED
            BY <3>1, <3>2, <6>1 DEF IInv, RowsTrue, Ids
        <5> QED
          BY <3>2, <5>1, <5>2
      <4> QED
        BY <2>13, <4>1, <4>2
    <3>3. UNCHANGED <<destId, cursor, listing, failures, fellBack, todo, cur>> /\ pc' \in Running
      BY <2>13 DEF Update, Create, CreateLost, Running
    <3> QED
      BY <2>1, <3>1, <3>2, <3>3 DEF Running
  <2>14. CASE WriteFails
    BY <2>14 DEF WriteFails, MarkFailed, RunRemoves, TypeOK
  <2>15. CASE Record
    <3>1. cur \in Contacts /\ newCursor[cur] # Gone
      BY <2>2, <2>15 DEF Record, Targets, Running, TypeOK
    <3> QED
      BY <2>1, <2>15, <3>1 DEF Record, Upsert, BackToLoop, Running, TypeOK
  <2> QED
    BY <2>3, <2>4, <2>5, <2>6, <2>7, <2>8, <2>9, <2>10, <2>11, <2>12, <2>13, <2>14, <2>15
       DEF Next, Step
<1> QED
  BY <1>1, <1>2, TypeCorrect, IInvHolds, PTL DEF Spec

\* With the People API, a delta pass that takes the cursor past the deletion of a
\* contact leaves no recorded copy of it, unless its token had expired.
THEOREM DeltaRemoves ==
  ASSUME Connector = "google_workspace"
  PROVE  Spec => DeltaRemovesDeleted
<1>1. TypeOK /\ RunRemoves /\ [Next]_vars =>
        [mode = "delta" /\ ~fellBack =>
           \A c \in Contacts : Passes(c) => destId[c] \notin DOMAIN live]_vars
  <2> SUFFICES ASSUME TypeOK, RunRemoves, Next, mode = "delta", ~fellBack,
                      NEW c \in Contacts, Passes(c)
               PROVE  destId[c] \notin DOMAIN live
    OBVIOUS
  <2>1. cursor' # cursor
    BY DEF Passes
  <2>2. Finish
    BY <2>1 DEF Next, Step, Edit, Delete, Start, Capture, ListContacts, ListExpired, Listing,
       RemoveCopy, RemoveFails, RecordRemoval, NeverMigrated, SkipDone, Take, Update, Create,
       CreateLost, WriteFails, Record, Interrupt
  <2>3. cursor' = newCursor /\ failures = 0 /\ todo = {} /\ pc = "loop" /\ cur = NoContact
    BY <2>1, <2>2 DEF Finish, NextCursor, TypeOK
  <2> QED
    BY <2>3, ContactsAssumption DEF Passes, RunRemoves, Running
<1> QED
  BY <1>1, TypeCorrect, DeletionsListed, PTL DEF Spec, DeltaRemovesDeleted

-----------------------------------------------------------------------------
(* The refinement *)

\* What is at the destination is not ahead of the source or of the listing, and a run
\* captures no cursor behind the committed one.
NotAhead ==
  /\ \A d \in DOMAIN live :
       live[d] <= ver[d[1]] /\ (pc \in Running => live[d] <= listed[d[1]])
  /\ cursor # NoCursor /\ newCursor # NoCursor =>
       \A c \in Contacts : cursor[c] <= newCursor[c]

\* Only a write of the version listed brings a copy forward.
LEMMA NotAheadHolds == Spec => []NotAhead
<1> USE ContactsAssumption, BoundsAssumption
<1>1. Init => NotAhead
  BY DEF Init, NotAhead
<1>2. TypeOK /\ Targets /\ IInv /\ NotAhead /\ [Next]_vars => NotAhead'
  <2> SUFFICES ASSUME TypeOK, Targets, IInv, NotAhead, [Next]_vars PROVE NotAhead'
    OBVIOUS
  <2>0. /\ \A d \in DOMAIN live : d[1] \in Contacts /\ live[d] \in Nat
        /\ \A c \in Contacts : ver[c] \in Nat /\ listed[c] \in Nat
    BY DEF TypeOK, Ids
  <2>1. ASSUME NEW c \in Contacts, Edit(c) \/ Delete(c) PROVE NotAhead'
    <3>1. /\ \A k \in Contacts : ver'[k] \in Nat /\ ver[k] <= ver'[k]
          /\ UNCHANGED <<live, cursor, newCursor, pc, listed>>
      BY <2>1 DEF Edit, Delete, Alive, TypeOK
    <3> QED
      BY <2>0, <3>1 DEF NotAhead
  <2>2. CASE ListContacts \/ ListExpired
    <3>1. /\ listed' = ver /\ UNCHANGED <<ver, live, cursor>>
          /\ newCursor' = IF newCursor = NoCursor THEN ver ELSE newCursor
      BY <2>2 DEF ListContacts, ListExpired, Listing
    <3> QED
      BY <2>0, <3>1 DEF NotAhead, IInv, Past
  <2>3. CASE Capture
    BY <2>3 DEF Capture, NotAhead, IInv, Past, Running
  <2>4. ASSUME NEW c \in Contacts, RemoveCopy(c) PROVE NotAhead'
    BY <2>4 DEF RemoveCopy, Yields, NotAhead, Running
  <2>5. ASSUME NEW d \in Ids, d[1] = cur, cur \in Contacts, pc \in Running, Put(d, listed[cur]),
               UNCHANGED <<ver, cursor, newCursor, listed>>
        PROVE  NotAhead'
    <3>1. /\ DOMAIN live' = DOMAIN live \cup {d} /\ live'[d] = listed[cur]
          /\ \A x \in DOMAIN live \ {d} : live'[x] = live[x]
      BY <2>5, PutWrites
    <3>2. listed[cur] <= ver[cur] /\ listed[cur] <= listed[cur]
      BY <2>0, <2>5 DEF IInv, Past
    <3> QED
      BY <2>5, <3>1, <3>2 DEF NotAhead
  <2>6. CASE Update \/ Create \/ CreateLost
    <3>1. pc = "write" /\ cur \in Contacts /\ UNCHANGED <<ver, cursor, newCursor, listed>>
      BY <2>6 DEF Update, Create, CreateLost, TypeOK
    <3>2. CASE Update
      <4>1. destId[cur] \in Ids /\ destId[cur][1] = cur /\ Put(destId[cur], listed[cur])
        BY <3>1, <3>2, NoIdIsNone DEF Update, TypeOK, IInv, RowsTrue
      <4> QED
        BY <2>5, <3>1, <4>1 DEF Running
    <3>3. CASE Create \/ CreateLost
      <4>1. NewId(cur) \in Ids /\ NewId(cur)[1] = cur /\ Put(NewId(cur), listed[cur])
        BY <3>1, <3>3 DEF Create, CreateLost, NewId, TypeOK, Ids
      <4> QED
        BY <2>5, <3>1, <4>1 DEF Running
    <3> QED
      BY <2>6, <3>2, <3>3
  <2>7. CASE Finish \/ Interrupt
    BY <2>7 DEF Finish, Interrupt, EndRun, NotAhead, Running
  <2>8. CASE \/ \E c \in Contacts : RemoveFails(c) \/ NeverMigrated(c) \/ SkipDone(c) \/ Take(c)
             \/ \E m \in {"full", "delta"} : Start(m)
             \/ RecordRemoval \/ WriteFails \/ Record \/ UNCHANGED vars
    BY <2>8 DEF RemoveFails, NeverMigrated, SkipDone, Take, Yields, Start, RecordRemoval,
       WriteFails, Record, BackToLoop, vars, NotAhead, Running
  <2> QED
    BY <2>1, <2>2, <2>3, <2>4, <2>6, <2>7, <2>8 DEF Next, Step
<1> QED
  BY <1>1, <1>2, TypeCorrect, IInvHolds, PTL DEF Spec

\* The steps that write to the destination or to a row.
Working ==
  \/ \E c \in Contacts :
       RemoveCopy(c) \/ RemoveFails(c) \/ NeverMigrated(c) \/ SkipDone(c) \/ Take(c)
  \/ RecordRemoval \/ Update \/ Create \/ CreateLost \/ WriteFails \/ Record

\* None of them undoes a version of a contact that is at the source.
LEMMA NothingUndone ==
  ASSUME TypeOK, Targets, IInv, NotAhead, Working,
         NEW c \in Contacts, ver[c] # Gone, NEW v \in Nat, Applied(c, v)
  PROVE  Applied(c, v)'
<1> USE ContactsAssumption, BoundsAssumption
<1>1. /\ \A d \in DOMAIN live : live[d] \in Nat
      /\ listed[c] \in Nat /\ passedOver[c] \in Nat
      /\ pc \in Running => listed[c] # Gone /\ passedOver[c] <= listed[c]
                            /\ \A d \in DOMAIN live : d[1] = c => live[d] <= listed[c]
  BY DEF TypeOK, IInv, Past, NotAhead
<1>2. ASSUME NEW k \in Contacts, RemoveCopy(k) PROVE Applied(c, v)'
  <2>1. /\ k # c /\ destId[k] # NoId
        /\ live' = [d \in DOMAIN live \ {destId[k]} |-> live[d]]
        /\ UNCHANGED <<destId, passedOver>>
    BY <1>1, <1>2 DEF RemoveCopy, Yields, Running
  <2>2. destId[c] \in DOMAIN live => destId[c] # destId[k]
    BY <2>1, NoIdIsNone DEF IInv, RowsTrue
  <2> QED
    BY <2>1, <2>2 DEF Applied
<1>3. ASSUME NEW k \in Contacts, RemoveFails(k) \/ NeverMigrated(k) PROVE Applied(c, v)'
  <2>1. UNCHANGED <<live, passedOver>> /\ destId'[c] = destId[c]
    BY <1>3 DEF RemoveFails, NeverMigrated, MarkFailed, Upsert, TypeOK
  <2> QED
    BY <2>1 DEF Applied
<1>4. ASSUME NEW k \in Contacts, SkipDone(k) PROVE Applied(c, v)'
  <2>1. /\ pc = "loop" /\ UNCHANGED <<live, destId>>
        /\ passedOver'[c] \in {passedOver[c], listed[c]}
    BY <1>4 DEF SkipDone, Yields, TypeOK
  <2> QED
    BY <1>1, <2>1 DEF Applied, Running
<1>5. CASE (\E k \in Contacts : Take(k)) \/ WriteFails
  <2>1. UNCHANGED <<live, passedOver>> /\ destId'[c] = destId[c]
    BY <1>5 DEF Take, WriteFails, MarkFailed, Upsert, TypeOK
  <2> QED
    BY <2>1 DEF Applied
<1>6. CASE RecordRemoval
  <2>1. c # cur /\ UNCHANGED <<live, passedOver>> /\ destId'[c] = destId[c]
    BY <1>1, <1>6 DEF RecordRemoval, Upsert, TypeOK, IInv, HandTrue, Running
  <2> QED
    BY <2>1 DEF Applied
<1>7. ASSUME NEW d, Put(d, listed[cur]), UNCHANGED <<destId, passedOver>>,
             destId[c] = d => cur = c /\ d[1] = c, pc \in Running
      PROVE  Applied(c, v)'
  <2>1. CASE passedOver[c] >= v
    BY <1>7, <2>1 DEF Applied
  <2>2. CASE destId[c] \in DOMAIN live /\ live[destId[c]] >= v
    <3>1. /\ destId'[c] = destId[c] /\ destId[c] \in DOMAIN live'
          /\ destId[c] # d => live'[destId[c]] = live[destId[c]]
      BY <1>7, <2>2, PutWrites
    <3>3. live'[d] = listed[cur]
      BY <1>7 DEF Put
    <3>2. destId[c] = d => listed[cur] >= v
      BY <1>1, <1>7, <2>2
    <3> QED
      BY <2>2, <3>1, <3>2, <3>3 DEF Applied
  <2> QED
    BY <2>1, <2>2 DEF Applied
<1>8. CASE Update
  <2>1. destId[c] = destId[cur] => cur = c /\ destId[cur][1] = c
    BY <1>8, NoIdIsNone DEF Update, IInv, RowsTrue, TypeOK
  <2> QED
    BY <1>7, <1>8, <2>1 DEF Update, Running
<1>9. CASE Create \/ CreateLost
  <2>1. NewId(cur) \in Ids /\ NewId(cur)[1] = cur /\ destId[cur] = NoId
    BY <1>9 DEF Create, CreateLost, NewId, Ids, TypeOK
  <2>2. destId[c] # NewId(cur)
    BY <2>1 DEF IInv, RowsTrue, Ids
  <2> QED
    BY <1>7, <1>9, <2>2 DEF Create, CreateLost, Running
<1>10. CASE Record
  <2>1. /\ pc = "record" /\ cur \in Contacts /\ UNCHANGED live
        /\ curDest \in DOMAIN live /\ live[curDest] = listed[cur] /\ curDest[1] = cur
        /\ destId[cur] \in {NoId, curDest} /\ NoId \notin DOMAIN live
    BY <1>10, NoIdIsNone DEF Record, TypeOK, IInv, HandTrue
  <2>2. CASE c = cur
    <3>1. live[curDest] >= v
      BY <1>1, <2>1, <2>2 DEF Applied, Running
    <3>2. destId'[c] = curDest
      BY <1>10, <2>2 DEF Record, Upsert, TypeOK
    <3> QED
      BY <2>1, <3>1, <3>2 DEF Applied
  <2>3. CASE c # cur
    <3>1. destId'[c] = destId[c] /\ passedOver'[c] = passedOver[c]
      BY <1>10, <2>3 DEF Record, Upsert, TypeOK
    <3> QED
      BY <2>1, <3>1 DEF Applied
  <2> QED
    BY <2>2, <2>3
<1> QED
  BY <1>2, <1>3, <1>4, <1>5, <1>6, <1>8, <1>9, <1>10 DEF Working

\* Every run, whatever interrupts it, implements DeltaSync with the versions of the
\* contacts for changes: writes, records and skips settle versions and undo none of a
\* contact that is still there, a clean end commits a cursor that covers no version
\* but those, and no fewer than the last one did, and no other step shows.
THEOREM ImplementsSync == Spec => ImplementsDeltaSync
<1> USE ContactsAssumption, BoundsAssumption
<1> DEFINE Box == {change \in Until(ver) : ver[change[1]] # Gone}
           Settled == {change \in Until(ver) : Applied(change[1], change[2])}
           Committed == IF cursor = NoCursor THEN NoCursor ELSE Until(cursor)
<1>1. Init => Sync!Init
  <2> SUFFICES ASSUME Init PROVE Sync!Init
    OBVIOUS
  <2>1. Until(ver) \subseteq Contacts \X (1..MaxVer) /\ Box = Until(ver) /\ Settled = {}
    BY DEF Init, Until, Applied
  <2> QED
    BY <2>1 DEF Init, Sync!Init
<1>2. TypeOK /\ Targets /\ IInv /\ NotAhead /\ [Next]_vars => [Sync!Next]_(Sync!vars)
  <2> SUFFICES ASSUME TypeOK, Targets, IInv, NotAhead, [Next]_vars
               PROVE  Sync!Next \/ UNCHANGED Sync!vars
    OBVIOUS
  <2>1. ASSUME NEW c \in Contacts, Edit(c) \/ Delete(c) PROVE Sync!Change
    <3>1. /\ \A k \in Contacts : /\ ver[k] \in Nat /\ ver'[k] \in Nat /\ ver[k] <= ver'[k]
                                 /\ ver[k] = Gone => ver'[k] = Gone
          /\ UNCHANGED <<live, destId, passedOver, cursor>>
      BY <2>1 DEF Edit, Delete, Alive, TypeOK
    <3>2. Until(ver) \subseteq Until(ver') /\ Until(ver') \subseteq Contacts \X (1..MaxVer)
      <4> SUFFICES ASSUME NEW change \in Contacts \X (1..MaxVer), change[2] <= ver[change[1]]
                   PROVE  change[2] <= ver'[change[1]]
        BY DEF Until
      <4>1. PICK k \in Contacts, v \in 1..MaxVer : change = <<k, v>>
        OBVIOUS
      <4>2. v <= ver[k] /\ ver[k] <= ver'[k] /\ v \in Nat /\ ver[k] \in Nat /\ ver'[k] \in Nat
        BY <3>1, <4>1
      <4>3. v <= ver'[k]
        BY <4>2
      <4> QED
        BY <4>1, <4>3
    <3>3. Box' \subseteq Box \cup (Until(ver') \ Until(ver))
      <4>1. \A change \in Until(ver') : change[1] \in Contacts
        BY DEF Until
      <4>2. \A k \in Contacts : ver'[k] # Gone => ver[k] # Gone
        BY <3>1
      <4>3. ASSUME NEW change \in Until(ver'), ver'[change[1]] # Gone
            PROVE  ver[change[1]] # Gone
        BY <4>1, <4>2, <4>3
      <4> QED
        BY <3>2, <4>3 DEF Gone
    <3>4. Settled' = Settled
      <4>1. ASSUME NEW k \in Contacts, NEW v \in Nat, Applied(k, v) PROVE v <= ver[k]
        <5>1. CASE passedOver[k] >= v
          BY <3>1, <5>1 DEF IInv, Past, TypeOK
        <5>2. CASE destId[k] \in DOMAIN live /\ live[destId[k]] >= v
          <6>1. destId[k][1] = k
            BY <5>2, NoIdIsNone DEF IInv, RowsTrue
          <6>2. live[destId[k]] <= ver[k] /\ live[destId[k]] \in Nat
            BY <5>2, <6>1 DEF NotAhead, TypeOK
          <6>3. ver[k] \in Nat
            BY <3>1
          <6> QED
            BY <4>1, <5>2, <6>2, <6>3
        <5> QED
          BY <4>1, <5>1, <5>2 DEF Applied
      <4>2. \A k, v : Applied(k, v)' <=> Applied(k, v)
        BY <3>1 DEF Applied
      <4>3. ASSUME NEW change \in Contacts \X (1..MaxVer), Applied(change[1], change[2])
            PROVE  change[2] <= ver[change[1]] /\ change[2] <= ver'[change[1]]
        <5>1. PICK k \in Contacts, v \in 1..MaxVer : change = <<k, v>>
          OBVIOUS
        <5>2. v \in Nat /\ Applied(k, v)
          BY <4>3, <5>1
        <5>3. v <= ver[k] /\ ver[k] <= ver'[k] /\ ver[k] \in Nat /\ ver'[k] \in Nat
          BY <3>1, <4>1, <5>2
        <5>4. v <= ver'[k]
          BY <5>2, <5>3
        <5> QED
          BY <5>1, <5>3, <5>4
      <4> QED
        BY <4>2, <4>3 DEF Until
    <3>5. Committed' = Committed
      BY <3>1 DEF Until
    <3> QED
      BY <3>2, <3>3, <3>4, <3>5 DEF Sync!Change
  <2>2. CASE Working
    <3>1. UNCHANGED <<ver, cursor>>
      BY <2>2 DEF Working, RemoveCopy, RemoveFails, NeverMigrated, SkipDone, Take, RecordRemoval,
         Update, Create, CreateLost, WriteFails, Record
    <3>2. Settled \cap Box \subseteq Settled'
      BY <2>2, <3>1, NothingUndone DEF Until
    <3>3. Settled' \subseteq Until(ver) /\ Until(ver)' = Until(ver) /\ Box' = Box
          /\ Committed' = Committed
      BY <3>1 DEF Until
    <3>4. Sync!Settle
      BY <3>2, <3>3 DEF Sync!Settle
    <3> QED
      BY <3>4 DEF Sync!Next
  <2>3. CASE Finish /\ cursor' # cursor
    <3>1. /\ cursor' = newCursor /\ failures = 0 /\ todo = {} /\ pc = "loop" /\ cur = NoContact
          /\ UNCHANGED <<ver, live, destId, passedOver>>
      BY <2>3 DEF Finish, NextCursor, TypeOK
    <3>2. newCursor # NoCursor /\ newCursor \in [Contacts -> Versions]
      BY <3>1 DEF IInv, Past, Running, TypeOK, Cursors
    <3>3. Committed' \subseteq Settled \cup (Until(ver) \ Box)
      <4> SUFFICES ASSUME NEW c \in Contacts, NEW v \in 1..MaxVer, v <= newCursor[c], ver[c] # Gone
                   PROVE  v <= ver[c] /\ Applied(c, v)
        BY <3>1, <3>2 DEF Until
      <4>1. newCursor[c] <= ver[c] /\ newCursor[c] \in 1..MaxVer /\ ver[c] \in 0..MaxVer
        BY <3>1, <3>2 DEF IInv, Past, TypeOK
      <4>2. Applied(c, newCursor[c])
        BY <3>1, <4>1 DEF IInv, RunApplies, Running
      <4> QED
        BY <4>1, <4>2 DEF Applied, TypeOK
    <3>4. cursor # NoCursor => Until(cursor) \subseteq Until(newCursor)
      <4>1. ASSUME cursor # NoCursor, NEW c \in Contacts
            PROVE  cursor[c] <= newCursor[c] /\ cursor[c] \in Nat /\ newCursor[c] \in Nat
        BY <3>2, <4>1 DEF NotAhead, TypeOK, Cursors
      <4> QED
        BY <4>1 DEF Until
    <3>5. Committed' = Until(newCursor) /\ (Committed # NoCursor => cursor # NoCursor)
      BY <3>1, <3>2
    <3>6. Committed # NoCursor => Committed \subseteq Committed'
      BY <3>4, <3>5
    <3>7. UNCHANGED <<Until(ver), Box, Settled>>
      BY <3>1 DEF Applied
    <3>8. Sync!Commit
      BY <3>3, <3>6, <3>7 DEF Sync!Commit, Sync!Accounted
    <3> QED
      BY <3>8 DEF Sync!Next
  <2>4. ASSUME UNCHANGED <<ver, live, destId, passedOver, cursor>> PROVE UNCHANGED Sync!vars
    BY <2>4 DEF Sync!vars, Until, Applied
  <2>5. CASE \/ \E m \in {"full", "delta"} : Start(m)
             \/ Capture \/ ListContacts \/ ListExpired \/ (Finish /\ cursor' = cursor)
             \/ Interrupt \/ UNCHANGED vars
    BY <2>4, <2>5 DEF Start, Capture, ListContacts, ListExpired, Listing, Finish, Interrupt, vars
  <2> QED
    BY <2>1, <2>2, <2>3, <2>5 DEF Next, Step, Working, Sync!Next
<1> QED
  BY <1>1, <1>2, TypeCorrect, IInvHolds, NotAheadHolds, PTL DEF Spec, ImplementsDeltaSync, Sync!Spec
=============================================================================
