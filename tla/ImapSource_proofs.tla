-------------------------- MODULE ImapSource_proofs --------------------------
(* Theorems about ImapSource, for any mailbox of any number of folders, any *)
(* number of renumberings and every fault budget.                           *)
EXTENDS ImapSource, FiniteSetTheorems, TLAPS

USE DEF server, ghosts

\* The UIDs of a folder are distinct and below its UIDNEXT.
Numbering ==
  /\ IsFiniteSet(box)
  /\ \A m \in box : uid[m] > 0 /\ uid[m] < uidnext[FolderOf[m]]
  /\ \A m, n \in box : FolderOf[m] = FolderOf[n] /\ uid[m] = uid[n] => m = n

\* Numbering anew keeps the numbers distinct, and does not touch other folders.
LEMMA Renumbered ==
  ASSUME TypeOK, Numbering, NEW f \in Folders, Renumber(f)
  PROVE  /\ uid' \in [Msgs -> Nat]
         /\ uidnext' \in [Folders -> Nat \ {0}]
         /\ Numbering'
         /\ \A g \in Folders \ {f} : uidvalidity'[g] = uidvalidity[g] /\ uidnext'[g] = uidnext[g]
         /\ \A m \in box : FolderOf[m] # f => uid'[m] = uid[m]
<1> DEFINE Here == In(f)
           count == Cardinality(Here)
<1>1. Here \subseteq box /\ \A m \in box : m \in Here <=> FolderOf[m] = f
  BY DEF In
<1>2. count \in Nat
  BY <1>1, FS_Subset, FS_CardinalityType DEF Numbering
<1>3. PICK number \in [Here -> 1..count] :
        /\ \A m, n \in Here : number[m] = number[n] => m = n
        /\ uid' = [m \in Msgs |-> IF m \in Here THEN number[m] ELSE uid[m]]
  BY DEF Renumber
<1>4. /\ uidnext' = [uidnext EXCEPT ![f] = count + 1] /\ box' = box
      /\ uidvalidity' = [uidvalidity EXCEPT ![f] = @ + 1]
  BY DEF Renumber
<1> HIDE DEF Here, count
<1>5. box \subseteq Msgs /\ \A m \in Here : number[m] \in Nat /\ number[m] > 0 /\ number[m] < count + 1
  BY <1>2, <1>3 DEF TypeOK
<1>6. uid' \in [Msgs -> Nat]
  BY <1>3, <1>5 DEF TypeOK
<1>7. uidnext' \in [Folders -> Nat \ {0}]
  BY <1>2, <1>4 DEF TypeOK
<1>8. \A m \in box : uid'[m] = IF m \in Here THEN number[m] ELSE uid[m]
  BY <1>3, <1>5
<1>9. \A g \in Folders : uidnext'[g] = IF g = f THEN count + 1 ELSE uidnext[g]
  BY <1>4 DEF TypeOK
<1>10. \A m \in box : FolderOf[m] \in Folders
  BY <1>5, FolderAssumption
<1>11. Numbering'
  BY <1>1, <1>3, <1>4, <1>5, <1>8, <1>9, <1>10 DEF Numbering
<1> QED
  BY <1>1, <1>4, <1>6, <1>7, <1>8, <1>9, <1>11 DEF TypeOK

\* The state of the server, the database and the run is well typed in every
\* reachable state, and UIDs stay distinct.
THEOREM TypeCorrect == Spec => [](TypeOK /\ Numbering)
<1> USE FolderAssumption, BoundsAssumption
<1>1. Init => TypeOK /\ Numbering
  BY FS_EmptySet DEF Init, TypeOK, Numbering, Cursors, Answers, NoAnswer
<1>2. TypeOK /\ Numbering /\ [Next]_vars => (TypeOK /\ Numbering)'
  <2> SUFFICES ASSUME TypeOK, Numbering, [Next]_vars PROVE TypeOK' /\ Numbering'
    OBVIOUS
  <2>0. NoAnswer \in Answers
    BY DEF NoAnswer, Answers
  <2>a. EndRun => newCursor' \in Cursors
    BY <2>0 DEF EndRun, Cursors
  <2> USE DEF TypeOK, Fault, EndRun
  <2>1. ASSUME NEW m \in Msgs, Arrive(m) PROVE TypeOK' /\ Numbering'
    <3>1. TypeOK'
      BY <2>1 DEF Arrive
    <3>2. IsFiniteSet(box')
      BY <2>1, FS_AddElement DEF Arrive, Numbering
    <3>3. \A n \in box' : uid'[n] > 0 /\ uid'[n] < uidnext'[FolderOf[n]]
      BY <2>1 DEF Arrive, Numbering
    <3>4. \A n, k \in box' : FolderOf[n] = FolderOf[k] /\ uid'[n] = uid'[k] => n = k
      BY <2>1 DEF Arrive, Numbering
    <3> QED
      BY <3>1, <3>2, <3>3, <3>4 DEF Numbering
  <2>2. ASSUME NEW m \in Msgs, Expunge(m) PROVE TypeOK' /\ Numbering'
    BY <2>2, FS_RemoveElement DEF Expunge, Numbering
  <2>3. ASSUME NEW f \in Folders, Renumber(f) PROVE TypeOK' /\ Numbering'
    <3>1. uidvalidity' \in [Folders -> 1..MaxValidity]
      BY <2>3 DEF Renumber
    <3> QED
      BY <2>3, <3>1, Renumbered DEF Renumber
  <2>4. CASE StartFull \/ StartDelta
    BY <2>4 DEF StartFull, StartDelta, Numbering
  <2>5. ASSUME NEW f \in Folders, Status(f) \/ StatusFails(f) PROVE TypeOK' /\ Numbering'
    <3>1. PICK answer \in Answers : Visit(f, answer)
      BY <2>0, <2>5 DEF Status, StatusFails, Answers
    <3>2. newCursor' \in Cursors
      BY <3>1 DEF Visit, Cursors
    <3>3. faults' \in 0..MaxFaults
      BY <2>5 DEF Status, StatusFails
    <3> QED
      BY <3>1, <3>2, <3>3 DEF Visit, Numbering
  <2>6. CASE Search \/ SearchFails \/ NextFolder
    BY <2>6 DEF Search, SearchFails, NextFolder, Found, In, Numbering
  <2>7. ASSUME NEW m \in Msgs, SkipDone(m) \/ FetchFails(m) PROVE TypeOK' /\ Numbering'
    BY <2>7 DEF SkipDone, FetchFails, Yields, Numbering
  <2>8. ASSUME NEW m \in Msgs, Import(m) PROVE TypeOK' /\ Numbering'
    <3>1. Id(m) \in Folders \X (0..MaxValidity) \X (Nat \ {0})
      BY <2>8 DEF Import, Yields, Id, Numbering, Cursors, Answers
    <3> QED
      BY <2>8, <3>1 DEF Import, Yields, Numbering
  <2>9. CASE Finish
    BY <2>a, <2>9 DEF Finish, NextCursor, Numbering
  <2>10. CASE Interrupt
    BY <2>a, <2>10 DEF Interrupt, Numbering
  <2>11. CASE UNCHANGED vars
    BY <2>11 DEF vars, Numbering
  <2> QED
    BY <2>1, <2>2, <2>3, <2>4, <2>5, <2>6, <2>7, <2>8, <2>9, <2>10, <2>11 DEF Next, Step
<1> QED
  BY <1>1, <1>2, PTL DEF Spec

-----------------------------------------------------------------------------
(* The inductive invariant *)

\* A STATUS answer says nothing of the future: its UIDVALIDITY has been used, and
\* while the folder keeps it, new messages get UIDs from its UIDNEXT on.
Known(answer, f) ==
  /\ answer.uidvalidity <= uidvalidity[f]
  /\ answer.uidvalidity = uidvalidity[f] => answer.uidnext <= uidnext[f]

\* The messages of a folder that a cursor entry leaves behind.
Behind(entry, f) ==
  {m \in box \ missed : /\ FolderOf[m] = f
                        /\ entry.uidvalidity = uidvalidity[f]
                        /\ uid[m] < entry.uidnext}

\* Ids on record are of the past too, and one that is a message's id of today
\* tells of a copy of that very message.
RecordsTrue ==
  /\ \A id \in done :
       /\ id[2] <= uidvalidity[id[1]]
       /\ id[2] = uidvalidity[id[1]] => id[3] < uidnext[id[1]]
  /\ \A m \in box : TrueId(m) \in done => copies[m] > 0

\* What the committed cursor leaves behind was copied.
CursorCovers ==
  cursor # NoCursor =>
    \A f \in Folders : /\ Known(cursor[f], f)
                       /\ \A m \in Behind(cursor[f], f) : copies[m] > 0

\* The run in progress: it looks from the committed cursor, its answers are known,
\* and of a folder it was told an outdated UIDVALIDITY nothing is on record yet.
RunInformed ==
  /\ since # NoCursor => since = cursor
  /\ pc = "fetch" => \A m \in todo : FolderOf[m] = folder
  /\ \A f \in Folders :
       /\ Known(newCursor[f], f)
       /\ newCursor[f] = NoAnswer \/ newCursor[f].uidvalidity > 0
       /\ newCursor[f].uidvalidity \notin {0, uidvalidity[f]} =>
            \A id \in done : id[1] = f => id[2] # uidvalidity[f]

\* As long as nothing failed, what a new entry would leave behind was copied or is
\* still to be searched or fetched.
RunCovers ==
  pc # "idle" /\ failures = 0 =>
    \A f \in Folders \ left : \A m \in Behind(newCursor[f], f) :
      copies[m] > 0 \/ (folder = f /\ (pc = "search" \/ m \in todo))

IInv == RecordsTrue /\ CursorCovers /\ RunInformed /\ RunCovers

\* Cursor entries are STATUS answers.
LEMMA Entries ==
  ASSUME TypeOK
  PROVE  \A f \in Folders :
           /\ newCursor[f] \in Answers
           /\ cursor # NoCursor => cursor[f] \in Answers
           /\ since # NoCursor => since[f] \in Answers
  BY DEF TypeOK, Cursors

\* The server moves on: no entry leaves more behind than before, no record is
\* contradicted.
LEMMA ServerKeeps ==
  ASSUME TypeOK, Numbering, IInv,
         \/ \E m \in Msgs : Arrive(m) \/ Expunge(m)
         \/ \E f \in Folders : Renumber(f)
  PROVE  IInv'
<1> USE FolderAssumption, BoundsAssumption
<1>1. ASSUME NEW m \in Msgs, Arrive(m) PROVE IInv'
  <2> DEFINE g == FolderOf[m]
  <2>1. /\ uid' = [uid EXCEPT ![m] = uidnext[g]] /\ uidnext' = [uidnext EXCEPT ![g] = @ + 1]
        /\ box' = box \cup {m} /\ g \in Folders /\ m \notin box
        /\ UNCHANGED <<uidvalidity, copies, done, cursor, pc, since, newCursor, left, folder,
                      todo, failures, faults, missed>>
    BY <1>1 DEF Arrive, Numbering
  <2>2. \A f \in Folders : uidnext'[f] >= uidnext[f] /\ uidnext[f] \in Nat /\ uidnext'[f] \in Nat
    BY <2>1 DEF TypeOK
  <2>3. \A n \in box' : n # m => uid'[n] = uid[n] /\ n \in box
    BY <2>1 DEF TypeOK
  <2>4. uid'[m] = uidnext[g]
    BY <2>1 DEF TypeOK
  <2>5. ASSUME NEW f \in Folders, NEW entry \in Answers, Known(entry, f)
        PROVE  Known(entry, f)' /\ Behind(entry, f)' \subseteq Behind(entry, f)
    BY <2>1, <2>2, <2>3, <2>4, <2>5 DEF Known, Behind, Answers
  <2>6. RecordsTrue'
    <3>1. \A id \in done : id[1] \in Folders /\ id[3] \in Nat
      BY DEF TypeOK
    <3> QED
      BY <2>1, <2>2, <2>3, <2>4, <3>1 DEF IInv, RecordsTrue, TrueId
  <2>7. CursorCovers' /\ RunInformed' /\ RunCovers'
    BY <2>1, <2>5, Entries DEF IInv, CursorCovers, RunInformed, RunCovers
  <2> QED
    BY <2>6, <2>7 DEF IInv
<1>2. ASSUME NEW m \in Msgs, Expunge(m) PROVE IInv'
  BY <1>2 DEF Expunge, IInv, RecordsTrue, TrueId, CursorCovers, RunInformed, RunCovers, Known, Behind
<1>3. ASSUME NEW g \in Folders, Renumber(g) PROVE IInv'
  <2>1. /\ uidvalidity'[g] = uidvalidity[g] + 1
        /\ \A f \in Folders \ {g} : uidvalidity'[f] = uidvalidity[f] /\ uidnext'[f] = uidnext[f]
        /\ \A m \in box : FolderOf[m] # g => uid'[m] = uid[m]
        /\ UNCHANGED <<box, copies, done, cursor, pc, since, newCursor, left, folder,
                      todo, failures, faults, missed>>
    BY <1>3, Renumbered DEF Renumber, TypeOK
  <2>2. uidvalidity[g] \in Nat
    BY DEF TypeOK
  <2>3. ASSUME NEW f \in Folders, NEW entry \in Answers, Known(entry, f)
        PROVE  Known(entry, f)' /\ Behind(entry, f)' \subseteq Behind(entry, f)
    BY <2>1, <2>2, <2>3 DEF Known, Behind, Answers
  <2>4. RecordsTrue'
    <3>1. \A id \in done : id[1] \in Folders /\ id[2] \in Nat
      BY DEF TypeOK
    <3>2. \A m \in box : FolderOf[m] \in Folders
      BY DEF TypeOK
    <3> QED
      BY <2>1, <2>2, <3>1, <3>2 DEF IInv, RecordsTrue, TrueId
  <2>5. RunInformed'
    <3>1. ASSUME NEW f \in Folders, NEW id \in done, id[1] = f, id[2] = uidvalidity'[f],
                 newCursor[f].uidvalidity \notin {0, uidvalidity'[f]}
          PROVE  FALSE
      BY <2>1, <2>2, <3>1 DEF IInv, RunInformed, RecordsTrue
    <3> QED
      BY <2>1, <2>3, <3>1, Entries DEF IInv, RunInformed
  <2>6. CursorCovers' /\ RunCovers'
    BY <2>1, <2>3, Entries DEF IInv, CursorCovers, RunInformed, RunCovers
  <2> QED
    BY <2>4, <2>5, <2>6 DEF IInv
<1> QED
  BY <1>1, <1>2, <1>3

\* An answer to STATUS, or the lack of one, is known, and leaves behind what the
\* committed cursor did, unless the folder is going to be searched.
LEMMA VisitKeeps ==
  ASSUME TypeOK, Numbering, IInv,
         NEW g \in Folders, Status(g) \/ StatusFails(g)
  PROVE  IInv'
<1> USE FolderAssumption, BoundsAssumption
<1>1. PICK answer \in Answers :
        /\ Visit(g, answer)
        /\ \/ answer = NoAnswer
           \/ answer.uidvalidity = uidvalidity[g] /\ answer.uidnext = uidnext[g]
  BY DEF Status, StatusFails, Answers, NoAnswer, TypeOK
<1>2. /\ newCursor' = [newCursor EXCEPT ![g] = answer] /\ left' = left \ {g} /\ g \in left
      /\ pc = "status" /\ folder = NoFolder
      /\ UNCHANGED <<server, copies, done, cursor, since, todo, failures, missed>>
  BY <1>1 DEF Visit, TypeOK
<1>3. \A f \in Folders : newCursor'[f] = IF f = g THEN answer ELSE newCursor[f]
  BY <1>2 DEF TypeOK, Cursors
<1>4. Known(answer, g)
  BY <1>1 DEF Known, NoAnswer, TypeOK
<1>5. answer.uidvalidity \in {0, uidvalidity[g]} /\ (answer = NoAnswer \/ answer.uidvalidity > 0)
  BY <1>1 DEF NoAnswer, TypeOK
<1>6. RunInformed'
  BY <1>1, <1>2, <1>3, <1>4, <1>5 DEF IInv, RunInformed, Visit, Known
<1>7. CASE UpToDate(g, answer)
  <2>1. \A m \in Behind(answer, g) : m \in Behind(cursor[g], g) /\ cursor # NoCursor
    BY <1>7, Entries DEF UpToDate, Behind, IInv, RunInformed, Answers, TypeOK
  <2>2. pc' = pc /\ folder' = folder
    BY <1>1, <1>7 DEF Visit
  <2>3. RunCovers'
    BY <1>2, <1>3, <2>1, <2>2 DEF IInv, RunCovers, CursorCovers, Behind
  <2> QED
    BY <1>2, <1>6, <2>3 DEF IInv, RecordsTrue, TrueId, CursorCovers, Known, Behind
<1>8. CASE ~UpToDate(g, answer)
  <2>1. pc' = "search" /\ folder' = g
    BY <1>1, <1>8 DEF Visit
  <2>2. RunCovers'
    BY <1>2, <1>3, <2>1 DEF IInv, RunCovers, Behind
  <2> QED
    BY <1>2, <1>6, <2>2 DEF IInv, RecordsTrue, TrueId, CursorCovers, Known, Behind
<1> QED
  BY <1>7, <1>8

\* What a search need not find is behind the committed cursor.
LEMMA SearchFinds ==
  ASSUME TypeOK, Numbering, IInv, folder \in Folders,
         NEW m \in Behind(newCursor[folder], folder)
  PROVE  m \in Found \/ copies[m] > 0
<1>1. m \in box /\ m \notin missed /\ FolderOf[m] = folder /\ uid[m] \in Nat
      /\ newCursor[folder].uidvalidity = uidvalidity[folder]
  BY DEF Behind, TypeOK
<1>2. CASE uid[m] >= StartUid(folder, newCursor[folder])
  BY <1>1, <1>2 DEF Found, In
<1>3. CASE ~(uid[m] >= StartUid(folder, newCursor[folder]))
  <2>1. CASE since # NoCursor /\ since[folder].uidvalidity = newCursor[folder].uidvalidity
    BY <1>1, <1>3, <2>1, Entries DEF StartUid, IInv, RunInformed, CursorCovers, Behind, Answers
  <2>2. CASE ~(since # NoCursor /\ since[folder].uidvalidity = newCursor[folder].uidvalidity)
    \* Otherwise the search starts from the first UID.
    <3>1. uid[m] > 0
      BY <1>1 DEF Numbering
    <3> QED
      BY <1>1, <1>3, <2>2, <3>1 DEF StartUid
  <2> QED
    BY <2>1, <2>2
<1> QED
  BY <1>2, <1>3

\* A search hands on what is not yet behind the cursor; a refused one is excepted.
LEMMA SearchKeeps ==
  ASSUME TypeOK, Numbering, IInv, Search \/ SearchFails
  PROVE  IInv'
<1>1. /\ pc = "search" /\ folder \in Folders
      /\ UNCHANGED <<server, copies, done, cursor, since, newCursor, left, failures>>
  BY DEF Search, SearchFails, TypeOK
<1>2. CASE Search
  <2>1. pc' = "fetch" /\ todo' = Found /\ folder' = folder /\ missed' = missed
    BY <1>2 DEF Search
  <2>2. \A m \in Found : FolderOf[m] = folder
    BY DEF Found, In
  <2>3. RunCovers'
    BY <1>1, <2>1, SearchFinds DEF IInv, RunCovers, Behind
  <2> QED
    BY <1>1, <2>1, <2>2, <2>3 DEF IInv, RecordsTrue, TrueId, CursorCovers, RunInformed, Known,
       Behind
<1>3. CASE SearchFails
  <2>1. pc' = "status" /\ missed' = missed \cup Found
    BY <1>3 DEF SearchFails
  <2>2. \A f \in Folders, entry \in Answers :
          Behind(entry, f)' \subseteq Behind(entry, f) /\ Behind(entry, f)' \cap Found = {}
    BY <1>1, <2>1 DEF Behind
  <2>3. RunCovers'
    BY <1>1, <2>1, <2>2, SearchFinds, Entries DEF IInv, RunCovers
  <2>4. CursorCovers' /\ RunInformed'
    BY <1>1, <2>1, <2>2, Entries DEF IInv, CursorCovers, RunInformed, Known
  <2> QED
    BY <1>1, <2>3, <2>4 DEF IInv, RecordsTrue, TrueId
<1> QED
  BY <1>2, <1>3

\* A message that is skipped was copied, one that is imported is now, and one that
\* cannot be fetched was copied or counts as a failure.
LEMMA FetchKeeps ==
  ASSUME TypeOK, Numbering, IInv,
         NEW m \in Msgs, SkipDone(m) \/ Import(m) \/ FetchFails(m)
  PROVE  IInv'
<1> USE FolderAssumption, BoundsAssumption
<1>1. /\ pc = "fetch" /\ todo' = todo \ {m} /\ m \in todo
      /\ folder \in Folders /\ FolderOf[m] = folder
      /\ UNCHANGED <<server, cursor, pc, since, newCursor, left, folder, missed>>
  BY DEF SkipDone, Import, FetchFails, Yields, TypeOK, IInv, RunInformed
<1>2. ASSUME newCursor[folder].uidvalidity = uidvalidity[folder]
      PROVE  Id(m) = TrueId(m)
  BY <1>1, <1>2 DEF Id, TrueId
<1>3. \A f \in Folders, entry \in Answers : Behind(entry, f)' = Behind(entry, f)
  BY <1>1 DEF Behind
<1>4. CASE SkipDone(m) \/ FetchFails(m)
  <2>1. UNCHANGED <<copies, done>>
    BY <1>4 DEF SkipDone, FetchFails
  <2>2. ASSUME failures' = 0, m \in Behind(newCursor[folder], folder)
        PROVE  copies[m] > 0 /\ failures = 0
    <3>1. m \in box /\ newCursor[folder].uidvalidity = uidvalidity[folder]
      BY <2>2 DEF Behind
    <3>2. Id(m) \in done /\ failures = 0
      BY <1>4, <2>2 DEF SkipDone, FetchFails, TypeOK
    <3> QED
      BY <1>2, <3>1, <3>2 DEF IInv, RecordsTrue
  <2>3. failures' = 0 => failures = 0
    BY <1>4 DEF SkipDone, FetchFails, TypeOK
  <2>4. RunCovers'
    BY <1>1, <1>3, <2>1, <2>2, <2>3, Entries DEF IInv, RunCovers
  <2> QED
    BY <1>1, <1>3, <2>1, <2>4, Entries DEF IInv, RecordsTrue, TrueId, CursorCovers, RunInformed, Known
<1>5. CASE Import(m)
  <2>1. /\ m \in box /\ failures' = failures /\ done' = done \cup {Id(m)}
        /\ copies' = [copies EXCEPT ![m] = @ + 1]
    BY <1>5 DEF Import
  <2>2. \A n \in Msgs : copies'[n] = IF n = m THEN copies[n] + 1 ELSE copies[n]
    BY <2>1 DEF TypeOK
  <2>3. copies'[m] > 0 /\ \A n \in Msgs : copies[n] > 0 => copies'[n] > 0
    BY <2>2 DEF TypeOK
  <2>4. /\ Id(m)[1] = folder /\ Id(m)[2] = newCursor[folder].uidvalidity /\ Id(m)[3] = uid[m]
    BY DEF Id
  <2>5. RecordsTrue'
    <3>1. \A id \in done' : /\ id[2] <= uidvalidity[id[1]]
                            /\ id[2] = uidvalidity[id[1]] => id[3] < uidnext[id[1]]
      BY <1>1, <2>1, <2>4 DEF IInv, RecordsTrue, RunInformed, Known, Numbering
    <3>2. ASSUME NEW n \in box, TrueId(n) \in done' PROVE copies'[n] > 0
      <4>1. CASE TrueId(n) \in done
        BY <2>3, <4>1 DEF IInv, RecordsTrue, TypeOK
      <4>2. CASE TrueId(n) = Id(m)
        \* No other message of the folder has this UID today.
        <5>1. FolderOf[n] = folder /\ uid[n] = uid[m]
          BY <4>2 DEF TrueId, Id
        <5>2. n = m
          BY <1>1, <2>1, <5>1 DEF Numbering
        <5> QED
          BY <2>3, <5>2
      <4> QED
        BY <2>1, <3>2, <4>1, <4>2
    <3> QED
      BY <1>1, <3>1, <3>2 DEF RecordsTrue, TrueId
  <2>6. RunInformed'
    BY <1>1, <2>1, <2>4 DEF IInv, RunInformed, Known
  <2>7. CursorCovers' /\ RunCovers'
    BY <1>1, <1>3, <2>1, <2>3, Entries DEF IInv, CursorCovers, RunCovers, Known, Behind, TypeOK
  <2> QED
    BY <2>5, <2>6, <2>7 DEF IInv
<1> QED
  BY <1>4, <1>5

\* A run that ends, cleanly or not, leaves its answers known.
LEMMA EndKeeps ==
  ASSUME TypeOK, IInv, Finish \/ Interrupt
  PROVE  IInv'
<1> USE FolderAssumption, BoundsAssumption
<1>1. UNCHANGED <<server, copies, done, missed>> /\ pc' = "idle" /\ since' = NoCursor
      /\ newCursor' = [f \in Folders |-> NoAnswer]
  BY DEF Finish, Interrupt, EndRun
<1>2. RecordsTrue' /\ RunCovers'
  BY <1>1 DEF IInv, RecordsTrue, TrueId, RunCovers
<1>3. RunInformed'
  BY <1>1 DEF RunInformed, Known, NoAnswer, TypeOK
<1>4. CASE cursor' = cursor
  BY <1>1, <1>2, <1>3, <1>4 DEF IInv, CursorCovers, Known, Behind
<1>5. CASE cursor' # cursor
  \* A new cursor: nothing failed, no folder is left, none is in hand.
  <2>1. cursor' = newCursor /\ failures = 0 /\ left = {} /\ pc = "status" /\ folder = NoFolder
    BY <1>5 DEF Finish, Interrupt, NextCursor, TypeOK
  <2>2. \A f \in Folders, k \in Msgs : k \in Behind(newCursor[f], f) => copies[k] > 0
    BY <2>1 DEF IInv, RunCovers
  <2>3. CursorCovers'
    BY <1>1, <2>1, <2>2 DEF IInv, RunInformed, CursorCovers, Known, Behind, TypeOK
  <2> QED
    BY <1>2, <1>3, <2>3 DEF IInv
<1> QED
  BY <1>4, <1>5

\* The invariant is inductive.
THEOREM IInvHolds == Spec => []IInv
<1> USE FolderAssumption, BoundsAssumption
<1>1. Init => IInv
  BY DEF Init, IInv, RecordsTrue, CursorCovers, RunInformed, RunCovers, Known, NoAnswer
<1>2. TypeOK /\ Numbering /\ IInv /\ [Next]_vars => IInv'
  <2> SUFFICES ASSUME TypeOK, Numbering, IInv, [Next]_vars PROVE IInv'
    OBVIOUS
  <2>1. CASE StartFull \/ StartDelta
    BY <2>1 DEF StartFull, StartDelta, IInv, RecordsTrue, TrueId, CursorCovers, RunInformed,
       RunCovers, Known, Behind
  <2>2. CASE NextFolder
    BY <2>2 DEF NextFolder, IInv, RecordsTrue, TrueId, CursorCovers, RunInformed, RunCovers,
       Known, Behind
  <2>3. CASE UNCHANGED vars
    BY <2>3 DEF vars, IInv, RecordsTrue, TrueId, CursorCovers, RunInformed, RunCovers, Known,
       Behind
  <2> QED
    BY <2>1, <2>2, <2>3, ServerKeeps, VisitKeeps, SearchKeeps, FetchKeeps, EndKeeps
       DEF Next, Step
<1> QED
  BY <1>1, <1>2, TypeCorrect, PTL DEF Spec

-----------------------------------------------------------------------------
(* What the runs check *)

\* No message that is missing at the destination is behind the committed entry
\* of its folder while the folder keeps its UIDVALIDITY, but for what a refused
\* search left out.
THEOREM NothingBehind == Spec => []NothingBehindCursor
<1>1. TypeOK /\ IInv => NothingBehindCursor
  BY FolderAssumption DEF TypeOK, IInv, CursorCovers, Behind, NothingBehindCursor
<1> QED
  BY <1>1, TypeCorrect, IInvHolds, PTL

\* What is on record under the UIDVALIDITY of today is never imported again by a
\* run that was told a UIDVALIDITY, be it today's or an older one.
THEOREM FinishedStaysFinished == Spec => FinishedNeverReimported
<1>1. TypeOK /\ Numbering /\ IInv /\ [Next]_vars =>
        [Informed => \A m \in box : TrueId(m) \in done => copies'[m] = copies[m]]_vars
  <2> SUFFICES ASSUME TypeOK, IInv, Next, Informed, NEW m \in box, TrueId(m) \in done
               PROVE  copies'[m] = copies[m]
    OBVIOUS
  <2>1. ASSUME NEW n \in Msgs, Import(n) PROVE copies'[m] = copies[m]
    <3>1. /\ pc = "fetch" /\ folder \in Folders /\ FolderOf[n] = folder
          /\ Id(n) \notin done /\ copies' = [copies EXCEPT ![n] = @ + 1]
      BY <2>1 DEF Import, Yields, TypeOK, IInv, RunInformed
    <3>2. m # n
      <4> SUFFICES ASSUME m = n PROVE FALSE
        OBVIOUS
      <4>1. newCursor[folder].uidvalidity # uidvalidity[folder]
        BY <3>1 DEF Id, TrueId
      <4>2. newCursor[folder].uidvalidity # 0
        BY <3>1, FolderAssumption DEF Informed, IInv, RunInformed
      <4>3. TrueId(m)[1] = folder /\ TrueId(m)[2] = uidvalidity[folder]
        BY <3>1 DEF TrueId
      <4> QED
        BY <3>1, <4>1, <4>2, <4>3 DEF IInv, RunInformed
    <3> QED
      BY <3>1, <3>2 DEF TypeOK
  <2>2. CASE \A n \in Msgs : ~Import(n)
    BY <2>2 DEF Next, Step, Arrive, Expunge, Renumber, StartFull, StartDelta, Status, StatusFails,
       Visit, Search, SearchFails, SkipDone, FetchFails, NextFolder, Finish, Interrupt
  <2> QED
    BY <2>1, <2>2
<1> QED
  BY <1>1, TypeCorrect, IInvHolds, PTL DEF Spec, FinishedNeverReimported
=============================================================================
