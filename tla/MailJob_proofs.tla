--------------------------- MODULE MailJob_proofs ---------------------------
(* Theorems about MailJob, for every mailbox, connector and fault budget. *)
EXTENDS MailJob, TLAPS

\* The state of the mail workload is well typed in every reachable state.
THEOREM TypeCorrect == Spec => []TypeOK
<1> USE NoMsgAssumption, BudgetAssumption
<1>1. Init => TypeOK
  BY DEF Init, TypeOK, Cursors, PC, Status, Reading
<1>2. TypeOK /\ [Next]_vars => TypeOK'
  <2> SUFFICES ASSUME TypeOK, [Next]_vars PROVE TypeOK'
    OBVIOUS
  <2> USE DEF TypeOK, Cursors, PC, Status, Reading, source, dest, db, run, ghosts,
              EndRun, BackToLoop, Fault, Bump
  <2>1. ASSUME NEW m \in Msgs, Arrive(m) PROVE TypeOK'
    BY <2>1 DEF Arrive
  <2>2. ASSUME NEW m \in Msgs, Remove(m) PROVE TypeOK'
    BY <2>2 DEF Remove
  <2>3. CASE StartFull
    BY <2>3 DEF StartFull
  <2>4. CASE StartDelta
    BY <2>4 DEF StartDelta
  <2>5. CASE Capture
    BY <2>5 DEF Capture
  <2>6. CASE ListMessages
    BY <2>6 DEF ListMessages, Listings
  <2>7. ASSUME NEW m \in Msgs, Vanished(m) PROVE TypeOK'
    BY <2>7 DEF Vanished
  <2>8. ASSUME NEW m \in Msgs, SkipDone(m) PROVE TypeOK'
    BY <2>8 DEF SkipDone
  <2>9. ASSUME NEW m \in Msgs, FetchError(m) PROVE TypeOK'
    BY <2>9 DEF FetchError, MarkFailed
  <2>10. ASSUME NEW m \in Msgs, Take(m) PROVE TypeOK'
    BY <2>10 DEF Take
  <2>11. CASE Create
    BY <2>11 DEF Create
  <2>12. CASE CreateLost
    BY <2>12 DEF CreateLost
  <2>13. CASE CreateFails
    BY <2>13 DEF CreateFails, MarkFailed
  <2>14. CASE Attach
    BY <2>14 DEF Attach
  <2>15. CASE AttachFails
    BY <2>15 DEF AttachFails, MarkFailed
  <2>16. CASE Record
    BY <2>16 DEF Record
  <2>17. CASE CopyExtra
    BY <2>17 DEF CopyExtra
  <2>18. CASE ExtraFails
    BY <2>18 DEF ExtraFails, ExtraCutOff
  <2>19. CASE Finish
    BY <2>19 DEF Finish, NextCursor
  <2>20. CASE Interrupt
    BY <2>20 DEF Interrupt
  <2>22. CASE AttachRetried
    BY <2>22 DEF AttachRetried
  <2>23. CASE ExtraRetried
    BY <2>23 DEF ExtraRetried, ExtraCutOff
  <2>21. CASE UNCHANGED vars
    BY <2>21 DEF vars
  <2> QED
    BY <2>1, <2>2, <2>3, <2>4, <2>5, <2>6, <2>7, <2>8, <2>9, <2>10, <2>11, <2>12,
       <2>13, <2>14, <2>15, <2>16, <2>17, <2>18, <2>19, <2>20, <2>21, <2>22,
       <2>23 DEF Next, Step
<1> QED
  BY <1>1, <1>2, PTL DEF Spec

-----------------------------------------------------------------------------
(* The inductive invariant *)

\* The invariant survives a step of a reading run, or of the source mailbox,
\* that leaves the cursors alone, forgets no recorded or removed message and,
\* unless it counts a failure, leaves nothing it drops unaccounted for.
LEMMA CoverageKept ==
  ASSUME TypeOK, IInv,
         arrived \subseteq arrived', Gone \subseteq Gone',
         Done \subseteq Done', Done' \subseteq arrived',
         UNCHANGED <<cursor, since, newCursor>>,
         pc \in Reading,
         failures' = 0 =>
           /\ failures = 0
           /\ (todo \cup {cur}) \ {NoMsg} \subseteq Done' \cup Gone' \cup todo' \cup {cur'},
         pc' \in {"create", "attach", "record"} => status'[cur'] # "done",
         pc' = "extra" => status'[cur'] = "done",
         ExtrasAfterRecord'
  PROVE  IInv'
<1> USE NoMsgAssumption, NoCursorAssumption DEF IInv, TypeOK, NothingBehindCursor, Cursors
<1>1. NothingBehindCursor'
  OBVIOUS
<1>2. since' # NoCursor => since' \subseteq Done' \cup Gone'
  OBVIOUS
<1>3. ASSUME newCursor' # NoCursor
      PROVE  /\ newCursor' \subseteq arrived'
             /\ cursor' # NoCursor => cursor' \subseteq newCursor'
             /\ pc' \in Reading /\ failures' = 0 =>
                  newCursor' \subseteq Done' \cup Gone' \cup todo' \cup {cur'}
  BY <1>3
<1> QED
  BY <1>1, <1>2, <1>3

\* No step makes a further copy too early or twice.
LEMMA ExtrasKept ==
  ASSUME TypeOK, IInv, [Next]_vars
  PROVE  ExtrasAfterRecord'
<1> USE DEF source, dest, db, run, ghosts, ExtrasAfterRecord
<1>1. CASE \/ \E m \in Msgs : Arrive(m) \/ Remove(m) \/ Vanished(m) \/ SkipDone(m)
           \/ StartFull \/ StartDelta \/ Capture \/ ListMessages \/ UNCHANGED vars
  BY <1>1 DEF Arrive, Remove, Vanished, SkipDone, StartFull, StartDelta, Capture, ListMessages,
     vars, IInv
<1>2. CASE \/ \E m \in Msgs : Take(m)
           \/ Create \/ CreateLost \/ Attach \/ AttachRetried \/ Finish \/ Interrupt
  BY <1>2 DEF Take, Create, CreateLost, Attach, AttachRetried, Finish, Interrupt, EndRun,
     BackToLoop, IInv
<1>3. ASSUME NEW m \in Msgs, FetchError(m) PROVE ExtrasAfterRecord'
  BY <1>3 DEF FetchError, Pending, MarkFailed, BackToLoop, TypeOK, IInv
<1>4. CASE CreateFails \/ AttachFails
  BY <1>4 DEF CreateFails, AttachFails, MarkFailed, BackToLoop, TypeOK, IInv
<1>5. CASE Record
  BY <1>5 DEF Record, BackToLoop, TypeOK, IInv
<1>6. CASE CopyExtra
  BY <1>6 DEF CopyExtra, BackToLoop, Bump, TypeOK, IInv
<1>7. CASE ExtraRetried \/ ExtraFails
  <2>1. CASE ExtraCutOff
    <3>1. /\ pc = "extra" /\ cur \in Msgs /\ status[cur] = "done" /\ extras[cur] = spare[cur]
          /\ extras' = Bump(extras, cur) /\ spare' = Bump(spare, cur) /\ status' = status
      BY <2>1 DEF ExtraCutOff, TypeOK, IInv
    <3>2. pc' = "extra" => cur' = cur
      BY <1>7, NoMsgAssumption DEF ExtraRetried, ExtraFails, BackToLoop
    <3> QED
      BY <3>1, <3>2 DEF Bump, TypeOK, IInv
  <2>2. CASE ~ExtraCutOff
    BY <1>7, <2>2 DEF ExtraRetried, ExtraFails, BackToLoop, IInv
  <2> QED
    BY <2>1, <2>2
<1> QED
  BY <1>1, <1>2, <1>3, <1>4, <1>5, <1>6, <1>7 DEF Next, Step

\* The strengthening is an invariant of the mail workload.
THEOREM IInvHolds == Spec => []IInv
<1> USE NoMsgAssumption, NoCursorAssumption
<1>1. Init => IInv
  BY DEF Init, IInv, NothingBehindCursor, ExtrasAfterRecord, Done, Reading
<1>2. TypeOK /\ TypeOK' /\ IInv /\ [Next]_vars => IInv'
  <2> SUFFICES ASSUME TypeOK, TypeOK', IInv, [Next]_vars PROVE IInv'
    OBVIOUS
  <2> USE DEF source, dest, db, run, ghosts
  <2>0. ExtrasAfterRecord'
    BY ExtrasKept
  <2>1. ASSUME NEW m \in Msgs, Arrive(m) PROVE IInv'
    BY <2>0, <2>1 DEF Arrive, TypeOK, IInv, NothingBehindCursor, Done, Gone, Cursors, Reading
  <2>2. ASSUME NEW m \in Msgs, Remove(m) PROVE IInv'
    BY <2>0, <2>2 DEF Remove, TypeOK, IInv, NothingBehindCursor, Done, Gone, Cursors, Reading
  <2>3. CASE StartFull \/ StartDelta
    BY <2>0, <2>3 DEF StartFull, StartDelta, TypeOK, IInv, NothingBehindCursor, Done, Gone, Cursors, Reading
  <2>4. CASE Capture
    BY <2>0, <2>4 DEF Capture, TypeOK, IInv, NothingBehindCursor, Done, Gone, Cursors, Reading
  <2>5. CASE ListMessages
    <3>1. todo' = box \/ (since # NoCursor /\ todo' = box \ since)
      BY <2>5 DEF ListMessages, Listings
    <3>2. arrived \subseteq Done \cup Gone \cup todo'
      BY <3>1 DEF TypeOK, IInv, Gone
    <3> QED
      BY <2>0, <2>5, <3>2 DEF ListMessages, TypeOK, IInv, NothingBehindCursor, Done, Gone, Reading
  <2>6. ASSUME NEW m \in Msgs, Vanished(m) PROVE IInv'
    BY <2>0, <2>6, CoverageKept DEF Vanished, TypeOK, IInv, Done, Gone, Reading
  <2>7. ASSUME NEW m \in Msgs, SkipDone(m) PROVE IInv'
    BY <2>0, <2>7, CoverageKept DEF SkipDone, TypeOK, IInv, Done, Gone, Reading
  <2>8. ASSUME NEW m \in Msgs, Take(m) PROVE IInv'
    BY <2>0, <2>8, CoverageKept DEF Take, Pending, TypeOK, IInv, Done, Gone, Reading
  <2>9. CASE \/ Create \/ CreateLost \/ Attach \/ AttachRetried
             \/ CopyExtra \/ ExtraRetried \/ ExtraFails
    BY <2>0, <2>9, CoverageKept DEF Create, CreateLost, Attach, AttachRetried, CopyExtra,
       ExtraRetried, ExtraFails, ExtraCutOff, BackToLoop, TypeOK, IInv, Done, Gone, Reading
  <2>10. ASSUME NEW m \in Msgs, FetchError(m) PROVE IInv'
    BY <2>0, <2>10, CoverageKept DEF FetchError, Pending, MarkFailed, BackToLoop, TypeOK, IInv, Done, Gone, Reading
  <2>11. CASE CreateFails \/ AttachFails
    <3>1. /\ status' = [status EXCEPT ![cur] = "failed"]
          /\ failures' = failures + 1 /\ pc' = "loop"
          /\ UNCHANGED <<arrived, box, cursor, since, newCursor>>
          /\ pc \in {"create", "attach"}
      BY <2>11 DEF CreateFails, AttachFails, MarkFailed, BackToLoop
    <3>2. Done' = Done
      BY <3>1 DEF IInv, Done, TypeOK
    <3>3. failures' # 0
      BY <3>1 DEF TypeOK
    <3> QED
      BY <2>0, <3>1, <3>2, <3>3, CoverageKept DEF IInv, Gone, Reading
  <2>12. CASE Record
    <3>1. /\ status' = [status EXCEPT ![cur] = "done"]
          /\ pc = "record" /\ pc' \in {"loop", "extra"}
          /\ UNCHANGED <<arrived, box, cursor, since, newCursor, todo, failures>>
      BY <2>12 DEF Record, BackToLoop, db, dest, source, ghosts
    <3>0. pc' = "extra" => cur' = cur
      BY <2>12 DEF Record, BackToLoop
    <3>2. Done' = Done \cup {cur} /\ cur \in arrived
      BY <3>1 DEF Done, TypeOK
    <3>3. pc' = "extra" => status'[cur'] = "done"
      BY <3>0, <3>1, <3>2 DEF TypeOK
    <3>4. /\ failures' = failures
          /\ (todo \cup {cur}) \ {NoMsg} \subseteq Done' \cup Gone' \cup todo' \cup {cur'}
      BY <3>1, <3>2
    <3> QED
      BY <2>0, <3>1, <3>2, <3>3, <3>4, CoverageKept DEF TypeOK, IInv, Gone, Reading
  <2>13. CASE Finish
    BY <2>0, <2>13 DEF Finish, NextCursor, EndRun, TypeOK, IInv, NothingBehindCursor, Done, Gone, Reading
  <2>14. CASE Interrupt
    BY <2>0, <2>14 DEF Interrupt, EndRun, TypeOK, IInv, NothingBehindCursor, Done, Gone, Reading
  <2>15. CASE UNCHANGED vars
    BY <2>0, <2>15 DEF vars, TypeOK, IInv, NothingBehindCursor, Done, Gone
  <2> QED
    BY <2>1, <2>2, <2>3, <2>4, <2>5, <2>6, <2>7, <2>8, <2>9, <2>10, <2>11, <2>12,
       <2>13, <2>14, <2>15 DEF Next, Step
<1> QED
  BY <1>1, <1>2, TypeCorrect, PTL DEF Spec

\* The committed cursor never leaves behind a message that is still in the
\* source mailbox and not recorded as migrated, whatever is interrupted.
THEOREM NothingBehind == Spec => []NothingBehindCursor
<1>1. IInv => NothingBehindCursor
  BY DEF IInv
<1> QED
  BY <1>1, IInvHolds, PTL

-----------------------------------------------------------------------------
(* Duplicates *)

\* Every primary copy is the recorded one, the one in hand, or an orphan of a
\* fault that struck between the create and the record.
LEMMA PrimaryCopiesHold == Spec => []PrimaryCopies
<1> USE NoMsgAssumption
<1>1. Init => PrimaryCopies
  BY DEF Init, PrimaryCopies
<1>2. TypeOK /\ IInv /\ PrimaryCopies /\ [Next]_vars => PrimaryCopies'
  <2> SUFFICES ASSUME TypeOK, IInv, PrimaryCopies, [Next]_vars,
                      NEW k \in Msgs
               PROVE  PrimaryCopies!(k)'
    BY DEF PrimaryCopies
  <2> USE DEF source, dest, db, run, ghosts, Bump
  <2>0. /\ PrimaryCopies!(k)
        /\ copies[k] \in Nat /\ orphaned[k] \in Nat
    BY DEF PrimaryCopies, TypeOK
  <2>1. CASE \/ \E m \in Msgs : Arrive(m) \/ Remove(m) \/ Vanished(m) \/ SkipDone(m)
             \/ StartFull \/ StartDelta \/ Capture \/ ListMessages \/ UNCHANGED vars
    BY <2>0, <2>1 DEF Arrive, Remove, Vanished, SkipDone, StartFull, StartDelta, Capture,
       ListMessages, vars
  <2>2. CASE \/ \E m \in Msgs : Take(m)
             \/ Attach \/ CopyExtra \/ ExtraRetried \/ ExtraFails \/ Finish
    BY <2>0, <2>2 DEF Take, Attach, CopyExtra, ExtraRetried, ExtraFails, ExtraCutOff, Finish,
       NextCursor, EndRun, BackToLoop
  <2>3. ASSUME NEW m \in Msgs, FetchError(m) PROVE PrimaryCopies!(k)'
    BY <2>0, <2>3 DEF FetchError, Pending, MarkFailed, BackToLoop, TypeOK
  <2>4. CASE Create
    BY <2>0, <2>4 DEF Create, TypeOK
  <2>5. CASE CreateLost \/ AttachRetried
    BY <2>0, <2>5 DEF CreateLost, AttachRetried, TypeOK, IInv
  <2>6. CASE CreateFails
    BY <2>0, <2>6 DEF CreateFails, MarkFailed, BackToLoop, TypeOK, IInv
  <2>7. CASE AttachFails
    BY <2>0, <2>7 DEF AttachFails, MarkFailed, BackToLoop, TypeOK, IInv
  <2>8. CASE Record
    BY <2>0, <2>8 DEF Record, BackToLoop, TypeOK, IInv
  <2>9. CASE Interrupt
    BY <2>0, <2>9 DEF Interrupt, EndRun, TypeOK, IInv
  <2> QED
    BY <2>1, <2>2, <2>3, <2>4, <2>5, <2>6, <2>7, <2>8, <2>9 DEF Next, Step
<1> QED
  BY <1>1, <1>2, TypeCorrect, IInvHolds, PTL DEF Spec

\* With the types of its variables, this is what the runs check.
THEOREM CopiesAreAccounted == Spec => []CopiesAccounted
BY TypeCorrect, PrimaryCopiesHold, PTL DEF CopiesAccounted

\* Every run, whatever interrupts it, implements DeltaSync: recording a message
\* settles it, a clean finish commits a cursor that covers only accounted
\* messages and no fewer than the last one, and no other step shows.
THEOREM ImplementsSync == Spec => ImplementsDeltaSync
<1> USE NoMsgAssumption, NoCursorAssumption DEF source, dest, db, run, ghosts
<1>1. Init => Sync!Init
  BY DEF Init, Sync!Init, Done
<1>2. TypeOK /\ IInv /\ [Next]_vars => [Sync!Next]_(Sync!vars)
  <2> SUFFICES ASSUME TypeOK, IInv, [Next]_vars PROVE Sync!Next \/ UNCHANGED Sync!vars
    OBVIOUS
  <2>1. ASSUME NEW m \in Msgs, Arrive(m) PROVE Sync!Change
    BY <2>1 DEF Arrive, Sync!Change, Done, TypeOK
  <2>2. ASSUME NEW m \in Msgs, Remove(m) PROVE Sync!Change
    BY <2>2 DEF Remove, Sync!Change, Done, TypeOK
  <2>3. CASE Record
    <3>1. /\ cur \in arrived \ Done /\ Done' = Done \cup {cur}
          /\ UNCHANGED <<arrived, box, cursor>>
      BY <2>3 DEF Record, TypeOK, IInv, Done
    <3>2. Sync!Settle
      BY <3>1 DEF Sync!Settle, TypeOK, Done
    <3> QED
      BY <3>2 DEF Sync!Next
  <2>4. CASE Finish
    <3>1. UNCHANGED <<arrived, box, status>>
      BY <2>4 DEF Finish, NextCursor
    <3>2. CASE newCursor # NoCursor /\ failures = 0
      <4>1. Sync!Commit
        BY <2>4, <3>1, <3>2 DEF Finish, NextCursor, Sync!Commit, Sync!Accounted, IInv, TypeOK, Done, Gone,
           Reading, Cursors
      <4> QED
        BY <4>1 DEF Sync!Next
    <3>3. CASE ~(newCursor # NoCursor /\ failures = 0)
      BY <2>4, <3>1, <3>3 DEF Finish, NextCursor, Sync!vars, Done
    <3> QED
      BY <3>2, <3>3
  <2>5. CASE \/ \E m \in Msgs : Vanished(m) \/ SkipDone(m) \/ Take(m)
             \/ StartFull \/ StartDelta \/ Capture \/ ListMessages
             \/ Create \/ CreateLost \/ Attach \/ AttachRetried
             \/ CopyExtra \/ ExtraRetried \/ ExtraFails
             \/ Interrupt \/ UNCHANGED vars
    BY <2>5 DEF Vanished, SkipDone, Take, StartFull, StartDelta, Capture, ListMessages, Create,
       CreateLost, Attach, AttachRetried, CopyExtra, ExtraRetried, ExtraFails, ExtraCutOff,
       Interrupt, vars, Sync!vars, Done
  <2>6. ASSUME NEW m \in Msgs, FetchError(m) PROVE UNCHANGED Sync!vars
    BY <2>6 DEF FetchError, Pending, MarkFailed, TypeOK, Sync!vars, Done
  <2>7. CASE CreateFails \/ AttachFails
    BY <2>7 DEF CreateFails, AttachFails, MarkFailed, TypeOK, IInv, Sync!vars, Done
  <2> QED
    BY <2>1, <2>2, <2>3, <2>4, <2>5, <2>6, <2>7 DEF Next, Step, Sync!Next
<1> QED
  BY <1>1, <1>2, TypeCorrect, IInvHolds, PTL DEF Spec, ImplementsDeltaSync, Sync!Spec

-----------------------------------------------------------------------------
(* What no step does *)

\* A recorded message stays recorded and is never imported again; further
\* copies are made of recorded messages only, and no more of them once one was
\* made without a fault.
THEOREM FinishedStaysFinished == Spec => FinishedNeverReimported
<1>1. ASSUME TypeOK, IInv, [Next]_vars, NEW k \in Msgs
      PROVE  KeepsFinished(k)
  <2> USE DEF source, dest, db, run, ghosts, Bump, KeepsFinished
  <2>1. CASE Record
    BY <1>1, <2>1 DEF Record, TypeOK
  <2>2. CASE Create \/ CreateLost
    BY <1>1, <2>2 DEF Create, CreateLost, TypeOK, IInv
  <2>3. CASE CreateFails \/ AttachFails
    BY <1>1, <2>3 DEF CreateFails, AttachFails, MarkFailed, TypeOK, IInv
  <2>4. ASSUME NEW m \in Msgs, FetchError(m) PROVE KeepsFinished(k)
    BY <1>1, <2>4 DEF FetchError, Pending, MarkFailed, TypeOK
  <2>5. CASE CopyExtra \/ ExtraRetried \/ ExtraFails
    BY <1>1, <2>5 DEF CopyExtra, ExtraRetried, ExtraFails, ExtraCutOff, TypeOK, IInv,
       ExtrasAfterRecord
  <2>6. CASE \/ \E m \in Msgs : Arrive(m) \/ Remove(m) \/ Vanished(m) \/ SkipDone(m) \/ Take(m)
             \/ StartFull \/ StartDelta \/ Capture \/ ListMessages
             \/ Attach \/ AttachRetried \/ Finish \/ Interrupt \/ UNCHANGED vars
    BY <2>6 DEF Arrive, Remove, Vanished, SkipDone, Take, StartFull, StartDelta, Capture,
       ListMessages, Attach, AttachRetried, Finish, Interrupt, vars
  <2> QED
    BY <1>1, <2>1, <2>2, <2>3, <2>4, <2>5, <2>6 DEF Next, Step
<1>2. TypeOK /\ IInv /\ [Next]_vars => [\A m \in Msgs : KeepsFinished(m)]_vars
  BY <1>1
<1> QED
  BY <1>2, TypeCorrect, IInvHolds, PTL DEF Spec, FinishedNeverReimported
=============================================================================
