-------------------------- MODULE Orchestrator_proofs --------------------------
(* Theorems about Orchestrator, for any list of users, sources they share,  *)
(* order of the workloads, pool sizes and fault budget.                     *)
EXTENDS Orchestrator, FiniteSetTheorems, TLAPS

USE DEF rows, locals, order, ghosts

\* The users the workload that is run has not done with.
Pending == queue \cup active

\* Failures there can be in the first n places of the order.
FailuresIn(n) == Cardinality(Users) * n

\* What the main thread knows when it waits: only a busy command has futures, all
\* of them of its users and of one of its workloads.
Futures ==
  /\ Pending \subseteq scope
  /\ command = "idle" => Pending = {}
  /\ Pending # {} => next > 0 /\ Workload \in plan

\* A user fails at most once in each place.
FailuresCounted ==
  failedUsers + Cardinality(queue) + Cardinality(active) <= FailuresIn(next)

\* Numbers of users.
LEMMA Counts ==
  /\ Cardinality(Users) \in Nat
  /\ Cardinality({}) = 0
  /\ \A S \in SUBSET Users : IsFiniteSet(S) /\ Cardinality(S) \in 0..Cardinality(Users)
  /\ \A S \in SUBSET Users, u \in Users :
       /\ u \in S => Cardinality(S \ {u}) = Cardinality(S) - 1
       /\ u \notin S => Cardinality(S \cup {u}) = Cardinality(S) + 1
<1> USE UsersAssumption
<1>1. Cardinality(Users) \in Nat /\ Cardinality({}) = 0
  BY FS_CardinalityType, FS_EmptySet
<1>2. ASSUME NEW S \in SUBSET Users
      PROVE  IsFiniteSet(S) /\ Cardinality(S) \in 0..Cardinality(Users)
  BY <1>1, FS_Subset, FS_CardinalityType
<1>3. ASSUME NEW S \in SUBSET Users, NEW u \in Users
      PROVE  /\ u \in S => Cardinality(S \ {u}) = Cardinality(S) - 1
             /\ u \notin S => Cardinality(S \cup {u}) = Cardinality(S) + 1
  BY <1>2, FS_AddElement, FS_RemoveElement
<1> QED
  BY <1>1, <1>2, <1>3

\* A place more in the order adds the users once more.
LEMMA OncePerPlace ==
  /\ Len(Order) \in Nat /\ Workloads = {Order[n] : n \in 1..Len(Order)}
  /\ MaxFailed \in Nat /\ FailuresIn(0) = 0
  /\ \A n \in 0..Len(Order) :
       /\ FailuresIn(n) \in 0..MaxFailed
       /\ FailuresIn(n + 1) = FailuresIn(n) + Cardinality(Users)
<1>1. Len(Order) \in Nat /\ DOMAIN Order = 1..Len(Order)
  BY OrderAssumption
<1>2. Cardinality(Users) \in Nat
  BY Counts
<1>3. Workloads = {Order[n] : n \in 1..Len(Order)}
  BY <1>1 DEF Workloads, ToSet
<1>4. \A c \in Nat : \A n \in Nat : c * n \in Nat /\ c * (n + 1) = c * n + c /\ c * 0 = 0
  BY SMT
<1>5. \A c, k \in Nat : \A n \in 0..k : c * n <= c * k
  BY SMT
<1>6. MaxFailed \in Nat /\ FailuresIn(0) = 0
  BY <1>1, <1>2, <1>4 DEF MaxFailed, FailuresIn
<1>7. ASSUME NEW n \in 0..Len(Order)
      PROVE  /\ FailuresIn(n) \in 0..MaxFailed
             /\ FailuresIn(n + 1) = FailuresIn(n) + Cardinality(Users)
  BY <1>1, <1>2, <1>4, <1>5, <1>6 DEF MaxFailed, FailuresIn
<1> QED
  BY <1>1, <1>3, <1>6, <1>7

\* The state database, the command and the threads are well typed in every
\* reachable state, and no pool runs more jobs than its `concurrency`.
THEOREM TypeCorrect == Spec => [](TypeOK /\ Futures /\ FailuresCounted)
<1> DEFINE Typed == TypeOK /\ Futures /\ FailuresCounted
<1> USE BoundsAssumption
<1>1. Init => Typed
  BY Counts, OncePerPlace DEF Init, TypeOK, Futures, FailuresCounted, Pending, NoCode
<1>2. Typed /\ [Next]_vars => Typed'
  <2> SUFFICES ASSUME TypeOK, Futures, FailuresCounted, [Next]_vars PROVE Typed'
    OBVIOUS
  <2>0. Len(Order) \in Nat /\ MaxFailed \in Nat /\ \A n \in 1..Len(Order) : Order[n] \in Workloads
    BY OncePerPlace
  <2>00. Workload' = (IF next' = next THEN Workload ELSE Order[next'])
    BY DEF Workload
  <2>n. /\ Cardinality(queue) \in Nat /\ Cardinality(active) \in Nat
        /\ queue \in SUBSET Users /\ active \in SUBSET Users
    <3>1. queue \in SUBSET Users /\ active \in SUBSET Users
      BY DEF TypeOK
    <3> QED
      BY <3>1, Counts
  <2>f. /\ failedUsers <= FailuresIn(next) /\ FailuresIn(next) \in Nat /\ failedUsers \in Nat
        /\ FailuresIn(next + 1) = FailuresIn(next) + Cardinality(Users)
    <3>1. next \in 0..Len(Order) /\ failedUsers \in 0..MaxFailed
      BY DEF TypeOK
    <3> QED
      BY <3>1, <2>0, <2>n, OncePerPlace DEF FailuresCounted
  <2>u. ASSUME UNCHANGED <<queue, active, next, failedUsers>> PROVE FailuresCounted'
    BY <2>u DEF FailuresCounted, FailuresIn
  <2> USE <2>0 DEF TypeOK, Futures, Pending, Fault
  <2>1. CASE Tick
    BY <2>1, <2>u DEF Tick, Workload
  <2>2. ASSUME NEW how \in {"full", "whatif"}, NEW users \in SUBSET Users,
               NEW workloads \in SUBSET Workloads, Start(how, users, workloads)
        PROVE  Typed'
    <3>1. queue' = {} /\ active' = {} /\ failedUsers' = 0 /\ next' = 0
      BY <2>2 DEF Start
    <3>2. FailuresCounted'
      BY <3>1, Counts, OncePerPlace DEF FailuresCounted, FailuresIn
    <3> QED
      BY <2>2, <3>1, <3>2 DEF Start, NoCode
  <2>3. CASE Reject
    BY <2>3, <2>u DEF Reject, Workload
  <2>4. CASE RunWorkload
    <3>1. /\ next' \in 1..Len(Order) /\ next' = next + 1 /\ queue' \in {scope, {}}
          /\ queue = {} /\ active' = {} /\ failedUsers' = failedUsers
          /\ queue' # {} => Order[next'] \in plan
      BY <2>4 DEF RunWorkload
    <3>2. queue' \in SUBSET Users
      BY <3>1
    <3>3. FailuresCounted'
      <4> HIDE DEF TypeOK, Futures
      <4>1. Cardinality(queue') \in 0..Cardinality(Users) /\ Cardinality(active') = 0
        BY <3>1, <3>2, Counts
      <4>2. FailuresIn(next)' = FailuresIn(next + 1)
        BY <3>1 DEF FailuresIn
      <4> QED
        BY <3>1, <4>1, <4>2, <2>f, Counts DEF FailuresCounted
    <3>4. Futures'
      BY <2>4, <3>1 DEF RunWorkload, Workload
    <3> QED
      BY <2>4, <3>1, <3>2, <3>3, <3>4 DEF RunWorkload
  <2>5. ASSUME NEW u \in Users, Begin(u) PROVE Typed'
    <3>1. /\ u \in queue /\ u \notin active /\ queue' = queue \ {u} /\ active' = active \cup {u}
          /\ Cardinality(active) < MaxWorkers[Workload]
          /\ next' = next /\ failedUsers' = failedUsers /\ plan' = plan /\ scope' = scope
      BY <2>5 DEF Begin
    <3>2. /\ Cardinality(queue') = Cardinality(queue) - 1
          /\ Cardinality(active') = Cardinality(active) + 1
      <4> HIDE DEF TypeOK, Futures
      <4> QED
        BY <3>1, <2>n, Counts
    <3>3. Workload' = Workload /\ Workload \in Workloads
      BY <3>1, <2>00
    <3>4. Share(u, Workload) \in SUBSET Items
      BY UsersAssumption DEF Share
    <3>5. FailuresCounted'
      <4> HIDE DEF TypeOK, Futures
      <4> QED
        BY <3>1, <3>2, <2>n, <2>f DEF FailuresCounted, FailuresIn
    <3>6. active' # {} => Cardinality(active') <= MaxWorkers[Workload']
      BY <3>1, <3>2, <3>3, <2>n
    <3> QED
      BY <2>5, <3>1, <3>3, <3>4, <3>5, <3>6 DEF Begin
  <2>6. ASSUME NEW u \in Users, NEW i \in Items, Check(u, i) PROVE Typed'
    BY <2>6, <2>u DEF Check, Workload
  <2>12. ASSUME NEW u \in Users, ListingEnds(u) PROVE Typed'
    <3>1. PICK part \in SUBSET todo[u] :
            /\ todo' = [todo EXCEPT ![u] = part]
            /\ dropped' = dropped \cup (todo[u] \ part)
      BY <2>12 DEF ListingEnds
    <3>2. u \in active /\ todo[u] \in SUBSET Items
      BY <2>12 DEF ListingEnds
    <3> QED
      BY <2>12, <2>u, <3>1, <3>2 DEF ListingEnds, Workload
  <2>7. ASSUME NEW u \in Users, ItemDone(u) \/ ItemFails(u) PROVE Typed'
    <3>1. hand[u] \in Items /\ u \in active
      BY <2>7 DEF ItemDone, ItemFails, Handled
    <3>2. PICK s \in {"done", "failed"} : Handled(u, s)
      BY <2>7 DEF ItemDone, ItemFails
    <3>3. faults' \in 0..MaxFaults
      BY <2>7 DEF ItemDone, ItemFails
    <3> QED
      BY <3>1, <3>2, <3>3, <2>u DEF Handled, Upsert, Workload
  <2>8. ASSUME NEW u \in Users, JobDone(u) \/ JobRaises(u) PROVE Typed'
    <3>1. /\ u \in active /\ active' = active \ {u} /\ queue' = queue
          /\ next' = next /\ plan' = plan /\ scope' = scope
          /\ failedUsers' \in {failedUsers, failedUsers + 1}
      BY <2>8 DEF JobDone, JobRaises, Leave
    <3>2. Cardinality(active') = Cardinality(active) - 1
      <4> HIDE DEF TypeOK, Futures
      <4> QED
        BY <3>1, <2>n, Counts
    <3>3. Workload' = Workload /\ Workload \in Workloads
      BY <3>1, <2>00
    <3>4. FailuresCounted'
      <4> HIDE DEF TypeOK, Futures
      <4> QED
        BY <3>1, <3>2, <2>n, <2>f DEF FailuresCounted, FailuresIn
    <3>5. active' # {} => Cardinality(active') <= MaxWorkers[Workload']
      BY <3>1, <3>2, <3>3, <2>n
    <3>6. failedUsers' \in 0..MaxFailed
      <4>1. next \in 0..Len(Order)
        OBVIOUS
      <4> HIDE DEF TypeOK, Futures
      <4>2. FailuresIn(next) \in 0..MaxFailed
        BY <4>1, OncePerPlace
      <4>3. failedUsers' <= FailuresIn(next)
        BY <3>1, <3>2, <2>n, <2>f, Counts DEF FailuresCounted
      <4> QED
        BY <3>1, <4>2, <4>3, <2>f
    <3>7. /\ jobRun' \in [Users \X Workloads -> {"none", "running", "done", "failed"}]
          /\ faults' \in 0..MaxFaults
      <4>1. PICK r \in {"done", "failed"} : jobRun' = [jobRun EXCEPT ![<<u, Workload>>] = r]
        BY <2>8 DEF JobDone, JobRaises
      <4>2. faults' \in 0..MaxFaults
        BY <2>8 DEF JobDone, JobRaises
      <4> QED
        BY <4>1, <4>2, <3>3
    <3>8. /\ UNCHANGED <<now, status, updatedAt, command, mode, started, exitCode>>
          /\ todo' = [todo EXCEPT ![u] = {}] /\ hand' = [hand EXCEPT ![u] = NoItem]
          /\ dropped' = dropped
      BY <2>8 DEF JobDone, JobRaises, Leave
    <3> QED
      BY <3>1, <3>3, <3>4, <3>5, <3>6, <3>7, <3>8
  <2>9. CASE Exit
    BY <2>9, <2>u DEF Exit, Workload
  <2>10. CASE Kill
    <3>1. queue' = {} /\ active' = {} /\ UNCHANGED <<failedUsers, next>>
      BY <2>10 DEF Kill
    <3>2. FailuresCounted'
      <4> HIDE DEF TypeOK, Futures
      <4> QED
        BY <3>1, <2>f, Counts DEF FailuresCounted, FailuresIn
    <3> QED
      BY <2>10, <3>1, <3>2 DEF Kill, NoCode
  <2>11. CASE UNCHANGED vars
    BY <2>11, <2>u DEF vars, Workload
  <2> QED
    <3>1. \A users \in {Users} \cup {{u} : u \in Users} : users \in SUBSET Users
      OBVIOUS
    <3>2. Sequence \in SUBSET Workloads /\ \A workloads \in Plans : workloads \in SUBSET Workloads
      BY UsersAssumption DEF Plans, Sequence
    <3> HIDE DEF TypeOK, Futures, Fault
    <3> QED
      BY <3>1, <3>2, <2>1, <2>2, <2>3, <2>4, <2>5, <2>6, <2>7, <2>8, <2>9, <2>10, <2>11,
         <2>12 DEF Next, Work
<1> QED
  BY <1>1, <1>2, PTL DEF Spec

-----------------------------------------------------------------------------
(* The inductive invariant *)

\* What the command left of an item will show: it is done, or failed with a time
\* stamp that the exit code looks at.
Settled(i) == status[i] = "done" \/ (status[i] = "failed" /\ updatedAt[i] >= started)

\* The command has come to the workload.
Reached == {Order[n] : n \in 1..next}
DoneWith(u, w) == w \in Reached /\ (w = Workload => u \notin Pending)

\* A job that is under way has settled what it has neither in hand nor ahead,
\* but for what a listing that broke off did not get to.
JobsSettle ==
  mode = "full" =>
    \A u \in active : \A i \in Share(u, Workload) :
      i \in todo[u] \/ hand[u] = i \/ i \in dropped \/ Settled(i)

\* A job that is over returned, with all its items settled but those dropped, or
\* it was counted.
CommandSettles ==
  command = "busy" /\ mode = "full" /\ failedUsers = 0 =>
    \A u \in scope, w \in plan :
      DoneWith(u, w) =>
        jobRun[<<u, w>>] = "done" /\ \A i \in Share(u, w) \ dropped : Settled(i)

\* The exit code of the last command is true of what it left.
CodeTrue ==
  command = "idle" /\ exitCode = 0 /\ mode # "whatif" =>
    \A u \in scope, w \in plan :
      jobRun[<<u, w>>] = "done" /\ \A i \in Share(u, w) \ dropped : status[i] = "done"

IInv == JobsSettle /\ CommandSettles /\ CodeTrue

\* What is settled stays so until the next command begins, whoever writes the row.
LEMMA SettledStays ==
  ASSUME TypeOK, UNCHANGED started,
         \/ UNCHANGED rows
         \/ \E u \in Users, s \in {"done", "failed"} : Handled(u, s)
  PROVE  \A i \in Items : Settled(i) => Settled(i)'
<1>1. CASE UNCHANGED rows
  BY <1>1 DEF Settled
<1>2. ASSUME NEW u \in Users, NEW s \in {"done", "failed"}, Handled(u, s)
      PROVE  \A i \in Items : Settled(i) => Settled(i)'
  <2>1. /\ status' = [status EXCEPT ![hand[u]] = s]
        /\ updatedAt' = [updatedAt EXCEPT ![hand[u]] = now]
    BY <1>2 DEF Handled, Upsert
  <2>2. now >= started /\ hand[u] \in Items
    BY <1>2 DEF TypeOK, Handled
  <2> QED
    BY <2>1, <2>2 DEF Settled, TypeOK
<1> QED
  BY <1>1, <1>2

\* A step that touches no row and no thread, and that leaves the exit code alone
\* or sets it to something else than 0.
LEMMA IdleKeeps ==
  ASSUME TypeOK, IInv, UNCHANGED <<rows, jobRun, order, next, queue, active, failedUsers, locals, dropped>>,
         \/ UNCHANGED <<command, exitCode>>
         \/ command' = "idle" /\ exitCode' # 0
  PROVE  IInv'
BY DEF IInv, JobsSettle, CommandSettles, CodeTrue, Settled, Reached, DoneWith, Pending, Workload

\* Steps of the main thread that the rows take no part in.
LEMMA MainKeeps ==
  ASSUME TypeOK, Futures, IInv,
         \/ \E how \in {"full", "whatif"}, users \in SUBSET Users,
               workloads \in SUBSET Workloads : Start(how, users, workloads)
         \/ RunWorkload \/ Exit \/ Kill
  PROVE  IInv'
<1>0. Len(Order) \in Nat /\ Workloads = {Order[n] : n \in 1..Len(Order)}
  BY OncePerPlace
<1>1. ASSUME NEW how \in {"full", "whatif"}, NEW users \in SUBSET Users,
             NEW workloads \in SUBSET Workloads, Start(how, users, workloads)
      PROVE  IInv'
  <2>1. active' = {} /\ next' = 0 /\ command' = "busy"
    BY <1>1 DEF Start, Futures, Pending
  <2>2. Reached' = {}
    BY <2>1 DEF Reached
  <2> QED
    BY <2>1, <2>2 DEF IInv, JobsSettle, CommandSettles, CodeTrue, DoneWith
<1>2. CASE RunWorkload
  <2>1. /\ next \in Nat /\ next' = next + 1 /\ queue = {} /\ active = {} /\ active' = {}
        /\ command' = "busy"
        /\ UNCHANGED <<rows, jobRun, order, failedUsers, dropped>>
        /\ Order[next'] \in plan => queue' = scope
    BY <1>2 DEF RunWorkload, TypeOK
  <2>2. Reached' = Reached \cup {Order[next']} /\ Workload' = Order[next']
    BY <2>1 DEF Reached, Workload
  <2>3. ASSUME NEW u \in scope, NEW w \in plan, DoneWith(u, w)' PROVE DoneWith(u, w)
    BY <2>1, <2>2, <2>3 DEF DoneWith, Pending
  <2>4. CommandSettles'
    <3> SUFFICES ASSUME command = "busy", mode = "full", failedUsers = 0,
                        NEW u \in scope, NEW w \in plan, DoneWith(u, w)'
                 PROVE  jobRun[<<u, w>>] = "done" /\ \A i \in Share(u, w) \ dropped : Settled(i)
      BY <2>1, <1>2 DEF CommandSettles, Settled, Share, RunWorkload
    <3> QED
      BY <2>3 DEF IInv, CommandSettles
  <2> QED
    BY <2>1, <2>4 DEF IInv, JobsSettle, CodeTrue
<1>3. CASE Exit
  <2>1. /\ active' = {} /\ command' = "idle" /\ UNCHANGED <<rows, jobRun, order, dropped>>
        /\ next = Len(Order) /\ Pending = {} /\ command = "busy"
    BY <1>3 DEF Exit, Pending
  <2>2. \A u \in scope, w \in plan : DoneWith(u, w)
    BY <1>0, <2>1 DEF TypeOK, DoneWith, Reached
  <2>3. ASSUME exitCode' = 0, mode # "whatif",
               NEW u \in scope, NEW w \in plan
        PROVE  jobRun[<<u, w>>] = "done" /\ \A i \in Share(u, w) \ dropped : status[i] = "done"
    <3>1. failedUsers = 0 /\ FailedSince(started) = {}
      BY <1>3, <2>3 DEF Exit, TypeOK
    <3>2. jobRun[<<u, w>>] = "done" /\ \A i \in Share(u, w) \ dropped : Settled(i)
      BY <2>1, <2>2, <2>3, <3>1 DEF IInv, CommandSettles, TypeOK
    <3>3. Share(u, w) \subseteq Items
      BY UsersAssumption DEF Share, TypeOK
    <3> QED
      BY <3>1, <3>2, <3>3 DEF Settled, FailedSince
  <2>4. CodeTrue'
    <3>1. \A u, w : Share(u, w)' = Share(u, w)
      BY DEF Share
    <3>2. UNCHANGED <<status, jobRun, mode, scope, plan, dropped>>
      BY <2>1
    <3> QED
      BY <2>3, <3>1, <3>2 DEF CodeTrue
  <2> QED
    BY <2>1, <2>4 DEF IInv, JobsSettle, CommandSettles
<1>4. CASE Kill
  BY <1>4 DEF Kill, IInv, JobsSettle, CommandSettles, CodeTrue
<1> QED
  BY <1>1, <1>2, <1>3, <1>4

\* Steps of the jobs.
LEMMA JobKeeps ==
  ASSUME TypeOK, Futures, IInv, NEW u \in Users, Work(u)
  PROVE  IInv'
<1> USE DEF IInv
<1>0. /\ UNCHANGED <<command, order, next, exitCode>>
      /\ command = "busy" /\ failedUsers' >= failedUsers /\ Workload' = Workload /\ Reached' = Reached
      /\ failedUsers \in Nat
  <2>1. /\ UNCHANGED <<command, order, next, exitCode>> /\ Pending # {}
        /\ failedUsers' \in {failedUsers, failedUsers + 1}
    BY DEF Work, Begin, Check, ListingEnds, ItemDone, ItemFails, Handled, JobDone, JobRaises, Pending,
           TypeOK, Fault
  <2>2. failedUsers \in Nat
    BY OncePerPlace DEF TypeOK
  <2> QED
    BY <2>1, <2>2 DEF Futures, TypeOK, Workload, Reached
<1>s. \A v \in Users : \A w : Share(v, w) \subseteq Items /\ Share(v, w)' = Share(v, w)
  BY UsersAssumption DEF Share
<1>c. CodeTrue'
  BY <1>0 DEF CodeTrue
<1>1. CASE Begin(u)
  <2>1. /\ active' = active \cup {u} /\ Pending' = Pending /\ u \in Pending
        /\ UNCHANGED <<rows, hand, failedUsers, dropped>>
        /\ jobRun' = [jobRun EXCEPT ![<<u, Workload>>] = "running"]
        /\ mode = "full" => todo' = [todo EXCEPT ![u] = Share(u, Workload)]
    BY <1>1 DEF Begin, Pending
  <2>2. JobsSettle'
    BY <2>1, <1>0, <1>s DEF JobsSettle, Settled, TypeOK
  <2>3. CommandSettles'
    <3> SUFFICES ASSUME command = "busy", mode = "full", failedUsers = 0,
                        NEW v \in scope, NEW w \in plan, DoneWith(v, w)
                 PROVE  jobRun'[<<v, w>>] = "done" /\ \A i \in Share(v, w) \ dropped : Settled(i)
      BY <2>1, <1>0, <1>s DEF CommandSettles, DoneWith, Settled
    <3>1. <<v, w>> # <<u, Workload>>
      BY <2>1 DEF DoneWith
    <3>2. jobRun'[<<v, w>>] = jobRun[<<v, w>>]
      BY <2>1, <3>1 DEF TypeOK
    <3> QED
      BY <3>2 DEF CommandSettles
  <2> QED
    BY <2>2, <2>3, <1>c
<1>2. ASSUME NEW i \in Items, Check(u, i) PROVE IInv'
  <2>1. /\ UNCHANGED <<rows, active, queue, failedUsers, jobRun, dropped>>
        /\ todo' = [todo EXCEPT ![u] = @ \ {i}] /\ hand[u] = NoItem
        /\ hand' = [hand EXCEPT ![u] = IF ToDo(i) THEN i ELSE NoItem]
    BY <1>2 DEF Check
  <2>2. ~ToDo(i) => Settled(i)
    BY DEF ToDo, Settled
  <2>3. JobsSettle'
    BY <2>1, <2>2, <1>0, <1>s, UsersAssumption DEF JobsSettle, Settled, TypeOK
  <2>4. CommandSettles'
    BY <2>1, <1>0, <1>s DEF CommandSettles, DoneWith, Settled, Pending
  <2> QED
    BY <2>3, <2>4, <1>c
<1>3. CASE ItemDone(u) \/ ItemFails(u)
  <2>0. PICK s \in {"done", "failed"} : Handled(u, s)
    BY <1>3 DEF ItemDone, ItemFails
  <2>1. /\ UNCHANGED <<active, queue, failedUsers, jobRun, todo, started, dropped>> /\ hand[u] # NoItem
        /\ hand' = [hand EXCEPT ![u] = NoItem]
        /\ status' = [status EXCEPT ![hand[u]] = s]
        /\ updatedAt' = [updatedAt EXCEPT ![hand[u]] = now]
    BY <2>0 DEF Handled, Upsert
  <2>2. \A i \in Items : Settled(i) => Settled(i)'
    BY <2>0, <2>1, SettledStays
  <2>3. now >= started /\ hand[u] \in Items
    BY <2>1 DEF TypeOK
  <2>4. \A i \in Items : i = hand[u] => Settled(i)'
    BY <2>1, <2>3 DEF Settled, TypeOK
  <2>5. JobsSettle'
    BY <2>1, <2>2, <2>4, <1>0, <1>s DEF JobsSettle, TypeOK
  <2>6. CommandSettles'
    BY <2>1, <2>2, <1>0, <1>s DEF CommandSettles, DoneWith, Pending, TypeOK
  <2> QED
    BY <2>5, <2>6, <1>c
<1>4. CASE JobDone(u) \/ JobRaises(u)
  <2>1. /\ u \in active /\ active' = active \ {u} /\ UNCHANGED <<queue, rows, dropped>>
        /\ todo' = [todo EXCEPT ![u] = {}] /\ hand' = [hand EXCEPT ![u] = NoItem]
    BY <1>4 DEF JobDone, JobRaises, Leave
  <2>2. JobsSettle'
    BY <2>1, <1>0, <1>s DEF JobsSettle, Settled, TypeOK
  <2>3. CommandSettles'
    <3> SUFFICES ASSUME mode = "full", failedUsers' = 0,
                        NEW v \in scope, NEW w \in plan, DoneWith(v, w)'
                 PROVE  jobRun'[<<v, w>>] = "done" /\ \A i \in Share(v, w) \ dropped : Settled(i)
      BY <2>1, <1>0, <1>s DEF CommandSettles, Settled
    <3>1. failedUsers = 0 /\ JobDone(u)
      BY <1>4, <1>0 DEF JobRaises
    <3>2. /\ todo[u] = {} /\ hand[u] = NoItem
          /\ jobRun' = [jobRun EXCEPT ![<<u, Workload>>] = "done"]
      BY <3>1 DEF JobDone
    <3>3. CASE v = u /\ w = Workload
      <4>1. \A i \in Share(v, w) : i # NoItem
        BY <1>s, UsersAssumption DEF TypeOK
      <4>2. \A i \in Share(v, w) \ dropped : Settled(i)
        BY <3>2, <3>3, <4>1, <2>1 DEF JobsSettle
      <4>3. jobRun'[<<v, w>>] = "done"
        BY <3>2, <3>3 DEF TypeOK
      <4> QED
        BY <4>2, <4>3
    <3>4. CASE <<v, w>> # <<u, Workload>>
      <4>1. DoneWith(v, w)
        BY <3>4, <2>1, <1>0 DEF DoneWith, Pending
      <4>2. jobRun'[<<v, w>>] = jobRun[<<v, w>>]
        BY <3>2, <3>4 DEF TypeOK
      <4> QED
        BY <4>1, <4>2, <3>1, <1>0 DEF CommandSettles
    <3> QED
      BY <3>3, <3>4
  <2> QED
    BY <2>2, <2>3, <1>c
<1>5. CASE ListingEnds(u)
  <2>1. /\ UNCHANGED <<rows, active, queue, failedUsers, jobRun, hand>>
        /\ dropped \subseteq dropped'
    BY <1>5 DEF ListingEnds
  <2>2. \A v \in active : \A i \in todo[v] : i \in todo'[v] \/ i \in dropped'
    BY <1>5 DEF ListingEnds, TypeOK
  <2>3. JobsSettle'
    BY <2>1, <2>2, <1>0, <1>s DEF JobsSettle, Settled
  <2>4. CommandSettles'
    BY <2>1, <1>0, <1>s DEF CommandSettles, DoneWith, Settled, Pending
  <2> QED
    BY <2>3, <2>4, <1>c
<1> QED
  BY <1>1, <1>2, <1>3, <1>4, <1>5 DEF Work

\* While a command is busy, what it is through with is settled or counted; after
\* it, an exit code 0 is true.
THEOREM IInvHolds == Spec => []IInv
<1>1. Init => IInv
  BY DEF Init, IInv, JobsSettle, CommandSettles, CodeTrue, NoCode
<1>2. TypeOK /\ Futures /\ IInv /\ [Next]_vars => IInv'
  <2> SUFFICES ASSUME TypeOK, Futures, IInv, [Next]_vars PROVE IInv'
    OBVIOUS
  <2>1. CASE Tick \/ UNCHANGED vars
    <3>1. /\ UNCHANGED <<rows, jobRun, order, next, queue, active, failedUsers, locals, dropped>>
          /\ UNCHANGED <<command, exitCode>>
      BY <2>1 DEF Tick, vars
    <3> QED
      BY <3>1, IdleKeeps
  <2>5. CASE Reject
    <3>1. /\ UNCHANGED <<rows, jobRun, order, next, queue, active, failedUsers, locals, dropped>>
          /\ command' = "idle" /\ exitCode' # 0
      BY <2>5 DEF Reject
    <3> QED
      BY <3>1, IdleKeeps
  <2>2. CASE \E u \in Users : Work(u)
    BY <2>2, JobKeeps
  <2>3. CASE \E users \in {Users} \cup {{u} : u \in Users} :
               \/ \E workloads \in Plans : Start("full", users, workloads)
               \/ Start("whatif", users, Sequence)
    <3>1. \A users \in {Users} \cup {{u} : u \in Users} : users \in SUBSET Users
      OBVIOUS
    <3>2. Sequence \in SUBSET Workloads /\ \A workloads \in Plans : workloads \in SUBSET Workloads
      BY UsersAssumption DEF Plans, Sequence
    <3> QED
      BY <2>3, <3>1, <3>2, MainKeeps
  <2>4. CASE RunWorkload \/ Exit \/ Kill
    BY <2>4, MainKeeps
  <2> QED
    BY <2>1, <2>2, <2>3, <2>4, <2>5 DEF Next
<1> QED
  BY <1>1, <1>2, TypeCorrect, PTL DEF Spec

\* A command that has exited 0 left nothing behind but what a listing that broke
\* off did not get to, for any users, workloads and pools, whatever failed or was
\* killed before it.
THEOREM NothingLeftBehindHolds == Spec => []NothingLeftBehind
<1>1. TypeOK /\ IInv => NothingLeftBehind
  BY DEF IInv, CodeTrue, NothingLeftBehind
<1> QED
  BY <1>1, TypeCorrect, IInvHolds, PTL
=============================================================================
