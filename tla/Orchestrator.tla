---------------------------- MODULE Orchestrator ----------------------------
(***************************************************************************)
(* The commands of cli.py, which run one workload or all of them in a      *)
(* sequence; run_workload and _run_user of orchestrator.py, which run a    *)
(* workload over all users with a thread pool; the job history, and the    *)
(* rows of ItemMap that decide the exit code.                              *)
(*                                                                         *)
(* A job is a full pass, reduced to what the rest can see of it: it goes   *)
(* through the items its user has in the workload, skips what is done, and *)
(* leaves every other item it is shown "done" or "failed", or raises.  Two *)
(* entries of the user list may name the same source, since nothing        *)
(* compares them.                                                          *)
(* Time is in seconds, like the time stamps of the rows.                   *)
(***************************************************************************)
EXTENDS Naturals, FiniteSets, Sequences, SequencesExt

CONSTANTS
  Users,       \* entries of the user list
  Items,       \* items that exist at the source
  Holds,       \* items of the source each entry names
  Order,       \* _WORKLOAD_ORDER
  Of,          \* workload of each item
  Enabled,     \* workloads the configuration enables
  Supported,   \* workloads the source has (source_capabilities)
  Tolerant,    \* workloads whose job goes on when a listing breaks off:
               \* calendar, and mail from IMAP
  MaxWorkers,  \* `concurrency` of each workload
  MaxTime,     \* bound on the clock
  FaultKinds,  \* the faults the environment may inject, see Fault
  MaxFaults,   \* bound on the number of faults of a behaviour
  NoItem

Workloads == ToSet(Order)

ASSUME UsersAssumption ==
  /\ IsFiniteSet(Users)
  /\ Holds \in [Users -> SUBSET Items] /\ NoItem \notin Items
  /\ Of \in [Items -> Workloads]
  /\ Enabled \subseteq Workloads /\ Supported \subseteq Workloads
  /\ Tolerant \subseteq Workloads
ASSUME OrderAssumption == Order \in Seq(Workloads)
ASSUME BoundsAssumption ==
  MaxWorkers \in [Workloads -> Nat \ {0}] /\ MaxTime \in Nat /\ MaxFaults \in Nat

VARIABLES
  now,
  \* the state database
  status, updatedAt,    \* ItemMap
  jobRun,               \* JobRun.status of each user's last run of a workload
  \* the command
  command,              \* "idle" or "busy"
  mode,                 \* "full", or "whatif" for an inventory
  scope,                \* `users`: those the command is for
  started,              \* `started`, when it began
  plan,                 \* the workloads it is for
  next,                 \* place in the order that it has come to
  queue,                \* futures no worker has taken up
  active,               \* ... that a worker is running
  failedUsers,          \* `failed` of run_workload, or failed_users of them all
  exitCode,             \* of the command that ended last, NoCode while one runs
  \* locals of the jobs
  todo,                 \* items the listing has still to yield
  hand,                 \* item a job found not to be done
  faults,               \* observers: faults so far,
  dropped               \* ... items of this command that a listing did not get to

rows == <<status, updatedAt>>
locals == <<todo, hand>>
ghosts == <<faults, dropped>>
order == <<mode, scope, started, plan>>
vars == <<now, status, updatedAt, jobRun, command, mode, scope, started, plan, next,
          queue, active, failedUsers, exitCode, todo, hand, faults, dropped>>

NoCode == 2

\* Every user fails once in every place of the order.
MaxFailed == Cardinality(Users) * Len(Order)

\* The workload that is run.
Workload == Order[next]
Share(u, w) == {i \in Holds[u] : Of[i] = w}

TypeOK ==
  /\ now \in 0..MaxTime
  /\ status \in [Items -> {"none", "failed", "done"}]
  /\ updatedAt \in [Items -> 0..MaxTime]
  /\ jobRun \in [Users \X Workloads -> {"none", "running", "done", "failed"}]
  /\ command \in {"idle", "busy"} /\ mode \in {"full", "whatif"}
  /\ scope \in SUBSET Users
  /\ started \in 0..now
  /\ plan \in SUBSET Workloads /\ next \in 0..Len(Order)
  /\ queue \in SUBSET Users
  /\ active \in SUBSET (Users \ queue)
  /\ active # {} => Cardinality(active) <= MaxWorkers[Workload]
  /\ failedUsers \in 0..MaxFailed
  /\ exitCode \in {0, 1, NoCode}
  /\ todo \in [Users -> SUBSET Items]
  /\ hand \in [Users -> Items \cup {NoItem}]
  /\ \A u \in Users \ active : todo[u] = {} /\ hand[u] = NoItem
  /\ faults \in 0..MaxFaults
  /\ dropped \in SUBSET Items

Init ==
  /\ now = 0
  /\ status = [i \in Items |-> "none"]
  /\ updatedAt = [i \in Items |-> 0]
  /\ jobRun = [run \in Users \X Workloads |-> "none"]
  /\ command = "idle" /\ mode = "full" /\ scope = {} /\ started = 0
  /\ plan = {} /\ next = 0 /\ queue = {} /\ active = {}
  /\ failedUsers = 0 /\ exitCode = NoCode
  /\ todo = [u \in Users |-> {}]
  /\ hand = [u \in Users |-> NoItem]
  /\ faults = 0
  /\ dropped = {}

-----------------------------------------------------------------------------
(* Helpers *)

\* The environment makes something fail in one of these ways:
\*   "item"     an item cannot be read or written
\*   "listing"  what is left of a listing cannot be read
\*   "raise"    an exception leaves the job or the set-up before it
\*   "kill"     the process dies
Fault(kind) ==
  /\ kind \in FaultKinds
  /\ faults < MaxFaults
  /\ faults' = faults + 1

\* Variants.  An operator marked so is a plausible mistake in the definition
\* that follows it; the README says which property finds it out.

\* upsert_item stamps the row.
Upsert(i, s) ==
  /\ status' = [status EXCEPT ![i] = s]
  /\ updatedAt' = [updatedAt EXCEPT ![i] = now]

\* The job is over.  Variant: the worker is not freed.
LeaveHanging(u) ==
  /\ todo' = [todo EXCEPT ![u] = {}]
  /\ hand' = [hand EXCEPT ![u] = NoItem]
  /\ UNCHANGED active
Leave(u) ==
  /\ active' = active \ {u}
  /\ todo' = [todo EXCEPT ![u] = {}]
  /\ hand' = [hand EXCEPT ![u] = NoItem]

\* count_failed_items_since: rows of any user, stamped in the second the
\* command began in or later.  Variant: later.
FailedAfter(time) == {i \in Items : status[i] = "failed" /\ updatedAt[i] > time}
FailedSince(time) == {i \in Items : status[i] = "failed" /\ updatedAt[i] >= time}

-----------------------------------------------------------------------------

Tick ==
  /\ now < MaxTime
  /\ now' = now + 1
  /\ UNCHANGED <<rows, jobRun, command, order, next, queue, active, failedUsers,
                 exitCode, locals, ghosts>>

\* The workloads of run-all, delta and whatif.
Sequence == Enabled \cap Supported

\* A command of one workload does not ask whether that is enabled.
Plans == {Sequence} \cup {{w} : w \in Supported}

\* A command for the users named: all of them, or the one given by --user.
Start(how, users, workloads) ==
  /\ command = "idle"
  /\ command' = "busy"
  /\ mode' = how
  /\ scope' = users
  /\ started' = now
  /\ plan' = workloads
  /\ next' = 0
  /\ failedUsers' = 0
  /\ exitCode' = NoCode
  /\ dropped' = {}
  /\ UNCHANGED <<now, rows, jobRun, queue, active, locals, faults>>

\* --user names nobody, or the source has no such workload: nothing is run.
Reject ==
  /\ command = "idle"
  /\ exitCode' = 1
  /\ UNCHANGED <<now, rows, jobRun, command, order, next, queue, active,
                 failedUsers, locals, ghosts>>

\* The next run_workload: the one before has returned when its futures are done.
\* A workload the command is not for is passed over.
RunWorkload ==
  /\ command = "busy"
  /\ queue = {} /\ active = {}
  /\ next < Len(Order)
  /\ next' = next + 1
  /\ queue' = IF Order[next'] \in plan THEN scope ELSE {}
  /\ UNCHANGED <<now, rows, jobRun, command, order, active, failedUsers, exitCode,
                 locals, ghosts>>

\* A worker takes up a user: the JobRun row comes before everything else, of an
\* inventory too.  An inventory lists items and leaves them alone.
Begin(u) ==
  /\ u \in queue
  /\ Cardinality(active) < MaxWorkers[Workload]
  /\ queue' = queue \ {u}
  /\ active' = active \cup {u}
  /\ jobRun' = [jobRun EXCEPT ![<<u, Workload>>] = "running"]
  /\ todo' = [todo EXCEPT ![u] = IF mode = "whatif" THEN {} ELSE Share(u, Workload)]
  /\ UNCHANGED <<now, rows, command, order, next, failedUsers, exitCode, hand, ghosts>>

ToDo(i) == status[i] # "done"

\* is_done is asked in a transaction of its own ...
Check(u, i) ==
  /\ u \in active
  /\ hand[u] = NoItem
  /\ i \in todo[u]
  /\ todo' = [todo EXCEPT ![u] = @ \ {i}]
  /\ hand' = [hand EXCEPT ![u] = IF ToDo(i) THEN i ELSE NoItem]
  /\ UNCHANGED <<now, rows, jobRun, command, order, next, queue, active, failedUsers,
                 exitCode, ghosts>>

\* The job is shown only a part of what is left, and goes on with that.  The
\* calendar job counts the failure for its cursor and IMAP takes a SEARCH that is
\* answered NO for an empty folder; neither leaves a row that says so.
ListingEnds(u) ==
  /\ u \in active
  /\ Workload \in Tolerant
  /\ hand[u] = NoItem
  /\ Fault("listing")
  /\ \E part \in SUBSET todo[u] :
       /\ part # todo[u]
       /\ todo' = [todo EXCEPT ![u] = part]
       /\ dropped' = dropped \cup (todo[u] \ part)
  /\ UNCHANGED <<now, rows, jobRun, command, order, next, queue, active, failedUsers,
                 exitCode, hand>>

Handled(u, s) ==
  /\ hand[u] # NoItem
  /\ Upsert(hand[u], s)
  /\ hand' = [hand EXCEPT ![u] = NoItem]
  /\ UNCHANGED <<now, jobRun, command, order, next, queue, active, failedUsers,
                 exitCode, todo, dropped>>

\* ... and the outcome is recorded in another.
ItemDone(u) == Handled(u, "done") /\ UNCHANGED faults
ItemFails(u) == Fault("item") /\ Handled(u, "failed")

\* The job returns when it has come to the end of what it is shown.
JobDone(u) ==
  /\ u \in active
  /\ todo[u] = {} /\ hand[u] = NoItem
  /\ jobRun' = [jobRun EXCEPT ![<<u, Workload>>] = "done"]
  /\ Leave(u)
  /\ UNCHANGED <<now, rows, command, order, next, queue, failedUsers, exitCode,
                 ghosts>>

\* The exception is recorded, raised again, and counted by run_workload; the
\* other users go on.
JobRaises(u) ==
  /\ u \in active
  /\ Fault("raise")
  /\ jobRun' = [jobRun EXCEPT ![<<u, Workload>>] = "failed"]
  /\ failedUsers' = failedUsers + 1
  /\ Leave(u)
  /\ UNCHANGED <<now, rows, command, order, next, queue, exitCode, dropped>>

\* _exit_if_failures, which whatif does not ask.
Exit ==
  /\ command = "busy"
  /\ queue = {} /\ active = {} /\ next = Len(Order)
  /\ command' = "idle"
  /\ exitCode' = IF mode # "whatif" /\ (failedUsers > 0 \/ FailedSince(started) # {})
                 THEN 1 ELSE 0
  /\ UNCHANGED <<now, rows, jobRun, order, next, queue, active, failedUsers, locals,
                 ghosts>>

\* Every thread is gone; what was committed stays, a JobRun "running" too.
Kill ==
  /\ command = "busy"
  /\ Fault("kill")
  /\ command' = "idle"
  /\ exitCode' = 1
  /\ queue' = {}
  /\ active' = {}
  /\ todo' = [u \in Users |-> {}]
  /\ hand' = [u \in Users |-> NoItem]
  /\ UNCHANGED <<now, rows, jobRun, order, next, failedUsers, dropped>>

Work(u) ==
  \/ Begin(u)
  \/ \E i \in Items : Check(u, i)
  \/ ListingEnds(u)
  \/ ItemDone(u) \/ ItemFails(u)
  \/ JobDone(u) \/ JobRaises(u)

Next ==
  \/ Tick
  \/ \E users \in {Users} \cup {{u} : u \in Users} :
       \/ \E workloads \in Plans : Start("full", users, workloads)
       \/ Start("whatif", users, Sequence)
  \/ Reject
  \/ RunWorkload
  \/ \E u \in Users : Work(u)
  \/ Exit
  \/ Kill

Spec == Init /\ [][Next]_vars

\* The pool runs every future it was given, the main thread waits for all and
\* goes on.
FairSpec ==
  Spec /\ (\A u \in Users : WF_vars(Work(u))) /\ WF_vars(RunWorkload) /\ WF_vars(Exit)

-----------------------------------------------------------------------------
(* Properties *)

\* A command that has exited 0 left nothing behind that its jobs were shown: in
\* every workload it was for, the job of each of its users has returned and all
\* their items are done, except those that a listing which broke off did not get
\* to.  It has gone through its workloads one by one, while rows were written by
\* two workers, and after commands that were killed.  An inventory always exits
\* 0.  The exception is where the code falls short of cli.py's "Exit 1 when the
\* run left anything behind": such a listing is counted nowhere.
NothingLeftBehind ==
  /\ TypeOK
  /\ command = "idle" /\ exitCode = 0 /\ mode # "whatif" =>
       \A u \in scope, w \in plan :
         /\ jobRun[<<u, w>>] = "done"
         /\ \A i \in Share(u, w) \ dropped : status[i] = "done"

\* A command ends, whatever items and users fail.
CommandEnds == command = "busy" ~> command = "idle"
=============================================================================
