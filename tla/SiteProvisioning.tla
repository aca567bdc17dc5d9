--------------------------- MODULE SiteProvisioning ---------------------------
(***************************************************************************)
(* The SharePoint sites that stand behind migrated shared drives:          *)
(* ensure_site_for_drive and _poll_group_site in microsoft/sharepoint.py,  *)
(* called for one drive after the other by run_shared_drives and           *)
(* run_sharepoint_sites, with the tenant that owns groups and sites and    *)
(* the FolderMap rows that make a re-run resume.                           *)
(*                                                                         *)
(* A Microsoft 365 group is made first, under a mail nickname no other     *)
(* group has; its site appears some time later.  What happens to the files *)
(* of a drive once it has a site is the subject of FilesJob.               *)
(***************************************************************************)
EXTENDS Naturals, FiniteSets

CONSTANTS
  Drives,      \* source drives of the configuration
  Rank,        \* and the place of each in it
  Alias,       \* mail nickname each of them is given
  FaultKinds,  \* the faults the environment may inject, see Fault
  MaxFaults,   \* bound on the number of faults of a behaviour
  NoDrive, NoGroup

Aliases == {Alias[d] : d \in Drives}

ASSUME DrivesAssumption ==
  /\ NoDrive \notin Drives /\ NoGroup \notin Aliases
  /\ Rank \in [Drives -> Nat]
  /\ \A d, e \in Drives : Rank[d] = Rank[e] => d = e
ASSUME BudgetAssumption == MaxFaults \in Nat

VARIABLES
  groups,      \* the tenant: groups, known by their nickname
  ready,       \* ... and those whose site has been provisioned
  maker,       \* ... and the drive each of them was made for
  groupRow,    \* FolderMap "sharepoint_group": group of each drive
  siteRow,     \* FolderMap "sharepoint_site": group whose library was recorded
  pc,
  left,        \* drives the run has still to handle
  drive,       \* drive in hand
  group,       \* local group_id
  opened,      \* observer: drives whose files went to a library, and to which
  faults       \* observer: faults so far

tenant == <<groups, ready, maker>>
rows == <<groupRow, siteRow>>
vars == <<groups, ready, maker, groupRow, siteRow, pc, left, drive, group,
          opened, faults>>

TypeOK ==
  /\ groups \in SUBSET Aliases
  /\ ready \in SUBSET groups
  /\ maker \in [Aliases -> Drives \cup {NoDrive}]
  /\ groupRow \in [Drives -> Aliases \cup {NoGroup}]
  /\ siteRow \in [Drives -> Aliases \cup {NoGroup}]
  /\ pc \in {"idle", "next", "post", "record", "poll", "library"}
  /\ left \in SUBSET Drives
  /\ drive \in Drives \cup {NoDrive}
  /\ group \in Aliases \cup {NoGroup}
  /\ (drive # NoDrive) <=> (pc \in {"post", "record", "poll", "library"})
  /\ (group # NoGroup) <=> (pc \in {"record", "poll", "library"})
  /\ opened \in SUBSET (Drives \X Aliases)
  /\ faults \in 0..MaxFaults

Init ==
  /\ groups = {}
  /\ ready = {}
  /\ maker = [g \in Aliases |-> NoDrive]
  /\ groupRow = [d \in Drives |-> NoGroup]
  /\ siteRow = [d \in Drives |-> NoGroup]
  /\ pc = "idle"
  /\ left = {}
  /\ drive = NoDrive
  /\ group = NoGroup
  /\ opened = {}
  /\ faults = 0

-----------------------------------------------------------------------------
(* Helpers *)

\* The environment makes the current call fail in one of these ways:
\*   "unlisted"   a drive is not among those the source lists
\*   "refused"    POST /groups, or the look-up of the library, is refused
\*   "poll"       the poll meets a permanent error, or its 30 attempts run out
\*   "interrupt"  the process dies, anywhere but where the next kind applies
\*   "unrecorded" the process dies, or the answer of POST /groups is lost,
\*                between the creation of a group and its row
Fault(kind) ==
  /\ kind \in FaultKinds
  /\ faults < MaxFaults
  /\ faults' = faults + 1

\* Neither loop over drives catches anything: the command ends.
Abort ==
  /\ pc' = "idle"
  /\ left' = {}
  /\ drive' = NoDrive
  /\ group' = NoGroup
  /\ UNCHANGED <<tenant, rows, opened>>

\* Variants.  An operator marked so is a plausible mistake in the definition
\* that follows it; the README says which property finds it out.

\* The library is returned to the loop.
Hand(library) ==
  /\ opened' = opened \cup {<<drive, library>>}
  /\ pc' = "next"
  /\ drive' = NoDrive
  /\ group' = NoGroup

-----------------------------------------------------------------------------
(* The tenant (external) *)

SiteAppears(g) ==
  /\ g \in groups \ ready
  /\ ready' = ready \cup {g}
  /\ UNCHANGED <<groups, maker, rows, pc, left, drive, group, opened, faults>>

-----------------------------------------------------------------------------
(* The command *)

Start ==
  /\ pc = "idle"
  /\ pc' = "next"
  /\ left' = Drives
  /\ UNCHANGED <<tenant, rows, drive, group, opened, faults>>

IsNext(d) == d \in left /\ \A e \in left : Rank[d] <= Rank[e]

\* A drive of the configuration that the listing did not show is left out.
Skip(d) ==
  /\ pc = "next"
  /\ IsNext(d)
  /\ Fault("unlisted")
  /\ left' = left \ {d}
  /\ UNCHANGED <<tenant, rows, pc, drive, group, opened>>

\* A drive that has its site is handed on without a call.
Reuse(d) ==
  /\ pc = "next"
  /\ IsNext(d)
  /\ siteRow[d] # NoGroup
  /\ left' = left \ {d}
  /\ opened' = opened \cup {<<d, siteRow[d]>>}
  /\ UNCHANGED <<tenant, rows, pc, drive, group, faults>>

\* pending_group.  Variants: nobody looks for it; a group with the drive's alias
\* is taken for it.
PendingForgotten(d) == NoGroup
PendingByAlias(d) ==
  IF groupRow[d] = NoGroup /\ Alias[d] \in groups THEN Alias[d] ELSE groupRow[d]
Pending(d) == groupRow[d]

\* A recorded group is polled again, another drive gets a group.
Take(d) ==
  /\ pc = "next"
  /\ IsNext(d)
  /\ siteRow[d] = NoGroup
  /\ left' = left \ {d}
  /\ drive' = d
  /\ group' = Pending(d)
  /\ pc' = IF Pending(d) = NoGroup THEN "post" ELSE "poll"
  /\ UNCHANGED <<tenant, rows, opened, faults>>

PostGroup ==
  /\ pc = "post"
  /\ Alias[drive] \notin groups
  /\ groups' = groups \cup {Alias[drive]}
  /\ maker' = [maker EXCEPT ![Alias[drive]] = drive]
  /\ group' = Alias[drive]
  /\ pc' = "record"
  /\ UNCHANGED <<ready, rows, left, drive, opened, faults>>

\* A nickname that is taken is answered 400.
PostRefused ==
  /\ pc = "post"
  /\ IF Alias[drive] \in groups THEN UNCHANGED faults ELSE Fault("refused")
  /\ Abort

\* The group is recorded before it is polled.
RecordGroup ==
  /\ pc = "record"
  /\ groupRow' = [groupRow EXCEPT ![drive] = group]
  /\ pc' = "poll"
  /\ UNCHANGED <<tenant, siteRow, left, drive, group, opened, faults>>

Poll ==
  /\ pc = "poll"
  /\ group \in ready
  /\ pc' = "library"
  /\ UNCHANGED <<tenant, rows, left, drive, group, opened, faults>>

PollFails ==
  /\ pc = "poll"
  /\ Fault("poll")
  /\ Abort

RecordSite ==
  /\ pc = "library"
  /\ siteRow' = [siteRow EXCEPT ![drive] = group]
  /\ Hand(group)
  /\ UNCHANGED <<tenant, groupRow, left, faults>>

LibraryRefused ==
  /\ pc = "library"
  /\ Fault("refused")
  /\ Abort

Finish ==
  /\ pc = "next"
  /\ left = {}
  /\ pc' = "idle"
  /\ UNCHANGED <<tenant, rows, left, drive, group, opened, faults>>

Interrupt ==
  /\ pc # "idle"
  /\ Fault(IF pc = "record" THEN "unrecorded" ELSE "interrupt")
  /\ Abort

Step ==
  \/ \E d \in Drives : Skip(d) \/ Reuse(d) \/ Take(d)
  \/ PostGroup \/ PostRefused
  \/ RecordGroup
  \/ Poll \/ PollFails
  \/ RecordSite \/ LibraryRefused
  \/ Finish

Next ==
  \/ \E g \in Aliases : SiteAppears(g)
  \/ Start
  \/ Step
  \/ Interrupt

Spec == Init /\ [][Next]_vars

(***************************************************************************)
(* The operator keeps re-running the command, every call returns or raises *)
(* in time, and a group gets its site sooner or later (it has an owner).   *)
(***************************************************************************)
FairSpec ==
  /\ Spec
  /\ WF_vars(Step)
  /\ WF_vars(Start)
  /\ \A g \in Aliases : WF_vars(SiteAppears(g))

-----------------------------------------------------------------------------
(* Properties *)

\* A drive's files always go to the one library its site row names, of a group
\* made for that drive ("re-runs reuse the existing site").
OwnLibrary ==
  /\ TypeOK
  /\ \A d \in Drives : groupRow[d] # NoGroup => maker[groupRow[d]] = d
  /\ \A open \in opened :
       siteRow[open[1]] = open[2] /\ maker[open[2]] = open[1] /\ open[2] \in ready

\* A group that a drive has on record is used before another is asked for, and
\* is never forgotten ("resume polling instead of POSTing a second group").
NeverPostsAgain ==
  [][\A d \in Drives : groupRow[d] # NoGroup =>
       /\ groupRow'[d] = groupRow[d]
       /\ ~(drive = d /\ groups' # groups)
       /\ ~(drive' = d /\ pc' = "post")]_vars

\* A drive whose nickname a group has that is not on its record: every POST is
\* refused, and the command ends there.
Blocked(d) == groupRow[d] = NoGroup /\ Alias[d] \in groups

\* Re-running the command gives every drive its site sooner or later, unless
\* that drive, or one before it, has become blocked for good.
EveryDriveGetsItsSite ==
  \A d \in Drives :
    \/ <>(siteRow[d] # NoGroup)
    \/ <>[](\E b \in Drives : Rank[b] <= Rank[d] /\ Blocked(b))
=============================================================================
