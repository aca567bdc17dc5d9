# A TLA+ model of the migrator

`migrator` copies mail, files, contacts and calendars of a set of users from
Google Workspace, Microsoft 365 or an IMAP server into a Microsoft 365 tenant.
Its promise is in `src/README.md`: every run can be repeated, finished items are
skipped, failed ones are retried, nothing falls behind the delta, and a command
that left something behind exits 1. All of this rests on a small SQLite database
(item rows, folder rows, sync cursors) that a run updates in many small
transactions while it talks to two remote services. This directory models that
machinery in TLA+, checks it with TLC on small instances, and proves the safety
of the four workloads, the import, the IMAP source, the sites, the orchestrator and
the Graph client with TLAPS for all instances.

Paths below are relative to `src/src/migrator/` unless they begin with `src/`.

## Inventory

| Component | State it keeps | Operations | Hard because |
|---|---|---|---|
| Mail workload `workloads/mail_job.py` | item rows, mail cursor | full and delta pass, create, attach, record, extra copies | create and record are separate; the cursor is older than the listing |
| Mail folders and import `microsoft/mail.py` | folders of the mailbox, `FolderMap`, a cache per run | walk a path, find, create, answer a 409, four forms of a message, attachments, flags | jobs on one mailbox race for folders and rows; a refused form must not cost a copy |
| Files workload `workloads/files_job.py`, `microsoft/files.py` | item rows with hash and id, `FolderMap`, cursor, the deferral lists of a run | resolve parents, defer, rounds, orphans, create folder, small and large upload, update in place | listings have no order; folders fail; updates are retried in another mode |
| Contacts workload `workloads/contacts_job.py`, `google/people.py` | item rows, sync token | create, patch, delete by tombstone, fallback for an expired token | edits, deletions and full passes interleave |
| Calendar workload `workloads/calendar_job.py`, `google/calendar.py` | item rows, sync token per calendar, put-off exceptions | create, patch, cancel, apply exceptions to series | exceptions need their series; a delete may be refused |
| IMAP source `connectors/imap.py` | a UIDVALIDITY/UIDNEXT pair per folder | STATUS, SELECT, UID SEARCH, FETCH | the server renumbers; a tagged NO is no exception |
| Google and Graph sources `connectors/google.py`, `connectors/m365.py` | the cursor of the listing in progress | capture, list, fetch | the moment of the capture decides what a delta sees |
| State database `state/` | `ItemMap`, `FolderMap`, `SyncCursor`, `JobRun` | upserts, look-ups, counts | every `session_scope` is a transaction of its own |
| Site provisioning `microsoft/sharepoint.py` | two `FolderMap` rows per drive | POST group, record, poll, record site | a crash between POST and record; nicknames are unique |
| Orchestrator and CLI `orchestrator.py`, `cli.py` | futures, `JobRun`, exit code | submit, run user, count failures, exit | workers race each other and the clock |
| Graph client `microsoft/graph_client.py` | a connection pool, the attempt in progress | send, back off, pause, redial | lost answers, dead connections, throttling |
| Rate limiter `ratelimit.py` | tokens, time of the last refill | acquire, refill | threads sleep outside the lock |
| Transforms `transform/`, mappers of `connectors/google.py` | none | labels, names, recurrence rules | two calendars' ideas of recurrence; clean-up steps that undo each other |
| Configuration, authentication, reports, whatif, factory | files and caches | read, write | (not modelled) |

The CLI makes an `Orchestrator`, which runs one job per user on a thread pool.
A job pulls items out of a lazy generator of the source connector, writes them
through a `GraphClient` (which asks the rate limiter before every attempt),
records each in the state database, and at the end asks the connector for the
cursor it captured and stores it, if nothing failed. What makes a component
correct is listed with the runs (see Properties); `hazards` in `PROJECT.json` says at which lines
it could go wrong.

## Modules

Each module has variables for the source, the destination, the database and the
locals of the run in progress, one action per step at which another party may
come in between (a remote call, a transaction), and a set of faults the
environment may inject. `MC<Module>` gives the constants values for TLC.
`PROJECT.json` maps every definition to its lines.

- **DeltaSync** is abstract: changes arrive at the source and leave it, are settled, and
  what is settled and still there stays so; a cursor is committed only when every change
  behind it is settled or gone, and never covers less than the last one. In MailJob a
  change is a message, in ContactsJob a version of a contact (`Until(versions)` is all of
  them up to some), and both have an INSTANCE of it with their mapping.
- **MailJob** is `run_mail` with its connector. `Capture` and `ListMessages` are the
  generator up to its first item (Gmail: a history id, in full passes only; Graph: the
  time), `FetchError`, `SkipDone` and `Take` the head of the loop,
  `Create`/`Attach`/`Record`/`CopyExtra` the body with one action per call, and `Finish`
  the decision on the cursor. A cursor is the set of messages that had arrived when it was
  captured (see Assumptions). Messages that arrive during the listing may or may not be
  yielded. A further copy goes through the same import as the primary one, so it meets the
  same lost answers and refused attachments (`ExtraRetried`, `ExtraFails`).
- **MailImport** looks at what is one action of MailJob call by call: `_get_folder` with
  `ensure_mail_folder` and `upsert_folder` (whose select and insert are two steps, as
  nothing keeps two rows apart) and `_import_into` with `import_mime_message` and its
  fallbacks. Several jobs share the mailbox and the database. A folder's id is the path it
  has at the destination, so a folder made at the wrong level shows. It takes the folder
  paths of messages from **Labels**.
- **FilesJob** is `_migrate` with `_parent_for` and `_process_file`. `batch`, `still` and
  `deferred` are the lists of `_run`; `Processes(i)` picks any item, as the order of the
  listing is not known. Ids are paths with a number, contents are versions.
- **ContactsJob** and **CalendarJob** are `run_contacts` and `run_calendar` for one
  calendar. An item is a version number, deletion takes it to the version `Gone`, and a
  cursor is the versions it covers. CalendarJob has occurrences of a series that are put
  off to the end (`PutOff`, `ApplyException`), series that Graph cannot express and that
  are migrated as single events (`flat`), occurrences that an edit moves out of the
  window in which `find_instance` looks for them (`away`), and the exit code.
- **ImapSource** is `iter_messages` of the IMAP connector against a server with UIDs and
  UIDVALIDITY, under the loop of `run_mail` (create and record in one step: what happens
  between them is MailJob's subject).
- **SiteProvisioning** is `ensure_site_for_drive` in the loop of `run_shared_drives`, in
  the order of the configuration, against a tenant with unique nicknames. A drive the
  source does not list is left out by that run.
- **Orchestrator** is the commands of `cli.py` over `run_workload` and `_run_user`: one
  workload, or those of `_WORKLOAD_ORDER` that are enabled and that the source has, as a
  full run or as an inventory, each on a pool of its own size, with
  `count_failed_items_since` and the exit code. `plan` is the set of workloads of the
  command and `next` the place in `_WORKLOAD_ORDER` the loop of `run-all` has come to: it
  passes over what is not in `plan`. The job is a full pass, reduced to what it does with
  the items it is shown: skip, done, failed, raise. In the workloads of `Tolerant` (calendar,
  mail from IMAP) a listing may break off and the job go on without the rest
  (`ListingEnds`). A delta goes through the same loops and counts; what a delta job leaves
  out, as it does when it has no cursor (it warns, and the command exits 0), is the subject
  of the workloads and not of this module. The clock ticks in seconds, as the row stamps do.
- **GraphClient** is `_request` with its tenacity loop, as one thread runs it, over an
  instance of **TokenBucket** that other threads use too; `Acquire` is
  `_apply_rate_limits`, which every attempt begins with. In TokenBucket a thread that
  sleeps has left the lock.
- **Recurrence**, **PathNames** and **Labels** are the pure functions of `transform/`:
  `rrule_to_graph_recurrence`, `sanitize_segment` and `resolve_label_placement`. Next to
  the first stands the reference it is measured by, the days on which RFC 5545 and Graph
  say a thing recurs. **Conversions** is their use by the Google connector (`_map_event`,
  `_to_file`, `fetch_file`, `_to_message`) and by `patch_event`: one document, event or
  message is converted per behaviour.
- **`<Module>_proofs`** holds the theorems about a module, with the inductive invariant
  they need (see Proofs); those about SiteProvisioning are at the end of FilesJob_proofs,
  which has an instance of it, as the sites stand behind the drives of FilesJob.

Definitions named as a *variant* are plausible mistakes in the definition that
follows them. Nothing uses them; each shows that a property notices the mistake
(table below).

## Runs

All runs finish within about two minutes on two cores. Deadlock is checked in each,
as a run of the program can always be started again, but for Conversions, whose
behaviours end when the one thing is converted.

| Run | Instance | Shows |
|---|---|---|
| MailJob_passes | 2 messages, one with late attachments and an extra copy; Graph; 3 faults | see below |
| MailImport_jobs | 2 jobs; `m` labelled `a/b`, `n` labelled `a` and in the Inbox with late attachments; MIME mode, Graph refuses three forms of `m`; 1 fault | folders, rows and copies under races; what a failure means; arrival |
| FilesJob_edits | `a/b/f`, `f` large; Google; 2 versions, 3 faults of every kind | placement in every listing order, the cursor, updates in place, arrival of edits |
| ContactsJob_book | 2 contacts, 2 versions and deletion, 2 faults of every kind; Google | the cursor, rows against copies, deletions, arrival |
| CalendarJob_series | a series, which Graph may lack a pattern for, and an occurrence, 2 versions and cancellation, 2 faults of every kind; Google | the cursor, cancellations, updates, exit code, arrival |
| ImapSource_inbox | 2 messages in a folder renumbered once, 2 faults of every kind | the cursor over UIDs, no second import, arrival |
| SiteProvisioning_reruns | 3 drives, the last with the alias of the first, 4 faults of every kind | each drive its own library; re-runs resume |
| Orchestrator_command | calendar, files and mail, of which the source lacks files; 2 users, one with an item in each workload, one with one; a listing of the calendar may break off; pools of 2 and 1, 2 seconds, 2 faults | what exit code 0 means; commands end |
| GraphClient_calls | 3 attempts, pauses 0 to 2, 2 closed connections; 2 threads on a bucket of 4 in which a call costs 2, windows of 7 ticks | one effect, dead pool, rate, end |
| Conversions_google | 2 years of months of 15, 14 and 16 days; rules over 12 parts, names up to 4 of 7 characters with a limit of 5, up to 4 of 9 labels | conversions against their references |
| FilesJob_misplaced | `a/f`, `a/b/g`, one failed folder | a **violation**, see Findings |
| CalendarJob_cancelled | one event, one refused write | a **violation**, see Findings |

**Properties.** Every workload has the same core question: may the cursor be
committed? `NothingBehindCursor` (mail, IMAP), `BehindCursorStored` (files) and
`BehindCursorApplied` (calendar) say that whatever a committed cursor
covers is at the destination or gone from the source; for mail and contacts it is part
of `ImplementsDeltaSync`, which also says that the cursor never goes back and that no
step of any run, retry or fallback takes back what is at the destination. The second question is
whether the rows tell the truth about the destination: `CopiesAccounted` says
every copy is the one a row names, the one in hand, or one that a fault cut off
from its row; `RowsMatchCopies` (contacts) says the converse as well.
`FinishedNeverReimported`, `UpdatesInPlace` and `DeltaUpdatesInPlace` say what no
step may do. `DeltaCatchesUp`, `EditsArrive` and `ChangesArrive` say that delta
passes alone, once there is a cursor, bring everything over; `CommandEnds` and
`CallEnds` that loops end. `NothingLeftBehind` is what exit code 0 means: all is done that the
listings of the command got to.

For the import the questions are others. `LandsInItsFolder`: is every copy in a folder
its labels name, and every folder under its parent, whatever the cache, the other job or
a failed walk has left? `RowsTellOfFolders`: do the rows name folders that exist, and no
folder twice unless two jobs looked at one time? `FailsForAReason`: a folder somebody
else has made, a form Graph refuses or a flag patch never fails a message. `DoneStays`
and `EveryMessageArrives` except the two races below and nothing else.
For a conversion the question is whether the other side reads what is written as it was
meant: `RepeatsAsBefore` compares the days on which an event recurs; `NamesAccepted` what
OneDrive accepts; `LabelsPlaced` counts the places of each label. Type invariants
are a conjunct of one invariant of each module.
`ImplementsDeltaSync` is refinement: MailJob with `settled <- Done` is a DeltaSync, and so
is ContactsJob, where a version of a contact is settled if its recorded copy has this
version or a later one (`Applied`).

**Exceptions.** Some properties except what the code is known not to do; the
exception is a named observer that no action reads. Without it TLC finds a
counterexample, so each is also a statement about the code:

- `stale` (files, calendar), `passedOver` (contacts): a full re-run skips done items
  without looking at their version and then commits a newer cursor, so an edit made before
  it is never copied (`files_job.py:342`, `contacts_job.py:78`, `calendar_job.py:86`;
  `src/README.md:206` promises that changes are updated in place). `stale` is the items it
  happened to, `passedOver` the version, so that only that version and the earlier ones
  are excepted.
- `DeltaUpdatesInPlace` speaks of delta passes only: a full re-run after a failed delta
  update creates the file again, as only a delta looks up the destination id
  (`files_job.py:360`, against its own comment at 357-358).
- `orphaned`, `lost`: a create that is executed and not recorded leaves a copy, and the
  retry makes another. An attachment that cannot be uploaded does this without a crash
  (`microsoft/mail.py:203`; `src/README.md:11` promises no duplicates).
- `spare` (mail): the same for a further copy (`mail_job.py:126`): a lost answer makes
  GraphClient send the create again (`graph_client.py:146`), an attachment that Graph
  cannot parse makes the import send the message in another form
  (`microsoft/mail.py:320`), and a copy may be there although the call raised and was only
  logged. A later pass never adds another, as the row is done.
- `fellBack` (contacts): the fallback for an expired People token lists no deletions, yet
  stores the new token (`google/people.py:63`). A full re-run does the same, and a Graph
  source has no tombstones at all (`connectors/m365.py:276`).
- `broken` (calendar): a listing that breaks off is counted as a failure and holds the
  cursor, but no row says so and the command exits 0 (`calendar_job.py:75`).
- `dropped` (orchestrator): what a listing did not get to before it broke off, in a
  calendar or in an IMAP folder (`calendar_job.py:72`, `connectors/imap.py:155`; `broken`
  and `missed` see it from the job). The job returns in order and the command exits 0,
  although `cli.py:89` says "Exit 1 when the run left anything behind".
- `away` (calendar): `find_instance` asks for the instances within a day of the original
  start (all-day: on that date) and compares the present start of an all-day one
  (`microsoft/calendar.py:67`). An occurrence that an earlier version moved farther is not
  found: an edit of it fails in every run and holds the cursor (`calendar_job.py:194`),
  its cancellation is recorded as gone already, the cursor passes it and the occurrence
  stays (`calendar_job.py:190`).
- `flat` (calendar): an exception of a series that was migrated as a single event finds no
  occurrence to change, fails in every run, and holds the cursor and the exit code for
  good (`calendar_job.py:190`, `google.py:457`).
- `cutOff` (files): what is in a folder that failed for its parent (see Findings).
- `kept` (calendar): the cancellation of an event is dropped when its delete is refused
  (`calendar_job.py:236`), or when its row is not done (see Findings).
- `missed` (IMAP): a SEARCH answered NO passes for an empty folder
  (`connectors/imap.py:155`). `Informed`: a STATUS answered NO becomes UIDVALIDITY 0, and
  the folder is imported again under new ids (`imap.py:125`).
- `shared` (mail import): `is_done` and the upsert are two transactions, so of two jobs
  that have one message in hand both copy it, and the failure of the slower overwrites
  what the other recorded as done (`mail_job.py:87`, `state/db.py:92`). Nothing keeps two
  `users` entries from naming one source, or two commands from being run at once.
- `raced` (mail import): two jobs can each insert a `FolderMap` row for one path, as there
  is no unique constraint (`state/models.py:48`). From then on `upsert_folder` raises, and
  of every run the first message that needs the folder fails; the rest find the folder in
  the cache. `EveryMessageArrives` excepts it.
- A body Graph cannot parse is known by the error code of the answer alone, so one that
  answers an attachment sends the whole message again in another form, after its first
  copy was made (`microsoft/mail.py:320`). It is `AttachRetried` in MailJob and the second
  disjunct of `AttachFails` in MailImport.
- `Expressible` (recurrence): `RepeatsAsBefore` speaks of the rules Graph has a pattern
  for. The others are simplified without a word: a list of month days becomes its first,
  BYMONTH in a monthly rule, BYSETPOS of a weekly one and BYWEEKNO are passed over. The
  docstring at `recurrence.py:14` counts BYWEEKNO among what returns None, for an event to
  be migrated as a single one; the code makes a series of it. `RepeatsAsBefore` lets such a rule
  come out either way: that no other rule is dropped is its second conjunct. EXDATEs are
  dropped (`google.py:447`), and the date of UNTIL, which is UTC, is taken for the local
  one (`recurrence.py:85`).
- `PatchEvent`: the body of an event that lost its recurrence does not say so, and a PATCH
  keeps what it is not told of; the same goes for location, attendees and isAllDay.
- System folders under the policy "categories" (labels): a message with a label of the
  user is copied to each system folder it is labelled for and to the folder of that label,
  two copies for an Inbox message with one label (`labels.py:61`). `src/README.md:214` says
  that the first label becomes the folder, and `src/TODO.md:133` lists the second copy as an
  open defect. `LabelsPlaced` asks for the system folders only under "duplicate" or where
  the user has put no label.
- `WasCut`, `LooseSpace` (names): a name that is cut may end in a space or a dot or be a
  reserved word again; one whose extension is longer than the limit is not cut to it
  (`paths.py:45`: the slice counts from the end); and `" ."` or `"x ."` keep their space,
  as spaces go before dots.
- `whatif` (orchestrator): an inventory leaves `JobRun` rows and exits 0 even if a user's
  listing raised (`cli.py:235`; its docstring says it does not modify state).
- `Blocked` (sites): a group that was made and not recorded makes every later POST fail on
  its nickname, and the command with it (`sharepoint.py:88`).
- `RateOfSleepers` (rate limiter) has a term for the time threads sleep: a limiter would
  do without it. The time slept is credited to the bucket a second time, so even one
  thread exceeds the configured rate (`ratelimit.py:24`). `src/TODO.md:212` has the case
  of several threads.

One case is left to the constants: files of one name in one folder, of which the
second small upload overwrites the first (`microsoft/files.py:129`; give two files
one `Name`). The runs do not set it, and the theorems about what is stored of a file
have it as a hypothesis, `UniqueNames`.

**Bounds.** Two items are enough for one to fail while another succeeds, which is
what the cursor depends on; where one item is used (FilesJob_edits, the calendar)
folders or a series are the others. Two or three faults let a run fail and its
retry fail otherwise. Runs are not bounded in number: all modules return to an
idle state and start again, in either mode. `MaxVer`, `MaxValidity`, `MaxTime`,
`MaxWindow`, `MaxFaults` and `MaxCloses` bound what the environment does, never
what the program does, but for `MaxRetries` (3 attempts for the 7 of the code: a first,
one in between and a last). The IMAP run has one folder: the cursor is kept per folder
and folders meet only in the failure count. Two jobs and one fault let a job
meet every state of the other's walk. Months of 15, 14 and 16 days have weekdays that
occur twice or three times, so that first, second and last differ; starts are on days every
month has, and the years are alike, which leaves out the 29th to 31st and leap days (RFC
5545 skips a month without such a day, Graph takes its last day). Most runs check liveness,
which limits them to what TLC does in two minutes.

**Assumptions.** For Microsoft 365 the cursor of mail, contacts and calendar is the time of
the capture, and a delta filters by the time stamps of the server. The models take it for
what had arrived, or changed, by then: they assume that the clocks agree.
`src/TODO.md:145` calls these cursors sensitive to clock skew, and skew is not covered. Gmail's
history ids, Google's sync tokens and the delta links of drives need no such assumption.

**Fairness.** `WF(Step)`: every remote call has a timeout and raises or returns, and
the loops contain nothing else that waits. `SF(StartDelta)`, `WF(Start)`: the
operator re-runs the command ("Re-run the same command to retry failures"); it is
strong where full passes may be run in between. Each job of MailImport has `WF(Step)`,
which includes its start. Faults are finitely many. In
SiteProvisioning a group's site appears in the end. `WF(RunWorkload)`, `WF(Exit)`,
`WF(Work(u))`: the pool runs every future and the main thread goes on. `WF(Tick)` of
GraphClient: time goes by.

**Variants.** What each property is shown to notice: failures that do not hold the
cursor (`NextCursorDespiteFailures`: the cursor properties, the refinement
and the arrival properties); `is_done` not asked, or taken for any row (`PendingAlways`,
`ImportAgain`, `PendingOnce`: second imports, a done message undone, a failed one never
retried); a folder made without its parent (`FolderIdAtTop`), a row not selected before
it is inserted (`RowsFoundNot`), a 409 or a failed flag patch taken for a failure
(`ConflictRaised`, `PatchOrRaise`); a failed row without its id or stamp
(`MarkFailedForgetting`: updates in place, `MarkFailedUnstamped`: the exit code); a record
without an id (`RecordWithoutId`: copies); a removal that keeps the id
(`RecordRemovalKeepingId`); a full pass that skips cancelled events (`SkipsCancelled`);
orphans taken too early, rounds without a progress test, a delta that forgets the id
(`OrphansAll`, `StuckNever`, `ExistingForgotten`); message sequence numbers for UIDs
(`SearchSequence`, a mistake the code once made); a group not resumed or taken by its
alias (`PendingForgotten`, `PendingByAlias`); `>` for `>=` in the count of failed rows
(`FailedAfter`); a worker that leaves its future hanging (`LeaveHanging`); no redial, an
attempt that is not counted, one that does not raise, one that goes past the limiter
(`RedialNot`, `AttemptUncounted`, `SleepForOrSucceed`, `RetryAtOnce`); BYSETPOS not looked
at (`WeekIndexOfOrdinal`); dots stripped before spaces (`TidiedDotsFirst`); IMPORTANT in
place of the categories of labels (`ImportantOnly`).

## Findings

- **A grandchild of a failed folder goes to the root** (`files_job.py:282`). A folder
  that fails because its parent failed is not added to `folders.failed`. Its own
  children find it neither known nor failed, are deferred, and in the last round are
  placed at the drive root; `src/TODO.md:17` says they fail with a clear reason. TLC's
  trace: `a` is refused, `b` in `a` fails for it, `g` in `b` is uploaded to the root,
  where it stays as done when `a` and `b` are created by the next run.
- **A cancellation is dropped when the last update failed** (`calendar_job.py:229`).
  `_handle_cancelled` looks for a row that is done. An event whose update failed has a
  failed row with an id; its cancellation does nothing, counts as no failure, and the
  cursor passes it. `src/TODO.md:42` says cancelled events are deleted in any mode.

## Proofs

Every safety invariant, action property and refinement that a run expects to hold is a
theorem, for all values of the constants, but those of the conversions. TLC checked each
inductive invariant first, on the configuration of the run and where that has one item on
a larger one. The theorems assume what the modules assume of their constants (`ASSUME`,
evaluated by TLC in every run): sets that count something are finite, the values that
stand for "none" (`NoId`, `NoCursor`, ...) are none of the values they are told from,
bounds are numbers, folders are a tree. Theorems with a hypothesis of their own are named
below.

**Shape.** `TypeCorrect` comes first and carries with the types the control facts that
hold of every state: what a run that does not go through a listing has in hand (nothing),
which locals are set where (`Targets`, `Phases`, `Futures`, `Counted`, `Numbering`). `IInv` is a
conjunction of named parts, proved with one lemma for each group of actions; the
properties follow from it. An action property is proved from `IInv` by cases on the step.

**Cursors.** `NothingBehind` (mail, IMAP), `BehindCursorHolds` (files, contacts,
calendar). None of these properties is inductive: in the state before `Finish` nothing in
them speaks of the captured cursor. Each `IInv` adds three things. What a row or the item
in hand says is at the destination is there (`RecordsTrue`, `RowsTrue`, `HandTrue`). What
a captured cursor covers is there, gone, or still ahead of the run, as long as nothing has
failed (`RunCovers`, `RunApplies`). And a delta starts from a cursor that covers only what
is accounted for, or its listing could leave something out. The rest is the order of
things in time: a captured cursor is not ahead of the listing, nor the listing of the
source (`Past`).

- Mail: `CoverageKept` shows that the accounting survives any step in which messages only
  become done or gone; `ExtrasKept` shows that there are further copies of done messages
  only, and while one is being made only those that a fault cut off (`spare`).
  `FinishedStaysFinished` needs `IInv` to know that a message in hand is not done.
  `CopiesAreAccounted` is inductive given these.
- IMAP: a cursor is a pair of numbers, so `TypeCorrect` also proves that the UIDs of a
  folder are distinct and below its UIDNEXT, through any renumbering (`Renumbered`).
  `RunInformed` says that what an informed run skips is covered by a pair of the present
  UIDVALIDITY.
- Files: an upload overwrites only copies of its own file, and by one that is not older
  (`StoredKept`). This needs `UniqueNames`: no two files have one name. Without it the
  second of two small uploads takes the first file's place (see Exceptions) and
  `BehindCursorHolds` and `UpdatesInPlace` are false. That names be told apart within a
  folder is not enough, as orphans go to the root. `TypeCorrect` shows by the pigeonhole
  principle that a large upload always finds a name.
- Contacts and calendar: a row points to a copy of its own item that reflects the hash of
  the row, and no hash is ahead of the listing, so that a patch never takes an item back.
  `RowsMatchCopiesHolds` has both directions. `DeltaRemoves` has the hypothesis that the
  source is Google, as a Graph source lists no deletions. In the calendar an item is ahead
  in one of three places (the listing, the put-off exceptions, the hand); a captured
  cursor covers exactly the listed version of an occurrence that is ahead (`AheadTrue`),
  so that when a cancellation does not find it, being `away`, the cursor covers this
  cancellation; and `Reported` keeps the failed items of a run on record with a fresh
  stamp, from which `FailedItemReportedHolds`, the exit code.

**Refinement.** `ImplementsSync` of MailJob and of ContactsJob: the initial states are
those of DeltaSync, and every step is a step of it or a stutter. In MailJob recording a
message settles it and a clean `Finish` commits. In ContactsJob a change is settled by a
write (if the row knows the copy), a record, or a skip; `NothingUndone` shows for each of
the twelve steps that touch the destination or a row that no version of a living contact
is lost by it. That needs two facts more than `IInv` (`NotAhead`, proved invariant first):
no copy is ahead of the listing, or a patch would take it back, and no captured cursor is
behind the committed one.

**Import.** The theorems of MailImport hold for any number of jobs, messages, labels and
paths of any depth, whatever way the walks mix. The inductive invariant is a statement
about the tenant (rows name folders that exist, folders have their parents) and three
about each job: what it has in hand (`HandOK`), that its cache tells the truth
(`CacheOK`), and that its place in the walk goes with the folder it is in and the one it
looks for (`PlaceOK`); two jobs have two rows for a path only if both looked at one time
(`RowsUnique`), and a message in two hands is in `shared` (`HandsApart`).
`FailsForAReasonHolds` comes of it because a request that is refused for what another job
did is always answered by a look-up that succeeds. `CopiesAccountedHolds` is a balance:
folder by folder, the copies of a message are those its row and the job that holds it
account for, plus those `orphaned` counts (`Counts`). It has the hypothesis `UniquePaths`,
that the folder paths of a message are different: the code does not compare them, and a
user label named `Inbox` beside INBOX gives one twice. `PathsAssumption`, an assumption of
the module, says that a folder path has one part at least, which is so of `str.split`
(`mail_job.py:48`). It is assumed because Labels sorts labels with SelectSeq, which is
recursive; TLC evaluates it.

**Placement.** `PlacedHolds` says that files land in the right folder whatever the listing
order, over any number of runs, rounds and faults and in a tree of any depth, with the
exception the finding names (`cutOff`). The invariant has to say why an orphan goes to the
root only when it should: the folder of an item still to be processed is made, still to be
processed, remembered as failed, or cut off (`ParentsKnown`); which holds of a delta's
first listing because the folders it leaves out are covered by the cursor, and those are
made (`FoldersMade`). Rounds end with some item whose folder is not waiting, as a tree has
no cycle. `Home` and `Above` are recursive functions, so that their defining equations
have to be earned: `TreeRecursion` proves that in a tree a function may be defined from
the root down, and `HomeIs` and `AboveIs` apply it.

**Copies.** `CopiesAccountedHolds` (files) needs no hypothesis on names: a driveItem is on record,
in hand or lost by a fault.

**Sites.** `OwnLibraryHolds` and `NeverPostsAgainHolds`, of the instance `Sites` in
FilesJob_proofs: rows and the run in progress name the drive's own group
(`SiteRowsAreOwn`, `SiteHandIsOwn`), and what is opened is on record. Their hypotheses are
the two assumptions of SiteProvisioning, which an instance does not bring along.

**Orchestrator.** `NothingLeftBehindHolds` relates an exit code to rows written by any
number of workers. `JobsSettle`: every item of a job is done, still to do, in hand,
`dropped` by a listing that broke off, or its failure is on record with a stamp no older than
the command. `CommandSettles`: the
workloads the loop has passed are settled, and `CodeTrue` that of the last command;
`FailuresCounted` bounds the count of failed users by a place in the loop each
(`OncePerPlace`).

**Graph client.** `OneEffectHolds` and `DeadPoolMetOnceHolds` follow from what a call
knows at each attempt. `RateHolds` is a conservation argument: `Earned` balances what
calls have paid (`Paid` counts threads by cardinality) against the tokens in the bucket,
the refill, and the waits still owed, for any number of threads.

**Only model-checked.** Liveness, all of it: it needs fairness and ENABLED. The violations
under Findings, which are counterexamples. The conversions, which are recursive over the
parts of rules, the characters of names and the labels of a message: what they compute for
every input is induction over data.

## Not modelled

`config.py`, `configgen.py`, `auth/`, `reporting.py`, `whatif.py`, `connectors/factory.py`
and the read-only commands: no evolving state, or output only. What MIME is parsed to and
how JSON bodies are filled (`microsoft/mail.py:203-280`, `_map_contact`, the times and
attendees of events, the Graph mappers of `connectors/m365.py`) copies fields; the look-up
of addresses in `transform/identities.py` is a map; `sanitize_path` is called by tests
only. `resolve_label_placement` says in its docstring that All Mail is skipped
(`labels.py:36`); there is no code for it, and no model. Contact photos are best effort
and change nothing that is kept. The creation and paging of calendars
(`microsoft/calendar.py:14`), a calendar's expired token (`google/calendar.py:54`),
renamed and moved files, and two processes that share anything but a mailbox are left out.
Bytes of upload sessions are one step. Also left out are an occurrence that is moved to
where another one is looked for, and taken for that one by its present start
(`microsoft/calendar.py:92`), and clock skew (see Assumptions).

## Plan

1. First: DeltaSync, MailJob with its proofs, the workloads, sources, sites, client and
   orchestrator with one or two runs each.
2. Then: MailImport; the rate limiter inside the Graph client; the commands over
   several workloads; Labels, PathNames, Recurrence and Conversions; series without a
   pattern and liveness of the calendar.
3. Proved since: the safety of every module but Conversions, and that MailJob and
   ContactsJob implement DeltaSync.
4. Left to prove: that CalendarJob and FilesJob implement DeltaSync, for which `stale` has to
   become a version like `passedOver`. ImapSource is not one as it stands: a folder that is
   renumbered takes its cursor back, which DeltaSync does not allow.
5. Model later: files renamed and moved, several calendars of a user, listings that are read
   page by page.
