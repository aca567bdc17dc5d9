----------------------------- MODULE MailImport -----------------------------
(***************************************************************************)
(* How a message gets into its folders: _get_folder and _import_into of    *)
(* run_mail (workloads/mail_job.py) with microsoft/mail.py behind them.    *)
(*                                                                         *)
(* MailJob has one action for what is looked at here call by call: the     *)
(* walk along the path of a folder, with a look-up, a creation and a row   *)
(* for each of its parts, and the import with its fallbacks.  There are    *)
(* several workers on one mailbox and one database, since nothing keeps    *)
(* two `users` entries from naming one source, or two commands from being  *)
(* run at once.  Cursors are left to MailJob; a pass here is a full one.   *)
(*                                                                         *)
(* A folder is identified by the path it is found under at the             *)
(* destination, so what is wrong with a path shows in the identifier.      *)
(***************************************************************************)
EXTENDS Labels, Bags, FiniteSets

CONSTANTS
  Workers,     \* jobs on the mailbox at one time
  Msgs,        \* messages of the source
  LabelsOf,    \* the labels of each, as a sequence
  Policy,      \* multi_label_policy: "categories" or "duplicate"
  Mode,        \* import_mode: "json" or "mime"
  Bulky,       \* messages whose attachments are added after the create
  Refuses,     \* the forms of each message Graph answers with 400, not the last
  MaxFaults    \* bound on failed calls and crashes

\* The forms a message is sent in: as it is, with its trace headers removed, and
\* as JSON with and without the fields that some tenants reject.
Forms == {"raw", "cleaned", "full", "reduced"}

ASSUME ImportAssumption ==
  /\ "none" \notin Msgs
  /\ LabelsOf \in [Msgs -> Seq(DOMAIN SystemLabelFolder \cup Stateful
                                 \cup DOMAIN LabelPath)]
  /\ Policy \in {"categories", "duplicate"}
  /\ Mode \in {"json", "mime"}
  /\ Bulky \subseteq Msgs
  /\ Refuses \in [Msgs -> SUBSET (Forms \ {"reduced"})]
  /\ MaxFaults \in Nat

VARIABLES
  \* the destination
  folders,     \* folders that have been created
  copies,      \* the bag of copies, as pairs of a message and a folder
  \* the database
  status,      \* ItemMap.status of each message, "none" without a row
  rows,        \* the bag of FolderMap rows, as their source_path
  \* the jobs, each with the locals of its run
  pc,
  todo,        \* messages its listing has still to yield
  hand,        \* the message it works on
  nth,         \* which of the folder paths of the message
  cache,       \* folder_cache: from paths to folders
  form,        \* the form tried last
  \* the environment and the observers
  faults,
  orphaned,    \* the bag of copies cut off from the row that should tell of them
  shared,      \* messages two jobs had in hand at one time
  raced,       \* paths for which two jobs had no row at one time
  hit          \* messages that met a failed call or a row that is not unique

Count(e, bag) == IF BagIn(e, bag) THEN bag[e] ELSE 0

tenant == <<folders, copies>>
database == <<status, rows>>
locals == <<pc, todo, hand, nth, cache, form>>
observers == <<orphaned, shared, raced, hit>>
vars == <<tenant, database, locals, faults, observers>>

-----------------------------------------------------------------------------
(* Folders *)

\* WELL_KNOWN_FOLDER_IDS: names of top-level folders every mailbox has.
WellKnown == {<<"Inbox">>, <<"SentItems">>, <<"Drafts">>, <<"DeletedItems">>,
              <<"JunkEmail">>, <<"Archive">>}

PartsOf(path) == Prefixes(path) \ {<<>>}

Targets == [m \in Msgs |-> FolderPaths(LabelsOf[m], Policy)]

\* A path that was split at its separators has one part at least.
ASSUME PathsAssumption == \A m \in Msgs : Targets[m] \in Seq(Seq(STRING) \ {<<>>})

Target(w) == Targets[hand[w]][nth[w]]
Paths == UNION {PartsOf(p) : p \in UNION {ToSet(Targets[m]) : m \in Msgs}}

\* The part of the path the walk has come to: the first that is not cached.
Current(w) ==
  CHOOSE p \in PartsOf(Target(w)) \ DOMAIN cache[w] :
    Front(p) \in DOMAIN cache[w] \cup {<<>>}

\* Variants.  An operator marked so is a plausible mistake in the definition
\* that follows it; the README says which property finds it out.

\* The id under which ensure_mail_folder creates or finds the current part.
\* Variant: the parent is not passed on.
FolderIdAtTop(w) == <<Last(Current(w))>>
FolderId(w) ==
  IF Len(Current(w)) = 1 THEN Current(w)
  ELSE Append(cache[w][Front(Current(w))], Last(Current(w)))

-----------------------------------------------------------------------------
Init ==
  /\ folders = {} /\ copies = EmptyBag
  /\ status = [m \in Msgs |-> "none"] /\ rows = EmptyBag
  /\ pc = [w \in Workers |-> "idle"]
  /\ todo = [w \in Workers |-> {}]
  /\ hand = [w \in Workers |-> "none"]
  /\ nth = [w \in Workers |-> 0]
  /\ cache = [w \in Workers |-> <<>>]
  /\ form = [w \in Workers |-> "none"]
  /\ faults = 0
  /\ orphaned = EmptyBag /\ shared = {} /\ raced = {} /\ hit = {}

Goto(w, label) == pc' = [pc EXCEPT ![w] = label]
Fault == faults < MaxFaults /\ faults' = faults + 1

\* A message in hand: a copy of it, and how it is marked after a fault.
Copy(w) == <<hand[w], cache[w][Target(w)]>>
Cut(w) == orphaned' = orphaned (+) SetToBag({Copy(w)})
Hit(w) == hit' = hit \cup {hand[w]}

FirstForm == IF Mode = "mime" THEN "raw" ELSE "full"

\* The job turns to the k-th folder of a message, and imports at once if it has
\* the folder in its cache; or it is through with the message.
Turn(w, m, k) ==
  /\ nth' = [nth EXCEPT ![w] = k]
  /\ \/ /\ k <= Len(Targets[m])
        /\ Goto(w, IF Targets[m][k] \in DOMAIN cache[w] THEN "import" ELSE "folder")
        /\ hand' = [hand EXCEPT ![w] = m]
        /\ form' = [form EXCEPT ![w] = FirstForm]
     \/ /\ k > Len(Targets[m])
        /\ Goto(w, "loop")
        /\ hand' = [hand EXCEPT ![w] = "none"]
        /\ form' = [form EXCEPT ![w] = "none"]

\* What an exception comes to: the message is failed, unless its primary copy has
\* been recorded; then it is only logged.
Raise(w) ==
  \/ /\ nth[w] = 1
     /\ status' = [status EXCEPT ![hand[w]] = "failed"]
     /\ Turn(w, hand[w], Len(Targets[hand[w]]) + 1)
  \/ /\ nth[w] > 1
     /\ Turn(w, hand[w], nth[w] + 1)
     /\ UNCHANGED status

-----------------------------------------------------------------------------
(* The loop of run_mail *)

Start(w) ==
  /\ pc[w] = "idle"
  /\ Goto(w, "loop")
  /\ todo' = [todo EXCEPT ![w] = Msgs]
  /\ UNCHANGED <<tenant, database, hand, nth, cache, form, faults, observers>>

\* is_done, in a session of its own.  Variants: it is not asked; it is taken for
\* whether there is a row.
PendingAlways(m) == TRUE
PendingOnce(m) == status[m] = "none"
Pending(m) == status[m] # "done"

SkipDone(w, m) ==
  /\ pc[w] = "loop" /\ m \in todo[w]
  /\ ~Pending(m)
  /\ todo' = [todo EXCEPT ![w] = @ \ {m}]
  /\ UNCHANGED <<tenant, database, pc, hand, nth, cache, form, faults, observers>>

Take(w, m) ==
  /\ pc[w] = "loop" /\ m \in todo[w]
  /\ Pending(m)
  /\ todo' = [todo EXCEPT ![w] = @ \ {m}]
  /\ Turn(w, m, 1)
  /\ shared' = IF \E v \in Workers : hand[v] = m THEN shared \cup {m} ELSE shared
  /\ UNCHANGED <<tenant, database, cache, faults, orphaned, raced, hit>>

Finish(w) ==
  /\ pc[w] = "loop" /\ todo[w] = {}
  /\ Goto(w, "idle")
  /\ cache' = [cache EXCEPT ![w] = <<>>]
  /\ UNCHANGED <<tenant, database, todo, hand, nth, form, faults, observers>>

\* The process dies; what it has sent and not recorded is cut off.
Crash(w) ==
  /\ pc[w] # "idle"
  /\ Fault
  /\ Goto(w, "idle")
  /\ todo' = [todo EXCEPT ![w] = {}]
  /\ hand' = [hand EXCEPT ![w] = "none"]
  /\ nth' = [nth EXCEPT ![w] = 0]
  /\ form' = [form EXCEPT ![w] = "none"]
  /\ cache' = [cache EXCEPT ![w] = <<>>]
  /\ IF pc[w] \in {"attach", "patch", "record"} THEN Cut(w) ELSE UNCHANGED orphaned
  /\ UNCHANGED <<tenant, database, shared, raced, hit>>

-----------------------------------------------------------------------------
(* The folder of a message: one action per request and transaction *)

Found(w, id) ==
  /\ LET part == Current(w)
     IN cache' = [cache EXCEPT ![w] =
                    [p \in DOMAIN @ \cup {part} |-> IF p = part THEN id ELSE @[p]]]
  /\ Goto(w, "select")
  /\ UNCHANGED <<hand, nth, form>>

\* resolve_folder_segment: nothing is asked for a well-known folder.
Resolve(w) ==
  /\ pc[w] = "folder" /\ Current(w) \in WellKnown
  /\ Found(w, Current(w))
  /\ UNCHANGED <<tenant, database, todo, faults, observers>>

\* ensure_mail_folder: the folders there are, page by page.
Find(w) ==
  /\ pc[w] = "folder" /\ Current(w) \notin WellKnown
  /\ \/ /\ FolderId(w) \in folders
        /\ Found(w, FolderId(w))
     \/ /\ FolderId(w) \notin folders
        /\ Goto(w, "post")
        /\ UNCHANGED <<cache, hand, nth, form>>
  /\ UNCHANGED <<tenant, database, todo, faults, observers>>

\* The folder is created; or it is, and the answer is lost and the request is
\* sent again.
Post(w) ==
  /\ pc[w] = "post" /\ FolderId(w) \notin folders
  /\ folders' = folders \cup {FolderId(w)}
  /\ \/ Found(w, FolderId(w)) /\ UNCHANGED <<faults, hit>>
     \/ Fault /\ Hit(w) /\ UNCHANGED <<pc, cache, hand, nth, form>>
  /\ UNCHANGED <<copies, database, todo, orphaned, shared, raced>>

\* 409: it exists by now.  Variant: the conflict is an error like any other.
ConflictRaised(w) ==
  /\ pc[w] = "post" /\ FolderId(w) \in folders
  /\ Raise(w)
  /\ UNCHANGED <<tenant, rows, cache, todo, faults, observers>>
Conflict(w) ==
  /\ pc[w] = "post" /\ FolderId(w) \in folders
  /\ Goto(w, "refind")
  /\ UNCHANGED <<tenant, database, todo, hand, nth, cache, form, faults, observers>>

FindAgain(w) ==
  /\ pc[w] = "refind"
  /\ Found(w, FolderId(w))
  /\ UNCHANGED <<tenant, database, todo, faults, observers>>

\* A request of the walk fails for good.
WalkFails(w) ==
  /\ pc[w] \in {"post", "refind"} \/ (pc[w] = "folder" /\ Current(w) \notin WellKnown)
  /\ Fault
  /\ Raise(w)
  /\ Hit(w)
  /\ UNCHANGED <<tenant, rows, cache, todo, orphaned, shared, raced>>

\* The part of the path whose row is due: the longest that is cached.
Cached(w) ==
  CHOOSE p \in PartsOf(Target(w)) \cap DOMAIN cache[w] :
    \A q \in PartsOf(Target(w)) \cap DOMAIN cache[w] : Len(q) <= Len(p)

\* On along the path; the import follows when it is all in the cache.
Along(w) ==
  /\ Goto(w, IF Target(w) \in DOMAIN cache[w] THEN "import" ELSE "folder")
  /\ UNCHANGED <<hand, nth, form, status>>

\* upsert_folder: the row is selected.  One is updated, and two are an exception.
\* Variant: it is not selected, but inserted every time.
RowsFoundNot(path) == 0
RowsFound(path) == Count(path, rows)

SelectRow(w) ==
  LET path == Cached(w)
      found == RowsFound(path)
      alone == \A v \in Workers : ~(pc[v] = "insert" /\ Cached(v) = path)
  IN /\ pc[w] = "select"
     /\ \/ /\ found = 0
           /\ Goto(w, "insert")
           /\ raced' = IF alone THEN raced ELSE raced \cup {path}
           /\ UNCHANGED <<hand, nth, form, status, hit>>
        \/ found = 1 /\ Along(w) /\ UNCHANGED <<raced, hit>>
        \/ found > 1 /\ Raise(w) /\ Hit(w) /\ UNCHANGED raced
     /\ UNCHANGED <<tenant, rows, todo, cache, faults, orphaned, shared>>

\* It is inserted when the session commits.
InsertRow(w) ==
  /\ pc[w] = "insert"
  /\ rows' = rows (+) SetToBag({Cached(w)})
  /\ Along(w)
  /\ UNCHANGED <<tenant, todo, cache, faults, observers>>

-----------------------------------------------------------------------------
(* The import: one action per request *)

\* import_mime_message tries the forms in this order, import_json_message the
\* last two of them.
NextForm == [raw |-> "cleaned", cleaned |-> "full", full |-> "reduced"]

TryNext(w) ==
  /\ form' = [form EXCEPT ![w] = NextForm[@]]
  /\ Goto(w, "import")
  /\ UNCHANGED <<status, hand, nth>>

\* The copy is complete but for the flags, which a MIME import cannot carry.
Complete(w) ==
  /\ Goto(w, IF Mode = "mime" THEN "patch" ELSE "record")
  /\ UNCHANGED <<hand, nth, form>>

Create(w) ==
  /\ pc[w] = "import" /\ form[w] \notin Refuses[hand[w]]
  /\ copies' = copies (+) SetToBag({Copy(w)})
  /\ IF hand[w] \in Bulky
     THEN Goto(w, "attach") /\ UNCHANGED <<hand, nth, form>>
     ELSE Complete(w)
  /\ UNCHANGED <<folders, database, todo, cache, faults, observers>>

\* 400: the next form is tried.
Refused(w) ==
  /\ pc[w] = "import" /\ form[w] \in Refuses[hand[w]]
  /\ TryNext(w)
  /\ UNCHANGED <<tenant, rows, todo, cache, faults, observers>>

\* The request fails otherwise, executed or not; a 400 to the last form is one
\* such failure.
CreateFails(w) ==
  /\ pc[w] = "import" /\ form[w] \notin Refuses[hand[w]]
  /\ Fault
  /\ \/ UNCHANGED <<copies, orphaned>>
     \/ copies' = copies (+) SetToBag({Copy(w)}) /\ Cut(w)
  /\ Raise(w)
  /\ Hit(w)
  /\ UNCHANGED <<folders, rows, todo, cache, shared, raced>>

\* _add_attachment, for all of them.
Attach(w) ==
  /\ pc[w] = "attach"
  /\ Complete(w)
  /\ UNCHANGED <<tenant, database, todo, cache, faults, observers>>

\* An attachment fails, and the message stays without it.  A body that cannot be
\* parsed is taken for one of the message, which is then tried in another form.
AttachFails(w) ==
  /\ pc[w] = "attach"
  /\ Fault
  /\ Cut(w)
  /\ Hit(w)
  /\ \/ Raise(w)
     \/ form[w] \in {"raw", "cleaned"} /\ TryNext(w)
  /\ UNCHANGED <<tenant, rows, todo, cache, shared, raced>>

\* patch_message_flags; whether it succeeds or not, the import has.  Variant: its
\* failure is the message's.
PatchOrRaise(w) ==
  /\ pc[w] = "patch"
  /\ \/ Goto(w, "record") /\ UNCHANGED <<status, hand, nth, form>>
     \/ Raise(w)
  /\ UNCHANGED <<tenant, rows, todo, cache, faults, observers>>
Patch(w) ==
  /\ pc[w] = "patch"
  /\ Goto(w, "record")
  /\ UNCHANGED <<tenant, database, todo, hand, nth, cache, form, faults, observers>>

\* The primary copy is recorded at once, before the others are made.
Record(w) ==
  /\ pc[w] = "record"
  /\ status' = IF nth[w] = 1 THEN [status EXCEPT ![hand[w]] = "done"] ELSE status
  /\ Turn(w, hand[w], nth[w] + 1)
  /\ UNCHANGED <<tenant, rows, todo, cache, faults, observers>>

Step(w) ==
  \/ Start(w) \/ Finish(w)
  \/ \E m \in Msgs : SkipDone(w, m) \/ Take(w, m)
  \/ Resolve(w) \/ Find(w) \/ Post(w) \/ Conflict(w) \/ FindAgain(w) \/ WalkFails(w)
  \/ SelectRow(w) \/ InsertRow(w)
  \/ Create(w) \/ Refused(w) \/ CreateFails(w) \/ Attach(w) \/ AttachFails(w)
  \/ Patch(w) \/ Record(w)

Next == \E w \in Workers : Step(w) \/ Crash(w)

Spec == Init /\ [][Next]_vars

\* Every request returns or times out, and the command is run again.
FairSpec == Spec /\ \A w \in Workers : WF_vars(Step(w))

-----------------------------------------------------------------------------
(* Properties *)

TypeOK ==
  /\ IsABag(copies) /\ IsABag(rows) /\ IsABag(orphaned)
  /\ DOMAIN rows \subseteq Paths
  /\ status \in [Msgs -> {"none", "failed", "done"}]
  /\ pc \in [Workers -> {"idle", "loop", "folder", "post", "refind", "select",
                         "insert", "import", "attach", "patch", "record"}]
  /\ todo \in [Workers -> SUBSET Msgs]
  /\ hand \in [Workers -> Msgs \cup {"none"}]
  /\ form \in [Workers -> Forms \cup {"none"}]
  /\ \A w \in Workers : (hand[w] = "none") <=> (pc[w] \in {"idle", "loop"})

\* A copy is in one of the folders its labels ask for, and a folder that was
\* created is where its path says: no part of a path is made at the wrong level,
\* whatever was cached, found, made by another job or left by a failed walk.
LandsInItsFolder ==
  /\ \A copy \in BagToSet(copies) : copy[2] \in ToSet(Targets[copy[1]])
  /\ folders \subseteq Paths \ WellKnown
  /\ \A f \in folders : Len(f) = 1 \/ Front(f) \in folders \cup WellKnown

\* A row tells of a folder that exists, and a folder has one row unless two jobs
\* looked for it at one time (nothing in the table prevents a second one).
RowsTellOfFolders ==
  \A path \in DOMAIN rows :
    /\ path \in folders \cup WellKnown
    /\ Count(path, rows) > 1 => path \in raced

InHand(m) ==
  {w \in Workers : hand[w] = m /\ nth[w] = 1 /\ pc[w] \in {"attach", "patch", "record"}}

\* The number of copies of a message in each of its folders, for a message no two
\* jobs had in hand together: one in the primary folder if its row is done, or if
\* it is in hand, and one more for each that a failure cut off from the row.
CopiesAccounted ==
  /\ TypeOK
  /\ \A m \in Msgs \ shared : \A k \in DOMAIN Targets[m] :
       LET copy == <<m, Targets[m][k]>>
           recorded == IF status[m] = "done" THEN 1 ELSE 0
       IN IF k = 1
          THEN Count(copy, copies) =
                 recorded + Count(copy, orphaned) + Cardinality(InHand(m))
          ELSE Count(copy, copies) <= recorded + Count(copy, orphaned)

\* A message fails only if a request for it failed or a row on its path is not
\* unique.  A folder that another job or a repeated request has made in between
\* is no reason, nor is a form Graph does not accept, nor flags.
FailsForAReason == \A m \in Msgs : status[m] = "failed" => m \in hit

\* A message that is done stays done, unless two jobs had it in hand together:
\* then the failure of one overwrites what the other has recorded.
DoneStays ==
  [][\A m \in Msgs \ shared : status[m] = "done" => status'[m] = "done"]_vars

\* Runs that are repeated bring every message over for good, but for one on whose
\* paths a row is not unique: the first message that needs it fails in every run.
EveryMessageArrives ==
  \A m \in Msgs :
    <>[]( \/ status[m] = "done"
          \/ \E path \in PartsOf(Targets[m][1]) : Count(path, rows) > 1 )
=============================================================================
