---------------------------- MODULE Conversions ----------------------------
(***************************************************************************)
(* What the Google connector makes of one thing it reads, before a job is  *)
(* given it: _map_event, _to_file with fetch_file, and _to_message in      *)
(* connectors/google.py, with the modules of transform/ they call; and     *)
(* what is left of it when the job patches it with what it became.         *)
(***************************************************************************)
EXTENDS Recurrence, PathNames, Labels

CONSTANTS
  Events,     \* the lines of a recurrence: rules and EXDATEs
  Edits,      \* what an event may be edited to
  Documents,  \* a name and a MIME type
  Messages    \* the labels of a message

\* The MIME types that are told apart, and the extension of what is exported.
Folder == "folder"
Exports == [document |-> <<".", "docx">>, drawing |-> <<".", "svg">>]
Natives == DOMAIN Exports \cup {"form"}

VARIABLES
  read,   \* what Google returned
  kind,   \* which of the conversions it is for
  made    \* what it was made of it; a step of its own fetches a file

vars == <<read, kind, made>>

Nothing == [stage |-> "none"]

Init ==
  /\ made = Nothing
  /\ \/ kind = "event" /\ read \in Events
     \/ kind = "file" /\ read \in Documents
     \/ kind = "message" /\ read \in Messages

\* The loop over the lines: only the first rule is converted, and a line that
\* is no rule is passed over.  Without a recurrence the event happens once.
Rules(event) == SelectSeq(event.lines, LAMBDA line : line.type = "RRULE")
RuleTaken(event) == Head(Rules(event)).rule

RecurrenceOf(event) ==
  IF Rules(event) = <<>> THEN [type |-> NoPattern] ELSE Recurrence(RuleTaken(event))

MapEvent ==
  /\ kind = "event" /\ made = Nothing
  /\ made' = [stage |-> "mapped", recurrence |-> RecurrenceOf(read)]
  /\ UNCHANGED <<read, kind>>

\* A delta reads the event again and patches it with the body of what it is now:
\* what that body leaves out stays as it was.
PatchEvent ==
  /\ kind = "event" /\ made.stage = "mapped"
  /\ read' \in Edits
  /\ made' = [stage |-> "patched",
              recurrence |-> IF RecurrenceOf(read').type = NoPattern THEN made.recurrence
                             ELSE RecurrenceOf(read')]
  /\ UNCHANGED kind

\* _to_file
ActionFor(mime) ==
  CASE mime = Folder -> "create-folder"
    [] mime \in DOMAIN Exports -> "export"
    [] mime \in Natives \ DOMAIN Exports -> "skip"
    [] OTHER -> "migrate"

ToFile ==
  /\ kind = "file" /\ made = Nothing
  /\ made' = [stage |-> "listed", name |-> Sanitized(read.name),
              action |-> ActionFor(read.mime)]
  /\ UNCHANGED <<read, kind>>

\* fetch_file, which a job calls for what it neither skips nor creates as a
\* folder: what is exported is named with its new extension, once.
NamedFor(name, ext) == IF IsSuffix(ext, name) THEN name ELSE name \o ext

FetchFile ==
  /\ kind = "file" /\ made.stage = "listed"
  /\ made.action \in {"export", "migrate"}
  /\ made' = [made EXCEPT
       !.stage = "fetched",
       !.name = IF made.action = "export" THEN NamedFor(@, Exports[read.mime]) ELSE @]
  /\ UNCHANGED <<read, kind>>

\* _to_message: IMPORTANT is a category next to those of the labels.
\* Variant, a plausible mistake: it is a category in place of them.
ImportantOnly(labels, categories) ==
  IF "IMPORTANT" \in ToSet(labels) THEN << <<"Important">> >> ELSE categories
WithImportant(labels, categories) ==
  IF "IMPORTANT" \in ToSet(labels) THEN Append(categories, <<"Important">>)
  ELSE categories

ToMessage ==
  /\ kind = "message" /\ made = Nothing
  /\ made' = [stage |-> "mapped",
              folders |-> FolderPaths(read.labels, read.policy),
              categories |-> WithImportant(read.labels,
                                           Categories(read.labels, read.policy)),
              isRead |-> "UNREAD" \notin ToSet(read.labels),
              flagged |-> "STARRED" \in ToSet(read.labels)]
  /\ UNCHANGED <<read, kind>>

Next == MapEvent \/ PatchEvent \/ ToFile \/ FetchFile \/ ToMessage

Spec == Init /\ [][Next]_vars

-----------------------------------------------------------------------------
(* What the conversions owe *)

\* The rules Graph has a pattern for that says the same, by what they name.
Expressible(rule) ==
  LET relative == rule.byday # <<>>
      ordinals == {day.ord : day \in ToSet(rule.byday)}
  IN /\ rule.freq # "HOURLY" /\ rule.byweekno = 0
     /\ rule.freq \in {"DAILY", "WEEKLY"} =>
          /\ rule.bymonth = <<>> /\ rule.bymonthday = <<>> /\ rule.bysetpos = 0
          /\ rule.freq = "DAILY" => ~relative
     /\ rule.freq = "MONTHLY" => rule.bymonth = <<>>
     /\ rule.freq = "YEARLY" =>
          /\ Len(rule.bymonth) <= 1
          /\ relative \/ rule.bymonthday # <<>> => rule.bymonth # <<>>
     /\ rule.freq \in {"MONTHLY", "YEARLY"} =>
          IF relative
          THEN /\ rule.bymonthday = <<>>
               /\ \/ ordinals = {0} /\ rule.bysetpos \in {1, 2, 3, 4, -1}
                  \/ Len(rule.byday) = 1 /\ ordinals \subseteq {1, 2, 3, 4, -1}
                     /\ rule.bysetpos = 0
          ELSE /\ Len(rule.bymonthday) <= 1 /\ rule.bysetpos = 0
               /\ \A day \in ToSet(rule.bymonthday) : day > 0

\* An event recurs at the destination on the days it recurs on at the source,
\* over which the conversion of WKST, of ordinals and BYSETPOS, of the days and
\* months a bare rule takes from its start, and of the two ways a rule ends
\* has to agree with how either side reads them.  Beyond this are the rules that
\* Graph cannot say and that rrule_to_graph_recurrence simplifies; a list of
\* EXDATEs, which _map_event passes over; and UNTIL, a moment in UTC whose
\* date is taken for the local one.  An event that is edited to another rule
\* follows that one; edited to none, it goes on as it was (the body of a single
\* event says nothing of a recurrence), of which this says nothing.
\* And no rule becomes a single event but those that the docstring of
\* rrule_to_graph_recurrence names as ones Graph cannot express: an unsupported
\* FREQ, only negative days of the month, BYWEEKNO.  (The code never drops the
\* last: it makes a series of such a rule as if BYWEEKNO were not there.)
RepeatsAsBefore ==
  kind = "event" /\ made # Nothing /\ Len(Rules(read)) = 1 =>
    LET rule == Head(Rules(read)).rule
        rec == made.recurrence
        plain == Expressible(rule) /\ Len(read.lines) = 1
                 /\ (rule.count # NoEnd \/ rule.until = rule.untilUTC)
        fromTheEnd == rule.bymonthday # <<>> /\ \A day \in ToSet(rule.bymonthday) : day < 0
    IN /\ plain => rec.type # NoPattern /\ GraphOccurrences(rec) = Occurrences(rule)
       /\ rec.type = NoPattern =>
            rule.freq = "HOURLY" \/ fromTheEnd \/ rule.byweekno # 0

WasCut(name) == Len(Escaped(Tidied(name))) > SegmentMax
LooseSpace(name) ==
  LET tidy == Tidied(name) IN tidy # <<>> /\ (Head(tidy) = " " \/ Last(tidy) = " ")

\* A file or folder gets a name that OneDrive accepts, that is not longer than
\* the limit, that keeps its extension, and that a second cleaning would not
\* change; an export ends in one extension of its kind.  Three names escape:
\* one that is cut where it may not end; one that is all extension, which is
\* never cut below the length of that; and one whose spaces were behind dots,
\* since the spaces go before the dots do (transform/paths.py:27-29).
NamesAccepted ==
  kind = "file" /\ made # Nothing =>
    LET tidy == Tidied(read.name)
        exported == made.stage = "fetched" /\ made.action = "export"
    IN /\ WasCut(read.name) \/ LooseSpace(read.name) \/
            /\ Accepted(made.name)
            /\ Sanitized(made.name) = made.name \/ exported
       /\ exported \/ Len(made.name) <= SegmentMax \/ Len(Ext(tidy)) >= SegmentMax
       /\ ~exported => Ext(made.name) = Ext(tidy)
       /\ exported =>
            LET ext == Exports[read.mime]
            IN /\ IsSuffix(ext, made.name)
               /\ ~IsSuffix(ext \o ext, made.name) \/ IsSuffix(ext \o ext, read.name)

\* Each label a user put on a message is the name of one of its folders or of
\* its categories and of no two, whatever the policy; with "duplicate" each is a
\* folder, with "categories" one of them is; a message without a folder of its
\* own is in the Inbox, so that no message is left without a place; and one under
\* "duplicate", or without a label of the user, is in every system folder it is
\* labelled for.  Of the system folders of a message with a label of the user
\* under "categories" nothing is said: the code copies it to those and to the
\* folder of the label, and TODO.md:133-138 lists these further copies as a
\* defect and leaves open which one place is meant.
LabelsPlaced ==
  kind = "message" /\ made # Nothing =>
    LET user == {l \in ToSet(read.labels) : l \in DOMAIN LabelPath}
        folders == made.folders
        places(l) == {<<"folder", i>> : i \in {i \in DOMAIN folders :
                                               folders[i] = LabelPath[l]}}
                     \cup {<<"category", i>> : i \in {i \in DOMAIN made.categories :
                                               made.categories[i] = LabelPath[l]}}
        inFolder == {l \in user : LabelPath[l] \in ToSet(folders)}
    IN /\ folders # <<>>
       /\ \A l \in user : Cardinality(places(l)) = 1
       /\ read.policy = "duplicate" => inFolder = user
       /\ read.policy = "categories" /\ user # {} => Cardinality(inFolder) = 1
       /\ read.policy = "duplicate" \/ user = {} =>
            \A l \in ToSet(read.labels) \cap DOMAIN SystemLabelFolder :
              SystemLabelFolder[l] \in ToSet(folders)
       /\ folders = << <<"Inbox">> >> \/ <<"Inbox">> \notin ToSet(folders)
          \/ "INBOX" \in ToSet(read.labels)
=============================================================================
