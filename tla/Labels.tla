------------------------------- MODULE Labels -------------------------------
(***************************************************************************)
(* Where a Gmail message goes: resolve_label_placement in                  *)
(* transform/labels.py.  A label stands for its name.                      *)
(***************************************************************************)
EXTENDS Naturals, Sequences, SequencesExt

CONSTANT
  LabelPath    \* the folder names in the name of each label the user made

\* The system labels that have a folder at the destination.
SystemLabelFolder ==
  [INBOX |-> <<"Inbox">>, SENT |-> <<"SentItems">>, DRAFT |-> <<"Drafts">>,
   TRASH |-> <<"DeletedItems">>, SPAM |-> <<"JunkEmail">>]

\* The system labels that become a flag, a category or nothing at all.
Stateful == {"STARRED", "IMPORTANT", "CHAT", "UNREAD", "CATEGORY_PERSONAL"}

SystemFolders(labels) ==
  LET foldered == SelectSeq(labels, LAMBDA l : l \in DOMAIN SystemLabelFolder)
  IN [i \in DOMAIN foldered |-> SystemLabelFolder[foldered[i]]]

UserLabels(labels) ==
  LET user == SelectSeq(labels, LAMBDA l :
                l \notin DOMAIN SystemLabelFolder \cup Stateful)
  IN [i \in DOMAIN user |-> LabelPath[user[i]]]

\* The folders a message is copied to, the first of which is its primary one.
FolderPaths(labels, policy) ==
  LET system == SystemFolders(labels)
      user == UserLabels(labels)
  IN CASE user = <<>> /\ system = <<>> -> << <<"Inbox">> >>
       [] user = <<>> /\ system # <<>> -> system
       [] user # <<>> /\ policy = "duplicate" -> system \o user
       [] user # <<>> /\ policy # "duplicate" -> Append(system, Head(user))

Categories(labels, policy) ==
  LET user == UserLabels(labels)
  IN IF policy = "duplicate" \/ user = <<>> THEN <<>> ELSE Tail(user)
=============================================================================
