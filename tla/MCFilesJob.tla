----------------------------- MODULE MCFilesJob -----------------------------
(* FilesJob on small drives. *)
EXTENDS FilesJob, TLC

CONSTANTS a, b, f, g

\* a/f and a/b/g: a file in a folder in a folder.
NestedParent == a :> Top @@ b :> a @@ f :> a @@ g :> b
\* a/b/f.
DeepParent == a :> Top @@ b :> a @@ f :> b

OwnName == [i \in Items |-> i]

UploadFaults == {"upload", "lost", "interrupt"}
FolderFaults == {"folder"}
AllFaults == UploadFaults \cup FolderFaults
=============================================================================
