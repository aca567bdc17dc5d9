----------------------------- MODULE DeltaSync -----------------------------
(***************************************************************************)
(* What a resumable migration promises, with no mention of runs, retries   *)
(* or crashes.                                                             *)
(*                                                                         *)
(* Changes arrive at the source (a message, or a version of an item that   *)
(* is edited) and leave it again.  The migrator settles them (brings them  *)
(* to the destination) and, in separate steps, commits a sync cursor.  A   *)
(* cursor is the set of changes that had arrived when it was captured:     *)
(* that is what a Gmail historyId, a People sync token or the instant of a *)
(* Graph listing stand for.  A later delta pass never looks behind the     *)
(* committed cursor again, so a cursor may be committed only when          *)
(* everything behind it is settled or has left the source.                 *)
(***************************************************************************)
CONSTANTS
  Changes,    \* changes that can ever happen at the source
  NoCursor    \* value of the cursor before the first clean run

VARIABLES
  arrived,    \* changes that have arrived at the source so far
  box,        \* changes that are still there
  settled,    \* changes recorded as migrated
  cursor      \* the committed sync cursor

vars == <<arrived, box, settled, cursor>>

Cursors == (SUBSET Changes) \cup {NoCursor}

\* A change nobody will look for again: settled, or no longer at the source.
Accounted == settled \cup (arrived \ box)

Init ==
  /\ arrived \in SUBSET Changes
  /\ box = arrived
  /\ settled = {}
  /\ cursor = NoCursor

\* Changes arrive, and some leave, those that have just arrived among them.
Change ==
  /\ arrived' \in SUBSET Changes
  /\ arrived \subseteq arrived'
  /\ box' \in SUBSET (box \cup (arrived' \ arrived))
  /\ UNCHANGED <<settled, cursor>>

\* What is settled stays so, unless it has left.
Settle ==
  /\ settled' \in SUBSET (settled \cup arrived)
  /\ settled \cap box \subseteq settled'
  /\ UNCHANGED <<arrived, box, cursor>>

\* A new cursor never covers less than the one it replaces.
Commit ==
  /\ cursor' \in SUBSET Accounted
  /\ cursor # NoCursor => cursor \subseteq cursor'
  /\ UNCHANGED <<arrived, box, settled>>

Next == Change \/ Settle \/ Commit

Spec == Init /\ [][Next]_vars
=============================================================================
