--------------------------- MODULE MCOrchestrator ---------------------------
(* Orchestrator with three workloads, one of which the source lacks: the     *)
(* first user has mail and an event, the second an event.                    *)
EXTENDS Orchestrator

CONSTANTS u1, u2, m1, e1, e2

Sequential == <<"calendar", "files", "mail">>
Kinds == [i \in Items |-> IF i = m1 THEN "mail" ELSE "calendar"]
OwnItems == [u \in Users |-> IF u = u1 THEN {m1, e1} ELSE {e2}]
Pools == [w \in Workloads |-> IF w = "mail" THEN 1 ELSE 2]

AllFaults == {"item", "listing", "raise", "kill"}
=============================================================================
