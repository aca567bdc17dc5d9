------------------------- MODULE MCSiteProvisioning -------------------------
(* SiteProvisioning for three drives. *)
EXTENDS SiteProvisioning

CONSTANTS d1, d2, d3

InOrder == [d \in Drives |-> IF d = d1 THEN 1 ELSE IF d = d2 THEN 2 ELSE 3]

\* The last drive was given the alias of the first.
SharedAlias == [d \in Drives |-> IF d = d3 THEN d1 ELSE d]

AllFaults == {"unlisted", "refused", "poll", "interrupt", "unrecorded"}
=============================================================================
