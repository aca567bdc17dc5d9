--------------------------- MODULE MCGraphClient ---------------------------
(* GraphClient with another thread, few attempts and short pauses. *)
EXTENDS GraphClient

CONSTANTS t1, t2
=============================================================================
