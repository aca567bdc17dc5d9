---------------------------- MODULE MCContactsJob ----------------------------
(* ContactsJob on small address books. *)
EXTENDS ContactsJob

CONSTANTS c1, c2

AllFaults == {"write", "delete", "lost", "expired", "interrupt"}
=============================================================================
