---------------------------- MODULE MCImapSource ----------------------------
(* ImapSource on one small folder. *)
EXTENDS ImapSource

CONSTANTS m1, m2, inbox

InInbox == [m \in Msgs |-> inbox]

AllFaults == {"status", "search", "fetch", "interrupt"}
=============================================================================
