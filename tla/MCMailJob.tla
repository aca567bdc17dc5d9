----------------------------- MODULE MCMailJob -----------------------------
(* MailJob on small mailboxes. *)
EXTENDS MailJob

AllFaults == {"fetch", "create", "lost", "attach", "extra", "interrupt"}
=============================================================================
