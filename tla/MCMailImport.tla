---------------------------- MODULE MCMailImport ----------------------------
(* MailImport with two jobs on a mailbox of two messages whose paths share a part. *)
EXTENDS MailImport

CONSTANTS w1, w2

MCLabelPath == [news |-> <<"a">>, digest |-> <<"a", "b">>]
MCLabelsOf == [m |-> <<"UNREAD", "digest">>, n |-> <<"news", "INBOX">>]
MCRefuses == [m |-> {"raw", "cleaned", "full"}, n |-> {}]
=============================================================================
