---------------------------- MODULE MCEmailSending ----------------------------
(***************************************************************************)
(* Instances of EmailSending for TLC.                                      *)
(***************************************************************************)
EXTENDS EmailSending

CONSTANTS s1, s2        \* mails
=============================================================================
