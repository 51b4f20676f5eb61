---------------------------- MODULE MCUsageInbox ----------------------------
(***************************************************************************)
(* Small instances of UsageInbox for TLC.                                  *)
(***************************************************************************)
EXTENDS UsageInbox
=============================================================================
