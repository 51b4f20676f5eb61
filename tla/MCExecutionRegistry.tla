------------------------ MODULE MCExecutionRegistry ------------------------
(***************************************************************************)
(* Small instances of ExecutionRegistry for TLC.                           *)
(***************************************************************************)
EXTENDS ExecutionRegistry
=============================================================================
