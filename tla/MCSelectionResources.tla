------------------------ MODULE MCSelectionResources ------------------------
(***************************************************************************)
(* Small instances of SelectionResources for TLC.                          *)
(***************************************************************************)
EXTENDS SelectionResources
=============================================================================
