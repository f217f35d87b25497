-------------------------- MODULE MCStatusHistory --------------------------
(***************************************************************************)
(* The instances of MCStatusPage, with the history variable.               *)
(***************************************************************************)
EXTENDS MCStatusPage, StatusHistory
=============================================================================
