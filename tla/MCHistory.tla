----------------------------- MODULE MCHistory -----------------------------
(***************************************************************************)
(* The instances of MCMonitor, with the history variable.                  *)
(***************************************************************************)
EXTENDS MCMonitor, MonitorHistory
=============================================================================
