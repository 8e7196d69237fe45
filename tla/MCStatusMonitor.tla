-------------------------- MODULE MCStatusMonitor --------------------------
(* StatusMonitor on small sets, for TLC.                                   *)
EXTENDS StatusMonitor, TLC
=============================================================================
