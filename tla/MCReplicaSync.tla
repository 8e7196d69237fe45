--------------------------- MODULE MCReplicaSync ---------------------------
(* ReplicaSync on small sets, for TLC.                                     *)
EXTENDS ReplicaSync
=============================================================================
