----------------------------- MODULE MCGroupHA -----------------------------
(* GroupHA on small sets, for TLC.                                         *)
EXTENDS GroupHA
=============================================================================
