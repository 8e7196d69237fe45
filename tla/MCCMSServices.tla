--------------------------- MODULE MCCMSServices ---------------------------
(* CMSServices on small sets, for TLC.                                     *)
EXTENDS CMSServices
=============================================================================
