--------------------------- MODULE MCCertManager ---------------------------
(* CertManager on two pods, for TLC.                                       *)
EXTENDS CertManager

\* TrustConverges says nothing of behaviours that go on after a loss.
NothingLost == ~lost
=============================================================================
