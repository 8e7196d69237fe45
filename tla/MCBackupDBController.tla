------------------------ MODULE MCBackupDBController ------------------------
(* BackupDBController on small sets, for TLC.                              *)
EXTENDS BackupDBController, TLC

\* Goroutines differ in nothing but their name. Not used with liveness.
RoutineSymmetry == Permutations(Routine)
=============================================================================
