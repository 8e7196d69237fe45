-------------------------- MODULE MCBackupRoutine --------------------------
(* BackupRoutine on small sets, for TLC.                                   *)
EXTENDS BackupRoutine, TLC

\* Goroutines, and pods, differ in nothing but their name.
RoutineSymmetry == Permutations(Routine) \cup Permutations(Target)
=============================================================================
