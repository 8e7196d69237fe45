--------------------------- MODULE ScheduleGuard ---------------------------
(***************************************************************************)
(* What the BackupDB controller promises about one BackupDB resource: a    *)
(* cron schedule is installed in the operator only while the API server    *)
(* holds the resource under the operator's finalizer.  A resource may be   *)
(* guarded (given the finalizer) only while it is live, its schedule is    *)
(* installed only once it is guarded, and it is released for good only     *)
(* when nothing is installed any more.  Everything else about the          *)
(* controller (cache, conflicts, cron entries, restarts) is detail that    *)
(* BackupSchedule adds and hides again behind this module.                 *)
(***************************************************************************)
CONSTANTS
  Schedule,    \* the cron expressions a resource may ask for
  NoSchedule   \* what is installed when nothing is; no member of Schedule

VARIABLES
  cr,          \* the resource, as the API server has it
  installed    \* the schedule the operator fires for it

vars == <<cr, installed>>

CRState == {"absent", "unguarded", "guarded", "terminating"}

TypeOK ==
  /\ cr \in CRState
  /\ installed \in Schedule \cup {NoSchedule}

Held == cr \in {"guarded", "terminating"}

Init ==
  /\ cr = "absent"
  /\ installed = NoSchedule

-----------------------------------------------------------------------------

Create ==
  /\ cr = "absent"
  /\ cr' = "unguarded"
  /\ UNCHANGED installed

Guard ==
  /\ cr = "unguarded"
  /\ cr' = "guarded"
  /\ UNCHANGED installed

\* An unguarded resource disappears at once, a guarded one waits for Release.
Delete ==
  /\ \/ cr = "unguarded" /\ cr' = "absent"
     \/ cr = "guarded" /\ cr' = "terminating"
  /\ UNCHANGED installed

\* A deletion may arrive while an installation is under way.
Install(s) ==
  /\ Held
  /\ installed' = s
  /\ UNCHANGED cr

Uninstall ==
  /\ installed' = NoSchedule
  /\ UNCHANGED cr

Release ==
  /\ cr = "terminating"
  /\ installed = NoSchedule
  /\ cr' = "absent"
  /\ UNCHANGED installed

Next ==
  \/ Create \/ Guard \/ Delete \/ Uninstall \/ Release
  \/ \E s \in Schedule : Install(s)

Spec == Init /\ [][Next]_vars

-----------------------------------------------------------------------------

\* The promise as a state predicate: a schedule fires only for a held resource.
InstalledOnlyWhileHeld == installed # NoSchedule => Held
=============================================================================
