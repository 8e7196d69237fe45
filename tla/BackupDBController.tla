------------------------- MODULE BackupDBController -------------------------
(***************************************************************************)
(* The BackupDB controller as a whole: the reconciler and its schedule     *)
(* (BackupSchedule), the backup goroutines (BackupRoutine) and, between    *)
(* them, the cron job that a schedule fires (checkAndTriggerPodCommand).   *)
(* They share the cached resource, and the deletion of the resource        *)
(* cancels the goroutines of the pods it lists at that time.               *)
(***************************************************************************)
EXTENDS BackupSchedule, BackupRoutine

ASSUME PodAssumption == Target = Pod

VARIABLE
  job    \* the run of checkAndTriggerPodCommand in progress

vars == <<scheduleVars, routineVars, job>>

\* todo are the pods still to be triggered, pod is the one whose routines have
\* just been cancelled.
JobState == [pc : {"idle", "get", "cancel", "trigger"}, todo : SUBSET Pod,
             pod : Pod \cup {None}]

IdleJob == [pc |-> "idle", todo |-> {}, pod |-> None]

\* A job in its loop has a pod to go on with.
JobTypeOK ==
  /\ job \in JobState
  /\ job.pc = "cancel" => job.todo # {}
  /\ job.pc = "trigger" => job.pod \in job.todo

TypeOK ==
  /\ ScheduleTypeOK
  /\ RoutineTypeOK
  /\ JobTypeOK

Init ==
  /\ ScheduleInit
  /\ RoutineInit
  /\ job = IdleJob

-----------------------------------------------------------------------------
(* The cron job. It is a goroutine of the cron library, and goes on when    *)
(* its entry is removed meanwhile.                                          *)

Fire ==
  /\ job.pc = "idle"
  /\ cronEntries # {}
  /\ job' = [IdleJob EXCEPT !.pc = "get"]
  /\ UNCHANGED <<scheduleVars, routineVars>>

MutantRemaining(pods) == [pc |-> "cancel", todo |-> pods, pod |-> None]

\* What is left of a job; over when no pod is.
Remaining(pods) ==
  IF pods = {} THEN IdleJob ELSE [pc |-> "cancel", todo |-> pods, pod |-> None]

\* The latest BackupDB is read from the cache; none, no backup.
JobGet ==
  /\ job.pc = "get"
  /\ job' = IF cache.phase = "absent" THEN IdleJob ELSE Remaining(cache.names)
  /\ UNCHANGED <<scheduleVars, routineVars>>

\* For each pod, in any order: cancel what runs, then trigger, in two critical
\* sections.
JobCancel(p) ==
  /\ job.pc = "cancel"
  /\ p \in job.todo
  /\ CancelBackupRoutines({p})
  /\ job' = [job EXCEPT !.pc = "trigger", !.pod = p]
  /\ UNCHANGED scheduleVars

JobTrigger ==
  /\ job.pc = "trigger"
  /\ TriggerBackupCommand(job.pod)
  /\ job' = Remaining(job.todo \ {job.pod})
  /\ UNCHANGED scheduleVars

JobStep == JobGet \/ JobTrigger \/ \E p \in Pod : JobCancel(p)

-----------------------------------------------------------------------------
(* The other steps, with what they share.                                  *)

ScheduleStep ==
  /\ User \/ SyncCache \/ ReconcileStep
  /\ UNCHANGED <<routineVars, job>>

\* handleResourceDeletion cancels the goroutines of the pods listed in the copy
\* it read.
CancelOnDeletion ==
  /\ CancelListedPods
  /\ CancelBackupRoutines(rec.cr.names)
  /\ UNCHANGED job

\* A status goes to the resource the cache has under that name, and makes a new
\* version of it (none beyond the bound).
StatusWritten ==
  \/ StatusUpdate
  \/ /\ cache = api
     /\ api.phase # "absent"
     /\ api.version >= MaxVersion
     /\ UNCHANGED scheduleVars

\* The status Completed may be written or not, and Failed decides the outcome.
GoroutineStep(r) ==
  /\ \/ RoutineProgress(r) /\ UNCHANGED scheduleVars
     \/ CompleteStatus(r) /\ ~routine[r].cancelled /\ StatusWritten
     \/ FailStatusWritten(r) /\ StatusWritten
  /\ UNCHANGED job

Deadline ==
  /\ \E r \in Routine : RetryTimeout(r)
  /\ UNCHANGED <<scheduleVars, job>>

Restart ==
  /\ RestartSchedule
  /\ RestartRoutines
  /\ job' = IdleJob

Next ==
  \/ ScheduleStep \/ CancelOnDeletion
  \/ Fire \/ JobStep
  \/ \E r \in Routine : GoroutineStep(r)
  \/ Deadline
  \/ Restart

Spec == Init /\ [][Next]_vars

\* Every goroutine keeps running; a command in a pod is assumed to end.
Fairness ==
  /\ WF_vars(JobStep)
  /\ WF_vars(\E r \in Routine : GoroutineStep(r))

FairSpec == Spec /\ Fairness

-----------------------------------------------------------------------------
(* Properties.                                                             *)

\* Backups begin only by a job that fired while the resource was held. When it no
\* longer is and no job is in its loop, none can fire, and all that may still start
\* is one retry for each command that fails (handleResourceDeletion,
\* scheduleCommandRetry), whatever was cancelled or not, and also after a restart.
OnlyRetriesLeft ==
  [][~Held(api) /\ job.pc = "idle" =>
       /\ job'.pc = "idle"
       /\ \A q \in Routine : At(q, "idle") /\ routine'[q].pc # "idle" =>
            /\ routine'[q].kind = "retry"
            /\ \E c \in Routine : /\ routine[c].kind = "command" /\ At(c, "fail")
                                  /\ routine'[c].pc = "done"]_vars

\* Once a resource is gone for good, backups of it die out: what was still
\* running or retrying when it went ends within its own attempts and breeds
\* nothing new (scheduleCommandRetry, maxAttempts).
QuietAfterDeletion ==
  <>[](api.phase = "absent") => <>[](\A r \in Routine : At(r, "idle"))
=============================================================================
