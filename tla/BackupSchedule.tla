--------------------------- MODULE BackupSchedule ---------------------------
(***************************************************************************)
(* The reconciling half of the BackupDB controller                         *)
(* (internal/controller/backupdb_controller.go) for one BackupDB resource: *)
(* the finalizer, the cron entry and the map backupSchedule that remembers *)
(* it.  The resource lives at the API server (api); the operator reads it  *)
(* from an informer cache that lags behind (cache) and writes it with      *)
(* optimistic concurrency, so a write from a stale copy is refused.        *)
(*                                                                         *)
(* controller-runtime runs one Reconcile at a time for a key; rec is that  *)
(* call, its program counter and the copy of the resource it works on.     *)
(* Each section the code runs under r.Mutex is one action.                 *)
(***************************************************************************)
EXTENDS Integers, FiniteSets

CONSTANTS
  Schedule,     \* cron expressions a user may write into spec.schedules
  MatchesRegex, \* those cronExprRegex accepts
  Parsable,     \* those the cron library can parse
  Admitted,     \* those the admission webhook accepts
  NoSchedule,   \* stands for the schedule of no resource, and of no task
  Pod,          \* pod names a user may list in spec.cubridDBRef.names
  MaxVersion,   \* bound on users' and status writes: none beyond this version
  MaxRestarts   \* bound on the restarts of the operator

ASSUME ScheduleAssumption ==
  /\ MatchesRegex \subseteq Schedule
  /\ Parsable \subseteq Schedule
  /\ Admitted \subseteq Schedule
  /\ NoSchedule \notin Schedule

ASSUME BoundAssumption == MaxVersion \in Nat /\ MaxRestarts \in Nat

VARIABLES
  api,            \* the BackupDB resource at the API server
  cache,          \* the operator's cached copy of it
  queued,         \* the key waits in the work queue
  rec,            \* the Reconcile call in progress
  cronEntries,    \* entries of taskScheduler that were added for this key
  nextEntryID,    \* the id taskScheduler.AddFunc gives next
  backupSchedule, \* r.backupSchedule[key], or NoTask
  restarts

scheduleVars ==
  <<api, cache, queued, rec, cronEntries, nextEntryID, backupSchedule, restarts>>

-----------------------------------------------------------------------------
(* Data.                                                                   *)

\* Cron expressions AddFunc is called with and accepts.
Accepted == MatchesRegex \cap Parsable

CR == [phase     : {"absent", "active", "deleting"},
       finalizer : BOOLEAN,
       schedule  : Schedule \cup {NoSchedule},
       names     : SUBSET Pod,
       version   : Nat]

\* A resource version is never used again, so the version outlives the resource.
NoCR(v) == [phase |-> "absent", finalizer |-> FALSE, schedule |-> NoSchedule,
            names |-> {}, version |-> v]

Task   == [id : Nat, schedule : Schedule]
NoTask == [id |-> 0, schedule |-> NoSchedule]

RecPC == {"idle", "finalize", "install", "remove", "cancel", "release"}

IdleRec == [pc |-> "idle", cr |-> NoCR(0)]

\* The ids of a cron.Cron count from 1.
MutantFirstEntryID == 0

FirstEntryID == 1

Entry(t) == IF t = NoTask THEN {} ELSE {t}

Installed(s) == backupSchedule # NoTask /\ backupSchedule.schedule = s

ScheduleTypeOK ==
  /\ api \in CR
  /\ cache \in CR
  /\ queued \in BOOLEAN
  /\ rec \in [pc : RecPC, cr : CR]
  /\ cronEntries \subseteq Task
  /\ nextEntryID \in Nat \ {0}
  /\ backupSchedule \in Task \cup {NoTask}
  /\ restarts \in 0..MaxRestarts

ScheduleInit ==
  /\ api = NoCR(0)
  /\ cache = NoCR(0)
  /\ queued = FALSE
  /\ rec = IdleRec
  /\ cronEntries = {}
  /\ nextEntryID = FirstEntryID
  /\ backupSchedule = NoTask
  /\ restarts = 0

-----------------------------------------------------------------------------
(* The API server and its users.                                           *)

operatorVars == <<rec, cronEntries, nextEntryID, backupSchedule, restarts>>

Store(cr) == api' = [cr EXCEPT !.version = api.version + 1]

CreateCR(s, n) ==
  /\ api.phase = "absent"
  /\ api.version < MaxVersion
  /\ Store([phase |-> "active", finalizer |-> FALSE, schedule |-> s,
            names |-> n, version |-> 0])
  /\ UNCHANGED <<cache, queued, operatorVars>>

\* A user edits the schedule or the pod names; a terminating resource can
\* still be edited.
EditCR(s, n) ==
  /\ api.phase # "absent"
  /\ api.version < MaxVersion
  /\ <<s, n>> # <<api.schedule, api.names>>
  /\ Store([api EXCEPT !.schedule = s, !.names = n])
  /\ UNCHANGED <<cache, queued, operatorVars>>

\* With a finalizer the deletion is only marked.
DeleteCR ==
  /\ api.phase = "active"
  /\ api.version < MaxVersion
  /\ Store(IF api.finalizer THEN [api EXCEPT !.phase = "deleting"] ELSE NoCR(0))
  /\ UNCHANGED <<cache, queued, operatorVars>>

\* A backup goroutine writes the status onto the copy in the cache (updateStatus);
\* a conflict is retried with a fresh copy, so only a current one matters. The
\* status itself is left out, the new version it makes is not.
StatusUpdate ==
  /\ cache = api
  /\ api.phase # "absent"
  /\ api.version < MaxVersion
  /\ Store(api)
  /\ UNCHANGED <<cache, queued, operatorVars>>

\* The informer delivers the current object, in one jump over the versions the
\* cache missed, and enqueues the key.
SyncCache ==
  /\ cache # api
  /\ cache' = api
  /\ queued' = TRUE
  /\ UNCHANGED <<api, operatorVars>>

-----------------------------------------------------------------------------
(* Reconcile.                                                              *)

taskVars == <<cronEntries, nextEntryID, backupSchedule, restarts>>

\* A Reconcile that returns an error puts the key back into the queue.
MutantReturn(failed) ==
  /\ rec' = IdleRec
  /\ UNCHANGED queued

Return(failed) ==
  /\ rec' = IdleRec
  /\ queued' = (queued \/ failed)

\* The call is taken from the queue and reads the resource from the cache; it
\* is over when the resource is not found.
StartReconcile ==
  /\ rec.pc = "idle"
  /\ queued
  /\ queued' = FALSE
  /\ \/ /\ cache.phase = "absent"
        /\ UNCHANGED rec
     \/ /\ cache.phase = "active"
        /\ rec' = [pc |-> "finalize", cr |-> cache]
     \/ /\ cache.phase = "deleting"
        /\ rec' = [pc |-> "remove", cr |-> cache]
  /\ UNCHANGED <<api, cache, taskVars>>

\* Only a write from the copy the API server still holds goes through.
MutantNotStale == TRUE

NotStale == rec.cr.version = api.version

FinalizerPresent ==
  /\ rec.pc = "finalize"
  /\ rec.cr.finalizer
  /\ rec' = [rec EXCEPT !.pc = "install"]
  /\ UNCHANGED <<api, cache, queued, taskVars>>

FinalizerAdded ==
  /\ rec.pc = "finalize"
  /\ ~rec.cr.finalizer
  /\ NotStale
  /\ Store([rec.cr EXCEPT !.finalizer = TRUE])
  /\ \/ rec' = [pc |-> "install", cr |-> api'] /\ UNCHANGED queued
     \/ Return(TRUE)   \* stored, but the answer was lost
  /\ UNCHANGED <<cache, taskVars>>

\* A conflict, a resource that is gone, or any other error of the API server.
FinalizerRefused ==
  /\ rec.pc = "finalize"
  /\ ~rec.cr.finalizer
  /\ Return(TRUE)
  /\ UNCHANGED <<api, cache, taskVars>>

\* taskScheduler.Remove(task.EntryID), for the task in the map if there is one.
MutantWithoutTask == cronEntries

WithoutTask == {e \in cronEntries : e.id # backupSchedule.id}

\* The installation gives up before it touches the installed task.
ScheduleKept ==
  /\ rec.pc = "install"
  /\ \/ rec.cr.schedule \notin MatchesRegex /\ Return(TRUE)
     \/ /\ rec.cr.schedule \in MatchesRegex
        /\ Installed(rec.cr.schedule)
        /\ Return(FALSE)
  /\ UNCHANGED <<api, cache, taskVars>>

\* A new or a changed schedule: the old task is gone before AddFunc can fail.
ScheduleReplaced ==
  /\ rec.pc = "install"
  /\ rec.cr.schedule \in MatchesRegex
  /\ ~Installed(rec.cr.schedule)
  /\ LET new == [id |-> nextEntryID, schedule |-> rec.cr.schedule] IN
     \/ /\ rec.cr.schedule \in Parsable
        /\ cronEntries' = WithoutTask \cup {new}
        /\ backupSchedule' = new
        /\ nextEntryID' = nextEntryID + 1
        /\ Return(FALSE)
     \/ /\ rec.cr.schedule \notin Parsable
        /\ cronEntries' = WithoutTask
        /\ backupSchedule' = NoTask
        /\ UNCHANGED nextEntryID
        /\ Return(TRUE)
  /\ UNCHANGED <<api, cache, restarts>>

-----------------------------------------------------------------------------
(* handleResourceDeletion.                                                 *)

MutantRemoveBackupSchedule ==
  /\ rec.pc = "remove"
  /\ rec' = [rec EXCEPT !.pc = "cancel"]
  /\ UNCHANGED <<api, cache, queued, taskVars>>

RemoveBackupSchedule ==
  /\ rec.pc = "remove"
  /\ cronEntries' = WithoutTask
  /\ backupSchedule' = NoTask
  /\ rec' = [rec EXCEPT !.pc = "cancel"]
  /\ UNCHANGED <<api, cache, queued, nextEntryID, restarts>>

\* The routines of the pods in rec.cr.names are cancelled here; they are the
\* state of module BackupRoutine.
CancelListedPods ==
  /\ rec.pc = "cancel"
  /\ rec' = [rec EXCEPT !.pc = "release"]
  /\ UNCHANGED <<api, cache, queued, taskVars>>

FinalizerRemoved ==
  /\ rec.pc = "release"
  /\ NotStale
  /\ Store(NoCR(0))
  /\ Return(FALSE) \/ Return(TRUE)
  /\ UNCHANGED <<cache, taskVars>>

ReleaseRefused ==
  /\ rec.pc = "release"
  /\ Return(TRUE)
  /\ UNCHANGED <<api, cache, taskVars>>

-----------------------------------------------------------------------------
(* The operator's process ends and a new one starts: all that was in memory *)
(* is lost, the cache is filled before the first Reconcile, and every       *)
(* resource in it is enqueued.                                              *)

MutantListed == FALSE

Listed == api.phase # "absent"

RestartSchedule ==
  /\ restarts < MaxRestarts
  /\ restarts' = restarts + 1
  /\ cache' = api
  /\ queued' = Listed
  /\ rec' = IdleRec
  /\ cronEntries' = {}
  /\ nextEntryID' = FirstEntryID
  /\ backupSchedule' = NoTask
  /\ UNCHANGED api

-----------------------------------------------------------------------------

User ==
  \/ \E s \in Schedule, n \in SUBSET Pod : CreateCR(s, n) \/ EditCR(s, n)
  \/ DeleteCR

AddFinalizer == FinalizerPresent \/ FinalizerAdded \/ FinalizerRefused

UpdateBackupSchedule == ScheduleKept \/ ScheduleReplaced

RemoveFinalizer == FinalizerRemoved \/ ReleaseRefused

ReconcileStep ==
  \/ StartReconcile
  \/ AddFinalizer
  \/ UpdateBackupSchedule
  \/ RemoveBackupSchedule
  \/ RemoveFinalizer

ScheduleNext ==
  \/ User \/ StatusUpdate \/ SyncCache
  \/ ReconcileStep \/ CancelListedPods
  \/ RestartSchedule

ScheduleSpec == ScheduleInit /\ [][ScheduleNext]_scheduleVars

\* The informer and the worker keep running, and the API server does not refuse
\* for ever a write that is not stale.
ScheduleFairness ==
  /\ WF_scheduleVars(SyncCache)
  /\ WF_scheduleVars(ReconcileStep \/ CancelListedPods)
  /\ SF_scheduleVars(FinalizerAdded)
  /\ SF_scheduleVars(FinalizerRemoved)

FairScheduleSpec == ScheduleSpec /\ ScheduleFairness

-----------------------------------------------------------------------------
(* Properties.                                                             *)

Held(cr) == cr.phase # "absent" /\ cr.finalizer

\* The cron library fires the entry of the task in backupSchedule and no other
\* entry of this key: an entry the map forgot could never be removed again and
\* would run backups on an abandoned schedule until the operator restarts
\* (updateBackupSchedule, removeBackupSchedule).
OneEntryPerTask ==
  /\ cronEntries = Entry(backupSchedule)
  /\ \A e \in cronEntries : e.id < nextEntryID

\* Writes are ordered by version: a copy with the version of the object it was
\* taken from is that object, and neither the cache nor a Reconcile is ahead.
VersionOrder ==
  /\ cache.version <= api.version
  /\ cache.version = api.version => cache = api
  /\ rec.pc \in {"finalize", "remove", "cancel", "release"} =>
       /\ rec.cr.version <= cache.version
       /\ rec.cr.version = cache.version => rec.cr = cache

\* While a schedule is installed, and while a Reconcile is about to install one,
\* the API server holds the resource under its finalizer, whatever the age of
\* the copy that Reconcile reads: a resource that is gone is never backed up
\* on schedule (Reconcile, addFinalizer, handleResourceDeletion).
TaskImpliesHeld ==
  /\ api.phase = "deleting" => api.finalizer
  /\ api.phase = "absent" => ~api.finalizer
  /\ backupSchedule # NoTask => Held(api)
  /\ rec.pc = "install" => Held(api)
  /\ cache.phase = "active" /\ cache.finalizer => Held(api)
  /\ cache.phase = "deleting" => ~(api.phase = "active" /\ api.finalizer)
  /\ rec.pc = "finalize" =>
       rec.cr.phase = "active" /\ (rec.cr.finalizer => Held(api))

\* A Reconcile that found the resource terminating finds no way back: nothing
\* it removed is installed again before it releases the finalizer.
RemovalIsFinal ==
  /\ rec.pc \in {"remove", "cancel", "release"} =>
       /\ rec.cr.phase = "deleting"
       /\ ~(api.phase = "active" /\ api.finalizer)
       /\ ~(cache.phase = "active" /\ cache.finalizer)
  /\ rec.pc \in {"cancel", "release"} => backupSchedule = NoTask

ScheduleInv ==
  OneEntryPerTask /\ VersionOrder /\ TaskImpliesHeld /\ RemovalIsFinal

\* How ScheduleGuard sees the resource.
GuardState ==
  IF api.phase = "absent" THEN "absent"
  ELSE IF api.phase = "deleting" THEN "terminating"
  ELSE IF api.finalizer THEN "guarded" ELSE "unguarded"

Guard == INSTANCE ScheduleGuard WITH
  cr <- GuardState,
  installed <- backupSchedule.schedule

\* The controller keeps ScheduleGuard's promise: each of its steps is a step of
\* that module or invisible to it, across stale reads, refused writes, deletion
\* and re-creation under the same name, and restarts.
ImplementsGuard == Guard!Spec

\* A resource that stays live with a schedule the operator accepts ends up with
\* that schedule installed for good, also after conflicts and restarts.
ScheduleConverges ==
  \A s \in Accepted :
    <>[](api.phase = "active" /\ api.schedule = s) => <>[]Installed(s)

\* A deletion is never left hanging on the operator's finalizer.
DeletionCompletes == api.phase = "deleting" ~> api.phase = "absent"

\* The same promise for every schedule the admission webhook lets a user store
\* (isValidCronField, "Check for range values (e.g., 1-5)").
AdmittedConverges ==
  \A s \in Admitted :
    <>[](api.phase = "active" /\ api.schedule = s) => <>[]Installed(s)
=============================================================================
