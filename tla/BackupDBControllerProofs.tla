---------------------- MODULE BackupDBControllerProofs ----------------------
(***************************************************************************)
(* What holds of the BackupDB controller for every set of schedules, pods  *)
(* and goroutines and every bound.  First of its two halves: the           *)
(* reconciler and its schedule (type invariant, the inductive invariant    *)
(* ScheduleInv, the refinement of ScheduleGuard, that an installed         *)
(* schedule stays), and the goroutines (type invariant, the handles in the *)
(* two maps, the budget of a retry).  Then of the whole: every run of      *)
(* BackupDBController is, seen through the variables of the one half, a    *)
(* run of BackupSchedule, and through those of the other a run of          *)
(* BackupRoutine, so that what is proved of the halves holds of the whole. *)
(***************************************************************************)
EXTENDS BackupDBController, TLAPS

-----------------------------------------------------------------------------
(* The reconciler and its schedule.                                        *)

LEMMA NoCRType == NoCR(0) \in CR /\ NoCR(0).phase = "absent"
  BY DEF NoCR, CR

LEMMA IdleRecType == IdleRec \in [pc : RecPC, cr : CR] /\ IdleRec.pc = "idle"
  BY NoCRType DEF IdleRec, RecPC

\* What is stored is a resource again, one version on.
LEMMA StoreType ==
  ASSUME api \in CR, NEW cr \in CR, Store(cr)
  PROVE  /\ api' \in CR
         /\ api'.version = api.version + 1
         /\ api'.phase = cr.phase
         /\ api'.finalizer = cr.finalizer
  BY DEF Store, CR

LEMMA EntryType ==
  ASSUME ScheduleTypeOK, rec.cr.schedule \in Schedule
  PROVE  [id |-> nextEntryID, schedule |-> rec.cr.schedule] \in Task
  BY DEF ScheduleTypeOK, Task

LEMMA TypeInit == ScheduleInit => ScheduleTypeOK
<1> SUFFICES ASSUME ScheduleInit PROVE ScheduleTypeOK
  OBVIOUS
<1>1. api \in CR /\ cache \in CR /\ rec \in [pc : RecPC, cr : CR]
  BY NoCRType, IdleRecType DEF ScheduleInit
<1>2. restarts \in 0..MaxRestarts
  BY BoundAssumption DEF ScheduleInit
<1>3. /\ queued \in BOOLEAN
      /\ cronEntries \subseteq Task
      /\ backupSchedule \in Task \cup {NoTask}
  BY DEF ScheduleInit
<1>4. nextEntryID \in Nat \ {0}
  BY DEF ScheduleInit, FirstEntryID
<1>. QED BY <1>1, <1>2, <1>3, <1>4 DEF ScheduleTypeOK

LEMMA TypeStep == ScheduleTypeOK /\ [ScheduleNext]_scheduleVars => ScheduleTypeOK'
<1> SUFFICES ASSUME ScheduleTypeOK, [ScheduleNext]_scheduleVars
             PROVE  ScheduleTypeOK'
  OBVIOUS
<1> USE DEF ScheduleTypeOK
<1>0. CASE UNCHANGED scheduleVars
  BY <1>0 DEF scheduleVars
<1>1. ASSUME NEW s \in Schedule, NEW n \in SUBSET Pod, CreateCR(s, n)
      PROVE  ScheduleTypeOK'
  <2>1. [phase |-> "active", finalizer |-> FALSE, schedule |-> s, names |-> n,
         version |-> 0] \in CR
    BY DEF CR
  <2>2. api' \in CR
    BY <1>1, <2>1, StoreType DEF CreateCR
  <2>. QED BY <1>1, <2>2 DEF CreateCR, operatorVars
<1>2. ASSUME NEW s \in Schedule, NEW n \in SUBSET Pod, EditCR(s, n)
      PROVE  ScheduleTypeOK'
  <2>1. [api EXCEPT !.schedule = s, !.names = n] \in CR
    BY DEF CR
  <2>2. api' \in CR
    BY <1>2, <2>1, StoreType DEF EditCR
  <2>. QED BY <1>2, <2>2 DEF EditCR, operatorVars
<1>3. CASE DeleteCR
  <2>1. [api EXCEPT !.phase = "deleting"] \in CR
    BY DEF CR
  <2>2. api' \in CR
    BY <1>3, <2>1, NoCRType, StoreType DEF DeleteCR
  <2>. QED BY <1>3, <2>2 DEF DeleteCR, operatorVars
<1>4. CASE StatusUpdate
  BY <1>4, StoreType DEF StatusUpdate, operatorVars
<1>5. CASE SyncCache
  BY <1>5 DEF SyncCache, operatorVars
<1>6. CASE StartReconcile
  <2>1. rec' \in [pc : RecPC, cr : CR]
    BY <1>6 DEF StartReconcile, RecPC
  <2>. QED BY <1>6, <2>1 DEF StartReconcile, taskVars
<1>7. CASE FinalizerPresent
  <2>1. rec' \in [pc : RecPC, cr : CR]
    BY <1>7 DEF FinalizerPresent, RecPC
  <2>. QED BY <1>7, <2>1 DEF FinalizerPresent, taskVars
<1>8. CASE FinalizerAdded
  <2>1. [rec.cr EXCEPT !.finalizer = TRUE] \in CR
    BY DEF CR
  <2>2. api' \in CR
    BY <1>8, <2>1, StoreType DEF FinalizerAdded
  <2>3. [pc |-> "install", cr |-> api'] \in [pc : RecPC, cr : CR]
    BY <2>2 DEF RecPC
  <2>4. rec' \in [pc : RecPC, cr : CR] /\ queued' \in BOOLEAN
    BY <1>8, <2>3, IdleRecType DEF FinalizerAdded, Return
  <2>. QED BY <1>8, <2>2, <2>4 DEF FinalizerAdded, taskVars
<1>9. CASE FinalizerRefused
  BY <1>9, IdleRecType DEF FinalizerRefused, Return, taskVars
<1>10. CASE ScheduleKept
  BY <1>10, IdleRecType DEF ScheduleKept, Return, taskVars
<1>11. CASE ScheduleReplaced
  <2>1. rec.cr.schedule \in Schedule
    BY <1>11, ScheduleAssumption DEF ScheduleReplaced
  <2>2. rec' \in [pc : RecPC, cr : CR] /\ queued' \in BOOLEAN
    BY <1>11, IdleRecType DEF ScheduleReplaced, Return
  <2>3. WithoutTask \subseteq Task
    BY DEF WithoutTask
  <2>4. /\ cronEntries' \subseteq Task
        /\ backupSchedule' \in Task \cup {NoTask}
    BY <1>11, <2>1, <2>3, EntryType DEF ScheduleReplaced
  <2>5. nextEntryID' \in Nat \ {0}
    <3>1. nextEntryID' \in {nextEntryID, nextEntryID + 1}
      BY <1>11 DEF ScheduleReplaced
    <3>. QED BY <3>1
  <2>. QED BY <1>11, <2>2, <2>4, <2>5 DEF ScheduleReplaced
<1>12. CASE RemoveBackupSchedule
  <2>1. rec' \in [pc : RecPC, cr : CR]
    BY <1>12 DEF RemoveBackupSchedule, RecPC
  <2>. QED BY <1>12, <2>1 DEF RemoveBackupSchedule, WithoutTask
<1>13. CASE CancelListedPods
  <2>1. rec' \in [pc : RecPC, cr : CR]
    BY <1>13 DEF CancelListedPods, RecPC
  <2>. QED BY <1>13, <2>1 DEF CancelListedPods, taskVars
<1>14. CASE FinalizerRemoved
  <2>1. api' \in CR
    BY <1>14, NoCRType, StoreType DEF FinalizerRemoved
  <2>. QED BY <1>14, <2>1, IdleRecType DEF FinalizerRemoved, Return, taskVars
<1>15. CASE ReleaseRefused
  BY <1>15, IdleRecType DEF ReleaseRefused, Return, taskVars
<1>16. CASE RestartSchedule
  <2>1. restarts' \in 0..MaxRestarts
    BY <1>16, BoundAssumption DEF RestartSchedule
  <2>. QED BY <1>16, <2>1, IdleRecType DEF RestartSchedule, FirstEntryID, Listed
<1>. QED
  BY <1>0, <1>1, <1>2, <1>3, <1>4, <1>5, <1>6, <1>7, <1>8, <1>9, <1>10, <1>11,
     <1>12, <1>13, <1>14, <1>15, <1>16
     DEF ScheduleNext, User, ReconcileStep, AddFinalizer, UpdateBackupSchedule,
         RemoveFinalizer

\* The controller keeps its data well-formed through every interleaving of
\* users, informer, Reconcile and restarts.
THEOREM ScheduleTypeCorrect == ScheduleSpec => []ScheduleTypeOK
  BY TypeInit, TypeStep, PTL DEF ScheduleSpec

-----------------------------------------------------------------------------
(* ScheduleInv is inductive. The heart of it is VersionOrder: a write that  *)
(* is not stale works on a copy that is the cached and the stored resource, *)
(* so the finalizer is added to a live resource only and removed from a     *)
(* terminating one only, whatever the cache missed.                         *)

\* The task that is replaced is the only entry there is.
LEMMA NothingLeft == OneEntryPerTask => WithoutTask = {}
  BY DEF OneEntryPerTask, WithoutTask, Entry

\* A Reconcile that may write works on the stored resource itself.
LEMMA FreshCopy ==
  ASSUME ScheduleTypeOK, VersionOrder, NotStale,
         rec.pc \in {"finalize", "remove", "cancel", "release"}
  PROVE  rec.cr = api /\ cache = api
<1>1. /\ rec.cr.version \in Nat /\ cache.version \in Nat /\ api.version \in Nat
      /\ rec.cr.version = api.version
  BY DEF ScheduleTypeOK, CR, NotStale
<1>2. /\ rec.cr.version <= cache.version
      /\ rec.cr.version = cache.version => rec.cr = cache
      /\ cache.version <= api.version
      /\ cache.version = api.version => cache = api
  BY DEF VersionOrder
<1>3. rec.cr.version = cache.version
  BY <1>1, <1>2
<1>. QED BY <1>1, <1>2, <1>3

\* Writes of others: they neither guard a resource nor let go of a held one.
LEMMA OtherWrite ==
  ASSUME ScheduleTypeOK, ScheduleInv,
         UNCHANGED <<cache, operatorVars>>,
         api'.version = api.version + 1,
         api'.phase = "deleting" => api'.finalizer,
         api'.phase = "absent" => ~api'.finalizer,
         Held(api) => Held(api)',
         api'.phase = "active" /\ api'.finalizer => api.phase = "active" /\ api.finalizer
  PROVE  ScheduleInv'
<1> USE DEF ScheduleInv, operatorVars
<1>1. OneEntryPerTask'
  BY DEF OneEntryPerTask
<1>2. VersionOrder'
  <2>1. cache.version \in Nat /\ api.version \in Nat
    BY DEF ScheduleTypeOK, CR
  <2>2. cache'.version <= api'.version /\ cache'.version # api'.version
    BY <2>1 DEF VersionOrder
  <2>. QED BY <2>2 DEF VersionOrder
<1>3. TaskImpliesHeld'
  BY DEF TaskImpliesHeld
<1>4. RemovalIsFinal'
  BY DEF RemovalIsFinal
<1>. QED BY <1>1, <1>2, <1>3, <1>4

LEMMA InvInit == ScheduleInit => ScheduleInv
<1> SUFFICES ASSUME ScheduleInit PROVE ScheduleInv
  OBVIOUS
<1>1. rec.pc = "idle"
  BY IdleRecType DEF ScheduleInit
<1>2. cache = api /\ api.phase = "absent" /\ ~api.finalizer /\ api.version = 0
  BY DEF ScheduleInit, NoCR
<1>3. backupSchedule = NoTask /\ cronEntries = {}
  BY DEF ScheduleInit
<1>. QED
  BY <1>1, <1>2, <1>3
     DEF ScheduleInv, OneEntryPerTask, Entry, VersionOrder, TaskImpliesHeld,
         RemovalIsFinal, Held

LEMMA UserInv ==
  ASSUME ScheduleTypeOK, ScheduleInv, User \/ StatusUpdate
  PROVE  ScheduleInv'
<1> USE DEF ScheduleTypeOK
<1>1. ASSUME NEW s \in Schedule, NEW n \in SUBSET Pod, CreateCR(s, n)
      PROVE  ScheduleInv'
  <2> DEFINE new == [phase |-> "active", finalizer |-> FALSE, schedule |-> s,
                     names |-> n, version |-> 0]
  <2>1. new \in CR
    BY DEF CR
  <2>2. api'.version = api.version + 1 /\ api'.phase = "active" /\ ~api'.finalizer
    BY <1>1, <2>1, StoreType DEF CreateCR
  <2>. QED BY <1>1, <2>2, OtherWrite DEF CreateCR, Held
<1>2. ASSUME NEW s \in Schedule, NEW n \in SUBSET Pod, EditCR(s, n)
      PROVE  ScheduleInv'
  <2> DEFINE new == [api EXCEPT !.schedule = s, !.names = n]
  <2>1. new \in CR /\ new.phase = api.phase /\ new.finalizer = api.finalizer
    BY DEF CR
  <2>2. /\ api'.version = api.version + 1
        /\ api'.phase = api.phase
        /\ api'.finalizer = api.finalizer
    BY <1>2, <2>1, StoreType DEF EditCR
  <2>. QED BY <1>2, <2>2, OtherWrite DEF EditCR, Held, ScheduleInv, TaskImpliesHeld
<1>3. CASE DeleteCR
  <2> DEFINE new == IF api.finalizer THEN [api EXCEPT !.phase = "deleting"] ELSE NoCR(0)
  <2>1. /\ new \in CR
        /\ api.finalizer => new.phase = "deleting" /\ new.finalizer
        /\ ~api.finalizer => new.phase = "absent" /\ ~new.finalizer
    BY NoCRType DEF CR, NoCR
  <2>2. /\ api'.version = api.version + 1
        /\ api'.phase = new.phase
        /\ api'.finalizer = new.finalizer
    BY <1>3, <2>1, StoreType DEF DeleteCR
  <2>. QED BY <1>3, <2>1, <2>2, OtherWrite DEF DeleteCR, Held
<1>4. CASE StatusUpdate
  <2>1. /\ api'.version = api.version + 1
        /\ api'.phase = api.phase
        /\ api'.finalizer = api.finalizer
    BY <1>4, StoreType DEF StatusUpdate
  <2>. QED BY <1>4, <2>1, OtherWrite DEF StatusUpdate, Held, ScheduleInv, TaskImpliesHeld
<1>. QED BY <1>1, <1>2, <1>3, <1>4 DEF User

LEMMA SyncInv ==
  ASSUME ScheduleTypeOK, ScheduleInv, SyncCache
  PROVE  ScheduleInv'
<1> USE DEF ScheduleInv, SyncCache, operatorVars
<1>1. OneEntryPerTask'
  BY DEF OneEntryPerTask
<1>2. VersionOrder'
  <2>1. api.version \in Nat /\ cache.version \in Nat /\ rec.cr.version \in Nat
    BY DEF ScheduleTypeOK, CR
  <2>. QED BY <2>1 DEF VersionOrder
<1>3. TaskImpliesHeld'
  BY DEF TaskImpliesHeld, Held
<1>4. RemovalIsFinal'
  BY DEF RemovalIsFinal
<1>. QED BY <1>1, <1>2, <1>3, <1>4

LEMMA StartInv ==
  ASSUME ScheduleTypeOK, ScheduleInv, StartReconcile
  PROVE  ScheduleInv'
<1> USE DEF ScheduleInv, StartReconcile, taskVars
<1>1. OneEntryPerTask'
  BY DEF OneEntryPerTask
<1>2. VersionOrder'
  <2>1. cache.version \in Nat
    BY DEF ScheduleTypeOK, CR
  <2>. QED BY <2>1 DEF VersionOrder
<1>3. TaskImpliesHeld'
  BY DEF TaskImpliesHeld, Held
<1>4. RemovalIsFinal'
  BY DEF RemovalIsFinal, TaskImpliesHeld
<1>. QED BY <1>1, <1>2, <1>3, <1>4

\* A Reconcile that returns without a write leaves nothing to check.
LEMMA ReturnInv ==
  ASSUME ScheduleTypeOK, ScheduleInv, UNCHANGED <<api, cache, taskVars>>,
         rec' = IdleRec
  PROVE  ScheduleInv'
  BY IdleRecType
     DEF ScheduleInv, OneEntryPerTask, VersionOrder, TaskImpliesHeld,
         RemovalIsFinal, Held, taskVars

LEMMA AddFinalizerInv ==
  ASSUME ScheduleTypeOK, ScheduleInv, AddFinalizer
  PROVE  ScheduleInv'
<1>1. CASE FinalizerPresent
  <2>1. rec'.pc = "install" /\ rec'.cr = rec.cr
    BY <1>1 DEF FinalizerPresent, ScheduleTypeOK
  <2>. QED
    BY <1>1, <2>1
       DEF FinalizerPresent, taskVars, ScheduleInv, OneEntryPerTask,
           VersionOrder, TaskImpliesHeld, RemovalIsFinal, Held
<1>2. CASE FinalizerAdded
  <2> USE DEF ScheduleInv
  <2>1. rec.cr = api /\ cache = api /\ api.phase = "active"
    BY <1>2, FreshCopy DEF FinalizerAdded, TaskImpliesHeld
  <2>2. /\ [rec.cr EXCEPT !.finalizer = TRUE] \in CR
        /\ [rec.cr EXCEPT !.finalizer = TRUE].phase = "active"
        /\ [rec.cr EXCEPT !.finalizer = TRUE].finalizer
    BY <2>1 DEF ScheduleTypeOK, CR
  <2>3. api'.version = api.version + 1 /\ api'.phase = "active" /\ api'.finalizer
    BY <1>2, <2>2, StoreType DEF FinalizerAdded, ScheduleTypeOK
  <2>4. rec'.pc \in {"install", "idle"}
    BY <1>2, IdleRecType DEF FinalizerAdded, Return
  <2>5. OneEntryPerTask'
    BY <1>2 DEF FinalizerAdded, taskVars, OneEntryPerTask
  <2>6. VersionOrder'
    <3>1. cache.version \in Nat /\ cache' = cache /\ cache.version = api.version
      BY <1>2, <2>1 DEF FinalizerAdded, ScheduleTypeOK, CR
    <3>. QED BY <3>1, <2>3, <2>4 DEF VersionOrder
  <2>7. TaskImpliesHeld' /\ RemovalIsFinal'
    BY <1>2, <2>1, <2>3, <2>4
       DEF FinalizerAdded, TaskImpliesHeld, RemovalIsFinal, Held
  <2>. QED BY <2>5, <2>6, <2>7
<1>3. CASE FinalizerRefused
  BY <1>3, ReturnInv DEF FinalizerRefused, Return
<1>. QED BY <1>1, <1>2, <1>3 DEF AddFinalizer

LEMMA UpdateScheduleInv ==
  ASSUME ScheduleTypeOK, ScheduleInv, UpdateBackupSchedule
  PROVE  ScheduleInv'
<1>1. CASE ScheduleKept
  BY <1>1, ReturnInv DEF ScheduleKept, Return
<1>2. CASE ScheduleReplaced
  <2> DEFINE new == [id |-> nextEntryID, schedule |-> rec.cr.schedule]
  <2> USE DEF ScheduleInv
  <2>1. rec'.pc = "idle" /\ UNCHANGED <<api, cache>>
    BY <1>2, IdleRecType DEF ScheduleReplaced, Return
  <2>2. Held(api)
    BY <1>2 DEF ScheduleReplaced, TaskImpliesHeld
  <2>3. OneEntryPerTask'
    <3>1. CASE backupSchedule' = NoTask /\ cronEntries' = {}
      BY <3>1 DEF OneEntryPerTask, Entry
    <3>2. CASE /\ backupSchedule' = new
               /\ cronEntries' = {new}
               /\ nextEntryID' = nextEntryID + 1
      <4>1. new # NoTask
        BY <1>2, ScheduleAssumption DEF ScheduleReplaced, NoTask
      <4>2. new.id = nextEntryID /\ nextEntryID < nextEntryID'
        BY <3>2 DEF ScheduleTypeOK
      <4>. QED BY <3>2, <4>1, <4>2 DEF OneEntryPerTask, Entry
    <3>. QED BY <1>2, <3>1, <3>2, NothingLeft DEF ScheduleReplaced
  <2>4. VersionOrder' /\ TaskImpliesHeld' /\ RemovalIsFinal'
    BY <2>1, <2>2 DEF VersionOrder, TaskImpliesHeld, RemovalIsFinal, Held
  <2>. QED BY <2>3, <2>4
<1>. QED BY <1>1, <1>2 DEF UpdateBackupSchedule

LEMMA DeletionInv ==
  ASSUME ScheduleTypeOK, ScheduleInv,
         RemoveBackupSchedule \/ CancelListedPods \/ RemoveFinalizer
  PROVE  ScheduleInv'
<1>1. CASE RemoveBackupSchedule
  <2> USE DEF ScheduleInv
  <2>1. rec'.pc = "cancel" /\ rec'.cr = rec.cr
    BY <1>1 DEF RemoveBackupSchedule, ScheduleTypeOK
  <2>2. OneEntryPerTask'
    BY <1>1, NothingLeft DEF RemoveBackupSchedule, OneEntryPerTask, Entry
  <2>3. VersionOrder' /\ TaskImpliesHeld' /\ RemovalIsFinal'
    BY <1>1, <2>1
       DEF RemoveBackupSchedule, VersionOrder, TaskImpliesHeld, RemovalIsFinal, Held
  <2>. QED BY <2>2, <2>3
<1>2. CASE CancelListedPods
  <2>1. rec'.pc = "release" /\ rec'.cr = rec.cr
    BY <1>2 DEF CancelListedPods, ScheduleTypeOK
  <2>. QED
    BY <1>2, <2>1
       DEF CancelListedPods, taskVars, ScheduleInv, OneEntryPerTask,
           VersionOrder, TaskImpliesHeld, RemovalIsFinal, Held
<1>3. CASE FinalizerRemoved
  <2> USE DEF ScheduleInv
  <2>1. rec.cr = api /\ cache = api /\ api.phase = "deleting" /\ backupSchedule = NoTask
    BY <1>3, FreshCopy DEF FinalizerRemoved, RemovalIsFinal
  <2>2. NoCR(0).phase = "absent" /\ ~NoCR(0).finalizer
    BY DEF NoCR
  <2>3. api'.version = api.version + 1 /\ api'.phase = "absent" /\ ~api'.finalizer
    BY <1>3, <2>2, NoCRType, StoreType DEF FinalizerRemoved, ScheduleTypeOK
  <2>4. rec'.pc = "idle"
    BY <1>3, IdleRecType DEF FinalizerRemoved, Return
  <2>5. OneEntryPerTask'
    BY <1>3 DEF FinalizerRemoved, taskVars, OneEntryPerTask
  <2>6. VersionOrder'
    <3>1. cache.version \in Nat /\ cache' = cache /\ cache.version = api.version
      BY <1>3, <2>1 DEF FinalizerRemoved, ScheduleTypeOK, CR
    <3>. QED BY <3>1, <2>3, <2>4 DEF VersionOrder
  <2>7. TaskImpliesHeld' /\ RemovalIsFinal'
    BY <1>3, <2>1, <2>3, <2>4
       DEF FinalizerRemoved, taskVars, TaskImpliesHeld, RemovalIsFinal, Held
  <2>. QED BY <2>5, <2>6, <2>7
<1>4. CASE ReleaseRefused
  BY <1>4, ReturnInv DEF ReleaseRefused, Return
<1>. QED BY <1>1, <1>2, <1>3, <1>4 DEF RemoveFinalizer

LEMMA RestartInv ==
  ASSUME ScheduleTypeOK, ScheduleInv, RestartSchedule
  PROVE  ScheduleInv'
<1>1. rec'.pc = "idle" /\ api' = api /\ cache' = api
  BY IdleRecType DEF RestartSchedule
<1>2. OneEntryPerTask'
  BY DEF RestartSchedule, OneEntryPerTask, Entry
<1>3. VersionOrder'
  <2>1. api.version \in Nat
    BY DEF ScheduleTypeOK, CR
  <2>. QED BY <1>1, <2>1 DEF VersionOrder
<1>4. TaskImpliesHeld' /\ RemovalIsFinal'
  BY <1>1 DEF RestartSchedule, ScheduleInv, TaskImpliesHeld, RemovalIsFinal, Held
<1>. QED BY <1>2, <1>3, <1>4 DEF ScheduleInv

LEMMA InvStep ==
  ScheduleTypeOK /\ ScheduleInv /\ [ScheduleNext]_scheduleVars => ScheduleInv'
<1> SUFFICES ASSUME ScheduleTypeOK, ScheduleInv, [ScheduleNext]_scheduleVars
             PROVE  ScheduleInv'
  OBVIOUS
<1>1. CASE UNCHANGED scheduleVars
  BY <1>1
     DEF scheduleVars, ScheduleInv, OneEntryPerTask, VersionOrder,
         TaskImpliesHeld, RemovalIsFinal, Held
<1>. QED
  BY <1>1, UserInv, SyncInv, StartInv, AddFinalizerInv, UpdateScheduleInv,
     DeletionInv, RestartInv
     DEF ScheduleNext, ReconcileStep

\* One cron entry per task, a task only for a resource held by the finalizer,
\* and no way back for a removal, at every moment of every run: through stale
\* reads, refused writes, lost answers, re-creation and restarts.
THEOREM ScheduleInvariant == ScheduleSpec => []ScheduleInv
<1>1. ScheduleInit => ScheduleTypeOK /\ ScheduleInv
  BY TypeInit, InvInit
<1>2. ScheduleTypeOK /\ ScheduleInv /\ [ScheduleNext]_scheduleVars
        => ScheduleTypeOK' /\ ScheduleInv'
  BY TypeStep, InvStep
<1>. QED BY <1>1, <1>2, PTL DEF ScheduleSpec

-----------------------------------------------------------------------------
(* BackupSchedule implements ScheduleGuard.                                *)

LEMMA GuardInit == ScheduleInit => Guard!Init
  BY DEF ScheduleInit, Guard!Init, GuardState, NoCR, NoTask

\* What changes neither the resource's state nor the task is invisible.
LEMMA Invisible ==
  ASSUME api'.phase = api.phase, api'.finalizer = api.finalizer,
         backupSchedule' = backupSchedule
  PROVE  UNCHANGED Guard!vars
  BY DEF Guard!vars, GuardState

\* The task goes away and the resource stays.
LEMMA TaskGoes ==
  ASSUME api' = api, backupSchedule' = NoTask
  PROVE  Guard!Uninstall
  BY DEF Guard!Uninstall, GuardState, NoTask

LEMMA GuardStep ==
  ScheduleTypeOK /\ ScheduleInv /\ [ScheduleNext]_scheduleVars
    => [Guard!Next]_(Guard!vars)
<1> SUFFICES ASSUME ScheduleTypeOK, ScheduleInv, [ScheduleNext]_scheduleVars
             PROVE  [Guard!Next]_(Guard!vars)
  OBVIOUS
<1> USE DEF ScheduleTypeOK
<1>0. CASE UNCHANGED scheduleVars
  BY <1>0, Invisible DEF scheduleVars
<1>1. ASSUME NEW s \in Schedule, NEW n \in SUBSET Pod, CreateCR(s, n)
      PROVE  Guard!Create
  <2> DEFINE new == [phase |-> "active", finalizer |-> FALSE, schedule |-> s,
                     names |-> n, version |-> 0]
  <2>1. new \in CR
    BY DEF CR
  <2>2. api'.phase = "active" /\ ~api'.finalizer
    BY <1>1, <2>1, StoreType DEF CreateCR
  <2>. QED BY <1>1, <2>2 DEF CreateCR, operatorVars, Guard!Create, GuardState
<1>2. ASSUME NEW s \in Schedule, NEW n \in SUBSET Pod, EditCR(s, n)
      PROVE  UNCHANGED Guard!vars
  <2> DEFINE new == [api EXCEPT !.schedule = s, !.names = n]
  <2>1. new \in CR /\ new.phase = api.phase /\ new.finalizer = api.finalizer
    BY DEF CR
  <2>2. api'.phase = api.phase /\ api'.finalizer = api.finalizer
    BY <1>2, <2>1, StoreType DEF EditCR
  <2>. QED BY <1>2, <2>2, Invisible DEF EditCR, operatorVars
<1>3. CASE DeleteCR
  <2> DEFINE new == IF api.finalizer THEN [api EXCEPT !.phase = "deleting"] ELSE NoCR(0)
  <2>1. /\ new \in CR
        /\ api.finalizer => new.phase = "deleting"
        /\ ~api.finalizer => new.phase = "absent"
    BY NoCRType DEF CR
  <2>2. api'.phase = new.phase
    BY <1>3, <2>1, StoreType DEF DeleteCR
  <2>3. Guard!Delete
    BY <1>3, <2>1, <2>2 DEF DeleteCR, operatorVars, Guard!Delete, GuardState
  <2>. QED BY <2>3 DEF Guard!Next
<1>4. CASE StatusUpdate
  BY <1>4, StoreType, Invisible DEF StatusUpdate, operatorVars
<1>5. CASE SyncCache \/ StartReconcile \/ CancelListedPods
  BY <1>5, Invisible DEF SyncCache, StartReconcile, CancelListedPods, operatorVars, taskVars
<1>6. CASE AddFinalizer
  <2>1. CASE FinalizerPresent \/ FinalizerRefused
    BY <2>1, Invisible DEF FinalizerPresent, FinalizerRefused, taskVars
  <2>2. CASE FinalizerAdded
    <3>1. rec.cr = api /\ api.phase = "active" /\ ~api.finalizer
      BY <2>2, FreshCopy DEF FinalizerAdded, ScheduleInv, TaskImpliesHeld
    <3>2. /\ [rec.cr EXCEPT !.finalizer = TRUE] \in CR
          /\ [rec.cr EXCEPT !.finalizer = TRUE].phase = "active"
          /\ [rec.cr EXCEPT !.finalizer = TRUE].finalizer
      BY <3>1 DEF CR
    <3>3. api'.phase = "active" /\ api'.finalizer
      BY <2>2, <3>2, StoreType DEF FinalizerAdded
    <3>4. Guard!Guard
      BY <2>2, <3>1, <3>3 DEF FinalizerAdded, taskVars, Guard!Guard, GuardState
    <3>. QED BY <3>4 DEF Guard!Next
  <2>. QED BY <1>6, <2>1, <2>2 DEF AddFinalizer
<1>7. CASE UpdateBackupSchedule
  <2>1. CASE ScheduleKept
    BY <2>1, Invisible DEF ScheduleKept, taskVars
  <2>2. CASE ScheduleReplaced
    <3>1. Held(api) /\ api' = api /\ rec.cr.schedule \in Schedule
      BY <2>2, ScheduleAssumption DEF ScheduleReplaced, ScheduleInv, TaskImpliesHeld
    <3>2. CASE backupSchedule' = NoTask
      BY <3>1, <3>2, TaskGoes DEF Guard!Next
    <3>3. CASE backupSchedule' = [id |-> nextEntryID, schedule |-> rec.cr.schedule]
      <4>1. Guard!Held
        BY <3>1 DEF Held, Guard!Held, GuardState, CR
      <4>2. Guard!Install(rec.cr.schedule)
        BY <3>1, <3>3, <4>1 DEF Guard!Install, GuardState
      <4>. QED BY <3>1, <4>2 DEF Guard!Next
    <3>. QED BY <2>2, <3>2, <3>3 DEF ScheduleReplaced
  <2>. QED BY <1>7, <2>1, <2>2 DEF UpdateBackupSchedule
<1>8. CASE RemoveBackupSchedule
  BY <1>8, TaskGoes DEF RemoveBackupSchedule, Guard!Next
<1>9. CASE RemoveFinalizer
  <2>1. CASE ReleaseRefused
    BY <2>1, Invisible DEF ReleaseRefused, taskVars
  <2>2. CASE FinalizerRemoved
    <3>1. api.phase = "deleting" /\ backupSchedule = NoTask
      BY <2>2, FreshCopy DEF FinalizerRemoved, ScheduleInv, RemovalIsFinal
    <3>2. api'.phase = "absent"
      BY <2>2, NoCRType, StoreType DEF FinalizerRemoved
    <3>3. Guard!Release
      BY <2>2, <3>1, <3>2
         DEF FinalizerRemoved, taskVars, Guard!Release, GuardState, NoTask
    <3>. QED BY <3>3 DEF Guard!Next
  <2>. QED BY <1>9, <2>1, <2>2 DEF RemoveFinalizer
<1>10. CASE RestartSchedule
  BY <1>10, TaskGoes DEF RestartSchedule, Guard!Next
<1>. QED
  BY <1>0, <1>1, <1>2, <1>3, <1>4, <1>5, <1>6, <1>7, <1>8, <1>9, <1>10
     DEF ScheduleNext, User, ReconcileStep, Guard!Next

\* Every run of the controller is a run of ScheduleGuard: a schedule fires only
\* while the resource is held by the finalizer, and the resource goes only when
\* no schedule fires.
THEOREM ScheduleImplementsGuard == ScheduleSpec => ImplementsGuard
<1>1. ScheduleInit => ScheduleTypeOK /\ ScheduleInv
  BY TypeInit, InvInit
<1>2. ScheduleTypeOK /\ ScheduleInv /\ [ScheduleNext]_scheduleVars
        => ScheduleTypeOK' /\ ScheduleInv'
  BY TypeStep, InvStep
<1>. QED
  BY <1>1, <1>2, GuardInit, GuardStep, PTL
     DEF ScheduleSpec, ImplementsGuard, Guard!Spec

\* What the actions of ScheduleGuard keep.
LEMMA GuardedInstallation ==
  Guard!Spec => [](Guard!TypeOK /\ Guard!InstalledOnlyWhileHeld)
<1>. DEFINE Inv == Guard!TypeOK /\ Guard!InstalledOnlyWhileHeld
<1>1. Guard!Init => Inv
  BY DEF Guard!Init, Guard!TypeOK, Guard!CRState, Guard!InstalledOnlyWhileHeld
<1>2. Inv /\ [Guard!Next]_(Guard!vars) => Inv'
  BY DEF Guard!TypeOK, Guard!CRState, Guard!InstalledOnlyWhileHeld, Guard!Held,
         Guard!vars, Guard!Next, Guard!Create, Guard!Guard, Guard!Delete,
         Guard!Uninstall, Guard!Release, Guard!Install
<1>. QED BY <1>1, <1>2, PTL DEF Guard!Spec

\* The abstract promise, carried over to the controller by the refinement: what
\* the map backupSchedule holds fires for a resource under its finalizer.
THEOREM ScheduledOnlyWhileHeld ==
  ScheduleSpec => []Guard!InstalledOnlyWhileHeld
BY ScheduleImplementsGuard, GuardedInstallation, PTL DEF ImplementsGuard

-----------------------------------------------------------------------------
(* An installed schedule stays installed.                                  *)

\* The schedule of the live resource is installed, and the Reconcile in progress, if
\* any, is on its way to install the same.
InForce(s) ==
  /\ api.phase = "active" /\ api.schedule = s
  /\ cache.phase = "active" /\ cache.schedule = s
  /\ Installed(s)
  /\ rec.pc # "idle" => rec.pc \in {"finalize", "install"} /\ rec.cr.schedule = s

\* While users leave the resource and its schedule, and the process lives, the entry
\* and its id stay: statuses, edits of other fields, conflicts, failures and repeated
\* Reconciles neither remove it nor add another (updateBackupSchedule).
StaysInForce ==
  [][\A s \in Schedule :
       InForce(s) /\ api'.phase = "active" /\ api'.schedule = s /\ restarts' = restarts
         => InForce(s)' /\ UNCHANGED <<cronEntries, backupSchedule>>]_scheduleVars

\* What StaysInForce says holds of every run of the reconciler.
THEOREM InstalledScheduleStays == ScheduleSpec => StaysInForce
<1> DEFINE Stay ==
      \A s \in Schedule :
        InForce(s) /\ api'.phase = "active" /\ api'.schedule = s /\ restarts' = restarts
          => InForce(s)' /\ UNCHANGED <<cronEntries, backupSchedule>>
<1>1. ScheduleTypeOK /\ [ScheduleNext]_scheduleVars => [Stay]_scheduleVars
  <2> SUFFICES ASSUME ScheduleTypeOK, ScheduleNext, NEW s \in Schedule, InForce(s),
                      api'.phase = "active", api'.schedule = s, restarts' = restarts
               PROVE  InForce(s)' /\ UNCHANGED <<cronEntries, backupSchedule>>
    BY DEF scheduleVars
  <2> USE DEF InForce, Installed
  <2>1. CASE User \/ StatusUpdate
    BY <2>1 DEF User, CreateCR, EditCR, DeleteCR, StatusUpdate, operatorVars
  <2>2. CASE SyncCache
    BY <2>2 DEF SyncCache, operatorVars
  <2>3. CASE StartReconcile
    BY <2>3 DEF StartReconcile, taskVars
  <2>4. CASE FinalizerPresent
    BY <2>4 DEF FinalizerPresent, taskVars, ScheduleTypeOK
  <2>5. CASE FinalizerAdded
    BY <2>5, IdleRecType DEF FinalizerAdded, Return, taskVars
  <2>6. CASE FinalizerRefused \/ ScheduleKept
    BY <2>6, IdleRecType DEF FinalizerRefused, ScheduleKept, Return, taskVars
  <2>7. CASE ScheduleReplaced
    BY <2>7 DEF ScheduleReplaced
  <2>8. CASE RemoveBackupSchedule \/ CancelListedPods \/ RemoveFinalizer
    BY <2>8 DEF RemoveBackupSchedule, CancelListedPods, RemoveFinalizer,
                FinalizerRemoved, ReleaseRefused
  <2>9. ~RestartSchedule
    BY BoundAssumption DEF RestartSchedule, ScheduleTypeOK
  <2>. QED
    BY <2>1, <2>2, <2>3, <2>4, <2>5, <2>6, <2>7, <2>8, <2>9
    DEF ScheduleNext, ReconcileStep, AddFinalizer, UpdateBackupSchedule
<1>. QED
  BY <1>1, ScheduleTypeCorrect, PTL DEF ScheduleSpec, StaysInForce

-----------------------------------------------------------------------------
(* The backup goroutines.                                                  *)

Handles ==
  /\ commandCancel \in [Target -> Routine \cup {None}]
  /\ retryCancel \in [Target -> Routine \cup {None}]

LEMMA IdleShape == Idle \in RoutineState /\ Shape(Idle)
  BY DEF Shape, Idle, RoutineState, RoutinePC

LEMMA NewShape ==
  ASSUME NEW p \in Target
  PROVE  /\ NewCommand(p) \in RoutineState /\ Shape(NewCommand(p))
         /\ NewRetry(p) \in RoutineState /\ Shape(NewRetry(p))
  BY DEF Shape, Idle, NewCommand, NewRetry, RoutineState, RoutinePC

\* One goroutine takes a step of its own and keeps its shape.
LEMMA OneStep ==
  ASSUME RoutineTypeOK, NEW r \in Routine, NEW g \in RoutineState, Shape(g),
         routine' = [routine EXCEPT ![r] = g],
         Handles'
  PROVE  RoutineTypeOK'
<1>1. routine' \in [Routine -> RoutineState]
  BY DEF RoutineTypeOK
<1>2. \A q \in Routine : Shape(routine'[q])
  BY DEF RoutineTypeOK
<1>. QED BY <1>1, <1>2 DEF RoutineTypeOK, Handles

\* A goroutine moves on within one attempt.
LEMMA GotoType ==
  ASSUME RoutineTypeOK, NEW r \in Routine, NEW pc \in RoutinePC, Goto(r, pc),
         ~At(r, "idle"), pc # "idle", pc # "register",
         pc = "wait" => routine[r].kind = "retry",
         UNCHANGED <<commandCancel, retryCancel>>
  PROVE  RoutineTypeOK'
<1> DEFINE g == [routine[r] EXCEPT !.pc = pc]
<1>1. g \in RoutineState
  BY DEF RoutineTypeOK, RoutineState
<1>2. Shape(g)
  BY DEF RoutineTypeOK, RoutineState, Shape, At
<1>3. routine' = [routine EXCEPT ![r] = g]
  BY DEF Goto
<1>4. Handles'
  BY DEF RoutineTypeOK, Handles
<1>. QED BY <1>1, <1>2, <1>3, <1>4, OneStep

LEMMA RoutineTypeInit == RoutineInit => RoutineTypeOK
  BY IdleShape DEF RoutineInit, RoutineTypeOK

LEMMA RoutineTypeCallers ==
  ASSUME RoutineTypeOK
  PROVE  /\ \A pods \in SUBSET Target : CancelBackupRoutines(pods) => RoutineTypeOK'
         /\ \A p \in Target : TriggerBackupCommand(p) => RoutineTypeOK'
         /\ RestartRoutines => RoutineTypeOK'
<1>1. ASSUME NEW pods \in SUBSET Target, CancelBackupRoutines(pods)
      PROVE  RoutineTypeOK'
  <2>1. \A r \in Routine :
          /\ routine'[r] \in {routine[r], [routine[r] EXCEPT !.cancelled = TRUE]}
          /\ routine'[r] \in RoutineState
          /\ Shape(routine'[r])
    BY <1>1 DEF CancelBackupRoutines, RoutineTypeOK, RoutineState, Shape
  <2>2. routine' \in [Routine -> RoutineState]
    BY <1>1, <2>1 DEF CancelBackupRoutines
  <2>3. Handles'
    BY <1>1 DEF CancelBackupRoutines, RoutineTypeOK, Handles
  <2>. QED BY <2>1, <2>2, <2>3 DEF RoutineTypeOK, Handles
<1>2. ASSUME NEW p \in Target, TriggerBackupCommand(p)
      PROVE  RoutineTypeOK'
  <2>1. PICK r \in Routine :
          /\ routine' = [routine EXCEPT ![r] = NewCommand(p)]
          /\ commandCancel' = [commandCancel EXCEPT ![p] = r]
          /\ UNCHANGED retryCancel
    BY <1>2 DEF TriggerBackupCommand
  <2>2. Handles'
    BY <2>1 DEF RoutineTypeOK, Handles
  <2>. QED BY <2>1, <2>2, NewShape, OneStep
<1>3. ASSUME RestartRoutines PROVE RoutineTypeOK'
  BY <1>3, IdleShape DEF RestartRoutines, RoutineTypeOK
<1>. QED BY <1>1, <1>2, <1>3

LEMMA RoutineTypeStep ==
  ASSUME RoutineTypeOK, NEW r \in Routine, RoutineStep(r) \/ RetryTimeout(r)
  PROVE  RoutineTypeOK'
<1>1. CASE Prepare(r) \/ ExecCommand(r) \/ CompleteStatus(r) \/ FailStatusWritten(r)
           \/ RetryStops(r)
  <2>1. PICK pc \in {"exec", "fail", "complete", "done"} : Goto(r, pc)
    BY <1>1 DEF Prepare, ExecCommand, CompleteStatus, FailStatusWritten, RetryStops
  <2>2. ~At(r, "idle") /\ UNCHANGED <<commandCancel, retryCancel>>
    BY <1>1 DEF Prepare, ExecCommand, CompleteStatus, FailStatusWritten, RetryStops, At
  <2>. QED BY <2>1, <2>2, GotoType DEF RoutinePC
<1>2. CASE FailStatusRefused(r)
  <2>1. CASE routine[r].kind = "retry"
    <3>1. PICK pc \in {"wait", "done"} : Goto(r, pc)
      BY <1>2, <2>1 DEF FailStatusRefused
    <3>2. ~At(r, "idle") /\ UNCHANGED <<commandCancel, retryCancel>>
      BY <1>2 DEF FailStatusRefused, At
    <3>. QED BY <2>1, <3>1, <3>2, GotoType DEF RoutinePC
  <2>2. CASE routine[r].kind = "command"
    <3>1. PICK q \in Routine :
            /\ At(q, "idle")
            /\ routine' = [routine EXCEPT ![r].pc = "done", ![q] = NewRetry(routine[r].pod)]
      BY <1>2, <2>2 DEF FailStatusRefused
    <3> DEFINE g == [routine[r] EXCEPT !.pc = "done"]
    <3>2. q # r /\ routine[r].pod \in Target
      BY <1>2, <3>1 DEF FailStatusRefused, At, RoutineTypeOK, Shape
    <3>3. g \in RoutineState /\ Shape(g)
      BY <1>2 DEF FailStatusRefused, At, RoutineTypeOK, RoutineState, RoutinePC, Shape
    <3>4. routine' = [routine EXCEPT ![r] = g, ![q] = NewRetry(routine[r].pod)]
      BY <3>1
    <3>5. routine' \in [Routine -> RoutineState]
      BY <3>2, <3>3, <3>4, NewShape DEF RoutineTypeOK
    <3>6. \A s \in Routine : Shape(routine'[s])
      BY <3>2, <3>3, <3>4, NewShape DEF RoutineTypeOK
    <3>7. Handles'
      BY <1>2 DEF FailStatusRefused, RoutineTypeOK, Handles
    <3>. QED BY <3>5, <3>6, <3>7 DEF RoutineTypeOK, Handles
  <2>. QED BY <1>2, <2>1, <2>2 DEF FailStatusRefused
<1>3. CASE RegisterRetry(r)
  <2> DEFINE g == [routine[r] EXCEPT !.pc = "wait"]
  <2>1. g \in RoutineState /\ Shape(g)
    BY <1>3 DEF RegisterRetry, At, RoutineTypeOK, RoutineState, RoutinePC, Shape
  <2>2. Handles'
    BY <1>3 DEF RegisterRetry, RoutineTypeOK, Handles
  <2>. QED BY <1>3, <2>1, <2>2, OneStep DEF RegisterRetry, Goto
<1>4. CASE RetryTick(r)
  <2> DEFINE g == [routine[r] EXCEPT !.pc = "prepare", !.attempts = routine[r].attempts + 1]
  <2>1. g \in RoutineState /\ Shape(g)
    BY <1>4 DEF RetryTick, At, RoutineTypeOK, RoutineState, RoutinePC, Shape
  <2>2. routine' = [routine EXCEPT ![r] = g]
    BY <1>4 DEF RetryTick
  <2>3. Handles'
    BY <1>4 DEF RetryTick, RoutineTypeOK, Handles
  <2>. QED BY <2>1, <2>2, <2>3, OneStep
<1>5. CASE Cleanup(r)
  <2>1. Handles'
    BY <1>5 DEF Cleanup, RoutineTypeOK, Handles
  <2>. QED BY <1>5, <2>1, IdleShape, OneStep DEF Cleanup
<1>6. CASE RetryTimeout(r)
  <2> DEFINE g == [routine[r] EXCEPT !.cancelled = TRUE]
  <2>1. g \in RoutineState /\ Shape(g)
    BY DEF RoutineTypeOK, RoutineState, Shape
  <2>2. routine' = [routine EXCEPT ![r] = g] /\ Handles'
    BY <1>6 DEF RetryTimeout, RoutineTypeOK, Handles
  <2>. QED BY <2>1, <2>2, OneStep
<1>. QED
  BY <1>1, <1>2, <1>3, <1>4, <1>5, <1>6 DEF RoutineStep, RoutineProgress

\* The goroutines and the two maps stay well-formed, whoever calls when.
THEOREM RoutineTypeCorrect == RoutineSpec => []RoutineTypeOK
<1>1. RoutineTypeOK /\ UNCHANGED routineVars => RoutineTypeOK'
  BY DEF RoutineTypeOK, routineVars
<1>2. RoutineTypeOK /\ [RoutineNext]_routineVars => RoutineTypeOK'
  BY <1>1, RoutineTypeCallers, RoutineTypeStep DEF RoutineNext
<1>. QED BY <1>2, RoutineTypeInit, PTL DEF RoutineSpec

-----------------------------------------------------------------------------
(* The handles. Each half of HandlesAreLive is a statement about one pod;  *)
(* that a live handle keeps its goroutine's kind and pod makes it          *)
(* inductive.                                                              *)

CommandLive(p) ==
  commandCancel[p] # None =>
    LET g == routine[commandCancel[p]] IN
    g.kind = "command" /\ g.pod = p /\ ~g.cancelled

RetryLive(p) ==
  retryCancel[p] # None =>
    LET g == routine[retryCancel[p]] IN
    g.kind = "retry" /\ g.pod = p /\ g.pc # "register"

LEMMA HandlesByPod ==
  HandlesAreLive <=> \A p \in Target : CommandLive(p) /\ RetryLive(p)
  BY DEF HandlesAreLive, CommandLive, RetryLive

\* The handles do not change, and neither do kind, pod and registration of a
\* goroutine that has one, nor is a command cancelled.
LEMMA HandlesKept ==
  ASSUME RoutineTypeOK, HandlesAreLive,
         UNCHANGED <<commandCancel, retryCancel>>,
         \A r \in Routine : routine[r].kind # "none" =>
           /\ routine'[r].kind = routine[r].kind
           /\ routine'[r].pod = routine[r].pod
           /\ routine'[r].pc = "register" => routine[r].pc = "register"
           /\ routine[r].kind = "command" => routine'[r].cancelled = routine[r].cancelled
  PROVE  HandlesAreLive'
  BY DEF RoutineTypeOK, HandlesAreLive

LEMMA HandlesStep ==
  ASSUME RoutineTypeOK, HandlesAreLive, [RoutineNext]_routineVars
  PROVE  HandlesAreLive'
<1> USE DEF RoutineTypeOK
<1>0. CASE UNCHANGED routineVars
  BY <1>0 DEF routineVars, HandlesAreLive
<1>1. ASSUME NEW pods \in SUBSET Target, CancelBackupRoutines(pods)
      PROVE  HandlesAreLive'
  <2>1. ASSUME NEW p \in Target, commandCancel'[p] # None
        PROVE  LET g == routine'[commandCancel'[p]] IN
               g.kind = "command" /\ g.pod = p /\ ~g.cancelled
    <3>1. p \notin pods /\ commandCancel'[p] = commandCancel[p] /\ commandCancel[p] \in Routine
      BY <1>1, <2>1 DEF CancelBackupRoutines
    <3>2. \A q \in pods : commandCancel[q] # commandCancel[p] /\ retryCancel[q] # commandCancel[p]
      BY <3>1, NoneAssumption DEF HandlesAreLive
    <3>3. routine'[commandCancel[p]] = routine[commandCancel[p]]
      BY <1>1, <3>1, <3>2 DEF CancelBackupRoutines
    <3>. QED BY <2>1, <3>1, <3>3 DEF HandlesAreLive
  <2>2. ASSUME NEW p \in Target, retryCancel'[p] # None
        PROVE  LET g == routine'[retryCancel'[p]] IN
               g.kind = "retry" /\ g.pod = p /\ g.pc # "register"
    <3>1. p \notin pods /\ retryCancel'[p] = retryCancel[p] /\ retryCancel[p] \in Routine
      BY <1>1, <2>2 DEF CancelBackupRoutines
    <3>2. routine'[retryCancel[p]] \in
            {routine[retryCancel[p]], [routine[retryCancel[p]] EXCEPT !.cancelled = TRUE]}
      BY <1>1, <3>1 DEF CancelBackupRoutines
    <3>3. /\ routine'[retryCancel[p]].kind = routine[retryCancel[p]].kind
          /\ routine'[retryCancel[p]].pod = routine[retryCancel[p]].pod
          /\ routine'[retryCancel[p]].pc = routine[retryCancel[p]].pc
      BY <3>1, <3>2 DEF RoutineState
    <3>. QED BY <2>2, <3>1, <3>3 DEF HandlesAreLive
  <2>. QED BY <2>1, <2>2 DEF HandlesAreLive
<1>2. ASSUME NEW p \in Target, TriggerBackupCommand(p)
      PROVE  HandlesAreLive'
  <2>1. PICK r \in Routine :
          /\ At(r, "idle")
          /\ routine' = [routine EXCEPT ![r] = NewCommand(p)]
          /\ commandCancel' = [commandCancel EXCEPT ![p] = r]
          /\ UNCHANGED retryCancel
    BY <1>2 DEF TriggerBackupCommand
  <2>2. routine[r].kind = "none"
    BY <2>1 DEF At, Shape
  <2>3. NewCommand(p).kind = "command" /\ NewCommand(p).pod = p /\ ~NewCommand(p).cancelled
    BY DEF NewCommand, Idle
  <2>4. \A q \in Target : CommandLive(q)' /\ RetryLive(q)'
    BY <2>1, <2>2, <2>3 DEF HandlesAreLive, CommandLive, RetryLive
  <2>. QED BY <2>4 DEF HandlesAreLive, CommandLive, RetryLive
<1>3. ASSUME NEW r \in Routine,
             Prepare(r) \/ ExecCommand(r) \/ CompleteStatus(r) \/ FailStatusWritten(r)
               \/ RetryStops(r)
      PROVE  HandlesAreLive'
  <2>1. PICK pc \in {"exec", "fail", "complete", "done"} : Goto(r, pc)
    BY <1>3 DEF Prepare, ExecCommand, CompleteStatus, FailStatusWritten, RetryStops
  <2>2. UNCHANGED <<commandCancel, retryCancel>>
    BY <1>3 DEF Prepare, ExecCommand, CompleteStatus, FailStatusWritten, RetryStops
  <2>. QED BY <2>1, <2>2, HandlesKept DEF Goto, RoutineState
<1>4. ASSUME NEW r \in Routine, FailStatusRefused(r)
      PROVE  HandlesAreLive'
  <2>1. CASE routine[r].kind = "retry"
    <3>1. PICK pc \in {"wait", "done"} : Goto(r, pc)
      BY <1>4, <2>1 DEF FailStatusRefused
    <3>. QED BY <1>4, <3>1, HandlesKept DEF Goto, RoutineState, FailStatusRefused
  <2>2. CASE routine[r].kind = "command"
    <3>1. PICK q \in Routine :
            /\ At(q, "idle")
            /\ routine' = [routine EXCEPT ![r].pc = "done", ![q] = NewRetry(routine[r].pod)]
      BY <1>4, <2>2 DEF FailStatusRefused
    <3>2. q # r /\ routine[q].kind = "none"
      BY <1>4, <3>1 DEF FailStatusRefused, At, Shape
    <3>. QED BY <1>4, <3>1, <3>2, HandlesKept DEF FailStatusRefused, RoutineState
  <2>. QED BY <1>4, <2>1, <2>2 DEF FailStatusRefused
<1>5. ASSUME NEW r \in Routine, RegisterRetry(r)
      PROVE  HandlesAreLive'
  <2>1. routine[r].kind = "retry" /\ routine[r].pod \in Target
    BY <1>5 DEF RegisterRetry, At, Shape
  <2>2. /\ routine'[r].kind = "retry"
        /\ routine'[r].pod = routine[r].pod
        /\ routine'[r].pc = "wait"
        /\ \A q \in Routine : q # r => routine'[q] = routine[q]
    BY <1>5, <2>1 DEF RegisterRetry, Goto, RoutineState
  <2>3. /\ retryCancel' = [retryCancel EXCEPT ![routine[r].pod] = r]
        /\ commandCancel' = commandCancel
    BY <1>5 DEF RegisterRetry
  <2>4. \A q \in Target : CommandLive(q)' /\ RetryLive(q)'
    BY <2>1, <2>2, <2>3 DEF HandlesAreLive, CommandLive, RetryLive
  <2>. QED BY <2>4 DEF HandlesAreLive, CommandLive, RetryLive
<1>6. ASSUME NEW r \in Routine, RetryTick(r)
      PROVE  HandlesAreLive'
  BY <1>6, HandlesKept DEF RetryTick, RoutineState
<1>7. ASSUME NEW r \in Routine, Cleanup(r)
      PROVE  HandlesAreLive'
  <2>1. routine[r].pod \in Target /\ \A q \in Routine : q # r => routine'[q] = routine[q]
    BY <1>7 DEF Cleanup, At, Shape
  <2>2. ASSUME NEW p \in Target
        PROVE  /\ commandCancel'[p] \in {None, commandCancel[p]} /\ commandCancel'[p] # r
               /\ retryCancel'[p] \in {None, retryCancel[p]} /\ retryCancel'[p] # r
    BY <1>7, <2>1, NoneAssumption DEF Cleanup, HandlesAreLive
  <2>3. \A q \in Target : CommandLive(q)' /\ RetryLive(q)'
    BY <2>1, <2>2 DEF HandlesAreLive, CommandLive, RetryLive
  <2>. QED BY <2>3 DEF HandlesAreLive, CommandLive, RetryLive
<1>8. ASSUME NEW r \in Routine, RetryTimeout(r)
      PROVE  HandlesAreLive'
  BY <1>8, HandlesKept DEF RetryTimeout, RoutineState
<1>9. CASE RestartRoutines
  BY <1>9 DEF RestartRoutines, HandlesAreLive
<1>. QED
  BY <1>0, <1>1, <1>2, <1>3, <1>4, <1>5, <1>6, <1>7, <1>8, <1>9
     DEF RoutineNext, RoutineStep, RoutineProgress

\* Whatever is triggered, cancelled, retried or restarted in whatever order, a
\* cancel function in a map is that of a live goroutine of its pod and kind.
THEOREM HandlesInvariant == RoutineSpec => []HandlesAreLive
<1>1. RoutineInit => HandlesAreLive
  BY DEF RoutineInit, HandlesAreLive
<1>2. RoutineTypeOK /\ HandlesAreLive /\ [RoutineNext]_routineVars => HandlesAreLive'
  BY HandlesStep
<1>. QED BY <1>1, <1>2, RoutineTypeCorrect, PTL DEF RoutineSpec

-----------------------------------------------------------------------------
(* The budget.                                                             *)

WithinBudget(g) ==
  g.attempts <= MaxAttempts /\ (g.pc = "wait" => g.attempts < MaxAttempts)

LEMMA BudgetStep ==
  ASSUME RoutineTypeOK, RetryBudget, [RoutineNext]_routineVars
  PROVE  RetryBudget'
<1> USE AttemptsAssumption DEF RoutineTypeOK
<1>. SUFFICES ASSUME NEW s \in Routine PROVE WithinBudget(routine'[s])
  BY DEF RetryBudget, At, WithinBudget
<1>1. WithinBudget(routine[s]) /\ routine[s].attempts \in Nat
  BY DEF RetryBudget, At, WithinBudget, RoutineState
<1>2. WithinBudget(Idle) /\ \A p \in Target : WithinBudget(NewCommand(p)) /\ WithinBudget(NewRetry(p))
  BY DEF WithinBudget, Idle, NewCommand, NewRetry
<1>3. ASSUME NEW r \in Routine, NEW pc \in RoutinePC, Goto(r, pc),
             pc = "wait" => routine[r].attempts < MaxAttempts
      PROVE  WithinBudget(routine'[s])
  <2>1. /\ routine'[s].attempts = routine[s].attempts
        /\ routine'[s].pc = IF s = r THEN pc ELSE routine[s].pc
    BY <1>3 DEF Goto, RoutineState
  <2>. QED BY <1>1, <1>3, <2>1 DEF WithinBudget
<1>4. CASE UNCHANGED routineVars
  BY <1>1, <1>4 DEF routineVars
<1>5. ASSUME NEW pods \in SUBSET Target, CancelBackupRoutines(pods)
      PROVE  WithinBudget(routine'[s])
  <2>1. routine'[s] \in {routine[s], [routine[s] EXCEPT !.cancelled = TRUE]}
    BY <1>5 DEF CancelBackupRoutines
  <2>. QED BY <1>1, <2>1 DEF WithinBudget, RoutineState
<1>6. ASSUME NEW p \in Target, TriggerBackupCommand(p)
      PROVE  WithinBudget(routine'[s])
  BY <1>1, <1>2, <1>6 DEF TriggerBackupCommand
<1>7. ASSUME NEW r \in Routine,
             Prepare(r) \/ ExecCommand(r) \/ CompleteStatus(r) \/ FailStatusWritten(r)
               \/ RetryStops(r)
      PROVE  WithinBudget(routine'[s])
  <2>1. PICK pc \in {"exec", "fail", "complete", "done"} : Goto(r, pc)
    BY <1>7 DEF Prepare, ExecCommand, CompleteStatus, FailStatusWritten, RetryStops
  <2>. QED BY <1>3, <2>1 DEF RoutinePC
<1>8. ASSUME NEW r \in Routine, FailStatusRefused(r)
      PROVE  WithinBudget(routine'[s])
  <2>1. CASE routine[r].kind = "retry"
    <3>1. PICK pc \in {"wait", "done"} :
            Goto(r, pc) /\ (pc = "wait" => routine[r].attempts < MaxAttempts)
      BY <1>8, <2>1 DEF FailStatusRefused, RetriesLeft
    <3>. QED BY <1>3, <3>1 DEF RoutinePC
  <2>2. CASE routine[r].kind = "command"
    <3>1. PICK q \in Routine :
            routine' = [routine EXCEPT ![r].pc = "done", ![q] = NewRetry(routine[r].pod)]
      BY <1>8, <2>2 DEF FailStatusRefused
    <3>2. routine[r].pod \in Target
      BY <1>8 DEF FailStatusRefused, At, Shape
    <3>3. routine'[s] \in {routine[s], [routine[s] EXCEPT !.pc = "done"],
                           NewRetry(routine[r].pod)}
      BY <3>1
    <3>4. WithinBudget([routine[s] EXCEPT !.pc = "done"])
      BY <1>1 DEF WithinBudget, RoutineState
    <3>. QED BY <1>1, <1>2, <3>2, <3>3, <3>4
  <2>. QED BY <1>8, <2>1, <2>2 DEF FailStatusRefused
<1>9. ASSUME NEW r \in Routine, RegisterRetry(r)
      PROVE  WithinBudget(routine'[s])
  <2>1. routine[r].attempts < MaxAttempts
    BY <1>9 DEF RegisterRetry, At, Shape
  <2>. QED BY <1>3, <1>9, <2>1 DEF RegisterRetry, RoutinePC
<1>10. ASSUME NEW r \in Routine, RetryTick(r)
       PROVE  WithinBudget(routine'[s])
  <2>1. CASE s = r
    <3>1. routine'[s].attempts = routine[s].attempts + 1 /\ routine'[s].pc = "prepare"
      BY <1>10, <2>1 DEF RetryTick, RoutineState
    <3>2. routine[s].attempts < MaxAttempts
      BY <1>1, <1>10, <2>1 DEF RetryTick, At, WithinBudget
    <3>. QED BY <1>1, <3>1, <3>2 DEF WithinBudget
  <2>2. CASE s # r
    BY <1>1, <1>10, <2>2 DEF RetryTick
  <2>. QED BY <2>1, <2>2
<1>11. ASSUME NEW r \in Routine, Cleanup(r)
       PROVE  WithinBudget(routine'[s])
  BY <1>1, <1>2, <1>11 DEF Cleanup
<1>12. ASSUME NEW r \in Routine, RetryTimeout(r)
       PROVE  WithinBudget(routine'[s])
  <2>1. routine'[s] \in {routine[s], [routine[s] EXCEPT !.cancelled = TRUE]}
    BY <1>12 DEF RetryTimeout
  <2>. QED BY <1>1, <2>1 DEF WithinBudget, RoutineState
<1>13. CASE RestartRoutines
  BY <1>2, <1>13 DEF RestartRoutines
<1>. QED
  BY <1>4, <1>5, <1>6, <1>7, <1>8, <1>9, <1>10, <1>11, <1>12, <1>13
     DEF RoutineNext, RoutineStep, RoutineProgress

\* A retry sends the command at most MaxAttempts times.
THEOREM BudgetInvariant == RoutineSpec => []RetryBudget
<1>1. RoutineInit => RetryBudget
  BY AttemptsAssumption DEF RoutineInit, RetryBudget, Idle, At
<1>2. RoutineTypeOK /\ RetryBudget /\ [RoutineNext]_routineVars => RetryBudget'
  BY BudgetStep
<1>. QED BY <1>1, <1>2, RoutineTypeCorrect, PTL DEF RoutineSpec

-----------------------------------------------------------------------------
(* The controller as a whole.                                              *)

\* The cron job and the goroutines leave the reconciler alone but for the
\* statuses they write.
LEMMA ScheduleHalf == [Next]_vars => [ScheduleNext]_scheduleVars
<1> SUFFICES ASSUME [Next]_vars PROVE [ScheduleNext]_scheduleVars
  OBVIOUS
<1>1. CASE UNCHANGED vars
  BY <1>1 DEF vars
<1>2. CASE ScheduleStep \/ CancelOnDeletion \/ Restart
  BY <1>2 DEF ScheduleStep, CancelOnDeletion, Restart, ScheduleNext
<1>3. CASE Fire \/ JobStep \/ Deadline
  BY <1>3 DEF Fire, JobStep, JobGet, JobCancel, JobTrigger, Deadline
<1>4. ASSUME NEW r \in Routine, GoroutineStep(r)
      PROVE  [ScheduleNext]_scheduleVars
  BY <1>4 DEF GoroutineStep, StatusWritten, ScheduleNext
<1>. QED BY <1>1, <1>2, <1>3, <1>4 DEF Next

\* The reconciler and the cron job reach the goroutines only by the calls that
\* BackupRoutine leaves free.
LEMMA RoutineHalf == TypeOK /\ [Next]_vars => [RoutineNext]_routineVars
<1> SUFFICES ASSUME TypeOK, [Next]_vars PROVE [RoutineNext]_routineVars
  OBVIOUS
<1>1. CASE UNCHANGED vars
  BY <1>1 DEF vars
<1>2. CASE ScheduleStep \/ Fire \/ JobGet
  BY <1>2 DEF ScheduleStep, Fire, JobGet
<1>3. CASE CancelOnDeletion
  <2>1. rec.cr.names \in SUBSET Target
    BY PodAssumption DEF TypeOK, ScheduleTypeOK, CR
  <2>. QED BY <1>3, <2>1 DEF CancelOnDeletion, RoutineNext
<1>4. ASSUME NEW p \in Pod, JobCancel(p)
      PROVE  [RoutineNext]_routineVars
  <2>1. {p} \in SUBSET Target
    BY PodAssumption
  <2>. QED BY <1>4, <2>1 DEF JobCancel, RoutineNext
<1>5. CASE JobTrigger
  <2>1. job.pod \in Target
    BY <1>5, PodAssumption DEF JobTrigger, TypeOK, JobTypeOK, JobState
  <2>. QED BY <1>5, <2>1 DEF JobTrigger, RoutineNext
<1>6. ASSUME NEW r \in Routine, GoroutineStep(r)
      PROVE  [RoutineNext]_routineVars
  BY <1>6 DEF GoroutineStep, RoutineNext, RoutineStep, RoutineProgress
<1>7. CASE Deadline
  BY <1>7 DEF Deadline, RoutineNext
<1>8. CASE Restart
  BY <1>8 DEF Restart, RoutineNext
<1>. QED BY <1>1, <1>2, <1>3, <1>4, <1>5, <1>6, <1>7, <1>8 DEF Next, JobStep

LEMMA RemainingType ==
  ASSUME NEW pods \in SUBSET Pod
  PROVE  /\ Remaining(pods) \in JobState
         /\ Remaining(pods).pc = "cancel" => Remaining(pods).todo # {}
         /\ Remaining(pods).pc # "trigger"
<1>1. CASE pods = {}
  BY <1>1 DEF Remaining, IdleJob, JobState
<1>2. CASE pods # {}
  BY <1>2 DEF Remaining, JobState
<1>. QED BY <1>1, <1>2

LEMMA JobTypeStep == TypeOK /\ [Next]_vars => JobTypeOK'
<1> SUFFICES ASSUME TypeOK, [Next]_vars PROVE JobTypeOK'
  OBVIOUS
<1>1. CASE job' = job
  BY <1>1 DEF TypeOK, JobTypeOK
<1>2. CASE Fire \/ Restart
  BY <1>2 DEF Fire, Restart, IdleJob, JobState, JobTypeOK
<1>3. CASE JobGet
  <2>1. cache.names \in SUBSET Pod /\ Remaining({}) = IdleJob
    BY DEF TypeOK, ScheduleTypeOK, CR, Remaining
  <2>2. PICK pods \in SUBSET Pod : job' = Remaining(pods)
    BY <1>3, <2>1 DEF JobGet
  <2>. QED BY <2>2, RemainingType DEF JobTypeOK
<1>4. ASSUME NEW p \in Pod, JobCancel(p)
      PROVE  JobTypeOK'
  BY <1>4 DEF JobCancel, TypeOK, JobTypeOK, JobState
<1>5. CASE JobTrigger
  <2>1. job.todo \ {job.pod} \in SUBSET Pod
    BY DEF TypeOK, JobTypeOK, JobState
  <2>. QED BY <1>5, <2>1, RemainingType DEF JobTrigger, JobTypeOK
<1>6. \/ job' = job
      \/ Fire \/ Restart \/ JobStep
  BY DEF Next, vars, ScheduleStep, CancelOnDeletion, GoroutineStep, Deadline
<1>. QED BY <1>1, <1>2, <1>3, <1>4, <1>5, <1>6 DEF JobStep

\* Every part of the controller stays well-formed.
THEOREM ControllerTypeCorrect == Spec => []TypeOK
<1>1. Init => TypeOK
  BY TypeInit, RoutineTypeInit DEF Init, TypeOK, JobTypeOK, IdleJob, JobState
<1>2. RoutineTypeOK /\ [RoutineNext]_routineVars => RoutineTypeOK'
  <2>1. RoutineTypeOK /\ UNCHANGED routineVars => RoutineTypeOK'
    BY DEF RoutineTypeOK, routineVars
  <2>. QED BY <2>1, RoutineTypeCallers, RoutineTypeStep DEF RoutineNext
<1>3. TypeOK /\ [Next]_vars => TypeOK'
  BY <1>2, ScheduleHalf, RoutineHalf, TypeStep, JobTypeStep DEF TypeOK
<1>. QED BY <1>1, <1>3, PTL DEF Spec

THEOREM ControllerIsSchedule == Spec => ScheduleSpec
<1>1. Init => ScheduleInit
  BY DEF Init
<1>. QED BY <1>1, ScheduleHalf, PTL DEF Spec, ScheduleSpec

THEOREM ControllerIsRoutine == Spec => RoutineSpec
<1>1. Init => RoutineInit
  BY DEF Init
<1>. QED BY <1>1, RoutineHalf, ControllerTypeCorrect, PTL DEF Spec, RoutineSpec

\* No entry is left to fire when the resource is not held.
LEMMA NothingFires ==
  ASSUME ScheduleInv, ~Held(api)
  PROVE  ~Fire
<1>1. backupSchedule = NoTask
  BY DEF ScheduleInv, TaskImpliesHeld
<1>. QED BY <1>1 DEF ScheduleInv, OneEntryPerTask, Entry, Fire

\* One retry for a command that fails, and nothing else, may start.
RetryOfCommand(q) ==
  /\ routine'[q].kind = "retry"
  /\ \E c \in Routine : /\ routine[c].kind = "command" /\ At(c, "fail")
                        /\ routine'[c].pc = "done"

\* Cancelling wakes no goroutine.
LEMMA CancelStartsNothing ==
  ASSUME NEW ps, CancelBackupRoutines(ps), RoutineTypeOK, NEW q \in Routine, At(q, "idle")
  PROVE  routine'[q].pc = "idle"
  BY DEF CancelBackupRoutines, RoutineTypeOK, RoutineState, At

LEMMA ProgressStartsRetries ==
  ASSUME RoutineTypeOK, NEW r \in Routine, RoutineProgress(r) \/ FailStatusWritten(r),
         NEW q \in Routine, At(q, "idle"), routine'[q].pc # "idle"
  PROVE  RetryOfCommand(q)
<1>1. routine = [x \in Routine |-> routine[x]]
  BY DEF RoutineTypeOK
<1>2. CASE FailStatusRefused(r)
  <2>1. CASE routine[r].kind = "retry"
    BY <1>1, <1>2, <2>1 DEF FailStatusRefused, Goto, At, RoutineTypeOK, RoutineState
  <2>2. CASE routine[r].kind # "retry"
    <3>1. PICK n \in Routine :
            /\ At(n, "idle")
            /\ routine' = [routine EXCEPT ![r].pc = "done", ![n] = NewRetry(routine[r].pod)]
      BY <1>2, <2>2 DEF FailStatusRefused
    <3>2. n # r /\ At(r, "fail") /\ routine[r].kind = "command"
      BY <1>2, <2>2, <3>1 DEF FailStatusRefused, At
    <3>3. q = n
      BY <1>1, <3>1, <3>2 DEF At
    <3>4. routine'[q] = NewRetry(routine[r].pod)
      BY <1>1, <3>1, <3>3
    <3>5. routine'[r].pc = "done"
      BY <1>1, <3>1, <3>2 DEF RoutineTypeOK, RoutineState
    <3>. QED BY <3>2, <3>4, <3>5 DEF NewRetry, Idle, RetryOfCommand
  <2>. QED BY <2>1, <2>2
<1>3. CASE Cleanup(r)
  BY <1>1, <1>3 DEF Cleanup, Idle, At
<1>4. CASE RetryTick(r)
  BY <1>1, <1>4 DEF RetryTick, At
<1>5. CASE \/ Prepare(r) \/ ExecCommand(r) \/ CompleteStatus(r) \/ FailStatusWritten(r)
           \/ RegisterRetry(r) \/ RetryStops(r)
  <2>1. ~At(r, "idle") /\ \E pc \in RoutinePC : Goto(r, pc)
    BY <1>5 DEF Prepare, ExecCommand, CompleteStatus, FailStatusWritten, RegisterRetry,
                RetryStops, At, RoutinePC
  <2>. QED BY <1>1, <2>1 DEF Goto, At
<1>. QED BY <1>2, <1>3, <1>4, <1>5 DEF RoutineProgress

\* Backups of a resource the operator no longer holds are not begun anew, with any
\* number of goroutines, pods and restarts.
THEOREM UnheldIsNotBackedUp == Spec => OnlyRetriesLeft
<1> DEFINE Quiet ==
      ~Held(api) /\ job.pc = "idle" =>
        /\ job'.pc = "idle"
        /\ \A q \in Routine : At(q, "idle") /\ routine'[q].pc # "idle" => RetryOfCommand(q)
<1>1. ASSUME TypeOK, ScheduleInv, [Next]_vars
      PROVE  [Quiet]_vars
  <2> SUFFICES ASSUME ~Held(api), job.pc = "idle", Next
               PROVE  /\ job'.pc = "idle"
                      /\ \A q \in Routine :
                           At(q, "idle") /\ routine'[q].pc # "idle" => RetryOfCommand(q)
    BY <1>1
  <2>1. RoutineTypeOK /\ routine = [x \in Routine |-> routine[x]]
    BY <1>1 DEF TypeOK, RoutineTypeOK
  <2>2. CASE ScheduleStep
    BY <2>2 DEF ScheduleStep, routineVars, At
  <2>3. CASE CancelOnDeletion
    BY <2>1, <2>3, CancelStartsNothing DEF CancelOnDeletion
  <2>4. ~Fire /\ ~JobStep
    BY <1>1, NothingFires DEF JobStep, JobGet, JobCancel, JobTrigger
  <2>5. ASSUME NEW r \in Routine, GoroutineStep(r)
        PROVE  /\ job' = job
               /\ RoutineProgress(r) \/ FailStatusWritten(r)
    BY <2>5 DEF GoroutineStep, RoutineProgress
  <2>6. CASE Deadline
    <3>1. job' = job
      BY <2>6 DEF Deadline
    <3>2. \A q \in Routine : routine'[q].pc = routine[q].pc
      BY <2>1, <2>6 DEF Deadline, RetryTimeout, RoutineTypeOK, RoutineState
    <3>. QED BY <3>1, <3>2 DEF At
  <2>7. CASE Restart
    BY <2>7 DEF Restart, RestartRoutines, IdleJob, Idle
  <2>. QED BY <2>1, <2>2, <2>3, <2>4, <2>5, <2>6, <2>7, ProgressStartsRetries DEF Next
<1>2. Spec => []ScheduleInv
  BY ControllerIsSchedule, ScheduleInvariant, PTL
<1>3. [][Quiet]_vars => OnlyRetriesLeft
  BY PTL DEF OnlyRetriesLeft, RetryOfCommand
<1>. QED BY <1>1, <1>2, <1>3, ControllerTypeCorrect, PTL DEF Spec

\* What is proved of the halves, of the controller as a whole.
THEOREM ControllerSafe ==
  Spec => /\ []ScheduleInv /\ []HandlesAreLive /\ []RetryBudget
          /\ ImplementsGuard /\ StaysInForce
  BY ControllerIsSchedule, ControllerIsRoutine, ScheduleInvariant,
     ScheduleImplementsGuard, InstalledScheduleStays, HandlesInvariant,
     BudgetInvariant, PTL
=============================================================================
