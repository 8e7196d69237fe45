---------------------------- MODULE BackupRoutine ----------------------------
(***************************************************************************)
(* The goroutines that run backups for one BackupDB resource, and the two  *)
(* maps by which others cancel them                                        *)
(* (internal/controller/backupdb_controller.go).  A command goroutine runs *)
(* sendCommandToPod once; a retry goroutine runs it every ten seconds, at  *)
(* most MaxAttempts times or until its ten-minute context expires.         *)
(*                                                                         *)
(* commandCancel[p] and retryCancel[p] name the goroutine whose context    *)
(* the cancel function stored for pod p ends.  A goroutine deletes the     *)
(* entry of its pod when it ends, whichever goroutine the entry belongs to *)
(* by then.  A cancelled context does not interrupt the command in the     *)
(* pod: executeCommand streams with context.Background(), and the reads    *)
(* go to the cache; only the status write fails.                           *)
(*                                                                         *)
(* The callers - the cron job, the deletion of the resource - are free     *)
(* here: RoutineNext lets them call at any time for any pod.               *)
(***************************************************************************)
EXTENDS Integers, FiniteSets

CONSTANTS
  Routine,       \* goroutines that can be alive at a time
  Target,        \* pods backups run in
  None,          \* no goroutine, no pod
  MaxAttempts    \* maxAttempts of scheduleCommandRetry

ASSUME NoneAssumption == None \notin Routine \cup Target

ASSUME AttemptsAssumption == MaxAttempts \in Nat \ {0}

VARIABLES
  routine,       \* the goroutines
  commandCancel, \* r.backupCommandCancel
  retryCancel    \* r.backupRetryCancel

routineVars == <<routine, commandCancel, retryCancel>>

-----------------------------------------------------------------------------

\* prepare  reads the pod, its state and the storage path
\* exec     the backup command runs in the pod
\* complete writes the status Completed, fail writes Failed
\* done     the deferred clean-up is next
\* register a new retry goroutine is about to store its cancel function
\* wait     a retry goroutine selects between its ticker and its context
RoutinePC == {"idle", "prepare", "exec", "complete", "fail", "done", "register", "wait"}

RoutineState == [pc : RoutinePC, kind : {"none", "command", "retry"},
                 pod : Target \cup {None}, cancelled : BOOLEAN, attempts : Nat]

Idle == [pc |-> "idle", kind |-> "none", pod |-> None, cancelled |-> FALSE,
         attempts |-> 0]

NewCommand(p) == [Idle EXCEPT !.pc = "prepare", !.kind = "command", !.pod = p]

MutantNewRetry(p) == [Idle EXCEPT !.pc = "register", !.kind = "command", !.pod = p]

NewRetry(p) == [Idle EXCEPT !.pc = "register", !.kind = "retry", !.pod = p]

At(r, pc) == routine[r].pc = pc

Goto(r, pc) == routine' = [routine EXCEPT ![r].pc = pc]

\* The one that is started next: idle ones differ in nothing but their name.
Fresh == CHOOSE r \in Routine : At(r, "idle")

\* Idle goroutines and no others have no kind and no pod, and only a retry ever
\* registers, waits and counts attempts.
Shape(g) ==
  /\ g.pc = "idle" <=> g.kind = "none"
  /\ g.pc # "idle" => g.pod \in Target
  /\ g.pc \in {"register", "wait"} => g.kind = "retry"
  /\ g.pc = "register" => g.attempts = 0

RoutineTypeOK ==
  /\ routine \in [Routine -> RoutineState]
  /\ \A r \in Routine : Shape(routine[r])
  /\ commandCancel \in [Target -> Routine \cup {None}]
  /\ retryCancel \in [Target -> Routine \cup {None}]

RoutineInit ==
  /\ routine = [r \in Routine |-> Idle]
  /\ commandCancel = [p \in Target |-> None]
  /\ retryCancel = [p \in Target |-> None]

-----------------------------------------------------------------------------
(* Called by the cron job and by the deletion, under the mutex.            *)

\* Both contexts of each pod are cancelled and both entries deleted.
CancelBackupRoutines(pods) ==
  LET hit == {commandCancel[p] : p \in pods} \cup {retryCancel[p] : p \in pods} IN
  /\ routine' = [r \in Routine |->
       IF r \in hit THEN [routine[r] EXCEPT !.cancelled = TRUE] ELSE routine[r]]
  /\ commandCancel' = [p \in Target |-> IF p \in pods THEN None ELSE commandCancel[p]]
  /\ retryCancel' = [p \in Target |-> IF p \in pods THEN None ELSE retryCancel[p]]

\* The bound on concurrency: a goroutine is left for the retry of each command.
Room ==
  Cardinality({r \in Routine : At(r, "idle")})
    > Cardinality({r \in Routine : routine[r].kind = "command"}) + 1

\* The cancel function is stored and the goroutine started.
TriggerBackupCommand(p) ==
  \E r \in Routine :
    /\ At(r, "idle") /\ r = Fresh
    /\ Room
    /\ routine' = [routine EXCEPT ![r] = NewCommand(p)]
    /\ commandCancel' = [commandCancel EXCEPT ![p] = r]
    /\ UNCHANGED retryCancel

-----------------------------------------------------------------------------
(* sendCommandToPod, in a command or a retry goroutine.                    *)

\* getPod, checkPodState and getMountPathFromCubriddb all succeed, or one fails.
Prepare(r) ==
  /\ At(r, "prepare")
  /\ Goto(r, "exec") \/ Goto(r, "fail")
  /\ UNCHANGED <<commandCancel, retryCancel>>

ExecCommand(r) ==
  /\ At(r, "exec")
  /\ Goto(r, "complete") \/ Goto(r, "fail")
  /\ UNCHANGED <<commandCancel, retryCancel>>

MutantCompleteStatus(r) ==
  /\ At(r, "complete")
  /\ ~routine[r].cancelled
  /\ Goto(r, "done")
  /\ UNCHANGED <<commandCancel, retryCancel>>

\* The command succeeded: nil is returned whether or not the status is written.
CompleteStatus(r) ==
  /\ At(r, "complete")
  /\ Goto(r, "done")
  /\ UNCHANGED <<commandCancel, retryCancel>>

\* failStatus wrote the status Failed and so returns nil as well.
FailStatusWritten(r) ==
  /\ At(r, "fail")
  /\ ~routine[r].cancelled
  /\ Goto(r, "done")
  /\ UNCHANGED <<commandCancel, retryCancel>>

MutantRetriesLeft(r) == routine[r].attempts <= MaxAttempts

RetriesLeft(r) == routine[r].attempts < MaxAttempts

\* failStatus could not write the status: the only error there is. A command
\* starts a retry goroutine, a retry goes on until its attempts are used up.
FailStatusRefused(r) ==
  /\ At(r, "fail")
  /\ \/ /\ routine[r].kind = "command"
        /\ \E q \in Routine :
             /\ At(q, "idle") /\ q = Fresh
             /\ routine' = [routine EXCEPT ![r].pc = "done",
                                           ![q] = NewRetry(routine[r].pod)]
     \/ /\ routine[r].kind = "retry"
        /\ Goto(r, IF RetriesLeft(r) THEN "wait" ELSE "done")
  /\ UNCHANGED <<commandCancel, retryCancel>>

-----------------------------------------------------------------------------
(* scheduleCommandRetry.                                                   *)

\* The map is written without the mutex.
RegisterRetry(r) ==
  /\ At(r, "register")
  /\ Goto(r, "wait")
  /\ retryCancel' = [retryCancel EXCEPT ![routine[r].pod] = r]
  /\ UNCHANGED commandCancel

\* The select may take the ticker even when the context is done.
RetryTick(r) ==
  /\ At(r, "wait")
  /\ routine' = [routine EXCEPT ![r].pc = "prepare", ![r].attempts = @ + 1]
  /\ UNCHANGED <<commandCancel, retryCancel>>

RetryStops(r) ==
  /\ At(r, "wait")
  /\ routine[r].cancelled
  /\ Goto(r, "done")
  /\ UNCHANGED <<commandCancel, retryCancel>>

\* The deadline of the retry's context passes, while it still matters.
RetryTimeout(r) ==
  /\ routine[r].kind = "retry"
  /\ routine[r].pc \notin {"register", "done"}
  /\ ~routine[r].cancelled
  /\ routine' = [routine EXCEPT ![r].cancelled = TRUE]
  /\ UNCHANGED <<commandCancel, retryCancel>>

MutantCleanup(r) ==
  /\ At(r, "done")
  /\ routine' = [routine EXCEPT ![r] = Idle]
  /\ UNCHANGED <<commandCancel, retryCancel>>

\* The deferred clean-up, by pod: cleanupPodCommandCancelFunc for a command, an
\* unlocked delete for a retry.
Cleanup(r) ==
  LET p == routine[r].pod IN
  /\ At(r, "done")
  /\ \/ /\ routine[r].kind = "command"
        /\ commandCancel' = [commandCancel EXCEPT ![p] = None]
        /\ UNCHANGED retryCancel
     \/ /\ routine[r].kind = "retry"
        /\ retryCancel' = [retryCancel EXCEPT ![p] = None]
        /\ UNCHANGED commandCancel
  /\ routine' = [routine EXCEPT ![r] = Idle]

\* The operator's process ends, and with it every goroutine and both maps.
RestartRoutines ==
  /\ routine' = [r \in Routine |-> Idle]
  /\ commandCancel' = [p \in Target |-> None]
  /\ retryCancel' = [p \in Target |-> None]

-----------------------------------------------------------------------------

\* What a goroutine does on its own, but for the one step that needs the API
\* server to accept a write.
RoutineProgress(r) ==
  \/ Prepare(r) \/ ExecCommand(r) \/ CompleteStatus(r) \/ FailStatusRefused(r)
  \/ RegisterRetry(r) \/ RetryTick(r) \/ RetryStops(r) \/ Cleanup(r)

RoutineStep(r) == RoutineProgress(r) \/ FailStatusWritten(r)

RoutineNext ==
  \/ \E pods \in SUBSET Target : CancelBackupRoutines(pods)
  \/ \E p \in Target : TriggerBackupCommand(p)
  \/ \E r \in Routine : RoutineStep(r) \/ RetryTimeout(r)
  \/ RestartRoutines

RoutineSpec == RoutineInit /\ [][RoutineNext]_routineVars

-----------------------------------------------------------------------------
(* Properties.                                                             *)

\* A cancel function in a map is that of a live goroutine of its pod and kind,
\* and a command's has not been used: entries are deleted where they are used
\* and where their goroutine ends, so the maps never grow beyond the pods nor
\* hand out a function that cancels nothing (cancelBackupRoutines,
\* cleanupPodCommandCancelFunc).
HandlesAreLive ==
  \A p \in Target :
    /\ commandCancel[p] # None =>
         LET g == routine[commandCancel[p]] IN
         g.kind = "command" /\ g.pod = p /\ ~g.cancelled
    /\ retryCancel[p] # None =>
         LET g == routine[retryCancel[p]] IN
         g.kind = "retry" /\ g.pod = p /\ g.pc # "register"

\* A retry goroutine never sends the command more than MaxAttempts times, and
\* waits for another turn only while it has one left.
RetryBudget ==
  \A r \in Routine :
    /\ routine[r].attempts <= MaxAttempts
    /\ At(r, "wait") => routine[r].attempts < MaxAttempts

\* "Schedule a retry if the command fails": a command goroutine that ends an
\* attempt in failure leaves a new retry goroutine behind.
RetryAfterFailure ==
  [][\A r \in Routine :
       routine[r].kind = "command" /\ At(r, "fail") /\ routine'[r].pc = "done" =>
         \E q \in Routine : At(q, "idle") /\ routine'[q].kind = "retry"]_routineVars
=============================================================================
