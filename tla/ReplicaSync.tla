---------------------------- MODULE ReplicaSync ----------------------------
(***************************************************************************)
(* How the CubridDB controller keeps two numbers equal that both have      *)
(* users: spec.replication.replicas of a CubridDB, edited there, and       *)
(* spec.replicas of its StatefulSet, changed by kubectl scale              *)
(* (pkg/manager/statefulset_manager.go, syncReplicas).  An annotation on   *)
(* the StatefulSet remembers the number a Reconcile saw there last; by it  *)
(* the next one tells which of the two sides has moved.                    *)
(*                                                                         *)
(* A Reconcile gets the CubridDB from the answer to its defaulting patch,  *)
(* so its copy is current when it starts; the StatefulSet it gets from an  *)
(* informer cache that lags.  The cache gets every stored version, one    *)
(* after the other; only the keys in the work queue coalesce.  The         *)
(* CubridDB is written with optimistic concurrency, the StatefulSet by     *)
(* merge patches that nothing refuses.                                     *)
(***************************************************************************)
EXTENDS Integers, Sequences

CONSTANTS
  Size,       \* the numbers of replicas users may ask for
  Valid,      \* those validateReplicasChange lets pass
  NoSize,     \* no StatefulSet, no annotation
  MaxEdits,   \* bound on the users' edits
  MaxLag      \* bound on the versions of the StatefulSet on their way

ASSUME SizeAssumption == Valid \subseteq Size /\ NoSize \notin Size

ASSUME EditsAssumption == MaxEdits \in Nat

ASSUME LagAssumption == MaxLag \in Nat \ {0}

VARIABLES
  cr,         \* spec.replication.replicas of the CubridDB, at the API server
  sts,        \* the StatefulSet at the API server: its replicas, its annotation
  stsCache,   \* the operator's cached copy of it
  crEvent,    \* a watch event of the CubridDB is on its way
  stsEvents,  \* the versions of it stored since, the next to arrive first
  queued,     \* the key waits in the work queue
  rec,        \* the Reconcile call in progress
  healthy,    \* from now on no call fails and the operator does not restart
  edits,      \* how many edits users have made,
  lastEdit,   \* the number the last of them asked for,
  hurried     \* and whether an edit was made before the one before it settled

observed == <<cr, sts, stsCache, crEvent, stsEvents, queued, rec, healthy>>
history  == <<edits, lastEdit, hurried>>
vars     == <<observed, history>>

-----------------------------------------------------------------------------

STS == [replicas : Size \cup {NoSize}, last : Size \cup {NoSize}]

NoSTS == [replicas |-> NoSize, last |-> NoSize]

\* des, cur are desiredReplicas and currentReplicas, ann is the annotation of
\* the copy of the StatefulSet in hand; fresh, that nobody wrote the CubridDB
\* since it was read.
Rec == [pc : {"idle", "default", "get", "updateCR", "patchSTS", "annotate"},
        des : Size \cup {NoSize}, cur : Size \cup {NoSize},
        ann : Size \cup {NoSize}, fresh : BOOLEAN]

IdleRec == [pc |-> "idle", des |-> NoSize, cur |-> NoSize, ann |-> NoSize,
            fresh |-> FALSE]

\* A number on its way into the CubridDB has been validated.
ReplicaTypeOK ==
  /\ cr \in Valid
  /\ sts \in STS /\ stsCache \in STS
  /\ stsEvents \in Seq(STS) /\ Len(stsEvents) <= MaxLag
  /\ crEvent \in BOOLEAN /\ queued \in BOOLEAN
  /\ rec \in Rec
  /\ rec.pc = "updateCR" => rec.cur \in Valid
  /\ healthy \in BOOLEAN
  /\ edits \in 0..MaxEdits
  /\ lastEdit \in Size
  /\ hurried \in BOOLEAN

Init ==
  /\ cr \in Valid
  /\ sts = NoSTS /\ stsCache = NoSTS
  /\ crEvent = TRUE /\ stsEvents = <<>> /\ queued = FALSE
  /\ rec = IdleRec
  /\ healthy = FALSE
  /\ edits = 0 /\ lastEdit = cr /\ hurried = FALSE

-----------------------------------------------------------------------------
(* Users, and the events that tell the operator.                           *)

\* Nothing is left to do: no event, no key, no Reconcile.
Quiet == ~crEvent /\ stsEvents = <<>> /\ ~queued /\ rec.pc = "idle"

Edited(n) ==
  /\ edits < MaxEdits
  /\ edits' = edits + 1
  /\ lastEdit' = n
  /\ hurried' = (hurried \/ ~Quiet)

MutantWriteSTS(s) == sts' = s /\ UNCHANGED stsEvents

\* The controller watches the StatefulSets it owns: it gets every new version.
WriteSTS(s) ==
  /\ sts' = s
  /\ \/ s = sts /\ UNCHANGED stsEvents
     \/ s # sts /\ Len(stsEvents) < MaxLag /\ stsEvents' = Append(stsEvents, s)

\* Admission lets only valid numbers into a CubridDB.
EditCR(n) ==
  /\ n # cr
  /\ Edited(n)
  /\ cr' = n
  /\ crEvent' = TRUE
  /\ rec' = [rec EXCEPT !.fresh = FALSE]
  /\ UNCHANGED <<sts, stsCache, stsEvents, queued, healthy>>

\* kubectl scale.
ScaleSTS(n) ==
  /\ sts # NoSTS
  /\ n # sts.replicas
  /\ Edited(n)
  /\ WriteSTS([sts EXCEPT !.replicas = n])
  /\ UNCHANGED <<cr, stsCache, crEvent, queued, rec, healthy>>

CREventArrives ==
  /\ crEvent
  /\ crEvent' = FALSE
  /\ queued' = TRUE
  /\ UNCHANGED <<cr, sts, stsCache, stsEvents, rec, healthy, history>>

\* The informer's store passes through the versions in the order of the writes.
STSEventArrives ==
  /\ stsEvents # <<>>
  /\ stsCache' = Head(stsEvents)
  /\ stsEvents' = Tail(stsEvents)
  /\ queued' = TRUE
  /\ UNCHANGED <<cr, sts, crEvent, rec, healthy, history>>

-----------------------------------------------------------------------------
(* Reconcile.                                                              *)

StartReconcile ==
  /\ rec.pc = "idle"
  /\ queued
  /\ queued' = FALSE
  /\ rec' = [IdleRec EXCEPT !.pc = "default"]
  /\ UNCHANGED <<cr, sts, stsCache, crEvent, stsEvents, healthy, history>>

MutantReturn(failed) == rec' = IdleRec /\ UNCHANGED queued

\* The call ends; with an error the key goes back into the queue.
Return(failed) ==
  /\ rec' = IdleRec
  /\ queued' = (queued \/ failed)

\* A call to the API server fails.
Fails ==
  /\ ~healthy
  /\ rec.pc # "idle"
  /\ Return(TRUE)
  /\ UNCHANGED <<cr, sts, stsCache, crEvent, stsEvents, healthy, history>>

\* A write is stored, but the call does not learn of it or fails afterwards.
LostAnswer == ~healthy /\ Return(TRUE)

\* setSpecDefaults: a patch whose answer is the current CubridDB.
GetCR ==
  /\ rec.pc = "default"
  /\ rec' = [rec EXCEPT !.pc = "get", !.des = cr, !.fresh = TRUE]
  /\ UNCHANGED <<cr, sts, stsCache, crEvent, stsEvents, queued, healthy, history>>

\* No StatefulSet in the cache: one is created, unless there is one by now.
CreateSTS ==
  /\ rec.pc = "get"
  /\ stsCache = NoSTS
  /\ sts = NoSTS
  /\ WriteSTS([replicas |-> rec.des, last |-> NoSize])
  /\ Return(FALSE)
  /\ UNCHANGED <<cr, stsCache, crEvent, healthy, history>>

\* The number a Reconcile saw last; without an annotation, the present one.
LastReplicas == IF stsCache.last = NoSize THEN stsCache.replicas ELSE stsCache.last

MutantScaledSide == LastReplicas # rec.des

\* Which side has moved since then.
ScaledSide == LastReplicas = rec.des

MutantValidSize(n) == TRUE

\* validateReplicasChange.
ValidSize(n) == n \in Valid

\* Which write is due; the number it would write is validated first.
SyncReplicas ==
  LET cur == stsCache.replicas
      Goto(pc) == rec' = [rec EXCEPT !.pc = pc, !.cur = cur, !.ann = stsCache.last]
  IN
  /\ rec.pc = "get"
  /\ stsCache # NoSTS
  /\ \/ cur = rec.des /\ Goto("annotate")
     \/ cur # rec.des /\ ScaledSide /\ ValidSize(cur) /\ Goto("updateCR")
     \/ cur # rec.des /\ ~ScaledSide /\ ValidSize(rec.des) /\ Goto("patchSTS")
  /\ UNCHANGED <<cr, sts, stsCache, crEvent, stsEvents, queued, healthy, history>>

\* The errors of the code itself: a StatefulSet the cache has not seen, a number
\* that is not valid, a conflict.
Refused ==
  /\ \/ rec.pc = "get" /\ stsCache = NoSTS /\ sts # NoSTS
     \/ /\ rec.pc = "get"
        /\ stsCache # NoSTS
        /\ stsCache.replicas # rec.des
        /\ ~ValidSize(IF ScaledSide THEN stsCache.replicas ELSE rec.des)
     \/ rec.pc = "updateCR" /\ ~rec.fresh
  /\ Return(TRUE)
  /\ UNCHANGED <<cr, sts, stsCache, crEvent, stsEvents, healthy, history>>

\* The CubridDB follows the StatefulSet, unless it was written since.
UpdateCR ==
  /\ rec.pc = "updateCR"
  /\ rec.fresh
  /\ cr' = rec.cur
  /\ crEvent' = TRUE
  /\ \/ rec' = [rec EXCEPT !.pc = "annotate"] /\ UNCHANGED queued
     \/ LostAnswer
  /\ UNCHANGED <<sts, stsCache, stsEvents, healthy, history>>

\* The StatefulSet follows the CubridDB; the answer is the current StatefulSet.
PatchSTS ==
  /\ rec.pc = "patchSTS"
  /\ WriteSTS([sts EXCEPT !.replicas = rec.des])
  /\ \/ rec' = [rec EXCEPT !.pc = "annotate", !.ann = sts.last] /\ UNCHANGED queued
     \/ LostAnswer
  /\ UNCHANGED <<cr, stsCache, crEvent, healthy, history>>

\* What the annotation is set to: the number seen, also when it was replaced.
Remembered == rec.cur

\* The patch is empty when the copy in hand has that annotation already.
PatchAnnotation ==
  /\ rec.pc = "annotate"
  /\ WriteSTS(IF rec.ann = Remembered THEN sts ELSE [sts EXCEPT !.last = Remembered])
  /\ UNCHANGED <<cr, stsCache, crEvent, healthy, history>>

\* The rest of Reconcile leaves both numbers alone, and may succeed or not.
Annotate == PatchAnnotation /\ Return(FALSE)

AnnotateThenFail == PatchAnnotation /\ LostAnswer

\* A new process lists both kinds and reconciles every CubridDB.
Restart ==
  /\ ~healthy
  /\ stsCache' = sts
  /\ crEvent' = FALSE /\ stsEvents' = <<>>
  /\ queued' = TRUE
  /\ rec' = IdleRec
  /\ UNCHANGED <<cr, sts, healthy, history>>

\* A Service of the CubridDB or the status of its StatefulSet changes, or the
\* informers resync. (A Pod is owned by the StatefulSet: it maps to no CubridDB.)
OtherEvent ==
  /\ ~queued
  /\ queued' = TRUE
  /\ UNCHANGED <<cr, sts, stsCache, crEvent, stsEvents, rec, healthy, history>>

\* The last fault is over.
Recover ==
  /\ ~healthy
  /\ healthy' = TRUE
  /\ UNCHANGED <<cr, sts, stsCache, crEvent, stsEvents, queued, rec, history>>

Reconcile ==
  \/ StartReconcile \/ GetCR \/ CreateSTS \/ SyncReplicas \/ Refused
  \/ UpdateCR \/ PatchSTS \/ Annotate

User ==
  \/ \E n \in Valid : EditCR(n)
  \/ \E n \in Size : ScaleSTS(n)

Next ==
  \/ User
  \/ CREventArrives \/ STSEventArrives \/ OtherEvent
  \/ Reconcile
  \/ AnnotateThenFail \/ Fails \/ Restart
  \/ Recover

Spec == Init /\ [][Next]_vars

\* Events arrive, the worker runs, and faults come to an end.
Fairness ==
  /\ WF_vars(CREventArrives) /\ WF_vars(STSEventArrives)
  /\ WF_vars(Reconcile)
  /\ WF_vars(Recover)

FairSpec == Spec /\ Fairness

-----------------------------------------------------------------------------
(* Properties.                                                             *)

Agreed == sts.replicas = cr /\ sts.last = cr

\* No wake-up is lost: when the operator has nothing left to do, both numbers
\* and the annotation are the same, whatever was stale, refused or repeated.
QuietIsAgreed == Quiet => Agreed

\* Users who let one edit settle before the next always get the number they
\* asked for last, on whichever side they asked for it (syncReplicas).
LastEditWins == Quiet /\ ~hurried => cr = lastEdit /\ sts.replicas = lastEdit

\* The operator is between two Reconciles and has the newest StatefulSet.
CaughtUp == rec.pc = "idle" /\ stsEvents = <<>>

\* Once users stop and faults end, with the StatefulSet left at a valid number,
\* the two numbers become equal and stay so, whatever edits, scalings, stale reads
\* and faults came before: at any lag of the cache, if users let each edit settle,
\* and after hurried edits, if the cache catches up between two Reconciles again
\* and again. (One that stays behind for ever may leave them exchanging two numbers.)
ReplicasConverge ==
  <>[](sts.replicas \in Valid) /\ []<>(~hurried \/ CaughtUp) => <>[]Agreed
=============================================================================
