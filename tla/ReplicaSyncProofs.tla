-------------------------- MODULE ReplicaSyncProofs --------------------------
(***************************************************************************)
(* Proofs about ReplicaSync: its types, that no wake-up is lost, that the  *)
(* edit made last counts, and that what has settled stays.                 *)
(*                                                                         *)
(* QuietIsAgreed is not inductive: it speaks of the moment a Reconcile     *)
(* ends, and that it may end depends on what it read at its start.  NoNews *)
(* carries this through the call: as long as no event is on its way and    *)
(* the key is not queued again, what the call read is still true, so a     *)
(* call that has changed nothing has found nothing to change.              *)
(*                                                                         *)
(* LastEditWins needs to know what the annotation tells at every moment.   *)
(* There are two: EditTakesEffect, from an edit of the CubridDB on, and    *)
(* ScalingTakesEffect, from a scaling until the CubridDB has followed it.  *)
(* What the cache holds, and every version it is still to get, must fit    *)
(* the one that is true: any of them may be read next.                     *)
(***************************************************************************)
EXTENDS ReplicaSync, TLAPS

\* The version stored last arrives last.
CacheIsCurrent ==
  IF stsEvents = <<>> THEN stsCache = sts ELSE stsEvents[Len(stsEvents)] = sts

EventsType == stsEvents \in Seq(STS) /\ Len(stsEvents) <= MaxLag

\* What the cache holds and will hold.
Versions == {stsCache} \cup {stsEvents[i] : i \in 1..Len(stsEvents)}

ReadIsCurrent ==
  rec.pc \in {"get", "updateCR", "patchSTS", "annotate"} /\ ~crEvent /\ ~queued
    => rec.des = cr

WriteIsDue ==
  rec.pc \in {"updateCR", "patchSTS"} /\ stsEvents = <<>> /\ ~queued
    => rec.cur = sts.replicas /\ rec.cur # rec.des

NothingWritten ==
  rec.pc = "annotate" /\ ~crEvent /\ stsEvents = <<>> /\ ~queued
    => rec.cur = rec.des /\ rec.cur = sts.replicas /\ rec.ann = sts.last

NoNews == CacheIsCurrent /\ ReadIsCurrent /\ WriteIsDue /\ NothingWritten

-----------------------------------------------------------------------------
(* Types.                                                                  *)

LEMMA NoSTSType == NoSTS \in STS
BY DEF NoSTS, STS

LEMMA IdleRecType == IdleRec \in Rec /\ IdleRec.pc = "idle"
BY DEF IdleRec, Rec

LEMMA NoEventsType == <<>> \in Seq(STS) /\ Len(<<>>) <= MaxLag
BY LagAssumption

LEMMA TypeInit == Init => ReplicaTypeOK
<1> SUFFICES ASSUME Init PROVE ReplicaTypeOK
  OBVIOUS
<1>1. edits \in 0..MaxEdits /\ lastEdit \in Size /\ cr \in Valid
  BY SizeAssumption, EditsAssumption DEF Init
<1>2. sts \in STS /\ stsCache \in STS /\ rec \in Rec /\ rec.pc = "idle"
  BY NoSTSType, IdleRecType DEF Init
<1>. QED BY <1>1, <1>2, NoEventsType DEF Init, ReplicaTypeOK

\* What an edit and a write keep.
LEMMA EditedType ==
  ASSUME ReplicaTypeOK, NEW n \in Size, Edited(n)
  PROVE  edits' \in 0..MaxEdits /\ lastEdit' \in Size /\ hurried' \in BOOLEAN
BY EditsAssumption DEF ReplicaTypeOK, Edited

LEMMA WriteType ==
  ASSUME ReplicaTypeOK, NEW s \in STS, WriteSTS(s)
  PROVE  sts' \in STS /\ EventsType'
BY LagAssumption DEF ReplicaTypeOK, WriteSTS, EventsType

LEMMA ReturnType ==
  ASSUME ReplicaTypeOK, NEW failed \in BOOLEAN, Return(failed)
  PROVE  rec' \in Rec /\ rec'.pc = "idle" /\ queued' \in BOOLEAN
BY IdleRecType DEF ReplicaTypeOK, Return

LEMMA TypeStep == ReplicaTypeOK /\ [Next]_vars => ReplicaTypeOK'
<1> SUFFICES ASSUME ReplicaTypeOK, [Next]_vars PROVE ReplicaTypeOK'
  OBVIOUS
<1> USE SizeAssumption, EditsAssumption DEF ReplicaTypeOK
<1>1. ASSUME NEW n \in Valid, EditCR(n) PROVE ReplicaTypeOK'
  <2>1. rec' \in Rec /\ rec'.pc = rec.pc /\ rec'.cur = rec.cur
    BY <1>1 DEF EditCR, Rec
  <2>2. Edited(n) /\ n \in Size
    BY <1>1 DEF EditCR
  <2>. QED BY <1>1, <2>1, <2>2, EditedType DEF EditCR
<1>2. ASSUME NEW n \in Size, ScaleSTS(n) PROVE ReplicaTypeOK'
  <2>1. [sts EXCEPT !.replicas = n] \in STS
    BY DEF STS
  <2>2. Edited(n) /\ WriteSTS([sts EXCEPT !.replicas = n])
    BY <1>2 DEF ScaleSTS
  <2>3. sts' \in STS /\ EventsType'
    BY <2>1, <2>2, WriteType
  <2>. QED BY <1>2, <2>2, <2>3, EditedType DEF ScaleSTS, EventsType
<1>3. CASE CREventArrives
  BY <1>3 DEF CREventArrives, history
<1>4. CASE STSEventArrives
  <2>1. Head(stsEvents) \in STS /\ EventsType'
    BY <1>4, LagAssumption DEF STSEventArrives, EventsType
  <2>. QED BY <1>4, <2>1 DEF STSEventArrives, EventsType, history
<1>5. CASE OtherEvent
  BY <1>5 DEF OtherEvent, history
<1>6. CASE Recover
  BY <1>6 DEF Recover, history
<1>7. CASE Restart
  BY <1>7, IdleRecType, NoEventsType DEF Restart, history
<1>8. CASE StartReconcile
  <2>1. rec' \in Rec /\ rec'.pc = "default"
    BY <1>8, IdleRecType DEF StartReconcile, Rec
  <2>. QED BY <1>8, <2>1 DEF StartReconcile, history
<1>9. CASE GetCR
  <2>1. rec' \in Rec /\ rec'.pc = "get"
    BY <1>9 DEF GetCR, Rec
  <2>. QED BY <1>9, <2>1 DEF GetCR, history
<1>10. CASE Fails \/ Refused
  <2>1. Return(TRUE)
    BY <1>10 DEF Fails, Refused
  <2>. QED BY <1>10, <2>1, ReturnType DEF Fails, Refused, history
<1>11. CASE CreateSTS
  <2>1. [replicas |-> rec.des, last |-> NoSize] \in STS
    BY DEF STS, Rec
  <2>2. sts' \in STS /\ EventsType'
    BY <1>11, <2>1, WriteType DEF CreateSTS
  <2>. QED BY <1>11, <2>2, ReturnType DEF CreateSTS, EventsType, history
<1>12. CASE SyncReplicas
  <2>1. rec' \in Rec /\ (rec'.pc = "updateCR" => rec'.cur \in Valid)
    BY <1>12 DEF SyncReplicas, ValidSize, Rec, STS
  <2>. QED BY <1>12, <2>1 DEF SyncReplicas, history
<1>13. CASE UpdateCR
  <2>1. /\ rec' \in Rec /\ rec'.pc \in {"idle", "annotate"}
        /\ queued' \in BOOLEAN
    <3>1. CASE LostAnswer
      BY <3>1, ReturnType DEF LostAnswer
    <3>2. CASE rec' = [rec EXCEPT !.pc = "annotate"] /\ UNCHANGED queued
      BY <3>2 DEF Rec
    <3>. QED BY <1>13, <3>1, <3>2 DEF UpdateCR
  <2>2. cr' \in Valid
    BY <1>13 DEF UpdateCR
  <2>. QED BY <1>13, <2>1, <2>2 DEF UpdateCR, history
<1>14. CASE PatchSTS
  <2>1. [sts EXCEPT !.replicas = rec.des] \in STS
    BY DEF STS, Rec
  <2>2. sts' \in STS /\ EventsType'
    BY <1>14, <2>1, WriteType DEF PatchSTS
  <2>3. /\ rec' \in Rec /\ rec'.pc \in {"idle", "annotate"}
        /\ queued' \in BOOLEAN
    <3>1. CASE LostAnswer
      BY <3>1, ReturnType DEF LostAnswer
    <3>2. CASE /\ rec' = [rec EXCEPT !.pc = "annotate", !.ann = sts.last]
               /\ UNCHANGED queued
      BY <3>2 DEF Rec, STS
    <3>. QED BY <1>14, <3>1, <3>2 DEF PatchSTS
  <2>. QED BY <1>14, <2>2, <2>3 DEF PatchSTS, EventsType, history
<1>15. CASE PatchAnnotation /\ (Return(FALSE) \/ LostAnswer)
  <2>1. (IF rec.ann = Remembered THEN sts ELSE [sts EXCEPT !.last = Remembered])
          \in STS
    BY DEF Remembered, STS, Rec
  <2>2. sts' \in STS /\ EventsType'
    BY <1>15, <2>1, WriteType DEF PatchAnnotation
  <2>. QED
    BY <1>15, <2>2, ReturnType DEF PatchAnnotation, LostAnswer, EventsType, history
<1>16. CASE UNCHANGED vars
  BY <1>16 DEF vars, observed, history
<1>. QED
  BY <1>1, <1>2, <1>3, <1>4, <1>5, <1>6, <1>7, <1>8, <1>9, <1>10, <1>11, <1>12,
     <1>13, <1>14, <1>15, <1>16
     DEF Next, User, Reconcile, Annotate, AnnotateThenFail

\* The operator keeps its copies and the API server's objects well-formed, and
\* no number that fails validation ever reaches the CubridDB.
THEOREM ReplicaTypeCorrect == Spec => []ReplicaTypeOK
  BY TypeInit, TypeStep, PTL DEF Spec

-----------------------------------------------------------------------------
(* No wake-up is lost.                                                     *)

\* The cache moves on through versions it was to get, or to the newest one; what
\* is added to them is the version just stored.
LEMMA VersionsStep ==
  ASSUME ReplicaTypeOK, CacheIsCurrent, [Next]_vars
  PROVE  /\ CacheIsCurrent'
         /\ Versions' \subseteq Versions \cup {sts, sts'}
         /\ stsCache' \in Versions \cup {sts}
         /\ sts' # sts => stsEvents' # <<>>
<1> USE DEF CacheIsCurrent, Versions
<1>1. sts' \in STS
  BY TypeStep DEF ReplicaTypeOK
<1>2. stsEvents \in Seq(STS)
  BY DEF ReplicaTypeOK
<1>3. CASE UNCHANGED <<sts, stsCache, stsEvents>>
  BY <1>3
<1>4. CASE Restart
  BY <1>4 DEF Restart
<1>5. CASE STSEventArrives
  <2>1. /\ stsEvents # <<>> /\ stsCache' = stsEvents[1] /\ sts' = sts
        /\ stsEvents' \in Seq(STS) /\ Len(stsEvents') = Len(stsEvents) - 1
        /\ \A i \in 1..Len(stsEvents') : stsEvents'[i] = stsEvents[i + 1]
    BY <1>2, <1>5 DEF STSEventArrives
  <2>2. Len(stsEvents) \in Nat \ {0}
    BY <1>2, <2>1
  <2>3. CASE stsEvents' = <<>>
    <3>1. Len(stsEvents) = 1
      BY <2>1, <2>2, <2>3
    <3>. QED BY <2>1, <2>3, <3>1
  <2>4. CASE stsEvents' # <<>>
    <3>1. Len(stsEvents') \in Nat \ {0}
      BY <2>1, <2>4
    <3>2. CacheIsCurrent'
      BY <2>1, <2>2, <2>4, <3>1
    <3>3. \A i \in 1..Len(stsEvents') : stsEvents'[i] \in Versions
      BY <2>1, <2>2, <3>1
    <3>. QED BY <2>1, <2>2, <2>4, <3>2, <3>3
  <2>. QED BY <2>3, <2>4
<1>6. CASE stsCache' = stsCache /\ sts' # sts /\ stsEvents' = Append(stsEvents, sts')
  <2>1. /\ stsEvents' # <<>> /\ Len(stsEvents') = Len(stsEvents) + 1
        /\ stsEvents'[Len(stsEvents')] = sts'
        /\ \A i \in 1..Len(stsEvents) : stsEvents'[i] = stsEvents[i]
    BY <1>1, <1>2, <1>6
  <2>2. \A i \in 1..Len(stsEvents') : stsEvents'[i] \in Versions \cup {sts'}
    BY <1>2, <2>1
  <2>. QED BY <1>6, <2>1, <2>2
<1>. QED
  BY <1>3, <1>4, <1>5, <1>6
     DEF Next, User, Reconcile, EditCR, ScaleSTS, CREventArrives, OtherEvent, Recover,
         StartReconcile, GetCR, CreateSTS, SyncReplicas, Refused, UpdateCR, PatchSTS,
         Annotate, AnnotateThenFail, PatchAnnotation, WriteSTS, Fails, vars, observed

QuietInv == NoNews /\ QuietIsAgreed

LEMMA QuietInit == Init => QuietInv
BY DEF Init, QuietInv, NoNews, CacheIsCurrent, ReadIsCurrent, WriteIsDue,
       NothingWritten, QuietIsAgreed, Quiet, IdleRec

LEMMA QuietStep == ReplicaTypeOK /\ QuietInv /\ [Next]_vars => QuietInv'
<1> SUFFICES ASSUME ReplicaTypeOK, QuietInv, [Next]_vars PROVE QuietInv'
  OBVIOUS
<1>a. CacheIsCurrent' /\ (sts' # sts => stsEvents' # <<>>)
  BY VersionsStep DEF QuietInv, NoNews
<1>b. stsEvents = <<>> => stsCache = sts
  BY DEF QuietInv, NoNews, CacheIsCurrent
<1> USE <1>a, <1>b DEF QuietInv, NoNews, ReadIsCurrent, WriteIsDue, NothingWritten,
                       QuietIsAgreed, Quiet, Agreed
<1>1. ASSUME NEW n \in Valid, EditCR(n) PROVE QuietInv'
  BY <1>1 DEF EditCR, ReplicaTypeOK, Rec
<1>2. ASSUME NEW n \in Size, ScaleSTS(n) PROVE QuietInv'
  <2>1. [sts EXCEPT !.replicas = n] # sts
    BY <1>2 DEF ScaleSTS, ReplicaTypeOK, STS
  <2>. QED BY <1>2, <2>1 DEF ScaleSTS, WriteSTS
<1>3. CASE CREventArrives
  BY <1>3 DEF CREventArrives
<1>4. CASE STSEventArrives
  BY <1>4 DEF STSEventArrives
<1>5. CASE OtherEvent
  BY <1>5 DEF OtherEvent
<1>6. CASE Recover
  BY <1>6 DEF Recover
<1>7. CASE Restart
  BY <1>7 DEF Restart, IdleRec
<1>8. CASE StartReconcile
  BY <1>8 DEF StartReconcile, IdleRec
<1>9. CASE GetCR
  BY <1>9 DEF GetCR, ReplicaTypeOK, Rec
<1>10. CASE Fails \/ Refused
  BY <1>10 DEF Fails, Refused, Return, IdleRec
<1>11. CASE CreateSTS
  <2>1. CASE queued \/ crEvent
    BY <1>11, <2>1 DEF CreateSTS, WriteSTS, Return, IdleRec
  <2>2. CASE ~queued /\ ~crEvent
    <3>1. rec.des \in Size
      BY <1>11, <2>2, SizeAssumption DEF CreateSTS, ReplicaTypeOK
    <3>2. [replicas |-> rec.des, last |-> NoSize] # NoSTS
      BY <3>1, SizeAssumption DEF NoSTS
    <3>3. stsEvents' # <<>>
      BY <1>11, <3>2 DEF CreateSTS, WriteSTS
    <3>. QED BY <1>11, <3>3 DEF CreateSTS, Return, IdleRec
  <2>. QED BY <2>1, <2>2
<1>12. CASE SyncReplicas
  BY <1>12 DEF SyncReplicas, ReplicaTypeOK, Rec
<1>13. CASE UpdateCR
  BY <1>13 DEF UpdateCR, LostAnswer, Return, IdleRec, ReplicaTypeOK, Rec
<1>14. CASE PatchSTS
  <2>1. CASE LostAnswer
    BY <1>14, <2>1 DEF PatchSTS, WriteSTS, LostAnswer, Return, IdleRec
  <2>2. CASE /\ rec' = [rec EXCEPT !.pc = "annotate", !.ann = sts.last]
             /\ UNCHANGED queued
    <3>1. stsEvents = <<>> /\ ~queued => [sts EXCEPT !.replicas = rec.des] # sts
      BY <1>14 DEF PatchSTS, ReplicaTypeOK, STS
    <3>2. stsEvents' # <<>> \/ queued'
      BY <1>14, <2>2, <3>1 DEF PatchSTS, WriteSTS
    <3>. QED BY <1>14, <2>2, <3>2 DEF PatchSTS, WriteSTS, ReplicaTypeOK, Rec
  <2>. QED BY <1>14, <2>1, <2>2 DEF PatchSTS
<1>15. CASE AnnotateThenFail
  BY <1>15 DEF AnnotateThenFail, PatchAnnotation, WriteSTS, LostAnswer, Return,
               IdleRec
<1>16. CASE Annotate
  <2>1. CASE sts' # sts
    BY <1>16, <2>1 DEF Annotate, PatchAnnotation, WriteSTS, Return, IdleRec
  <2>2. CASE sts' = sts
    <3>1. ~crEvent /\ stsEvents = <<>> /\ ~queued => Agreed
      BY <1>16, <2>2 DEF Annotate, PatchAnnotation, Remembered, WriteSTS,
                         ReplicaTypeOK, STS
    <3>. QED BY <1>16, <2>2, <3>1 DEF Annotate, PatchAnnotation, WriteSTS,
                                      Return, IdleRec
  <2>. QED BY <2>1, <2>2
<1>17. CASE UNCHANGED vars
  BY <1>17 DEF vars, observed
<1>. QED
  BY <1>1, <1>2, <1>3, <1>4, <1>5, <1>6, <1>7, <1>8, <1>9, <1>10, <1>11, <1>12,
     <1>13, <1>14, <1>15, <1>16, <1>17 DEF Next, User, Reconcile

\* Whatever was stale, refused or repeated: an operator with nothing left to do
\* has made the CubridDB, the StatefulSet and its annotation agree.
THEOREM ReplicaQuietAgreed == Spec => []QuietIsAgreed
<1>1. Spec => []ReplicaTypeOK
  BY ReplicaTypeCorrect
<1>2. QuietInv => QuietIsAgreed
  BY DEF QuietInv
<1>. QED BY <1>1, <1>2, QuietInit, QuietStep, PTL DEF Spec

-----------------------------------------------------------------------------
(* The edit made last counts.                                              *)

\* The CubridDB has the number asked for last, and no copy of the StatefulSet
\* may be read as if it had been scaled: where the annotation has that number,
\* so has the StatefulSet.
Kept(s) == s.last = cr => s.replicas = cr

EditTakesEffect ==
  /\ cr = lastEdit
  /\ Kept(sts)
  /\ rec.pc # "updateCR"
  /\ rec.pc \in {"get", "patchSTS"} => rec.des = cr
  /\ rec.pc = "annotate" /\ rec.cur = cr => sts.replicas = cr

EditSeenEverywhere ==
  \A s \in Versions : Kept(s) /\ (s.replicas = cr => sts.replicas = cr)

\* Or it has the number before, as the annotation has everywhere, and the
\* StatefulSet that was asked for last.
ScalingTakesEffect ==
  /\ cr # lastEdit
  /\ sts.replicas = lastEdit /\ sts.last = cr
  /\ rec.pc # "patchSTS"
  /\ rec.pc = "get" => rec.des = cr
  /\ rec.pc = "updateCR" => rec.cur = lastEdit
  /\ rec.pc = "annotate" => rec.cur = cr /\ rec.ann = cr

ScalingSeenEverywhere ==
  \A s \in Versions : s.replicas \in {cr, lastEdit} /\ s.last = cr

TakesEffect ==
  \/ EditTakesEffect /\ EditSeenEverywhere
  \/ ScalingTakesEffect /\ ScalingSeenEverywhere

SettleInv == ~hurried => TakesEffect

\* All there is to read.
LEMMA CacheIsVersion == stsCache \in Versions
BY DEF Versions

LEMMA NothingOnItsWay == stsEvents = <<>> => Versions = {stsCache}
BY DEF Versions

LEMMA SettleInit == Init => SettleInv
<1> SUFFICES ASSUME Init PROVE EditTakesEffect /\ EditSeenEverywhere
  BY DEF SettleInv, TakesEffect
<1>1. cr \in Size /\ cr # NoSize
  BY SizeAssumption DEF Init
<1>2. Versions = {NoSTS}
  BY NothingOnItsWay DEF Init
<1>. QED
  BY <1>1, <1>2 DEF Init, EditTakesEffect, EditSeenEverywhere, Kept, NoSTS, IdleRec

\* An edit counts as unhurried only when the operator is at rest.
LEMMA EditAtRest ==
  ASSUME ReplicaTypeOK, QuietInv, NEW n \in Size, Edited(n), ~hurried'
  PROVE  /\ ~hurried /\ rec.pc = "idle" /\ lastEdit' = n
         /\ sts.replicas = cr /\ sts.last = cr
         /\ Versions = {sts}
BY NothingOnItsWay
   DEF QuietInv, NoNews, CacheIsCurrent, QuietIsAgreed, Quiet, Agreed, Edited,
       ReplicaTypeOK

LEMMA EditStep ==
  ASSUME ReplicaTypeOK, QuietInv, Next, ~hurried', NEW n \in Valid, EditCR(n)
  PROVE  TakesEffect'
<1>1. n \in Size /\ Edited(n) /\ n # cr
  BY SizeAssumption DEF EditCR
<1>2. /\ rec.pc = "idle" /\ lastEdit' = n /\ sts.replicas = cr /\ sts.last = cr
      /\ Versions = {sts}
  BY <1>1, EditAtRest
<1>3. rec'.pc = "idle" /\ cr' = n /\ sts' = sts /\ Versions' = Versions
  BY <1>2 DEF EditCR, ReplicaTypeOK, Rec, Versions
<1>4. EditTakesEffect'
  BY <1>1, <1>2, <1>3 DEF EditTakesEffect, Kept
<1>5. EditSeenEverywhere'
  BY <1>1, <1>2, <1>3 DEF EditSeenEverywhere, Kept
<1>. QED BY <1>4, <1>5 DEF TakesEffect

LEMMA ScaleStep ==
  ASSUME ReplicaTypeOK, QuietInv, Next, ~hurried', NEW n \in Size, ScaleSTS(n)
  PROVE  TakesEffect'
<1>1. Edited(n) /\ n # sts.replicas
  BY DEF ScaleSTS
<1>2. /\ rec.pc = "idle" /\ lastEdit' = n /\ sts.replicas = cr /\ sts.last = cr
      /\ Versions = {sts}
  BY <1>1, EditAtRest
<1>3. sts'.replicas = n /\ sts'.last = cr /\ cr' = cr /\ rec' = rec
  BY <1>2 DEF ScaleSTS, WriteSTS, ReplicaTypeOK, STS
<1>4. Versions' \subseteq {sts, sts'}
  BY <1>2, VersionsStep DEF QuietInv, NoNews
<1>5. ScalingTakesEffect'
  BY <1>1, <1>2, <1>3 DEF ScalingTakesEffect
<1>6. ScalingSeenEverywhere'
  BY <1>2, <1>3, <1>4 DEF ScalingSeenEverywhere
<1>. QED BY <1>5, <1>6 DEF TakesEffect

\* A step of the operator or of the cluster, after an edit of the CubridDB: what was
\* to be read may still be read, and so may what it has just written.
LEMMA AfterEdit ==
  ASSUME ReplicaTypeOK, QuietInv, Next, ~User, UNCHANGED history,
         EditTakesEffect, EditSeenEverywhere
  PROVE  EditTakesEffect' /\ EditSeenEverywhere'
<1>1. /\ cr' = cr /\ EditTakesEffect'
      /\ sts.replicas = cr => sts'.replicas = cr
  <2> USE DEF EditTakesEffect, Kept, history
  <2>1. CASE UNCHANGED <<cr, sts>> /\ rec' \in {rec, IdleRec}
    BY <2>1 DEF IdleRec
  <2>2. CASE StartReconcile
    BY <2>2 DEF StartReconcile, IdleRec
  <2>3. CASE GetCR
    BY <2>3 DEF GetCR, ReplicaTypeOK, Rec
  <2>4. CASE CreateSTS
    <3>1. sts'.replicas = cr /\ sts'.last = NoSize /\ cr # NoSize
      BY <2>4, SizeAssumption DEF CreateSTS, WriteSTS, ReplicaTypeOK
    <3>. QED BY <2>4, <3>1 DEF CreateSTS, Return, IdleRec
  <2>5. CASE SyncReplicas
    <3>1. Kept(stsCache) /\ (stsCache.replicas = cr => sts.replicas = cr)
      BY CacheIsVersion DEF EditSeenEverywhere
    <3>2. rec.des = cr /\ (stsCache.replicas # cr => ~ScaledSide)
      BY <2>5, <3>1 DEF SyncReplicas, ScaledSide, LastReplicas
    <3>. QED BY <2>5, <3>1, <3>2 DEF SyncReplicas, ReplicaTypeOK, Rec
  <2>6. CASE UpdateCR
    BY <2>6 DEF UpdateCR
  <2>7. CASE PatchSTS
    <3>1. sts'.replicas = cr
      BY <2>7 DEF PatchSTS, WriteSTS, ReplicaTypeOK, STS
    <3>2. rec'.pc \in {"idle", "annotate"}
      <4>1. CASE LostAnswer
        BY <4>1 DEF LostAnswer, Return, IdleRec
      <4>2. CASE rec' = [rec EXCEPT !.pc = "annotate", !.ann = sts.last]
        BY <4>2 DEF ReplicaTypeOK, Rec
      <4>. QED BY <2>7, <4>1, <4>2 DEF PatchSTS
    <3>. QED BY <2>7, <3>1, <3>2 DEF PatchSTS
  <2>8. CASE PatchAnnotation /\ rec' = IdleRec
    <3>1. sts'.replicas = sts.replicas /\ sts'.last \in {sts.last, rec.cur}
      BY <2>8 DEF PatchAnnotation, Remembered, WriteSTS, ReplicaTypeOK, STS
    <3>2. cr' = cr /\ rec.pc = "annotate"
      BY <2>8 DEF PatchAnnotation
    <3>. QED BY <2>8, <3>1, <3>2 DEF IdleRec
  <2>. QED
    BY <2>1, <2>2, <2>3, <2>4, <2>5, <2>6, <2>7, <2>8
       DEF Next, Reconcile, Annotate, AnnotateThenFail, LostAnswer, Return, Fails,
           Refused, CREventArrives, STSEventArrives, OtherEvent, Restart, Recover
<1>2. Versions' \subseteq Versions \cup {sts, sts'}
  BY VersionsStep DEF QuietInv, NoNews
<1>3. Kept(sts) /\ Kept(sts)'
  BY <1>1 DEF EditTakesEffect
<1>4. EditSeenEverywhere'
  BY <1>1, <1>2, <1>3 DEF EditSeenEverywhere, Kept
<1>. QED BY <1>1, <1>4

\* After a scaling, too, until the CubridDB has followed.
LEMMA AfterScaling ==
  ASSUME ReplicaTypeOK, QuietInv, Next, ~User, UNCHANGED history,
         ScalingTakesEffect, ScalingSeenEverywhere
  PROVE  TakesEffect'
<1> USE DEF ScalingTakesEffect, history
<1>1. Versions' \subseteq Versions \cup {sts, sts'}
  BY VersionsStep DEF QuietInv, NoNews
<1>2. cr # NoSize
  BY SizeAssumption DEF ReplicaTypeOK
<1>3. stsCache.replicas \in {cr, lastEdit} /\ stsCache.last = cr
  BY CacheIsVersion DEF ScalingSeenEverywhere
<1>4. CASE ~UpdateCR
  <2>1. cr' = cr /\ sts' = sts /\ ScalingTakesEffect'
    <3>1. CASE UNCHANGED <<cr, sts>> /\ rec' \in {rec, IdleRec}
      BY <3>1 DEF IdleRec
    <3>2. CASE StartReconcile
      BY <3>2 DEF StartReconcile, IdleRec
    <3>3. CASE GetCR
      BY <3>3 DEF GetCR, ReplicaTypeOK, Rec
    <3>4. CASE CreateSTS
      BY <3>4, <1>2 DEF CreateSTS, NoSTS
    <3>5. CASE SyncReplicas
      <4>1. ScaledSide
        BY <1>2, <1>3, <3>5 DEF SyncReplicas, ScaledSide, LastReplicas
      <4>. QED BY <1>3, <3>5, <4>1 DEF SyncReplicas, ReplicaTypeOK, Rec
    <3>6. CASE PatchSTS
      BY <3>6 DEF PatchSTS
    <3>7. CASE PatchAnnotation /\ rec' = IdleRec
      BY <3>7 DEF PatchAnnotation, Remembered, WriteSTS, IdleRec
    <3>. QED
      BY <1>4, <3>1, <3>2, <3>3, <3>4, <3>5, <3>6, <3>7
         DEF Next, Reconcile, Annotate, AnnotateThenFail, LostAnswer, Return, Fails,
             Refused, CREventArrives, STSEventArrives, OtherEvent, Restart, Recover
  <2>2. ScalingSeenEverywhere'
    BY <1>1, <2>1 DEF ScalingSeenEverywhere
  <2>. QED BY <2>1, <2>2 DEF TakesEffect
<1>5. CASE UpdateCR
  <2>1. cr' = lastEdit /\ sts' = sts
    BY <1>5 DEF UpdateCR
  <2>2. rec'.pc \in {"idle", "annotate"}
    BY <1>5 DEF UpdateCR, LostAnswer, Return, IdleRec, ReplicaTypeOK, Rec
  <2>3. EditTakesEffect'
    BY <2>1, <2>2 DEF EditTakesEffect, Kept
  <2>4. EditSeenEverywhere'
    BY <1>1, <2>1 DEF EditSeenEverywhere, ScalingSeenEverywhere, Kept
  <2>. QED BY <2>3, <2>4 DEF TakesEffect
<1>. QED BY <1>4, <1>5

LEMMA SettleStep ==
  ReplicaTypeOK /\ QuietInv /\ SettleInv /\ [Next]_vars => SettleInv'
<1> SUFFICES ASSUME ReplicaTypeOK, QuietInv, SettleInv, [Next]_vars, ~hurried'
             PROVE  TakesEffect'
  BY DEF SettleInv
<1>1. CASE User
  BY <1>1, EditStep, ScaleStep DEF User, Next
<1>2. CASE Next /\ ~User
  <2>1. UNCHANGED history
    BY <1>2 DEF Next, Reconcile, CREventArrives, STSEventArrives, OtherEvent,
                StartReconcile, GetCR, CreateSTS, SyncReplicas, Refused, UpdateCR,
                PatchSTS, Annotate, AnnotateThenFail, PatchAnnotation, Fails, Restart,
                Recover
  <2>2. TakesEffect
    BY <2>1 DEF SettleInv, history
  <2>. QED BY <1>2, <2>1, <2>2, AfterEdit, AfterScaling DEF TakesEffect
<1>3. CASE UNCHANGED vars
  <2>1. TakesEffect /\ Versions' = Versions
    BY <1>3 DEF SettleInv, vars, observed, history, Versions
  <2>. QED
    BY <1>3, <2>1 DEF vars, observed, history, TakesEffect, EditTakesEffect, Kept,
         EditSeenEverywhere, ScalingTakesEffect, ScalingSeenEverywhere
<1>. QED BY <1>1, <1>2, <1>3

\* Users who let one edit settle before the next get the number they asked for
\* last, on whichever side, through stale reads, lost answers and restarts.
THEOREM ReplicaLastEditWins == Spec => []LastEditWins
<1>1. Spec => []ReplicaTypeOK
  BY ReplicaTypeCorrect
<1>2. ReplicaTypeOK /\ QuietInv /\ SettleInv => LastEditWins
  BY DEF SettleInv, QuietInv, QuietIsAgreed, LastEditWins, TakesEffect,
         EditTakesEffect, ScalingTakesEffect, Agreed
<1>. QED BY <1>1, <1>2, QuietInit, QuietStep, SettleInit, SettleStep, PTL DEF Spec

-----------------------------------------------------------------------------
(* What users have settled stays.                                          *)

\* Both numbers and the annotation agree, the operator knows it, and the Reconcile in
\* progress, if any, has found it so.
Settled ==
  /\ Agreed /\ stsCache = sts /\ stsEvents = <<>>
  /\ rec.pc \notin {"updateCR", "patchSTS"}
  /\ rec.pc \in {"get", "annotate"} => rec.des = cr
  /\ rec.pc = "annotate" => rec.cur = cr /\ rec.ann = cr

\* An operator with nothing left to do is settled.
THEOREM QuietIsSettled == Spec => [](Quiet => Settled)
<1>1. QuietInv => (Quiet => Settled)
  BY DEF QuietInv, NoNews, CacheIsCurrent, QuietIsAgreed, Quiet, Agreed, Settled
<1>. QED
  BY <1>1, ReplicaTypeCorrect, QuietInit, QuietStep, PTL DEF Spec

\* From then on nothing but an edit changes one of the numbers: no event, resync,
\* failing call, lost answer or restart makes the operator write (syncReplicas).
THEOREM SettledStays ==
  Spec => [][Settled /\ edits' = edits => Settled' /\ cr' = cr /\ sts' = sts]_vars
<1> DEFINE Stay == Settled /\ edits' = edits => Settled' /\ cr' = cr /\ sts' = sts
<1>1. ReplicaTypeOK /\ [Next]_vars => [Stay]_vars
  <2> SUFFICES ASSUME ReplicaTypeOK, Next, Settled, edits' = edits
               PROVE  Settled' /\ cr' = cr /\ sts' = sts
    BY DEF vars
  <2> USE DEF Settled, Agreed
  <2>1. ~User
    <3>1. \A n : ~Edited(n)
      BY EditsAssumption DEF Edited, ReplicaTypeOK
    <3>. QED
      BY <3>1 DEF User, EditCR, ScaleSTS
  <2>2. CASE /\ UNCHANGED <<cr, sts, stsEvents>> /\ stsCache' \in {stsCache, sts}
            /\ rec' \in {rec, IdleRec}
    BY <2>2 DEF IdleRec
  <2>3. CASE StartReconcile
    BY <2>3 DEF StartReconcile, IdleRec
  <2>4. CASE GetCR
    BY <2>4 DEF GetCR, ReplicaTypeOK, Rec
  <2>5. CASE CreateSTS
    BY <2>5, SizeAssumption DEF CreateSTS, NoSTS, ReplicaTypeOK
  <2>6. CASE SyncReplicas
    <3>1. stsCache.replicas = rec.des
      BY <2>6 DEF SyncReplicas
    <3>. QED
      BY <2>6, <3>1 DEF SyncReplicas, ReplicaTypeOK, Rec
  <2>7. CASE UpdateCR \/ PatchSTS
    BY <2>7 DEF UpdateCR, PatchSTS
  <2>8. CASE PatchAnnotation /\ rec' = IdleRec
    BY <2>8 DEF PatchAnnotation, Remembered, WriteSTS, IdleRec
  <2>. QED
    BY <2>1, <2>2, <2>3, <2>4, <2>5, <2>6, <2>7, <2>8
       DEF Next, Reconcile, Annotate, AnnotateThenFail, LostAnswer, Return, Fails,
           Refused, CREventArrives, STSEventArrives, OtherEvent, Restart, Recover
<1>. QED
  BY <1>1, ReplicaTypeCorrect, PTL DEF Spec
=============================================================================
