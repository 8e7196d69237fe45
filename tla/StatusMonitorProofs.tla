------------------------- MODULE StatusMonitorProofs -------------------------
(***************************************************************************)
(* What holds of StatusMonitor for any CubridDBs and pods and any bound:   *)
(* its type invariant, that no older observation replaces a newer one,     *)
(* that a status nothing has changed since is a true one, and that a true  *)
(* one stays until the pods answer otherwise.                              *)
(*                                                                         *)
(* The heart is InTime: a writer whose copy is still the stored version    *)
(* asked the pods after the stored status was observed.                    *)
(***************************************************************************)
EXTENDS StatusMonitor, TLAPS

\* Nothing was observed in the future.
InPast ==
  /\ \A d \in Dbs : asOf[d] <= changes
  /\ worker.asOf <= changes /\ monitor.call.asOf <= changes

InTimeFor(holder, call) ==
  call.pc = "write" /\ <<holder, call.db>> \notin old => asOf[call.db] <= call.asOf

InTime == InTimeFor("worker", worker) /\ InTimeFor("monitor", monitor.call)

IInv == TypeOK /\ InPast /\ InTime

LEMMA IdleCallType == IdleCall \in Call /\ IdleCall.pc = "idle" /\ IdleCall.asOf = 0
<1>1. (CHOOSE d \in Dbs : TRUE) \in Dbs
  BY ConstantsAssumption
<1>2. 0 \in 0..MaxChanges
  BY BoundsAssumption
<1>. QED
  BY <1>1, <1>2 DEF IdleCall, Call, NoStatus, Status, Answer

LEMMA NoRoundType ==
  /\ NoRound \in Round /\ NoRound.call.pc = "idle" /\ NoRound.call.asOf = 0
  BY IdleCallType DEF NoRound, Round, NoStatus, Status

LEMMA NewStatusType ==
  ASSUME NEW call \in Call
  PROVE  NewStatus(call) \in Status
<1>1. call.found \in Answer /\ call.copy \in Status
  BY DEF Call
<1>2. Master(call.copy, call.found) \in {"none", "unknown", "self"} \cup Pods
  BY <1>1 DEF Master, Status
<1>3. NewStatus(call).list \in {"none", "unknown", "single", "noMaster"} \cup Pods
  BY <1>1 DEF NewStatus, Answer
<1>. QED
  BY <1>2, <1>3 DEF NewStatus, Status

LEMMA OutdatedType ==
  ASSUME TypeOK, NEW d \in Dbs
  PROVE  Outdated(d) \in SUBSET (Holders \X Dbs)
  BY DEF TypeOK, Outdated, HoldersOf, Holders

\* What the end of a call does to the stored status and the copies.
LEMMA EffectKeeps ==
  ASSUME IInv, NEW holder \in {"worker", "monitor"}, NEW call \in Call,
         call.asOf <= changes,
         Stored(holder, call) \/ NotStored(holder, call)
  PROVE  /\ status' \in [Dbs -> Status] /\ asOf' \in [Dbs -> 0..MaxChanges]
         /\ old' \subseteq Holders \X Dbs
         /\ \A d \in Dbs : asOf'[d] <= changes
<1>1. call.db \in Dbs /\ call.asOf \in 0..MaxChanges
  BY DEF Call
<1>2. CASE Stored(holder, call)
  BY <1>1, <1>2, NewStatusType, OutdatedType DEF Stored, IInv, TypeOK, InPast
<1>3. CASE NotStored(holder, call)
  BY <1>3 DEF NotStored, IInv, TypeOK, InPast
<1>. QED
  BY <1>2, <1>3

\* Whoever stores a status makes the other writer's copy of it an old one.
LEMMA OtherInTime ==
  ASSUME TypeOK, NEW holder, NEW call \in Call,
         Stored(holder, call) \/ NotStored(holder, call),
         NEW other \in {"worker", "monitor"} \ {holder},
         NEW its \in Call,
         other = "worker" => its = worker,
         other = "monitor" => its = monitor.call,
         InTimeFor(other, its)
  PROVE  its.pc = "write" /\ <<other, its.db>> \notin old'
           => asOf'[its.db] <= its.asOf
<1> SUFFICES ASSUME its.pc = "write", <<other, its.db>> \notin old'
             PROVE  asOf'[its.db] <= its.asOf
  OBVIOUS
<1>1. its.db \in Dbs /\ call.db \in Dbs
  BY DEF Call
<1>2. CASE NotStored(holder, call)
  BY <1>1, <1>2 DEF NotStored, InTimeFor
<1>3. CASE Stored(holder, call)
  <2>1. other \in HoldersOf(its.db)
    BY DEF HoldersOf
  <2>2. call.db # its.db
    BY <1>1, <1>3, <2>1 DEF Stored, Outdated
  <2>3. <<other, its.db>> \notin old
    BY <1>1, <1>3, <2>2 DEF Stored, Outdated
  <2>. QED
    BY <1>1, <1>3, <2>2, <2>3 DEF Stored, InTimeFor, TypeOK
<1>. QED
  BY <1>2, <1>3

-----------------------------------------------------------------------------

LEMMA InvInit == Init => IInv
<1> SUFFICES ASSUME Init PROVE IInv
  OBVIOUS
<1>1. 0 \in 0..MaxChanges /\ 0 \in 0..MaxFaults /\ NoStatus \in Status
  BY BoundsAssumption DEF NoStatus, Status
<1>2. worker = IdleCall /\ monitor = NoRound
  BY DEF Init
<1>3. TypeOK
  BY <1>1, <1>2, IdleCallType, NoRoundType DEF Init, TypeOK, Answer
<1>4. InPast /\ InTime
  BY <1>1, <1>2, IdleCallType, NoRoundType DEF Init, InPast, InTime, InTimeFor
<1>. QED
  BY <1>3, <1>4 DEF IInv

LEMMA PolledType ==
  ASSUME TypeOK, InPast, NEW call \in Call
  PROVE  /\ Polled(call) \in Call /\ Polled(call).db = call.db
         /\ Polled(call).pc = "write" /\ Polled(call).asOf = changes
         /\ asOf[call.db] <= changes
<1>1. call.db \in Dbs /\ answer[call.db] \in Answer /\ changes \in 0..MaxChanges
  BY DEF Call, TypeOK
<1>. QED
  BY <1>1 DEF Polled, Call, InPast

LEMMA StartedType ==
  ASSUME NEW d \in Dbs, NEW copy \in Status
  PROVE  /\ Started(d, copy) \in Call /\ Started(d, copy).pc = "poll"
         /\ Started(d, copy).db = d /\ Started(d, copy).asOf = 0
  BY IdleCallType DEF Started, Call

\* The end of a call, well or in error.
LEMMA EndKeeps ==
  ASSUME TypeOK, NEW holder, NEW call,
         EndsWell(holder, call) \/ EndsInError(holder, call)
  PROVE  /\ Stored(holder, call) \/ NotStored(holder, call)
         /\ faults' \in 0..MaxFaults
  BY BoundsAssumption DEF EndsWell, EndsInError, Effect, TypeOK

LEMMA WorkerKeeps ==
  ASSUME IInv, WorkerStep
  PROVE  IInv'
<1> USE DEF IInv
<1>1. ASSUME NEW d \in Dbs, ReconcileGetsCopy(d)
      PROVE  IInv'
  <2>1. worker' \in Call /\ worker'.pc = "poll" /\ worker'.asOf = 0
    BY <1>1, StartedType DEF ReconcileGetsCopy, TypeOK
  <2>2. TypeOK'
    BY <1>1, <2>1 DEF ReconcileGetsCopy, TypeOK
  <2>3. InPast'
    BY <1>1, <2>1 DEF ReconcileGetsCopy, InPast, TypeOK
  <2>4. InTime'
    BY <1>1, <2>1 DEF ReconcileGetsCopy, InTime, InTimeFor
  <2>. QED
    BY <2>2, <2>3, <2>4
<1>2. CASE WorkerPolls
  <2>1. worker \in Call
    BY DEF TypeOK
  <2>2. /\ worker' \in Call /\ worker'.db = worker.db
        /\ worker'.asOf = changes /\ asOf[worker.db] <= changes
    BY <1>2, <2>1, PolledType DEF WorkerPolls
  <2>3. TypeOK'
    BY <1>2, <2>2 DEF WorkerPolls, TypeOK
  <2>4. InPast'
    BY <1>2, <2>2 DEF WorkerPolls, InPast, TypeOK
  <2>5. InTime'
    BY <1>2, <2>2 DEF WorkerPolls, InTime, InTimeFor
  <2>. QED
    BY <2>3, <2>4, <2>5
<1>3. CASE WorkerWrites
  <2>1. worker \in Call /\ worker.asOf <= changes /\ monitor.call \in Call
    BY DEF TypeOK, InPast, Round
  <2>2. /\ Stored("worker", worker) \/ NotStored("worker", worker)
        /\ faults' \in 0..MaxFaults
    BY <1>3, EndKeeps DEF WorkerWrites
  <2>3. worker' = IdleCall /\ UNCHANGED <<answer, cache, monitor, changes>>
    BY <1>3 DEF WorkerWrites
  <2>4. /\ status' \in [Dbs -> Status] /\ asOf' \in [Dbs -> 0..MaxChanges]
        /\ old' \subseteq Holders \X Dbs /\ \A d \in Dbs : asOf'[d] <= changes
    BY <2>1, <2>2, EffectKeeps
  <2>5. TypeOK'
    BY <2>2, <2>3, <2>4, IdleCallType DEF TypeOK
  <2>6. InPast'
    BY <2>3, <2>4, IdleCallType DEF InPast, TypeOK
  <2>7. InTimeFor("monitor", monitor.call)'
    BY <2>1, <2>2, <2>3, OtherInTime DEF InTime, InTimeFor
  <2>. QED
    BY <2>3, <2>5, <2>6, <2>7, IdleCallType DEF InTime, InTimeFor
<1>. QED
  BY <1>1, <1>2, <1>3 DEF WorkerStep

LEMMA MonitorKeeps ==
  ASSUME IInv, MonitorStep
  PROVE  IInv'
<1> USE DEF IInv
<1>0. monitor.todo \subseteq Dbs /\ monitor.copies \in [Dbs -> Status]
      /\ monitor.call \in Call
  BY DEF TypeOK, Round
<1>1. CASE RoundBegins
  <2>1. monitor' \in Round /\ monitor'.call = IdleCall
    BY <1>1, NoRoundType DEF RoundBegins, TypeOK, Round, NoRound
  <2>2. old' \subseteq Holders \X Dbs
    <3>1. \A d \in Dbs : <<"monitor", d>> \in Holders \X Dbs
      BY DEF Holders
    <3>2. ASSUME NEW c \in old'
          PROVE  c \in old \/ \E d \in Dbs : c = <<"monitor", d>>
      BY <1>1, <3>2 DEF RoundBegins
    <3>. QED
      BY <3>1, <3>2 DEF TypeOK
  <2>3. ASSUME <<"worker", worker.db>> \notin old'
        PROVE  <<"worker", worker.db>> \notin old
    BY <1>1, <2>3 DEF RoundBegins
  <2>4. TypeOK'
    BY <1>1, <2>1, <2>2, IdleCallType DEF RoundBegins, TypeOK
  <2>5. InPast'
    BY <1>1, <2>1, IdleCallType DEF RoundBegins, InPast, TypeOK
  <2>6. InTime'
    BY <1>1, <2>1, <2>3, IdleCallType DEF RoundBegins, InTime, InTimeFor
  <2>. QED
    BY <2>4, <2>5, <2>6
<1>2. ASSUME NEW d \in Dbs, MonitorPolls(d)
      PROVE  IInv'
  <2>1. monitor.copies[d] \in Status /\ NoStatus \in Status
    BY <1>0 DEF NoStatus, Status
  <2> DEFINE call == Polled(Started(d, monitor.copies[d]))
  <2>2. call \in Call /\ call.db = d /\ call.asOf = changes /\ asOf[d] <= changes
    BY <2>1, StartedType, PolledType
  <2>3. /\ monitor'.call = call /\ monitor'.todo = monitor.todo \ {d}
        /\ monitor' \in Round
    BY <1>0, <1>2, <2>1, <2>2 DEF MonitorPolls, Round
  <2> HIDE DEF call
  <2>4. TypeOK'
    BY <1>2, <2>2, <2>3 DEF MonitorPolls, TypeOK
  <2>5. InPast'
    BY <1>2, <2>2, <2>3 DEF MonitorPolls, InPast, TypeOK
  <2>6. InTime'
    BY <1>2, <2>2, <2>3 DEF MonitorPolls, InTime, InTimeFor
  <2>. QED
    BY <2>4, <2>5, <2>6
<1>3. CASE MonitorWrites
  <2>1. monitor.call.asOf <= changes /\ worker \in Call
    BY DEF TypeOK, InPast
  <2>2. /\ \/ Stored("monitor", monitor.call)
           \/ NotStored("monitor", monitor.call)
        /\ faults' \in 0..MaxFaults
    BY <1>3, EndKeeps DEF MonitorWrites
  <2>3. /\ monitor' \in Round /\ monitor'.call = IdleCall
        /\ UNCHANGED <<answer, cache, worker, changes>>
    BY <1>0, <1>3, NoRoundType, IdleCallType DEF MonitorWrites, TypeOK, Round, NoRound
  <2>4. /\ status' \in [Dbs -> Status] /\ asOf' \in [Dbs -> 0..MaxChanges]
        /\ old' \subseteq Holders \X Dbs /\ \A d \in Dbs : asOf'[d] <= changes
    BY <1>0, <2>1, <2>2, EffectKeeps
  <2>5. TypeOK'
    BY <2>2, <2>3, <2>4, IdleCallType DEF TypeOK
  <2>6. InPast'
    BY <2>3, <2>4, IdleCallType DEF InPast, TypeOK
  <2>7. InTimeFor("worker", worker)'
    BY <1>0, <2>1, <2>2, <2>3, OtherInTime DEF InTime, InTimeFor
  <2>. QED
    BY <2>3, <2>5, <2>6, <2>7, IdleCallType DEF InTime, InTimeFor
<1>. QED
  BY <1>1, <1>2, <1>3 DEF MonitorStep

LEMMA InvStep == IInv /\ [Next]_vars => IInv'
<1> SUFFICES ASSUME IInv, [Next]_vars PROVE IInv'
  OBVIOUS
<1> USE DEF IInv
<1>1. CASE UNCHANGED vars
  BY <1>1 DEF vars, TypeOK, InPast, InTime, InTimeFor
<1>2. Change => changes' \in 0..MaxChanges /\ changes' = changes + 1
  BY BoundsAssumption DEF Change, TypeOK
<1>3. ASSUME NEW d \in Dbs, NEW a \in Answer, GroupChanges(d, a)
      PROVE  IInv'
  BY <1>2, <1>3 DEF GroupChanges, Change, TypeOK, InPast, InTime, InTimeFor, Round, Call
<1>4. ASSUME NEW d \in Dbs, EditCR(d)
      PROVE  IInv'
  <2>1. old' \in SUBSET (Holders \X Dbs) /\ old \subseteq old'
    BY <1>4, OutdatedType DEF EditCR, Outdated
  <2>. QED
    BY <1>2, <1>4, <2>1
       DEF EditCR, Change, TypeOK, InPast, InTime, InTimeFor, Round, Call
<1>5. ASSUME NEW d \in Dbs, EventArrives(d)
      PROVE  IInv'
  BY <1>5 DEF EventArrives, TypeOK, InPast, InTime, InTimeFor
<1>. QED
  BY <1>1, <1>3, <1>4, <1>5, WorkerKeeps, MonitorKeeps DEF Next

\* Statuses, copies and both writers are well-formed.
THEOREM StatusTypeCorrect == Spec => []TypeOK
<1>1. IInv => TypeOK
  BY DEF IInv
<1>. QED
  BY <1>1, InvInit, InvStep, PTL DEF Spec

\* Reconcile and the monitor never put an older observation of a CubridDB over a
\* newer one (UpdateCubridDBStatus, Status().Update).
THEOREM NewestObservationStays == Spec => ObservationsInOrder
<1> DEFINE Ordered == \A d \in Dbs : asOf'[d] >= asOf[d]
<1>1. IInv /\ [Next]_vars => [Ordered]_vars
  <2> SUFFICES ASSUME IInv, Next PROVE Ordered
    BY DEF vars
  <2> USE DEF IInv
  <2>1. ASSUME UNCHANGED asOf
        PROVE  Ordered
    BY <2>1 DEF TypeOK
  <2>2. ASSUME NEW holder, NEW call \in Call, call.pc = "write",
               InTimeFor(holder, call), Stored(holder, call)
        PROVE  Ordered
    <3>1. call.db \in Dbs /\ asOf[call.db] <= call.asOf
      BY <2>2 DEF Call, Stored, Refused, InTimeFor
    <3>. QED
      BY <2>2, <3>1 DEF Stored, TypeOK, Call
  <2>3. CASE WorkerWrites
    BY <2>1, <2>2, <2>3, EndKeeps DEF WorkerWrites, NotStored, InTime, TypeOK
  <2>4. CASE MonitorWrites
    <3>1. monitor.call \in Call
      BY DEF TypeOK, Round
    <3>. QED
      BY <2>1, <2>2, <2>4, <3>1, EndKeeps DEF MonitorWrites, NotStored, InTime
  <2>. QED
    BY <2>1, <2>3, <2>4
       DEF Next, WorkerStep, MonitorStep, WorkerPolls, ReconcileGetsCopy, RoundBegins,
           MonitorPolls, EditCR, EventArrives, GroupChanges, Change
<1>. QED
  BY <1>1, InvInit, InvStep, PTL DEF Spec, ObservationsInOrder

-----------------------------------------------------------------------------
(* A fresh status is a true one.                                           *)

\* What a call is about to write is what the pods say, unless something changed.
TrueCall(call) ==
  call.pc = "write" /\ call.asOf = changes => call.found = answer[call.db]

Fresh == FreshStatusIsTrue /\ TrueCall(worker) /\ TrueCall(monitor.call)

LEMMA AnswersDiffer ==
  /\ Gone # Single /\ Gone # "down" /\ Gone # "noMaster"
  /\ Single # "down" /\ Single # "noMaster"
  /\ \A p \in Pods : p # Gone /\ p # Single /\ p # "down" /\ p # "noMaster"
  BY ConstantsAssumption

\* A status made from the answer shows it, whatever the copy was.
LEMMA NewStatusShows ==
  ASSUME TypeOK, NEW call \in Call, call.found = answer[call.db],
         status'[call.db] = NewStatus(call), answer' = answer
  PROVE  Shows(call.db)'
<1>1. /\ call.found \in Answer /\ answer'[call.db] = call.found
      /\ status'[call.db].list = NewStatus(call).list
      /\ status'[call.db].master = NewStatus(call).master
  BY DEF Call
<1>2. CASE call.found \in Pods
  BY <1>1, <1>2, AnswersDiffer DEF Shows, NewStatus, Master
<1>3. CASE call.found = "down"
  BY <1>1, <1>3, AnswersDiffer DEF Shows, NewStatus, Master
<1>4. CASE call.found = "noMaster"
  BY <1>1, <1>4, AnswersDiffer DEF Shows, NewStatus, Master
<1>5. CASE call.found = Gone
  BY <1>1, <1>5, AnswersDiffer DEF Shows, NewStatus, Master
<1>6. CASE call.found = Single
  BY <1>1, <1>6, AnswersDiffer DEF Shows, NewStatus, Master
<1>. QED
  BY <1>1, <1>2, <1>3, <1>4, <1>5, <1>6 DEF Answer

\* The end of a call.
LEMMA WriteKeepsFresh ==
  ASSUME IInv, Fresh, NEW holder, NEW call \in Call, call.pc = "write",
         TrueCall(call), Stored(holder, call) \/ NotStored(holder, call),
         UNCHANGED <<answer, changes>>
  PROVE  FreshStatusIsTrue'
<1> SUFFICES ASSUME NEW d \in Dbs, (status[d] # NoStatus /\ asOf[d] = changes)'
             PROVE  Shows(d)'
  BY DEF FreshStatusIsTrue
<1>1. CASE status'[d] = status[d] /\ asOf'[d] = asOf[d]
  BY <1>1 DEF Fresh, FreshStatusIsTrue, Shows
<1>2. CASE Stored(holder, call) /\ d = call.db
  <2>1. status'[d] = NewStatus(call) /\ asOf'[d] = call.asOf
    BY <1>2 DEF Stored, IInv, TypeOK
  <2>2. call.found = answer[call.db]
    BY <2>1 DEF TrueCall
  <2>. QED
    BY <1>2, <2>1, <2>2, NewStatusShows DEF IInv
<1>. QED
  BY <1>1, <1>2 DEF Stored, NotStored, IInv, TypeOK

LEMMA FreshStep == IInv /\ Fresh /\ [Next]_vars => Fresh'
<1> SUFFICES ASSUME IInv, Fresh, [Next]_vars PROVE Fresh'
  OBVIOUS
<1>1. worker \in Call /\ monitor.call \in Call
  BY DEF IInv, TypeOK, Round
<1>2. CASE UNCHANGED <<answer, status, asOf, changes>>
  <2>1. FreshStatusIsTrue'
    BY <1>2 DEF Fresh, FreshStatusIsTrue, Shows
  <2>2. CASE UNCHANGED <<worker, monitor>>
    BY <1>2, <2>1, <2>2 DEF Fresh, TrueCall
  <2>3. CASE WorkerPolls
    BY <1>1, <1>2, <2>1, <2>3 DEF WorkerPolls, Polled, Fresh, TrueCall, Call
  <2>4. ASSUME NEW d \in Dbs, ReconcileGetsCopy(d)
        PROVE  Fresh'
    <3>1. worker'.pc = "poll" /\ monitor' = monitor
      BY <2>4, StartedType DEF ReconcileGetsCopy, IInv, TypeOK
    <3>. QED
      BY <1>2, <2>1, <3>1 DEF Fresh, TrueCall
  <2>5. CASE RoundBegins
    <3>1. monitor'.call.pc = "idle" /\ worker' = worker
      BY <2>5, NoRoundType DEF RoundBegins, NoRound
    <3>. QED
      BY <1>2, <2>1, <3>1 DEF Fresh, TrueCall
  <2>6. ASSUME NEW d \in Dbs, MonitorPolls(d)
        PROVE  Fresh'
    <3>1. monitor.copies[d] \in Status
      BY DEF IInv, TypeOK, Round
    <3>2. /\ Started(d, monitor.copies[d]) \in Call
          /\ Started(d, monitor.copies[d]).db = d
      BY <3>1, StartedType
    <3>3. /\ monitor'.call.found = answer[d] /\ monitor'.call.db = d
          /\ worker' = worker
      BY <2>6, <3>2 DEF MonitorPolls, Polled, Call
    <3>. QED
      BY <1>2, <2>1, <3>3 DEF Fresh, TrueCall
  <2>7. CASE WorkerWrites
    BY <1>2, <2>1, <2>7, IdleCallType DEF WorkerWrites, Fresh, TrueCall
  <2>8. CASE MonitorWrites
    <3>1. monitor'.call = IdleCall /\ worker' = worker
      BY <2>8, NoRoundType DEF MonitorWrites, IInv, TypeOK, Round, NoRound
    <3>. QED
      BY <1>2, <2>1, <3>1, IdleCallType DEF Fresh, TrueCall
  <2>9. \A d \in Dbs : EventArrives(d) => UNCHANGED <<worker, monitor>>
    BY DEF EventArrives
  <2>10. ~Change
    BY <1>2 DEF Change, IInv, TypeOK
  <2>. QED
    BY <2>2, <2>3, <2>4, <2>5, <2>6, <2>7, <2>8, <2>9, <2>10
    DEF Next, WorkerStep, MonitorStep, EditCR, GroupChanges, vars
<1>3. CASE WorkerWrites
  <2>1. Stored("worker", worker) \/ NotStored("worker", worker)
    BY <1>3, EndKeeps DEF WorkerWrites, IInv
  <2>2. FreshStatusIsTrue'
    BY <1>1, <1>3, <2>1, WriteKeepsFresh DEF WorkerWrites, Fresh
  <2>. QED
    BY <1>3, <2>2, IdleCallType DEF WorkerWrites, Fresh, TrueCall
<1>4. CASE MonitorWrites
  <2>1. Stored("monitor", monitor.call) \/ NotStored("monitor", monitor.call)
    BY <1>4, EndKeeps DEF MonitorWrites, IInv
  <2>2. FreshStatusIsTrue'
    BY <1>1, <1>4, <2>1, WriteKeepsFresh DEF MonitorWrites, Fresh
  <2>3. monitor'.call = IdleCall /\ UNCHANGED <<answer, worker, changes>>
    BY <1>4, NoRoundType DEF MonitorWrites, IInv, TypeOK, Round, NoRound
  <2>. QED
    BY <2>2, <2>3, IdleCallType DEF Fresh, TrueCall
<1>5. CASE Change
  <2>1. /\ changes' = changes + 1 /\ changes \in Nat
        /\ UNCHANGED <<asOf, worker, monitor>>
    BY <1>5, BoundsAssumption DEF Change, IInv, TypeOK
  <2>2. \A n \in Nat : n <= changes => n # changes'
    BY <2>1
  <2>3. /\ \A d \in Dbs : asOf[d] # changes'
        /\ worker.asOf # changes' /\ monitor.call.asOf # changes'
    BY <1>1, <2>2 DEF IInv, InPast, TypeOK, Call
  <2>. QED
    BY <2>1, <2>3 DEF Fresh, FreshStatusIsTrue, TrueCall
<1>. QED
  BY <1>2, <1>3, <1>4, <1>5
  DEF Next, vars, WorkerStep, MonitorStep, WorkerPolls, ReconcileGetsCopy, RoundBegins,
      MonitorPolls, EditCR, EventArrives, GroupChanges

\* Neither writer mixes what it finds with what its copy held before.
THEOREM FreshStatusesAreTrue == Spec => []FreshStatusIsTrue
<1>1. Init => Fresh
  <2>1. ASSUME Init PROVE worker.pc = "idle" /\ monitor.call.pc = "idle"
    BY <2>1, IdleCallType, NoRoundType DEF Init
  <2>. QED
    BY <2>1 DEF Init, Fresh, FreshStatusIsTrue, TrueCall
<1>2. Fresh => FreshStatusIsTrue
  BY DEF Fresh
<1>. QED
  BY <1>1, <1>2, InvInit, InvStep, FreshStep, PTL DEF Spec

-----------------------------------------------------------------------------
(* A true status stays until something changes.                            *)

\* A copy that is not marked as old is the stored status.
HasStored(holder, call) ==
  call.pc # "idle" /\ <<holder, call.db>> \notin old => call.copy = status[call.db]

Coherent ==
  /\ \A d \in Dbs : <<"cache", d>> \notin old => cache[d] = status[d]
  /\ \A d \in monitor.todo :
       <<"monitor", d>> \notin old => monitor.copies[d] = status[d]
  /\ HasStored("worker", worker) /\ HasStored("monitor", monitor.call)

\* What is still a fresh copy after a call has ended was one before, and of a status
\* that is still the stored one.
LEMMA OthersCoherent ==
  ASSUME TypeOK, NEW holder, NEW call \in Call,
         Stored(holder, call) \/ NotStored(holder, call),
         NEW other, NEW d \in Dbs, <<other, d>> \notin old',
         d = call.db => other # holder /\ other \in HoldersOf(d)
  PROVE  status'[d] = status[d] /\ <<other, d>> \notin old
<1>0. call.db \in Dbs
  BY DEF Call
<1>1. CASE NotStored(holder, call)
  BY <1>1 DEF NotStored
<1>2. CASE Stored(holder, call)
  <2>1. old' = (old \cup HoldersOf(call.db) \X {call.db}) \ {<<holder, call.db>>}
    BY <1>2 DEF Stored, Outdated
  <2>2. d # call.db
    <3> SUFFICES ASSUME d = call.db PROVE FALSE
      OBVIOUS
    <3>1. <<other, d>> \in HoldersOf(call.db) \X {call.db}
      OBVIOUS
    <3>. QED
      BY <2>1, <3>1
  <2>. QED
    BY <1>0, <1>2, <2>1, <2>2 DEF Stored, TypeOK
<1>. QED
  BY <1>1, <1>2

LEMMA CoherentStep == IInv /\ Coherent /\ [Next]_vars => Coherent'
<1> SUFFICES ASSUME IInv, Coherent, [Next]_vars PROVE Coherent'
  OBVIOUS
<1>0. /\ worker \in Call /\ monitor.call \in Call /\ monitor \in Round
      /\ monitor.todo \subseteq Dbs /\ monitor.copies \in [Dbs -> Status]
  BY DEF IInv, TypeOK, Round
<1>1. CASE UNCHANGED vars
  BY <1>1 DEF vars, Coherent, HasStored
<1>2. ASSUME NEW d \in Dbs, ReconcileGetsCopy(d)
      PROVE  Coherent'
  <2>1. worker'.db = d /\ worker'.copy = status[d]
    BY <1>2, IdleCallType DEF ReconcileGetsCopy, Started, IInv, TypeOK, Call
  <2>. QED
    BY <1>2, <2>1 DEF ReconcileGetsCopy, Coherent, HasStored
<1>3. CASE WorkerPolls
  <2>1. worker'.db = worker.db /\ worker'.copy = worker.copy
    BY <1>0, <1>3 DEF WorkerPolls, Polled, Call
  <2>. QED
    BY <1>3, <2>1 DEF WorkerPolls, Coherent, HasStored
<1>4. CASE WorkerWrites
  <2>1. Stored("worker", worker) \/ NotStored("worker", worker)
    BY <1>4, EndKeeps DEF WorkerWrites, IInv
  <2>2. worker'.pc = "idle" /\ UNCHANGED <<cache, monitor>>
    BY <1>4, IdleCallType DEF WorkerWrites
  <2>3. ASSUME NEW d \in Dbs, <<"cache", d>> \notin old'
        PROVE  cache[d] = status'[d]
    <3>1. "cache" \in HoldersOf(d)
      BY DEF HoldersOf
    <3>. QED
      BY <1>0, <2>1, <2>3, <3>1, OthersCoherent DEF Coherent, IInv
  <2>4. ASSUME NEW d \in monitor.todo, <<"monitor", d>> \notin old'
        PROVE  monitor.copies[d] = status'[d]
    <3>1. "monitor" \in HoldersOf(d) /\ d \in Dbs
      BY <1>0 DEF HoldersOf
    <3>. QED
      BY <1>0, <2>1, <2>4, <3>1, OthersCoherent DEF Coherent, IInv
  <2>5. ASSUME monitor.call.pc # "idle", <<"monitor", monitor.call.db>> \notin old'
        PROVE  monitor.call.copy = status'[monitor.call.db]
    <3>1. "monitor" \in HoldersOf(monitor.call.db) /\ monitor.call.db \in Dbs
      BY <1>0, <2>5 DEF HoldersOf, Call
    <3>. QED
      BY <1>0, <2>1, <2>5, <3>1, OthersCoherent DEF Coherent, HasStored, IInv
  <2>. QED
    BY <2>2, <2>3, <2>4, <2>5 DEF Coherent, HasStored
<1>5. CASE RoundBegins
  <2>1. /\ monitor'.todo = Dbs /\ monitor'.copies = cache
        /\ monitor'.call.pc = "idle"
    BY <1>5, NoRoundType DEF RoundBegins, NoRound, Round
  <2>2. \A d \in Dbs : <<"monitor", d>> \notin old' => <<"cache", d>> \notin old
    BY <1>5 DEF RoundBegins
  <2>3. /\ \A d \in Dbs : <<"cache", d>> \notin old' => <<"cache", d>> \notin old
        /\ <<"worker", worker.db>> \notin old' => <<"worker", worker.db>> \notin old
    BY <1>5 DEF RoundBegins
  <2>. QED
    BY <1>5, <2>1, <2>2, <2>3 DEF RoundBegins, Coherent, HasStored
<1>6. ASSUME NEW d \in Dbs, MonitorPolls(d)
      PROVE  Coherent'
  <2>1. /\ Started(d, monitor.copies[d]) \in Call
        /\ Started(d, monitor.copies[d]).db = d
        /\ Started(d, monitor.copies[d]).copy = monitor.copies[d]
    BY <1>0, StartedType, IdleCallType DEF Started, Call
  <2>2. monitor'.call.db = d /\ monitor'.call.copy = monitor.copies[d]
    BY <1>6, <2>1 DEF MonitorPolls, Polled, Call
  <2>3. \A e \in monitor'.todo : e \in monitor.todo /\ monitor'.copies[e] = monitor.copies[e]
    BY <1>0, <1>6 DEF MonitorPolls
  <2>. QED
    BY <1>6, <2>2, <2>3 DEF MonitorPolls, Coherent, HasStored
<1>7. CASE MonitorWrites
  <2>1. Stored("monitor", monitor.call) \/ NotStored("monitor", monitor.call)
    BY <1>7, EndKeeps DEF MonitorWrites, IInv
  <2>2. monitor'.call.pc = "idle" /\ UNCHANGED <<cache, worker>>
    BY <1>0, <1>7, NoRoundType, IdleCallType DEF MonitorWrites, Round, NoRound
  <2>3. \A d \in monitor'.todo : /\ d \in monitor.todo
                                 /\ monitor'.copies[d] = monitor.copies[d]
    BY <1>0, <1>7 DEF MonitorWrites, Round, NoRound
  <2>4. \A d \in monitor.todo : monitor.call.db # d
    BY <1>7 DEF MonitorWrites, IInv, TypeOK
  <2>5. ASSUME NEW d \in Dbs, <<"cache", d>> \notin old'
        PROVE  cache[d] = status'[d]
    <3>1. "cache" \in HoldersOf(d)
      BY DEF HoldersOf
    <3>. QED
      BY <1>0, <2>1, <2>5, <3>1, OthersCoherent DEF Coherent, IInv
  <2>6. ASSUME NEW d \in monitor.todo, <<"monitor", d>> \notin old'
        PROVE  monitor.copies[d] = status'[d]
    BY <1>0, <2>1, <2>4, <2>6, OthersCoherent DEF Coherent, IInv
  <2>7. ASSUME worker.pc # "idle", <<"worker", worker.db>> \notin old'
        PROVE  worker.copy = status'[worker.db]
    <3>1. "worker" \in HoldersOf(worker.db) /\ worker.db \in Dbs
      BY <1>0, <2>7 DEF HoldersOf, Call
    <3>. QED
      BY <1>0, <2>1, <2>7, <3>1, OthersCoherent DEF Coherent, HasStored, IInv
  <2>. QED
    BY <2>2, <2>3, <2>5, <2>6, <2>7 DEF Coherent, HasStored
<1>8. ASSUME NEW d \in Dbs, EditCR(d)
      PROVE  Coherent'
  BY <1>8 DEF EditCR, Change, Outdated, Coherent, HasStored
<1>9. ASSUME NEW d \in Dbs, EventArrives(d)
      PROVE  Coherent'
  BY <1>9 DEF EventArrives, Coherent, HasStored, IInv, TypeOK
<1>10. ASSUME NEW d \in Dbs, NEW a \in Answer, GroupChanges(d, a)
      PROVE  Coherent'
  BY <1>10 DEF GroupChanges, Change, Coherent, HasStored
<1>. QED
  BY <1>1, <1>2, <1>3, <1>4, <1>5, <1>6, <1>7, <1>8, <1>9, <1>10
  DEF Next, WorkerStep, MonitorStep

\* What a call is about to write of d, the pods of d still say.
Heard(call, d) == call.pc = "write" /\ call.db = d => call.found = answer[d]

Standing(d) == Shows(d) /\ Heard(worker, d) /\ Heard(monitor.call, d)

\* A status made from the answer and from a copy that shows it is that copy.
LEMMA NothingNew ==
  ASSUME TypeOK, NEW call \in Call, call.found = answer[call.db],
         call.copy = status[call.db], Shows(call.db)
  PROVE  Unchanged(call)
<1>1. call.found \in Answer /\ call.copy \in Status
  BY DEF Call
<1> SUFFICES NewStatus(call).list = call.copy.list
             /\ NewStatus(call).master = call.copy.master
  BY <1>1 DEF Unchanged, NewStatus, Status
<1>2. CASE call.found \in Pods
  BY <1>1, <1>2, AnswersDiffer DEF Shows, NewStatus, Master
<1>3. CASE call.found = "down"
  BY <1>1, <1>3, AnswersDiffer DEF Shows, NewStatus, Master
<1>4. CASE call.found = "noMaster"
  BY <1>1, <1>4, AnswersDiffer DEF Shows, NewStatus, Master
<1>5. CASE call.found = Gone
  BY <1>1, <1>5, AnswersDiffer DEF Shows, NewStatus, Master
<1>6. CASE call.found = Single
  BY <1>1, <1>6, AnswersDiffer DEF Shows, NewStatus, Master
<1>. QED
  BY <1>1, <1>2, <1>3, <1>4, <1>5, <1>6 DEF Answer

\* A status that says what the pods say, with both writers knowing it, stays: no step
\* writes it before the pods answer otherwise, whatever copies are old and whatever is
\* refused, fails or is asked again (UpdateCubridDBStatus, updateSatatus).
THEOREM TrueStatusesStay ==
  Spec => [][\A d \in Dbs : Standing(d) /\ answer'[d] = answer[d]
               => Standing(d)' /\ status'[d] = status[d]]_vars
<1> DEFINE Stay == \A d \in Dbs : Standing(d) /\ answer'[d] = answer[d]
                     => Standing(d)' /\ status'[d] = status[d]
<1>1. IInv /\ Coherent /\ [Next]_vars => [Stay]_vars
  <2> SUFFICES ASSUME IInv, Coherent, Next, NEW d \in Dbs, Standing(d),
                      answer'[d] = answer[d]
               PROVE  Standing(d)' /\ status'[d] = status[d]
    BY DEF vars
  <2>0. worker \in Call /\ monitor.call \in Call
    BY DEF IInv, TypeOK, Round
  <2>1. ASSUME NEW holder, NEW call \in Call, call.pc = "write", Heard(call, d),
               HasStored(holder, call),
               Stored(holder, call) \/ NotStored(holder, call)
        PROVE  status'[d] = status[d]
    <3>1. CASE NotStored(holder, call) \/ call.db # d
      BY <2>1, <3>1 DEF NotStored, Stored, IInv, TypeOK
    <3>2. CASE Stored(holder, call) /\ call.db = d
      <4>1. call.found = answer[call.db] /\ call.copy = status[call.db]
        BY <2>1, <3>2 DEF Stored, Refused, Heard, HasStored
      <4>2. Unchanged(call)
        BY <3>2, <4>1, NothingNew DEF IInv, Standing
      <4>. QED
        BY <3>2, <4>2 DEF Stored
    <3>. QED
      BY <2>1, <3>1, <3>2
  <2>2. CASE WorkerWrites
    <3>1. status'[d] = status[d]
      BY <2>0, <2>1, <2>2, EndKeeps DEF WorkerWrites, Standing, Coherent, IInv
    <3>. QED
      BY <2>2, <3>1, IdleCallType DEF WorkerWrites, Standing, Heard, Shows
  <2>3. CASE MonitorWrites
    <3>1. status'[d] = status[d]
      BY <2>0, <2>1, <2>3, EndKeeps DEF MonitorWrites, Standing, Coherent, IInv
    <3>2. monitor'.call = IdleCall
      BY <2>3, NoRoundType DEF MonitorWrites, IInv, TypeOK, Round, NoRound
    <3>. QED
      BY <2>3, <3>1, <3>2, IdleCallType DEF MonitorWrites, Standing, Heard, Shows
  <2>4. CASE WorkerPolls
    BY <2>0, <2>4 DEF WorkerPolls, Polled, Call, Standing, Heard, Shows
  <2>5. ASSUME NEW e \in Dbs, ReconcileGetsCopy(e)
        PROVE  Standing(d)' /\ status'[d] = status[d]
    <3>1. worker'.pc = "poll"
      BY <2>5, StartedType DEF ReconcileGetsCopy, IInv, TypeOK
    <3>. QED
      BY <2>5, <3>1 DEF ReconcileGetsCopy, Standing, Heard, Shows
  <2>6. CASE RoundBegins
    <3>1. monitor'.call.pc = "idle"
      BY <2>6, NoRoundType DEF RoundBegins, NoRound
    <3>. QED
      BY <2>6, <3>1 DEF RoundBegins, Standing, Heard, Shows
  <2>7. ASSUME NEW e \in Dbs, MonitorPolls(e)
        PROVE  Standing(d)' /\ status'[d] = status[d]
    <3>1. monitor.copies[e] \in Status
      BY DEF IInv, TypeOK, Round
    <3>2. /\ Started(e, monitor.copies[e]) \in Call
          /\ Started(e, monitor.copies[e]).db = e
      BY <3>1, StartedType
    <3>3. monitor'.call.found = answer[e] /\ monitor'.call.db = e
      BY <2>7, <3>2 DEF MonitorPolls, Polled, Call
    <3>. QED
      BY <2>7, <3>3 DEF MonitorPolls, Standing, Heard, Shows
  <2>8. CASE \/ \E e \in Dbs : EditCR(e) \/ EventArrives(e)
             \/ \E e \in Dbs, a \in Answer : GroupChanges(e, a)
    BY <2>8 DEF EditCR, EventArrives, GroupChanges, Change, Standing, Heard, Shows
  <2>. QED
    BY <2>2, <2>3, <2>4, <2>5, <2>6, <2>7, <2>8 DEF Next, WorkerStep, MonitorStep
<1>2. Init => Coherent
  BY IdleCallType, NoRoundType DEF Init, Coherent, HasStored, NoRound
<1>. QED
  BY <1>1, <1>2, InvInit, InvStep, CoherentStep, PTL DEF Spec
=============================================================================
