--------------------------- MODULE StatusMonitor ---------------------------
(***************************************************************************)
(* The status of a CubridDB has two writers: the Reconcile of that         *)
(* resource, at its end, and a monitor that goes through all resources     *)
(* every ten seconds.  Both call UpdateCubridDBStatus, which asks the pods *)
(* for the state of HA and writes the status over the copy of the resource *)
(* it was given (internal/controller/cubriddb_controller_status.go).       *)
(*                                                                         *)
(* What the pods answer is reduced to the master they know of, and the     *)
(* pods of one group are taken to agree; NodeLists is the answer it was    *)
(* made from.                                                              *)
(***************************************************************************)
EXTENDS Naturals, FiniteSets

CONSTANTS
  Dbs,          \* CubridDB resources
  Pods,         \* the pods of each, which are also the nodes of its group
  Gone,         \* no StatefulSet, so no pod to ask
  Single,       \* a CubridDB without HA: nobody is asked
  MaxChanges,   \* bound on what users and the cluster change,
  MaxFaults     \* and on the status writes that fail

ASSUME ConstantsAssumption ==
  /\ IsFiniteSet(Dbs) /\ Dbs # {} /\ IsFiniteSet(Pods) /\ Pods # {}
  /\ Gone # Single /\ {Gone, Single} \cap {"down", "noMaster"} = {}
  /\ Pods \cap {"down", "noMaster", Gone, Single} = {}

ASSUME BoundsAssumption == MaxChanges \in Nat /\ MaxFaults \in Nat

VARIABLES
  answer,   \* what the pods of each answer to ha_status
  status,   \* the stored status of each CubridDB
  asOf,     \* a history variable: when the pods were asked for it
  cache,    \* the status in the operator's cache
  old,      \* whose copies of which resource are not the stored version
  worker,   \* the UpdateCubridDBStatus at the end of a Reconcile
  monitor,  \* the round of the monitor
  changes,  \* how much users and the cluster have changed,
  faults    \* and how many writes failed

vars == <<answer, status, asOf, cache, old, worker, monitor, changes, faults>>

-----------------------------------------------------------------------------

\* down: no pod can be logged in to and reports success.
Answer == {"down", "noMaster", Gone, Single} \cup Pods

Status == [list : {"none", "unknown", "single", "noMaster"} \cup Pods,
           master : {"none", "unknown", "self"} \cup Pods]

NoStatus == [list |-> "none", master |-> "none"]

\* One UpdateCubridDBStatus: the copy it was given, what it found, and when.
Call == [pc : {"idle", "poll", "write"}, db : Dbs, copy : Status,
         found : Answer, asOf : 0..MaxChanges]

IdleCall == [pc |-> "idle", db |-> CHOOSE d \in Dbs : TRUE, copy |-> NoStatus,
             found |-> Gone, asOf |-> 0]

Started(d, copy) == [IdleCall EXCEPT !.pc = "poll", !.db = d, !.copy = copy]

\* The copies of a round are listed when it begins.
Round == [todo : SUBSET Dbs, copies : [Dbs -> Status], call : Call]

NoRound == [todo |-> {}, copies |-> [d \in Dbs |-> NoStatus], call |-> IdleCall]

Holders == {"cache", "worker", "monitor"}

\* Who has a copy of a resource.
HoldersOf(d) ==
  {"cache"} \cup (IF worker.pc # "idle" /\ worker.db = d THEN {"worker"} ELSE {})
    \cup (IF d \in monitor.todo \/ (monitor.call.pc # "idle" /\ monitor.call.db = d)
          THEN {"monitor"} ELSE {})

TypeOK ==
  /\ answer \in [Dbs -> Answer]
  /\ status \in [Dbs -> Status] /\ cache \in [Dbs -> Status]
  /\ asOf \in [Dbs -> 0..MaxChanges]
  /\ old \subseteq Holders \X Dbs
  /\ worker \in Call /\ monitor \in Round
  /\ monitor.call.pc # "idle" => monitor.call.db \notin monitor.todo
  /\ changes \in 0..MaxChanges /\ faults \in 0..MaxFaults

Init ==
  /\ answer \in [Dbs -> {Gone, Single}]
  /\ status = [d \in Dbs |-> NoStatus] /\ cache = status
  /\ asOf = [d \in Dbs |-> 0]
  /\ old = {}
  /\ worker = IdleCall /\ monitor = NoRound
  /\ changes = 0 /\ faults = 0

-----------------------------------------------------------------------------
(* The cluster and the users.                                              *)

Change ==
  /\ changes < MaxChanges
  /\ changes' = changes + 1
  /\ UNCHANGED <<status, asOf, cache, worker, monitor, faults>>

\* Pods start and fail, the group elects a master, the StatefulSet comes and goes.
GroupChanges(d, a) ==
  /\ Change
  /\ answer[d] \notin {Single, a}
  /\ answer' = [answer EXCEPT ![d] = a]
  /\ UNCHANGED old

\* Whoever changes the stored resource makes every copy of it an old one.
Outdated(d) == old \cup HoldersOf(d) \X {d}

EditCR(d) ==
  /\ Change
  /\ old' = Outdated(d)
  /\ UNCHANGED answer

EventArrives(d) ==
  /\ <<"cache", d>> \in old
  /\ cache' = [cache EXCEPT ![d] = status[d]]
  /\ old' = old \ {<<"cache", d>>}
  /\ UNCHANGED <<answer, status, asOf, worker, monitor, changes, faults>>

-----------------------------------------------------------------------------
(* UpdateCubridDBStatus.                                                   *)

\* The first node, whatever its role.
MutantMaster(copy, found) ==
  IF found = "down" THEN "unknown" ELSE IF found = Single THEN "self" ELSE found

\* The error path leaves the old master.
MutantMasterKept(copy, found) ==
  IF found \in Pods THEN found ELSE IF found = Single THEN "self" ELSE copy.master

\* CurrentMaster stays what it was when nobody is master or asked.
Master(copy, found) ==
  IF found \in Pods THEN found
  ELSE IF found = "down" THEN "unknown"
  ELSE IF found = Single THEN "self" ELSE copy.master

NewStatus(call) ==
  [list |-> IF call.found = "down" THEN "unknown"
            ELSE IF call.found = Gone THEN "none"
            ELSE IF call.found = Single THEN "single" ELSE call.found,
   master |-> Master(call.copy, call.found)]

\* The time in LastUpdated does not count.
Unchanged(call) == NewStatus(call) = call.copy

MutantFailed(call) == call.found = "down"

\* That no pod answers is an error only when it is news.
Failed(call) == call.found = "down" /\ ~Unchanged(call)

MutantRefused(holder, d) == FALSE

\* A write over a copy that is not the stored version is refused.
Refused(holder, d) == <<holder, d>> \in old

\* A call ends well, or with an error. A failed write may be stored.
Stored(holder, call) ==
  /\ ~Unchanged(call)
  /\ ~Refused(holder, call.db)
  /\ status' = [status EXCEPT ![call.db] = NewStatus(call)]
  /\ asOf' = [asOf EXCEPT ![call.db] = call.asOf]
  /\ old' = Outdated(call.db) \ {<<holder, call.db>>}

NotStored(holder, call) ==
  /\ old' = old \ {<<holder, call.db>>}
  /\ UNCHANGED <<status, asOf>>

Effect(holder, call) ==
  \/ Unchanged(call) /\ NotStored(holder, call)
  \/ Stored(holder, call)

EndsWell(holder, call) ==
  /\ ~Failed(call)
  /\ Effect(holder, call)
  /\ UNCHANGED faults

EndsInError(holder, call) ==
  \/ Failed(call) /\ Effect(holder, call) /\ UNCHANGED faults
  \/ ~Unchanged(call) /\ Refused(holder, call.db) /\ NotStored(holder, call)
     /\ UNCHANGED faults
  \/ /\ ~Unchanged(call)
     /\ faults < MaxFaults
     /\ faults' = faults + 1
     /\ NotStored(holder, call) \/ Stored(holder, call)

\* The pods are asked in turn, until one reports success.
Polled(call) ==
  [call EXCEPT !.pc = "write", !.found = answer[call.db], !.asOf = changes]

-----------------------------------------------------------------------------
(* The worker. A Reconcile that fails before its end does not come here.    *)

\* The answer to the patch that sets the defaults is the copy of a Reconcile.
ReconcileGetsCopy(d) ==
  /\ worker.pc = "idle"
  /\ worker' = Started(d, status[d])
  /\ old' = old \ {<<"worker", d>>}
  /\ UNCHANGED <<answer, status, asOf, cache, monitor, changes, faults>>

WorkerPolls ==
  /\ worker.pc = "poll"
  /\ worker' = Polled(worker)
  /\ UNCHANGED <<answer, status, asOf, cache, old, monitor, changes, faults>>

WorkerWrites ==
  /\ worker.pc = "write"
  /\ EndsWell("worker", worker) \/ EndsInError("worker", worker)
  /\ worker' = IdleCall
  /\ UNCHANGED <<answer, cache, monitor, changes>>

-----------------------------------------------------------------------------
(* The monitor.                                                            *)

RoundBegins ==
  /\ monitor.todo = {} /\ monitor.call.pc = "idle"
  /\ monitor' = [NoRound EXCEPT !.todo = Dbs, !.copies = cache]
  /\ old' = (old \ ({"monitor"} \X Dbs))
              \cup {<<"monitor", d>> : d \in {e \in Dbs : <<"cache", e>> \in old}}
  /\ UNCHANGED <<answer, status, asOf, cache, worker, changes, faults>>

\* The list comes from the cache in no particular order.
MonitorPolls(d) ==
  /\ d \in monitor.todo /\ monitor.call.pc = "idle"
  /\ monitor' = [todo |-> monitor.todo \ {d},
                 copies |-> [monitor.copies EXCEPT ![d] = NoStatus],
                 call |-> Polled(Started(d, monitor.copies[d]))]
  /\ UNCHANGED <<answer, status, asOf, cache, old, worker, changes, faults>>

\* The first error ends the round.
MonitorWrites ==
  /\ monitor.call.pc = "write"
  /\ \/ /\ EndsWell("monitor", monitor.call)
        /\ monitor' = [monitor EXCEPT !.call = IdleCall]
     \/ /\ EndsInError("monitor", monitor.call)
        /\ monitor' = NoRound
  /\ UNCHANGED <<answer, cache, worker, changes>>

MonitorStep ==
  \/ RoundBegins \/ MonitorWrites
  \/ \E d \in Dbs : MonitorPolls(d)

-----------------------------------------------------------------------------

WorkerStep ==
  \/ WorkerPolls \/ WorkerWrites
  \/ \E d \in Dbs : ReconcileGetsCopy(d)

Next ==
  \/ WorkerStep \/ MonitorStep
  \/ \E d \in Dbs : EditCR(d) \/ EventArrives(d)
  \/ \E d \in Dbs, a \in Answer \ {Single} : GroupChanges(d, a)

Spec == Init /\ [][Next]_vars

\* The monitor's goroutine keeps running, whatever becomes of Reconcile, and
\* the cache hears of every change.
Fairness ==
  /\ WF_vars(MonitorStep)
  /\ \A d \in Dbs : WF_vars(EventArrives(d))

FairSpec == Spec /\ Fairness

-----------------------------------------------------------------------------
(* Properties.                                                             *)

\* The two writers never put an older observation over a newer one, although
\* each asks the pods and writes later, in its own time (line 146).
ObservationsInOrder ==
  [][\A d \in Dbs : asOf'[d] >= asOf[d]]_vars

\* The status says what the pods say; CurrentMaster counts where there is one.
Shows(d) ==
  LET says == <<status[d].list, status[d].master>>
  IN CASE answer[d] = Gone       -> says[1] = "none"
       [] answer[d] = Single     -> says = <<"single", "self">>
       [] answer[d] = "down"     -> says = <<"unknown", "unknown">>
       [] answer[d] = "noMaster" -> says[1] = "noMaster"
       [] OTHER                  -> says = <<answer[d], answer[d]>>

\* A stored status is wrong only when something has changed since the pods were
\* asked for it: whatever copies of the resource, old masters and refused writes the
\* two writers go through, none of it is mixed into a fresh observation.
FreshStatusIsTrue ==
  \A d \in Dbs : status[d] # NoStatus /\ asOf[d] = changes => Shows(d)

\* The monitor alone brings every status up to date and keeps it so, although a
\* CubridDB whose pods do not answer ends its round (updateSatatus, line 320).
StatusConverges == \A d \in Dbs : <>[]Shows(d)
=============================================================================
