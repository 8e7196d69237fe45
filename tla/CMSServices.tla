---------------------------- MODULE CMSServices ----------------------------
(***************************************************************************)
(* The Services through which administration clients reach the CUBRID      *)
(* Manager Server (CMS) of every pod of one CubridDB.  What the type       *)
(* cmsService.type, which never changes, asks for:                         *)
(*   NodePort  one Service per pod, owned by the pod, on the next free     *)
(*             node port (pkg/manager/service_manager.go,                  *)
(*             pkg/resources/service.go);                                  *)
(*   Ingress   one Service per replica, owned by the CubridDB, and an      *)
(*             Ingress with one rule per pod, as long as the ingress       *)
(*             controller is there (pkg/manager/ingress_manager.go).       *)
(***************************************************************************)
EXTENDS Integers, FiniteSets

CONSTANTS
  MaxReplicas,  \* bound on the replicas
  LastPort,     \* last of the node ports, which start at 0
  StartPort,    \* cmsService.startPort
  Dashed,       \* whether the name of the namespace has a dash
  None,         \* no Service, no Ingress
  MaxChanges,   \* bound on what users and the cluster change,
  MaxFaults     \* and on the calls that fail and the restarts

ASSUME ConstantsAssumption ==
  /\ MaxReplicas \in Nat /\ LastPort \in Nat /\ StartPort \in 0..LastPort
  /\ Dashed \in BOOLEAN

ASSUME BoundsAssumption == MaxChanges \in Nat /\ MaxFaults \in Nat

VARIABLES
  type,       \* cmsService.type
  replicas,   \* how many replicas the spec asks for
  nginx,      \* whether the IngressClass is there
  pods,       \* the pods
  svc,        \* the Service of each replica
  foreign,    \* node ports of other Services
  ingress,    \* the pods the Ingress has a rule for
  cache,      \* the operator's cache of all this
  old,        \* the replicas whose cached Service is not the stored one
  rec,        \* the Reconcile call in progress
  changes,    \* how much users and the cluster have changed,
  faults      \* and how many faults there were

world == <<replicas, nginx, pods, svc, foreign, ingress>>

vars == <<type, world, cache, old, rec, changes, faults>>

-----------------------------------------------------------------------------

Index == 0..(MaxReplicas - 1)

Ports == 0..LastPort

\* A pod made anew has another UID, which tells the owners of NodePort Services
\* apart.
PodRec == [there : BOOLEAN, uid : {0, 1}]

\* owner is the UID of the pod that owns a NodePort Service; the port of a
\* ClusterIP Service is -1. edited: a user has changed something but the port.
Service == [port : Ports \cup {-1}, owner : {0, 1}, edited : BOOLEAN]

ASSUME NoneAssumption == None \notin Service

Cache == [replicas : 0..MaxReplicas, pods : [Index -> PodRec],
          svc : [Index -> Service \cup {None}], foreign : SUBSET Ports,
          ingress : (SUBSET Index) \cup {None}]

\* n is the number of replicas read, i the next replica, port the next port.
Rec == [pc : {"idle", "nodePort", "services", "orphans", "rules", "cleanup"},
        n : 0..MaxReplicas, i : 0..MaxReplicas, port : Nat]

Idle == [pc |-> "idle", n |-> 0, i |-> 0, port |-> 0]

NoSvc == [i \in Index |-> None]

TypeOK ==
  /\ type \in {"NodePort", "Ingress"}
  /\ replicas \in 0..MaxReplicas
  /\ nginx \in BOOLEAN
  /\ pods \in [Index -> PodRec]
  /\ svc \in [Index -> Service \cup {None}]
  /\ \A i \in Index : svc[i] # None => (svc[i].port = -1) = (type = "Ingress")
  /\ foreign \subseteq Ports
  /\ ingress \in (SUBSET Index) \cup {None}
  /\ cache \in Cache
  /\ old \subseteq Index
  /\ rec \in Rec /\ rec.i <= rec.n
  /\ changes \in 0..MaxChanges /\ faults \in 0..MaxFaults

Init ==
  /\ type \in {"NodePort", "Ingress"}
  /\ replicas = MaxReplicas
  /\ nginx = (type = "Ingress")
  /\ pods = [i \in Index |-> [there |-> FALSE, uid |-> 0]]
  /\ svc = NoSvc
  /\ foreign \in IF type = "NodePort" THEN {{}, {StartPort}} ELSE {{}}
  /\ ingress = None
  /\ cache = [replicas |-> replicas, pods |-> pods, svc |-> svc,
              foreign |-> foreign, ingress |-> ingress]
  /\ old = {}
  /\ rec = Idle
  /\ changes = 0 /\ faults = 0

-----------------------------------------------------------------------------
(* Users and the cluster.                                                  *)

Change ==
  /\ changes < MaxChanges
  /\ changes' = changes + 1
  /\ UNCHANGED <<type, cache, rec, faults>>

Scale(n) ==
  /\ Change
  /\ n # replicas
  /\ replicas' = n
  /\ UNCHANGED <<nginx, pods, svc, foreign, ingress, old>>

ToggleNginx ==
  /\ Change
  /\ type = "Ingress"
  /\ nginx' = ~nginx
  /\ UNCHANGED <<replicas, pods, svc, foreign, ingress, old>>

InUse == foreign \cup {svc[i].port : i \in {i \in Index : svc[i] # None}}

ToggleForeign(port) ==
  /\ Change
  /\ type = "NodePort"
  /\ port \in foreign \/ port \notin InUse
  /\ foreign' = IF port \in foreign THEN foreign \ {port} ELSE foreign \cup {port}
  /\ UNCHANGED <<replicas, nginx, pods, svc, ingress, old>>

\* A user changes the port, or something else, or deletes the Service.
EditService(i) ==
  /\ Change
  /\ svc[i] # None
  /\ \/ \E port \in Ports \ InUse :
          svc[i].port # -1 /\ svc' = [svc EXCEPT ![i].port = port]
     \/ svc' = [svc EXCEPT ![i].edited = TRUE]
     \/ svc' = [svc EXCEPT ![i] = None]
  /\ old' = old \cup {i}
  /\ UNCHANGED <<replicas, nginx, pods, foreign, ingress>>

CreatePod(i) ==
  /\ i < replicas
  /\ ~pods[i].there
  /\ pods' = [pods EXCEPT ![i].there = TRUE]
  /\ UNCHANGED <<type, replicas, nginx, svc, foreign, ingress, cache, old, rec,
                 changes, faults>>

RemovePod(i) ==
  /\ pods[i].there
  /\ pods' = [pods EXCEPT ![i] =
       [there |-> FALSE, uid |-> IF type = "NodePort" THEN 1 - @.uid ELSE 0]]
  /\ UNCHANGED <<replicas, nginx, svc, foreign, ingress, old>>

\* A pod in the way of a smaller number of replicas goes, any other may.
DeletePod(i) ==
  /\ RemovePod(i)
  /\ IF i < replicas THEN Change ELSE UNCHANGED <<type, cache, rec, changes, faults>>

\* The garbage collector: the pod that owns the Service is no more.
CollectService(i) ==
  /\ type = "NodePort"
  /\ svc[i] # None
  /\ ~(pods[i].there /\ pods[i].uid = svc[i].owner)
  /\ svc' = [svc EXCEPT ![i] = None]
  /\ old' = old \cup {i}
  /\ UNCHANGED <<type, replicas, nginx, pods, foreign, ingress, cache, rec, changes, faults>>

-----------------------------------------------------------------------------
(* Events reach the cache.                                                 *)

Arrives(field, value) ==
  /\ cache[field] # value
  /\ cache' = [cache EXCEPT ![field] = value]
  /\ UNCHANGED <<type, world, old, rec, changes, faults>>

ServiceEventArrives(i) ==
  /\ i \in old
  /\ cache' = [cache EXCEPT !.svc[i] = svc[i]]
  /\ old' = old \ {i}
  /\ UNCHANGED <<type, world, rec, changes, faults>>

SpecEventArrives == Arrives("replicas", replicas)

PodEventArrives == Arrives("pods", pods)

ForeignEventArrives == Arrives("foreign", foreign)

IngressEventArrives == Arrives("ingress", ingress)

EventsArrive ==
  \/ SpecEventArrives \/ PodEventArrives
  \/ ForeignEventArrives \/ IngressEventArrives
  \/ \E i \in Index : ServiceEventArrives(i)

Fault ==
  /\ faults < MaxFaults
  /\ faults' = faults + 1
  /\ UNCHANGED changes

-----------------------------------------------------------------------------
(* NodePort Services.                                                      *)

NotFaulty == UNCHANGED <<type, replicas, nginx, pods, foreign, cache, changes, faults>>

\* A Reconcile may start at any time: for an event, after an error, and, if for
\* nothing else, because the informers resync.
StartReconcile ==
  /\ rec.pc = "idle"
  /\ rec' = [pc |-> IF type = "NodePort" THEN "nodePort"
                    ELSE IF nginx THEN "services" ELSE "cleanup",
             n |-> cache.replicas, i |-> 0, port |-> StartPort]
  /\ UNCHANGED <<svc, ingress, old>>
  /\ NotFaulty

\* The end of a replica's turn, and the end of them all.
Advance(step, last) ==
  rec' = IF rec.i + 1 < rec.n THEN [rec EXCEPT !.i = @ + 1, !.port = @ + step]
         ELSE IF last = "idle" THEN Idle
         ELSE [Idle EXCEPT !.pc = last, !.n = rec.n, !.i = rec.n]

NothingToDo(pc, next) ==
  /\ rec.pc = pc
  /\ rec.n = 0
  /\ rec' = IF next = "idle" THEN Idle ELSE [rec EXCEPT !.pc = next]
  /\ UNCHANGED <<svc, ingress, old>>
  /\ NotFaulty

\* The ports the cached Services use, the one of replica i excepted.
Used(i) ==
  cache.foreign \cup {cache.svc[j].port : j \in {j \in Index \ {i} : cache.svc[j] # None}}

MutantFindNextAvailablePort(i) == rec.port

\* The first port free in the cache from the start port on; past the last one
\* there is none.
FindNextAvailablePort(i) ==
  LET free == {port \in Ports : port >= rec.port /\ port \notin Used(i)} IN
  IF rec.port \notin Used(i) \/ free = {} THEN rec.port
  ELSE CHOOSE port \in free : \A other \in free : port <= other

\* The API server takes a port that exists and is free, for a name that is free.
CanCreate(i, port) == svc[i] = None /\ port \in Ports \ InUse

Store(i, service) ==
  /\ svc' = [svc EXCEPT ![i] = service]
  /\ old' = old \cup {i}
  /\ UNCHANGED ingress

\* A replica without a pod is passed over, and the port with it.
SkipReplica ==
  /\ rec.pc = "nodePort" /\ rec.i < rec.n
  /\ ~cache.pods[rec.i].there
  /\ Advance(0, "idle")
  /\ UNCHANGED <<svc, ingress, old>>
  /\ NotFaulty

CreateNodePort ==
  /\ rec.pc = "nodePort" /\ rec.i < rec.n
  /\ cache.pods[rec.i].there
  /\ cache.svc[rec.i] = None
  /\ LET port == FindNextAvailablePort(rec.i) IN
     IF CanCreate(rec.i, port)
     THEN /\ Store(rec.i, [port |-> port, owner |-> cache.pods[rec.i].uid,
                           edited |-> FALSE])
          /\ Advance(1, "idle")
     ELSE rec' = Idle /\ UNCHANGED <<svc, ingress, old>>
  /\ NotFaulty

\* An existing Service keeps its port, also one that a user has given it.
KeptPort == cache.svc[rec.i].port

\* Updated from the cached copy when that shows an edit; refused when the copy
\* is not the stored one.
UpdateNodePort ==
  /\ rec.pc = "nodePort" /\ rec.i < rec.n
  /\ cache.pods[rec.i].there
  /\ cache.svc[rec.i] # None
  /\ LET kept == [cache.svc[rec.i] EXCEPT !.port = KeptPort, !.edited = FALSE] IN
     IF cache.svc[rec.i] = kept
     THEN Advance(1, "idle") /\ UNCHANGED <<svc, ingress, old>>
     ELSE IF rec.i \notin old THEN Store(rec.i, kept) /\ Advance(1, "idle")
     ELSE rec' = Idle /\ UNCHANGED <<svc, ingress, old>>
  /\ NotFaulty

-----------------------------------------------------------------------------
(* Services behind an Ingress.                                             *)

MutantIngressService == [port |-> rec.port, owner |-> 0, edited |-> FALSE]

IngressService == [port |-> -1, owner |-> 0, edited |-> FALSE]

\* The API server fills in fields of the Service, so that the copy always
\* differs from what is desired and is written each time.
ReconcileService ==
  /\ rec.pc = "services" /\ rec.i < rec.n
  /\ IF rec.i \notin old
     THEN /\ IF svc[rec.i] = None \/ svc[rec.i].edited
             THEN Store(rec.i, IngressService)
             ELSE UNCHANGED <<svc, ingress, old>>
          /\ Advance(0, "orphans")
     ELSE rec' = Idle /\ UNCHANGED <<svc, ingress, old>>
  /\ NotFaulty

MutantOrphans == {}

MutantLastOrphan == {i \in Index : cache.svc[i] # None /\ (i + 1 >= rec.n \/ Dashed)}

\* The pod's name is cut out of the Service's by counting dashes: a dash in the
\* namespace makes it the name of no replica.
Orphans == {i \in Index : cache.svc[i] # None /\ (i >= rec.n \/ Dashed)}

DeleteServices(S) ==
  /\ svc' = [i \in Index |-> IF i \in S THEN None ELSE svc[i]]
  /\ old' = old \cup {i \in S : svc[i] # None}

CleanupOrphans ==
  /\ rec.pc = "orphans"
  /\ DeleteServices(Orphans)
  /\ rec' = [rec EXCEPT !.pc = "rules"]
  /\ UNCHANGED ingress
  /\ NotFaulty

Listed == {i \in Index : cache.pods[i].there}

\* A patch replaces the rules when they differ from those of the copy; what is
\* not there can be created, and what is there patched.
ReconcileIngress ==
  /\ rec.pc = "rules"
  /\ ingress' = IF Listed = {} \/ cache.ingress = Listed
                     \/ (cache.ingress = None) # (ingress = None)
                THEN ingress ELSE Listed
  /\ rec' = Idle
  /\ UNCHANGED <<svc, old>>
  /\ NotFaulty

\* Without the ingress controller: the Ingress and the Services of the pods go.
Cleanup ==
  /\ rec.pc = "cleanup"
  /\ ingress' = None
  /\ DeleteServices(Listed)
  /\ rec' = Idle
  /\ NotFaulty

-----------------------------------------------------------------------------

\* A call fails, after part of the deletions where there are several.
CallFails ==
  /\ Fault
  /\ rec.pc # "idle"
  /\ \E S \in SUBSET (IF rec.pc = "orphans" THEN Orphans
                      ELSE IF rec.pc = "cleanup" THEN Listed ELSE {}) :
       DeleteServices(S)
  /\ ingress' \in IF rec.pc = "cleanup" /\ svc' = svc THEN {ingress, None}
                  ELSE IF rec.pc = "cleanup" THEN {None} ELSE {ingress}
  /\ rec' = Idle
  /\ UNCHANGED <<type, replicas, nginx, pods, foreign, cache>>

\* A new process lists everything.
Restart ==
  /\ Fault
  /\ cache' = [replicas |-> replicas, pods |-> pods, svc |-> svc,
               foreign |-> foreign, ingress |-> ingress]
  /\ old' = {}
  /\ rec' = Idle
  /\ UNCHANGED <<type, world>>

Reconcile ==
  \/ StartReconcile
  \/ NothingToDo("nodePort", "idle") \/ NothingToDo("services", "orphans")
  \/ SkipReplica \/ CreateNodePort \/ UpdateNodePort
  \/ ReconcileService \/ CleanupOrphans \/ ReconcileIngress \/ Cleanup

Cluster ==
  \/ \E n \in 0..MaxReplicas : Scale(n)
  \/ ToggleNginx
  \/ \E port \in Ports : ToggleForeign(port)
  \/ \E i \in Index : EditService(i) \/ CreatePod(i) \/ DeletePod(i) \/ CollectService(i)

Next == Cluster \/ EventsArrive \/ Reconcile \/ CallFails \/ Restart

Spec == Init /\ [][Next]_vars

\* Every informer delivers, the worker runs, the garbage collector collects.
Fairness ==
  /\ WF_vars(SpecEventArrives) /\ WF_vars(PodEventArrives)
  /\ WF_vars(ForeignEventArrives \/ \E i \in Index : ServiceEventArrives(i))
  /\ WF_vars(IngressEventArrives)
  /\ WF_vars(\E i \in Index : CollectService(i))
  /\ WF_vars(Reconcile)

FairSpec == Spec /\ Fairness

-----------------------------------------------------------------------------
(* Properties.                                                             *)

\* Once the cluster rests (changes and faults are bounded) and no foreign
\* Service holds a node port, every pod has a NodePort Service of its own, which
\* the garbage collector will not take away, and in which nothing that users have
\* modified is left but the node port.
NodePortsConverge ==
  <>[](foreign = {}) =>
    <>[](\A i \in Index : type = "NodePort" /\ pods[i].there /\ i < replicas =>
           svc[i] # None /\ svc[i].owner = pods[i].uid /\ ~svc[i].edited)

\* With the ingress controller there, the Services come to be those of the
\* replicas, unedited, and the Ingress leads to the pods; without it neither
\* the Ingress nor a pod's Service is left.
IngressConverges ==
  <>[](type = "Ingress" =>
         IF nginx
         THEN /\ \A i \in Index : svc[i] = IF i < replicas THEN IngressService ELSE None
              /\ Listed # {} => ingress = Listed
         ELSE ingress = None /\ \A i \in Index : pods[i].there => svc[i] = None)

\* What every replica has when nothing is left to do for it.
Served(i) ==
  IF type = "NodePort"
  THEN IF pods[i].there
       THEN svc[i] # None /\ svc[i].owner = pods[i].uid /\ ~svc[i].edited
       ELSE svc[i] = None
  ELSE IF nginx THEN svc[i] = IF i < replicas THEN IngressService ELSE None
       ELSE pods[i].there => svc[i] = None

\* The cache shows what is there, and a Reconcile in progress has read it.
UpToDate ==
  /\ old = {}
  /\ cache = [replicas |-> replicas, pods |-> pods, svc |-> svc,
              foreign |-> foreign, ingress |-> ingress]
  /\ rec.pc # "idle" => rec.n = replicas
  /\ rec.pc = "cleanup" => ~nginx
  /\ rec.pc \in {"services", "orphans", "rules"} => nginx

Settled ==
  /\ UpToDate
  /\ \A i \in Index : Served(i)
  /\ type = "Ingress" /\ nginx /\ Listed # {} => ingress = Listed
  /\ type = "Ingress" /\ ~nginx => ingress = None

\* Where every pod is served nothing is taken away again, moved or exchanged, in a
\* namespace without a dash: not by a Reconcile, however often it comes, nor by a
\* call that fails or a restart at any point of it, nor by the garbage collector
\* (reconcileNodePortService, cleanupOrphanedIngressCMSServices).
SettledLasts ==
  [][Settled /\ ~Dashed /\ changes' = changes /\ pods' = pods =>
       Settled' /\ svc' = svc /\ ingress' = ingress]_vars

\* "Ingress CMS services are automatically created for new pods": and they stay
\* while nothing changes, in every namespace.
ServicesCreatedForPods ==
  type = "Ingress" => <>[](nginx => \A i \in Listed : i < replicas => svc[i] # None)
=============================================================================
