-------------------------- MODULE CMSServicesProofs --------------------------
(***************************************************************************)
(* What holds of CMSServices for any number of replicas and ports and any  *)
(* bound: its type invariant, that the operator never moves a port, and    *)
(* that it takes nothing away where every pod is served.                   *)
(*                                                                         *)
(* The heart is Coherent: a cached Service is the stored one unless its    *)
(* replica is in old, so a write that is not refused keeps the stored port.*)
(***************************************************************************)
EXTENDS CMSServices, TLAPS

Coherent == \A i \in Index \ old : cache.svc[i] = svc[i]

\* Each way of making Services is taken for its type only.
PCMatchesType ==
  /\ rec.pc = "nodePort" => type = "NodePort"
  /\ rec.pc \in {"services", "orphans", "rules", "cleanup"} => type = "Ingress"

IInv == TypeOK /\ Coherent /\ PCMatchesType

\* What of it is about the Services.
ServicesOK ==
  /\ svc \in [Index -> Service \cup {None}]
  /\ \A i \in Index : svc[i] # None => (svc[i].port = -1) = (type = "Ingress")
  /\ old \subseteq Index
  /\ Coherent

RestOK ==
  /\ type \in {"NodePort", "Ingress"} /\ replicas \in 0..MaxReplicas
  /\ nginx \in BOOLEAN /\ pods \in [Index -> PodRec] /\ foreign \subseteq Ports
  /\ ingress \in (SUBSET Index) \cup {None}
  /\ cache \in Cache
  /\ changes \in 0..MaxChanges /\ faults \in 0..MaxFaults

RecOK == rec \in Rec /\ rec.i <= rec.n /\ PCMatchesType

LEMMA Parts == IInv <=> ServicesOK /\ RestOK /\ RecOK
  BY DEF IInv, TypeOK, ServicesOK, RestOK, RecOK

LEMMA PartsNext == ServicesOK' /\ RestOK' /\ RecOK' => IInv'
  BY DEF IInv, TypeOK, ServicesOK, RestOK, RecOK

LEMMA SameServices ==
  ASSUME ServicesOK, UNCHANGED <<svc, old, type, cache>>
  PROVE  ServicesOK'
  BY DEF ServicesOK, Coherent

LEMMA StoreKeeps ==
  ASSUME ServicesOK, NEW i \in Index, NEW s \in Service,
         (s.port = -1) = (type = "Ingress"),
         Store(i, s), UNCHANGED <<type, cache>>
  PROVE  ServicesOK'
  BY DEF ServicesOK, Coherent, Store

LEMMA DeleteKeeps ==
  ASSUME ServicesOK, NEW S \in SUBSET Index, DeleteServices(S), UNCHANGED <<type, cache>>
  PROVE  ServicesOK'
  BY DEF ServicesOK, Coherent, DeleteServices

LEMMA IdleRec ==
  ASSUME rec' = Idle
  PROVE  RecOK'
<1>1. MaxReplicas \in Nat
  BY ConstantsAssumption
<1>. QED
  BY <1>1 DEF RecOK, Rec, Idle, PCMatchesType

\* Advance moves to the next replica or to the step named, of the same type.
LEMMA AdvanceKeeps ==
  ASSUME RecOK, rec.i < rec.n, NEW step \in Nat, NEW last, Advance(step, last),
         \/ last = "idle"
         \/ last = "orphans" /\ type = "Ingress",
         UNCHANGED type
  PROVE  RecOK'
<1>1. MaxReplicas \in Nat
  BY ConstantsAssumption
<1>2. CASE rec.i + 1 < rec.n
  <2>1. rec' = [rec EXCEPT !.i = rec.i + 1, !.port = rec.port + step]
    BY <1>2 DEF Advance
  <2>2. rec.n \in 0..MaxReplicas /\ rec.i \in 0..MaxReplicas /\ rec.port \in Nat
    BY DEF RecOK, Rec
  <2>3. rec.i + 1 \in 0..MaxReplicas /\ rec.port + step \in Nat
    BY <1>1, <1>2, <2>2
  <2>4. rec' \in Rec
    BY <2>1, <2>3 DEF RecOK, Rec
  <2>5. rec'.i = rec.i + 1 /\ rec'.n = rec.n /\ rec'.pc = rec.pc
    BY <2>1 DEF RecOK, Rec
  <2>6. rec'.i <= rec'.n
    BY <1>2, <2>2, <2>5
  <2>. QED
    BY <2>4, <2>5, <2>6 DEF RecOK, PCMatchesType
<1>3. CASE ~(rec.i + 1 < rec.n) /\ last = "idle"
  BY <1>3, IdleRec DEF Advance
<1>4. CASE ~(rec.i + 1 < rec.n) /\ last = "orphans"
  <2>1. rec' = [pc |-> "orphans", n |-> rec.n, i |-> rec.n, port |-> 0]
    BY <1>4 DEF Advance, Idle
  <2>2. rec.n \in 0..MaxReplicas /\ rec.n <= rec.n
    BY <1>1 DEF RecOK, Rec
  <2>3. type = "Ingress"
    BY <1>4
  <2>. QED
    BY <2>1, <2>2, <2>3 DEF RecOK, Rec, PCMatchesType
<1>. QED
  BY <1>2, <1>3, <1>4

LEMMA NotFaultyKeeps ==
  ASSUME RestOK, NotFaulty, ingress' \in (SUBSET Index) \cup {None}
  PROVE  RestOK' /\ UNCHANGED <<type, cache>>
  BY DEF RestOK, NotFaulty

LEMMA NextReplica ==
  ASSUME RecOK, rec.i < rec.n
  PROVE  rec.i \in Index
  BY ConstantsAssumption DEF RecOK, Rec, Index

-----------------------------------------------------------------------------

LEMMA TypeInit == Init => IInv
<1>1. MaxReplicas \in Nat /\ MaxReplicas \in 0..MaxReplicas
  BY ConstantsAssumption
<1>2. 0 \in 0..MaxChanges /\ 0 \in 0..MaxFaults /\ StartPort \in Ports
  BY ConstantsAssumption, BoundsAssumption DEF Ports
<1> SUFFICES ASSUME Init PROVE IInv
  OBVIOUS
<1>3. pods \in [Index -> PodRec] /\ svc \in [Index -> Service \cup {None}]
  BY DEF Init, PodRec, NoSvc
<1>4. ServicesOK
  BY <1>3 DEF Init, ServicesOK, Coherent, NoSvc
<1>8. foreign \subseteq Ports /\ nginx \in BOOLEAN /\ replicas \in 0..MaxReplicas
  BY <1>1, <1>2 DEF Init
<1>9. ingress \in (SUBSET Index) \cup {None}
  BY DEF Init
<1>5. cache \in Cache
  <2>1. cache = [replicas |-> replicas, pods |-> pods, svc |-> svc,
                 foreign |-> foreign, ingress |-> ingress]
    BY DEF Init
  <2>. QED
    BY <1>3, <1>8, <1>9, <2>1 DEF Cache
<1>6. RestOK
  <2>1. type \in {"NodePort", "Ingress"} /\ changes = 0 /\ faults = 0
    BY DEF Init
  <2>. QED
    BY <1>2, <1>3, <1>8, <1>9, <1>5, <2>1 DEF RestOK
<1>7. RecOK
  BY <1>1 DEF Init, RecOK, Rec, Idle, PCMatchesType
<1>. QED
  BY <1>4, <1>6, <1>7, Parts

LEMMA ClusterKeeps ==
  ASSUME IInv, Cluster
  PROVE  IInv'
<1> USE Parts
<1>0. MaxChanges \in Nat /\ (Change => changes + 1 \in 0..MaxChanges)
  BY BoundsAssumption DEF Change, RestOK
<1>1. ASSUME NEW n \in 0..MaxReplicas, Scale(n)
      PROVE  IInv'
  BY <1>0, <1>1, SameServices, PartsNext
     DEF Scale, Change, RestOK, RecOK, PCMatchesType
<1>2. CASE ToggleNginx
  BY <1>0, <1>2, SameServices, PartsNext
     DEF ToggleNginx, Change, RestOK, RecOK, PCMatchesType
<1>3. ASSUME NEW port \in Ports, ToggleForeign(port)
      PROVE  IInv'
  BY <1>0, <1>3, SameServices, PartsNext
     DEF ToggleForeign, Change, RestOK, RecOK, PCMatchesType
<1>4. ASSUME NEW i \in Index, EditService(i)
      PROVE  IInv'
  <2>1. svc[i] \in Service /\ (svc[i].port = -1) = (type = "Ingress")
    BY <1>4 DEF EditService, ServicesOK
  <2>2. ASSUME NEW port \in Ports
        PROVE  /\ [svc[i] EXCEPT !.port = port] \in Service
               /\ [svc[i] EXCEPT !.port = port].port = port
               /\ port # -1
    BY <2>1, ConstantsAssumption DEF Service, Ports
  <2>3. [svc[i] EXCEPT !.edited = TRUE] \in Service
        /\ [svc[i] EXCEPT !.edited = TRUE].port = svc[i].port
    BY <2>1 DEF Service
  <2>4. PICK s \in Service \cup {None} :
          /\ svc' = [svc EXCEPT ![i] = s]
          /\ s # None => (s.port = -1) = (type = "Ingress")
    BY <1>4, <2>1, <2>2, <2>3 DEF EditService, InUse, ServicesOK
  <2>5. ServicesOK'
    BY <1>4, <2>4 DEF EditService, Change, ServicesOK, Coherent
  <2>. QED
    BY <1>0, <1>4, <2>5, PartsNext
       DEF EditService, Change, RestOK, RecOK, PCMatchesType
<1>5. ASSUME NEW i \in Index, CreatePod(i)
      PROVE  IInv'
  <2>1. pods' \in [Index -> PodRec]
    BY <1>5 DEF CreatePod, RestOK, PodRec
  <2>. QED
    BY <1>5, <2>1, SameServices, PartsNext DEF CreatePod, RestOK, RecOK, PCMatchesType
<1>6. ASSUME NEW i \in Index, DeletePod(i)
      PROVE  IInv'
  <2>1. pods' \in [Index -> PodRec]
    BY <1>6 DEF DeletePod, RemovePod, RestOK, PodRec
  <2>2. /\ UNCHANGED <<type, cache, rec, faults, replicas, nginx, svc, foreign,
                       ingress, old>>
        /\ changes' \in 0..MaxChanges
    BY <1>0, <1>6 DEF DeletePod, RemovePod, Change, RestOK
  <2>. QED
    BY <2>1, <2>2, SameServices, PartsNext DEF RestOK, RecOK, PCMatchesType
<1>7. ASSUME NEW i \in Index, CollectService(i)
      PROVE  IInv'
  <2>1. ServicesOK'
    BY <1>7 DEF CollectService, ServicesOK, Coherent
  <2>. QED
    BY <1>7, <2>1, PartsNext DEF CollectService, RestOK, RecOK, PCMatchesType
<1>. QED
  BY <1>1, <1>2, <1>3, <1>4, <1>5, <1>6, <1>7 DEF Cluster

LEMMA EventsKeep ==
  ASSUME IInv, EventsArrive
  PROVE  IInv'
<1> USE Parts
<1>1. ASSUME NEW field \in {"replicas", "pods", "foreign", "ingress"}, NEW value,
             [cache EXCEPT ![field] = value] \in Cache, Arrives(field, value)
      PROVE  IInv'
  <2>1. cache'.svc = cache.svc
    BY <1>1 DEF Arrives, RestOK, Cache
  <2>2. ServicesOK'
    BY <1>1, <2>1 DEF Arrives, world, ServicesOK, Coherent
  <2>. QED
    BY <1>1, <2>2, PartsNext DEF Arrives, world, RestOK, RecOK, PCMatchesType
<1>2. CASE SpecEventArrives
  BY <1>1, <1>2 DEF SpecEventArrives, RestOK, Cache
<1>3. CASE PodEventArrives
  BY <1>1, <1>3 DEF PodEventArrives, RestOK, Cache
<1>4. CASE ForeignEventArrives
  BY <1>1, <1>4 DEF ForeignEventArrives, RestOK, Cache
<1>5. CASE IngressEventArrives
  BY <1>1, <1>5 DEF IngressEventArrives, RestOK, Cache
<1>6. ASSUME NEW i \in Index, ServiceEventArrives(i)
      PROVE  IInv'
  <2>1. cache' \in Cache /\ cache'.svc = [cache.svc EXCEPT ![i] = svc[i]]
    BY <1>6 DEF ServiceEventArrives, RestOK, ServicesOK, Cache
  <2>2. cache.svc \in [Index -> Service \cup {None}]
    BY DEF RestOK, Cache
  <2>3. ServicesOK'
    BY <1>6, <2>1, <2>2 DEF ServiceEventArrives, world, ServicesOK, Coherent
  <2>. QED
    BY <1>6, <2>1, <2>3, PartsNext
       DEF ServiceEventArrives, world, RestOK, RecOK, PCMatchesType
<1>. QED
  BY <1>2, <1>3, <1>4, <1>5, <1>6 DEF EventsArrive

-----------------------------------------------------------------------------

\* The port written is the stored one: the copy is, unless the write is refused.
LEMMA KeptIsStored ==
  ASSUME IInv, rec.i \in Index, rec.i \notin old, cache.svc[rec.i] # None
  PROVE  LET kept == [cache.svc[rec.i] EXCEPT !.port = KeptPort, !.edited = FALSE]
         IN kept \in Service /\ kept.port = svc[rec.i].port /\ svc[rec.i] # None
<1>1. cache.svc[rec.i] = svc[rec.i]
  BY DEF IInv, Coherent
<1>2. svc[rec.i] \in Service
  BY <1>1 DEF IInv, TypeOK
<1>. QED
  BY <1>1, <1>2 DEF KeptPort, Service

LEMMA ReconcileKeeps ==
  ASSUME IInv, Reconcile
  PROVE  IInv'
<1> USE Parts
<1>1. CASE StartReconcile
  <2>1. 0 \in 0..MaxReplicas /\ StartPort \in Nat
    BY ConstantsAssumption DEF Ports
  <2>2. cache.replicas \in 0..MaxReplicas
    BY DEF RestOK, Cache
  <2>3. rec' \in Rec /\ rec'.i <= rec'.n /\ PCMatchesType'
    BY <1>1, <2>1, <2>2 DEF StartReconcile, NotFaulty, Rec, PCMatchesType, RestOK
  <2>. QED
    BY <1>1, <2>3, NotFaultyKeeps, SameServices, PartsNext
       DEF StartReconcile, RestOK, RecOK
<1>2. ASSUME NEW pc \in {"nodePort", "services"}, NEW next \in {"idle", "orphans"},
             NothingToDo(pc, next), pc = "nodePort" <=> next = "idle"
      PROVE  IInv'
  <2>1. RecOK'
    BY <1>2, IdleRec DEF NothingToDo, NotFaulty, RecOK, Rec, PCMatchesType
  <2>. QED
    BY <1>2, <2>1, NotFaultyKeeps, SameServices, PartsNext DEF NothingToDo, RestOK
<1>3. CASE SkipReplica
  BY <1>3, AdvanceKeeps, NotFaultyKeeps, SameServices, PartsNext
     DEF SkipReplica, RestOK
<1>4. CASE CreateNodePort
  <2>1. rec.i \in Index /\ type = "NodePort" /\ NotFaulty /\ rec.i < rec.n
    BY <1>4, NextReplica DEF CreateNodePort, RecOK, PCMatchesType
  <2>2. CASE rec' = Idle /\ UNCHANGED <<svc, ingress, old>>
    BY <2>1, <2>2, IdleRec, NotFaultyKeeps, SameServices, PartsNext DEF RestOK
  <2>3. ASSUME NEW port, CanCreate(rec.i, port), Advance(1, "idle"),
               Store(rec.i, [port |-> port, owner |-> cache.pods[rec.i].uid,
                             edited |-> FALSE])
        PROVE  IInv'
    <3>1. port \in Ports /\ port # -1
      BY <2>3, ConstantsAssumption DEF CanCreate, Ports
    <3>2. cache.pods[rec.i].uid \in {0, 1}
      BY <2>1 DEF RestOK, Cache, PodRec
    <3> DEFINE s == [port |-> port, owner |-> cache.pods[rec.i].uid, edited |-> FALSE]
    <3>3. s \in Service /\ s.port # -1
      BY <3>1, <3>2 DEF Service
    <3>4. RestOK' /\ UNCHANGED <<type, cache>>
      BY <2>1, <2>3, NotFaultyKeeps DEF Store, RestOK
    <3>5. ServicesOK'
      BY <2>1, <2>3, <3>3, <3>4, StoreKeeps
    <3>. QED
      BY <2>1, <2>3, <3>4, <3>5, AdvanceKeeps, PartsNext
  <2>. QED
    BY <1>4, <2>2, <2>3 DEF CreateNodePort
<1>5. CASE UpdateNodePort
  <2>1. /\ rec.i \in Index /\ rec.i < rec.n /\ cache.svc[rec.i] # None
        /\ type = "NodePort" /\ NotFaulty
    BY <1>5, NextReplica DEF UpdateNodePort, RecOK, PCMatchesType
  <2>2. CASE rec' = Idle /\ UNCHANGED <<svc, ingress, old>>
    BY <2>1, <2>2, IdleRec, NotFaultyKeeps, SameServices, PartsNext DEF RestOK
  <2>3. CASE Advance(1, "idle") /\ UNCHANGED <<svc, ingress, old>>
    BY <2>1, <2>3, AdvanceKeeps, NotFaultyKeeps, SameServices, PartsNext DEF RestOK
  <2> DEFINE kept == [cache.svc[rec.i] EXCEPT !.port = KeptPort, !.edited = FALSE]
  <2>4. CASE rec.i \notin old /\ Store(rec.i, kept) /\ Advance(1, "idle")
    <3>1. kept \in Service /\ kept.port = svc[rec.i].port /\ svc[rec.i] # None
      BY <2>1, <2>4, KeptIsStored
    <3>2. kept.port # -1
      BY <2>1, <3>1 DEF ServicesOK
    <3>3. RestOK' /\ UNCHANGED <<type, cache>>
      BY <2>1, <2>4, NotFaultyKeeps DEF Store, RestOK
    <3>4. ServicesOK'
      BY <2>1, <2>4, <3>1, <3>2, <3>3, StoreKeeps
    <3>. QED
      BY <2>1, <2>4, <3>3, <3>4, AdvanceKeeps, PartsNext
  <2>. QED
    BY <1>5, <2>2, <2>3, <2>4 DEF UpdateNodePort
<1>6. CASE ReconcileService
  <2>1. rec.i \in Index /\ rec.i < rec.n /\ type = "Ingress" /\ NotFaulty
    BY <1>6, NextReplica DEF ReconcileService, RecOK, PCMatchesType
  <2>2. IngressService \in Service /\ IngressService.port = -1
    BY DEF IngressService, Service
  <2>3. RestOK' /\ UNCHANGED <<type, cache>>
    BY <1>6, <2>1, NotFaultyKeeps DEF ReconcileService, Store, RestOK
  <2>4. ServicesOK'
    BY <1>6, <2>1, <2>2, <2>3, StoreKeeps, SameServices DEF ReconcileService
  <2>5. RecOK'
    BY <1>6, <2>1, <2>3, AdvanceKeeps, IdleRec DEF ReconcileService
  <2>. QED
    BY <2>3, <2>4, <2>5, PartsNext
<1>7. CASE CleanupOrphans
  <2>1. ServicesOK' /\ RestOK'
    BY <1>7, NotFaultyKeeps, DeleteKeeps DEF CleanupOrphans, Orphans, RestOK
  <2>2. RecOK'
    BY <1>7 DEF CleanupOrphans, NotFaulty, RecOK, Rec, PCMatchesType
  <2>. QED
    BY <2>1, <2>2, PartsNext
<1>8. CASE ReconcileIngress
  <2>1. ingress' \in (SUBSET Index) \cup {None}
    BY <1>8 DEF ReconcileIngress, Listed, RestOK
  <2>. QED
    BY <1>8, <2>1, IdleRec, NotFaultyKeeps, SameServices, PartsNext
       DEF ReconcileIngress
<1>9. CASE Cleanup
  <2>1. Listed \in SUBSET Index /\ ingress' \in (SUBSET Index) \cup {None}
    BY <1>9 DEF Cleanup, Listed
  <2>. QED
    BY <1>9, <2>1, IdleRec, NotFaultyKeeps, DeleteKeeps, PartsNext DEF Cleanup
<1>. QED
  BY <1>1, <1>2, <1>3, <1>4, <1>5, <1>6, <1>7, <1>8, <1>9 DEF Reconcile

LEMMA FaultKeeps ==
  ASSUME IInv, CallFails \/ Restart
  PROVE  IInv'
<1> USE Parts
<1>1. Fault => faults' \in 0..MaxFaults /\ changes' = changes
  BY BoundsAssumption DEF Fault, RestOK
<1>2. CASE CallFails
  <2>1. PICK S \in SUBSET Index : DeleteServices(S)
    BY <1>2 DEF CallFails, Orphans, Listed
  <2>2. ingress' \in (SUBSET Index) \cup {None}
    <3>1. ingress' \in {ingress, None}
      BY <1>2 DEF CallFails
    <3>. QED
      BY <3>1 DEF RestOK
  <2>. QED
    BY <1>1, <1>2, <2>1, <2>2, DeleteKeeps, IdleRec, PartsNext DEF CallFails, RestOK
<1>3. CASE Restart
  <2>1. cache' \in Cache /\ cache'.svc = svc
    BY <1>3 DEF Restart, RestOK, ServicesOK, Cache
  <2>2. ServicesOK'
    BY <1>3, <2>1 DEF Restart, world, ServicesOK, Coherent
  <2>. QED
    BY <1>1, <1>3, <2>1, <2>2, IdleRec, PartsNext DEF Restart, world, RestOK
<1>. QED
  BY <1>2, <1>3

LEMMA InvStep == IInv /\ [Next]_vars => IInv'
<1>1. ASSUME IInv, UNCHANGED vars
      PROVE  IInv'
  BY <1>1 DEF vars, world, IInv, TypeOK, Coherent, PCMatchesType
<1>. QED
  BY <1>1, ClusterKeeps, EventsKeep, ReconcileKeeps, FaultKeeps DEF Next

\* Services, cache and Reconcile are well-formed, and every Service is of the
\* kind that cmsService.type asks for.
THEOREM CMSTypeCorrect == Spec => []TypeOK
<1>1. IInv => TypeOK
  BY DEF IInv
<1>. QED
  BY <1>1, TypeInit, InvStep, PTL DEF Spec

\* The operator never changes the node port of a Service that is there, however
\* old the copy it writes from (reconcileNodePortService, lines 329 to 337). So a
\* port that a user has set stays, which is not what docs/service-management.en.md
\* says at lines 41 and 100: modifications are reverted.
THEOREM ModifiedPortsAreNotReverted ==
  Spec => [][\A i \in Index : svc[i] # None /\ svc'[i] # None /\ changes' = changes =>
               svc'[i].port = svc[i].port]_vars
<1> DEFINE Kept ==
      \A i \in Index : svc[i] # None /\ svc'[i] # None /\ changes' = changes =>
        svc'[i].port = svc[i].port
<1>1. IInv /\ [Next]_vars => [Kept]_vars
  <2> SUFFICES ASSUME IInv, Next PROVE Kept
    BY DEF vars
  <2> USE Parts
  <2>1. changes \in Nat /\ changes + 1 # changes
    BY BoundsAssumption DEF RestOK
  <2>2. ASSUME changes' = changes, Cluster
        PROVE  Kept
    <3>1. ~Change
      BY <2>1, <2>2 DEF Change
    <3>2. PICK i \in Index : CreatePod(i) \/ DeletePod(i) \/ CollectService(i)
      BY <2>2, <3>1 DEF Cluster, Scale, ToggleNginx, ToggleForeign, EditService
    <3>. QED
      BY <3>2 DEF CreatePod, DeletePod, RemovePod, CollectService, ServicesOK
  <2>3. CASE EventsArrive
    BY <2>3 DEF EventsArrive, SpecEventArrives, PodEventArrives, ForeignEventArrives,
         IngressEventArrives, Arrives, ServiceEventArrives, world
  <2>4. ASSUME NEW i \in Index, NEW s, Store(i, s), svc[i] # None => s.port = svc[i].port
        PROVE  Kept
    BY <2>4 DEF Store, ServicesOK
  <2>5. ASSUME NEW S, DeleteServices(S)
        PROVE  Kept
    BY <2>5 DEF DeleteServices, ServicesOK
  <2>6. CASE CreateNodePort
    <3>1. rec.i \in Index
      BY <2>6, NextReplica DEF CreateNodePort
    <3>. QED
      BY <2>4, <2>6, <3>1 DEF CreateNodePort, CanCreate
  <2>7. CASE UpdateNodePort
    <3>1. rec.i \in Index
      BY <2>7, NextReplica DEF UpdateNodePort
    <3>. QED
      BY <2>4, <2>7, <3>1, KeptIsStored DEF UpdateNodePort
  <2>8. CASE ReconcileService
    <3>1. rec.i \in Index /\ type = "Ingress"
      BY <2>8, NextReplica DEF ReconcileService, RecOK, PCMatchesType
    <3>. QED
      BY <2>4, <2>8, <3>1 DEF ReconcileService, IngressService, ServicesOK
  <2>9. CASE CleanupOrphans \/ Cleanup \/ CallFails
    BY <2>5, <2>9 DEF CleanupOrphans, Cleanup, CallFails
  <2>10. ASSUME UNCHANGED svc
         PROVE  Kept
    BY <2>10
  <2>. QED
    BY <2>2, <2>3, <2>6, <2>7, <2>8, <2>9, <2>10
       DEF Next, Reconcile, StartReconcile, NothingToDo, SkipReplica,
           ReconcileIngress, Restart, world
<1>. QED
  BY <1>1, TypeInit, InvStep, PTL DEF Spec

-----------------------------------------------------------------------------
(* What is served stays.                                                   *)

\* What UpToDate asks of the Reconcile in progress.
RecFits ==
  /\ rec.pc # "idle" => rec.n = replicas
  /\ rec.pc = "cleanup" => ~nginx
  /\ rec.pc \in {"services", "orphans", "rules"} => nginx

LEMMA Still ==
  ASSUME Settled, UNCHANGED <<type, world, cache, old>>, RecFits'
  PROVE  Settled' /\ svc' = svc /\ ingress' = ingress
  BY DEF Settled, UpToDate, RecFits, Served, Listed, world, IngressService

LEMMA Cached ==
  ASSUME Settled
  PROVE  /\ cache.replicas = replicas /\ cache.pods = pods /\ cache.svc = svc
         /\ cache.foreign = foreign /\ cache.ingress = ingress /\ old = {}
  BY DEF Settled, UpToDate

LEMMA AdvanceFits ==
  ASSUME RecOK, RecFits, NEW step, NEW last \in {"idle", "orphans"}, Advance(step, last),
         rec.pc # "idle", last = "orphans" => nginx, UNCHANGED <<replicas, nginx>>
  PROVE  RecFits'
<1>1. CASE rec.i + 1 < rec.n
  BY <1>1 DEF Advance, RecFits, RecOK, Rec
<1>2. CASE ~(rec.i + 1 < rec.n)
  BY <1>2 DEF Advance, RecFits, Idle
<1>. QED
  BY <1>1, <1>2

\* Deleting what is not there.
LEMMA DeleteNothing ==
  ASSUME IInv, NEW S \in SUBSET Index, \A i \in S : svc[i] = None, DeleteServices(S)
  PROVE  UNCHANGED <<svc, old>>
<1>1. svc = [i \in Index |-> svc[i]]
  BY DEF IInv, TypeOK
<1>2. svc' = [i \in Index |-> svc[i]] /\ old' = old
  BY DEF DeleteServices
<1>. QED
  BY <1>1, <1>2

LEMMA NoOrphans ==
  ASSUME IInv, Settled, ~Dashed, rec.pc = "orphans"
  PROVE  Orphans = {}
<1>1. type = "Ingress" /\ nginx /\ rec.n = replicas
  BY DEF Settled, UpToDate, IInv, PCMatchesType
<1>2. \A i \in Index : i >= replicas => svc[i] = None
  <2>1. ASSUME NEW i \in Index, i >= replicas PROVE ~(i < replicas)
    BY <2>1, ConstantsAssumption DEF IInv, TypeOK, Index
  <2>. QED
    BY <1>1, <2>1 DEF Settled, Served
<1>. QED
  BY <1>1, <1>2, Cached DEF Orphans

LEMMA NothingToClean ==
  ASSUME IInv, Settled, rec.pc = "cleanup"
  PROVE  ingress = None /\ Listed \subseteq Index /\ \A i \in Listed : svc[i] = None
<1>1. type = "Ingress" /\ ~nginx
  BY DEF Settled, UpToDate, IInv, PCMatchesType
<1>. QED
  BY <1>1, Cached DEF Settled, Served, Listed

\* Neither users nor pods, events nor the garbage collector have anything to do.
LEMMA ClusterRests ==
  ASSUME IInv, Settled, UNCHANGED <<changes, pods>>
  PROVE  ~Cluster /\ ~EventsArrive
<1>1. ~Change
  BY BoundsAssumption DEF Change, IInv, TypeOK
<1>2. ASSUME NEW i \in Index
      PROVE  ~CreatePod(i) /\ ~DeletePod(i) /\ ~CollectService(i)
  <2>1. ~CreatePod(i) /\ ~DeletePod(i)
    <3>1. pods = [j \in Index |-> pods[j]]
      BY DEF IInv, TypeOK
    <3>2. ASSUME CreatePod(i) PROVE FALSE
      <4>1. pods[i].there = TRUE
        BY <3>1, <3>2 DEF CreatePod, IInv, TypeOK, PodRec
      <4>. QED
        BY <3>2, <4>1 DEF CreatePod
    <3>3. ASSUME DeletePod(i) PROVE FALSE
      <4>1. PICK gone : pods' = [pods EXCEPT ![i] = gone] /\ gone.there = FALSE
        BY <3>3 DEF DeletePod, RemovePod
      <4>2. pods[i] = gone
        BY <3>1, <4>1
      <4>. QED
        BY <3>3, <4>1, <4>2 DEF DeletePod, RemovePod
    <3>. QED
      BY <3>2, <3>3
  <2>2. ~CollectService(i)
    BY DEF CollectService, Settled, Served
  <2>. QED
    BY <2>1, <2>2
<1>3. ~EventsArrive
  BY Cached DEF EventsArrive, SpecEventArrives, PodEventArrives, ForeignEventArrives,
                IngressEventArrives, Arrives, ServiceEventArrives
<1>. QED
  BY <1>1, <1>2, <1>3 DEF Cluster, Scale, ToggleNginx, ToggleForeign, EditService

\* Nothing is written where there is nothing to do, and the Reconcile goes on.
LEMMA ReconcileIdles ==
  ASSUME IInv, Settled, ~Dashed, Reconcile
  PROVE  UNCHANGED <<type, world, cache, old>> /\ RecFits'
<1>0. RecOK /\ RecFits /\ (NotFaulty /\ UNCHANGED <<svc, ingress>> => UNCHANGED world)
  BY Parts DEF Settled, UpToDate, RecFits, NotFaulty, world
<1>1. CASE StartReconcile
  BY <1>0, <1>1, Cached DEF StartReconcile, NotFaulty, RecFits
<1>2. CASE NothingToDo("nodePort", "idle") \/ NothingToDo("services", "orphans")
  <2>1. RecFits'
    BY <1>0, <1>2 DEF NothingToDo, NotFaulty, RecFits, Idle, RecOK, Rec
  <2>. QED
    BY <1>0, <1>2, <2>1 DEF NothingToDo, NotFaulty
<1>3. CASE SkipReplica
  <2>1. RecFits'
    BY <1>0, <1>3, AdvanceFits DEF SkipReplica, NotFaulty
  <2>. QED
    BY <1>0, <1>3, <2>1 DEF SkipReplica, NotFaulty
<1>4. ~CreateNodePort
  <2>1. ASSUME CreateNodePort PROVE FALSE
    <3>1. rec.i \in Index /\ type = "NodePort" /\ pods[rec.i].there /\ svc[rec.i] = None
      BY <1>0, <2>1, NextReplica, Cached DEF CreateNodePort, RecOK, PCMatchesType
    <3>. QED
      BY <3>1 DEF Settled, Served
  <2>. QED
    BY <2>1
<1>5. CASE UpdateNodePort
  <2>1. rec.i \in Index /\ type = "NodePort" /\ pods[rec.i].there /\ rec.pc # "idle"
    BY <1>0, <1>5, NextReplica, Cached DEF UpdateNodePort, RecOK, PCMatchesType
  <2>2. svc[rec.i] \in Service /\ ~svc[rec.i].edited
    BY <2>1 DEF Settled, Served, IInv, TypeOK
  <2>3. [cache.svc[rec.i] EXCEPT !.port = KeptPort, !.edited = FALSE] = cache.svc[rec.i]
    BY <2>2, Cached DEF KeptPort, Service
  <2>4. Advance(1, "idle") /\ UNCHANGED <<svc, ingress, old>> /\ NotFaulty
    BY <1>5, <2>3 DEF UpdateNodePort
  <2>5. RecFits'
    BY <1>0, <2>1, <2>4, AdvanceFits DEF NotFaulty
  <2>. QED
    BY <1>0, <2>4, <2>5 DEF NotFaulty
<1>6. CASE ReconcileService
  <2>1. /\ rec.i \in Index /\ type = "Ingress" /\ nginx
        /\ rec.i < replicas /\ rec.pc # "idle"
    BY <1>0, <1>6, NextReplica DEF ReconcileService, RecOK, PCMatchesType, RecFits
  <2>2. svc[rec.i] = IngressService
    BY <2>1 DEF Settled, Served
  <2>3. svc[rec.i] # None
    <3>1. IngressService \in Service
      BY DEF IngressService, Service
    <3>. QED
      BY <2>2, <3>1, NoneAssumption
  <2>4. Advance(0, "orphans") /\ UNCHANGED <<svc, ingress, old>> /\ NotFaulty
    BY <1>6, <2>2, <2>3, Cached DEF ReconcileService, IngressService
  <2>5. RecFits'
    BY <1>0, <2>1, <2>4, AdvanceFits DEF NotFaulty
  <2>. QED
    BY <1>0, <2>4, <2>5 DEF NotFaulty
<1>7. CASE CleanupOrphans
  <2>1. UNCHANGED <<svc, old>>
    BY <1>7, NoOrphans, DeleteNothing DEF CleanupOrphans
  <2>2. RecFits'
    BY <1>0, <1>7 DEF CleanupOrphans, NotFaulty, RecFits, RecOK, Rec
  <2>. QED
    BY <1>0, <1>7, <2>1, <2>2 DEF CleanupOrphans, NotFaulty
<1>8. CASE ReconcileIngress
  <2>1. type = "Ingress" /\ nginx
    BY <1>0, <1>8 DEF ReconcileIngress, RecOK, PCMatchesType, RecFits
  <2>2. ingress' = ingress
    BY <1>8, <2>1, Cached DEF ReconcileIngress, Settled
  <2>3. RecFits'
    BY <1>8 DEF ReconcileIngress, RecFits, Idle
  <2>. QED
    BY <1>0, <1>8, <2>2, <2>3 DEF ReconcileIngress, NotFaulty
<1>9. CASE Cleanup
  <2>1. UNCHANGED <<svc, old>> /\ ingress' = ingress
    BY <1>9, NothingToClean, DeleteNothing DEF Cleanup
  <2>2. RecFits'
    BY <1>9 DEF Cleanup, RecFits, Idle
  <2>. QED
    BY <1>0, <1>9, <2>1, <2>2 DEF Cleanup, NotFaulty
<1>. QED
  BY <1>1, <1>2, <1>3, <1>4, <1>5, <1>6, <1>7, <1>8, <1>9 DEF Reconcile

LEMMA FaultsHarmless ==
  ASSUME IInv, Settled, ~Dashed, CallFails \/ Restart
  PROVE  UNCHANGED <<type, world, cache, old>> /\ RecFits'
<1>1. RecFits'
  BY DEF CallFails, Restart, RecFits, Idle
<1>2. CASE CallFails
  <2>1. PICK S \in SUBSET (IF rec.pc = "orphans" THEN Orphans
                           ELSE IF rec.pc = "cleanup" THEN Listed ELSE {}) :
          DeleteServices(S)
    BY <1>2 DEF CallFails
  <2>2. S \in SUBSET Index /\ \A i \in S : svc[i] = None
    BY NoOrphans, NothingToClean
  <2>3. UNCHANGED <<svc, old>>
    BY <2>1, <2>2, DeleteNothing
  <2>4. ingress' = ingress
    BY <1>2, NothingToClean DEF CallFails
  <2>. QED
    BY <1>1, <1>2, <2>3, <2>4 DEF CallFails, world
<1>3. CASE Restart
  BY <1>1, <1>3 DEF Restart, world, Settled, UpToDate
<1>. QED
  BY <1>2, <1>3

\* Where every pod is served the operator writes nothing, for any number of
\* replicas and ports and however often calls fail (finding 3 of the README shows
\* why a dash in the namespace is excluded).
THEOREM ServedPodsStay == Spec => SettledLasts
<1>1. ASSUME IInv, [Next]_vars
      PROVE  [Settled /\ ~Dashed /\ changes' = changes /\ pods' = pods =>
                Settled' /\ svc' = svc /\ ingress' = ingress]_vars
  BY <1>1, ClusterRests, ReconcileIdles, FaultsHarmless, Still DEF Next
<1>. QED
  BY <1>1, TypeInit, InvStep, PTL DEF Spec, SettledLasts
=============================================================================
