-------------------------- MODULE BrokerAccessProofs --------------------------
(***************************************************************************)
(* What holds of BrokerAccess for any pods, brokers and settings and any   *)
(* bound: its type invariant, that neither controller writes over what it  *)
(* has not seen, that Endpoints are the result of one whole sweep over the *)
(* pods, and that Services and Endpoints stay as they are once they are    *)
(* what the spec and the pods ask for.                                     *)
(*                                                                         *)
(* The invariant has one part for each: Coherent ties the copies to what   *)
(* is stored, ServicesInv and RoundInv say how far the calls in progress   *)
(* have come.                                                              *)
(***************************************************************************)
EXTENDS BrokerAccess, TLAPS

\* A copy that is not marked as old is the stored one.
Coherent ==
  \A b \in Brokers :
    /\ <<"svc", b>> \notin old => svcCache[b] = svc[b]
    /\ <<"eps", b>> \notin old => epsCache[b] = eps[b]

\* Only Services of NodePort brokers are still to look at.
ServicesInv == srec.todo \subseteq Wanted(srec.spec)

\* The pods found are in the lists or still to be asked; between two brokers nobody
\* is, and the list of the active ones is empty.
RoundInv ==
  /\ \A b \in erec.todo : erec.spec[b] # None
  /\ IF erec.at = None THEN erec.active = {} /\ erec.left = {}
     ELSE Found = erec.active \cup erec.notReady \cup {AddressOf(p) : p \in erec.left}

IInv == TypeOK /\ Coherent /\ ServicesInv /\ RoundInv

\* TypeOK by the parts of the state that steps change together.
TypeServices ==
  /\ taken \subseteq Ports
  /\ svc \in [Brokers -> ServiceState] /\ svcCache \in [Brokers -> ServiceState]
  /\ srec \in SRec

TypeEndpoints ==
  /\ eps \in [Brokers -> Endpoints \cup {None}]
  /\ epsCache \in [Brokers -> Endpoints \cup {None}]

TypeRound ==
  /\ erec \in ERec
  /\ erec.left \subseteq {p \in Pods : erec.listed[p].st = "running"}
  /\ erec.at # None => erec.spec[erec.at] # None

TypeRest ==
  /\ spec \in BrokerSpec /\ specCache \in BrokerSpec
  /\ old \subseteq {"svc"} \X Brokers \cup {"eps"} \X Brokers
  /\ pods \in [Pods -> PodRec] /\ podCache \in [Pods -> CachedPod]
  /\ changes \in 0..MaxChanges /\ faults \in 0..MaxFaults

LEMMA TypeParts ==
  TypeOK <=> TypeServices /\ TypeEndpoints /\ TypeRound /\ TypeRest
  BY DEF TypeOK, TypeServices, TypeEndpoints, TypeRound, TypeRest

-----------------------------------------------------------------------------
(* Types of what the actions are made of.                                  *)

LEMMA ShownType ==
  ASSUME NEW r \in PodRec
  PROVE  Shown(r) \in CachedPod
  BY DEF Shown, PodRec, CachedPod

LEMMA IdleTypes == IdleS \in SRec /\ IdleE \in ERec
  BY DEF IdleS, IdleE, SRec, ERec, BrokerSpec, NoPods, CachedPod

LEMMA AddressType ==
  ASSUME erec \in ERec, NEW p \in Pods
  PROVE  AddressOf(p) \in Address
  BY DEF AddressOf, Address, ERec, CachedPod

\* The end of a broker's turn.
LEMMA LeaveType ==
  ASSUME erec \in ERec, RoundInv
  PROVE  /\ Leave \in ERec /\ Leave.left \subseteq erec.left
         /\ Leave.at = None /\ Leave.active = {}
         /\ \A b \in Leave.todo : Leave.spec[b] # None
<1>1. CASE erec.todo = {}
  BY <1>1, IdleTypes DEF Leave, IdleE
<1>2. CASE erec.todo # {}
  BY <1>2 DEF Leave, ERec, RoundInv
<1>. QED
  BY <1>1, <1>2

LEMMA NewEndpointsType ==
  ASSUME erec \in ERec, TypeRound, erec.at # None
  PROVE  NewEndpoints \in Endpoints \cup {None}
  BY DEF NewEndpoints, Endpoints, ERec, BrokerSpec, TypeRound

-----------------------------------------------------------------------------
LEMMA InvInit == Init => IInv
<1> SUFFICES ASSUME Init PROVE IInv
  OBVIOUS
<1>1. TypeServices
  BY IdleTypes DEF Init, TypeServices, ServiceState
<1>2. TypeEndpoints
  BY DEF Init, TypeEndpoints
<1>3. TypeRound
  BY IdleTypes DEF Init, TypeRound, IdleE
<1>4. TypeRest
  <2>1. 0 \in 0..MaxChanges /\ 0 \in 0..MaxFaults
    BY BoundsAssumption
  <2>. QED
    BY <2>1 DEF Init, TypeRest, NoPods, PodRec, CachedPod
<1>5. Coherent /\ ServicesInv /\ RoundInv
  BY DEF Init, Coherent, ServicesInv, RoundInv, IdleS, IdleE
<1>. QED
  BY <1>1, <1>2, <1>3, <1>4, <1>5, TypeParts DEF IInv

-----------------------------------------------------------------------------
(* What a step leaves alone stays as it was.                               *)

LEMMA ServicesFrame ==
  ASSUME IInv, UNCHANGED <<taken, svc, svcCache, srec>>
  PROVE  TypeServices' /\ ServicesInv'
  BY TypeParts DEF IInv, TypeServices, ServicesInv

LEMMA EndpointsFrame ==
  ASSUME IInv, UNCHANGED epsVars
  PROVE  TypeEndpoints'
  BY TypeParts DEF IInv, TypeEndpoints, epsVars

LEMMA RoundFrame ==
  ASSUME IInv, erec' = erec
  PROVE  TypeRound' /\ RoundInv'
  BY TypeParts DEF IInv, TypeRound, RoundInv, Found, AddressOf

LEMMA CoherentFrame ==
  ASSUME IInv, UNCHANGED <<svcVars, epsVars, old>>
  PROVE  Coherent'
  BY DEF IInv, Coherent, svcVars, epsVars

LEMMA RestFrame ==
  ASSUME IInv, UNCHANGED <<spec, specCache, old, podVars, counters>>
  PROVE  TypeRest'
  BY TypeParts DEF IInv, TypeRest, podVars, counters

\* The parts make up the whole.
LEMMA Whole ==
  ASSUME TypeServices', TypeEndpoints', TypeRound', TypeRest',
         Coherent', ServicesInv', RoundInv'
  PROVE  IInv'
  BY DEF IInv, TypeOK, TypeServices, TypeEndpoints, TypeRound, TypeRest

-----------------------------------------------------------------------------
(* Users and the cluster.                                                  *)

LEMMA ChangeCounts ==
  ASSUME IInv, Change
  PROVE  /\ changes' \in 0..MaxChanges /\ faults' \in 0..MaxFaults
         /\ changes' # changes /\ UNCHANGED <<srec, erec>>
  BY BoundsAssumption DEF Change, IInv, TypeOK

LEMMA UsersKeep ==
  ASSUME IInv,
         \/ \E b \in Brokers, s \in Setting \cup {None} : EditSpec(b, s)
         \/ \E port \in Ports : TakePort(port) \/ FreePort(port)
         \/ \E n \in Brokers : EditService(n) \/ DeleteService(n)
  PROVE  IInv'
<1>1. ASSUME NEW b \in Brokers, NEW s \in Setting \cup {None}, EditSpec(b, s)
      PROVE  IInv'
  <2>1. TypeRest'
    BY <1>1, ChangeCounts, TypeParts
    DEF EditSpec, IInv, TypeRest, BrokerSpec, podVars
  <2>. QED
    BY <1>1, <2>1, ChangeCounts, ServicesFrame, EndpointsFrame, RoundFrame,
       CoherentFrame, Whole DEF EditSpec, svcVars
<1>2. ASSUME NEW port \in Ports, TakePort(port) \/ FreePort(port)
      PROVE  IInv'
  <2>1. Change /\ UNCHANGED <<spec, specCache, svcVars, epsVars, old, podVars>>
    BY <1>2 DEF TakePort, FreePort
  <2>2. TypeServices' /\ ServicesInv'
    BY <1>2, <2>1, ChangeCounts, TypeParts
    DEF TakePort, FreePort, IInv, TypeServices, ServicesInv, svcVars
  <2>3. TypeRest'
    BY <2>1, ChangeCounts, TypeParts DEF IInv, TypeRest, podVars
  <2>. QED
    BY <2>1, <2>2, <2>3, ChangeCounts, EndpointsFrame, RoundFrame,
       CoherentFrame, Whole
<1>3. ASSUME NEW n \in Brokers, EditService(n)
      PROVE  IInv'
  <2>1. TypeServices' /\ ServicesInv'
    BY <1>3, ChangeCounts, TypeParts
    DEF EditService, IInv, TypeServices, ServicesInv, ServiceState, specVars
  <2>2. Coherent'
    BY <1>3, TypeParts DEF EditService, IInv, Coherent, TypeServices, epsVars
  <2>3. TypeRest'
    BY <1>3, ChangeCounts, TypeParts
    DEF EditService, IInv, TypeRest, specVars, podVars
  <2>. QED
    BY <1>3, <2>1, <2>2, <2>3, ChangeCounts, EndpointsFrame, RoundFrame, Whole
    DEF EditService
<1>4. ASSUME NEW n \in Brokers, DeleteService(n)
      PROVE  IInv'
  <2>1. TypeServices' /\ ServicesInv'
    BY <1>4, ChangeCounts, TypeParts
    DEF DeleteService, IInv, TypeServices, ServicesInv, ServiceState, specVars
  <2>2. Coherent'
    BY <1>4, TypeParts
    DEF DeleteService, IInv, Coherent, TypeServices, TypeEndpoints
  <2>3. TypeRest'
    BY <1>4, ChangeCounts, TypeParts
    DEF DeleteService, IInv, TypeRest, specVars, podVars
  <2>4. TypeEndpoints'
    BY <1>4, TypeParts DEF DeleteService, IInv, TypeEndpoints
  <2>. QED
    BY <1>4, <2>1, <2>2, <2>3, <2>4, ChangeCounts, RoundFrame, Whole
    DEF DeleteService
<1>. QED
  BY <1>1, <1>2, <1>3, <1>4

\* Pods come and go beside the controllers.
LEMMA PodsKeep ==
  ASSUME IInv, NEW p \in Pods, PodAdvances(p) \/ PodFails(p) \/ DeletePod(p)
  PROVE  IInv'
<1>1. /\ UNCHANGED <<specVars, svcVars, epsVars, old, podCache, srec, erec>>
      /\ changes' \in 0..MaxChanges /\ faults' \in 0..MaxFaults
  BY ChangeCounts, TypeParts
  DEF PodAdvances, PodFails, DeletePod, SetPod, counters, IInv, TypeRest
<1>2. pods' \in [Pods -> PodRec]
  <2>1. pods \in [Pods -> PodRec]
    BY DEF IInv, TypeOK
  <2>2. CASE DeletePod(p)
    BY <2>1, <2>2 DEF DeletePod, PodRec
  <2>3. CASE PodAdvances(p)
    <3>1. PICK st \in {"absent", "new", "down", "idle", "serving"} : SetPod(p, st)
      BY <2>1, <2>3 DEF PodAdvances
    <3>. QED
      BY <2>1, <3>1 DEF SetPod, PodRec
  <2>4. CASE PodFails(p)
    BY <2>1, <2>4 DEF PodFails, SetPod, PodRec
  <2>. QED
    BY <2>2, <2>3, <2>4
<1>3. TypeRest'
  BY <1>1, <1>2, TypeParts DEF IInv, TypeRest, specVars
<1>. QED
  BY <1>1, <1>3, ServicesFrame, EndpointsFrame, RoundFrame, CoherentFrame, Whole
  DEF specVars, svcVars

-----------------------------------------------------------------------------
(* Events.                                                                 *)

LEMMA EventsKeep ==
  ASSUME IInv, EventsArrive
  PROVE  IInv'
<1>1. CASE SpecEventArrives
  <2>1. TypeRest'
    BY <1>1, TypeParts DEF SpecEventArrives, IInv, TypeRest, podVars, counters
  <2>. QED
    BY <1>1, <2>1, ServicesFrame, EndpointsFrame, RoundFrame, CoherentFrame, Whole
    DEF SpecEventArrives, svcVars
<1>2. ASSUME NEW n \in Brokers, ServiceEventArrives(n)
      PROVE  IInv'
  <2>1. TypeServices' /\ ServicesInv'
    BY <1>2, TypeParts
    DEF ServiceEventArrives, IInv, TypeServices, ServicesInv, specVars
  <2>2. Coherent'
    BY <1>2, TypeParts DEF ServiceEventArrives, IInv, Coherent, TypeServices, epsVars
  <2>3. TypeRest'
    BY <1>2, TypeParts
    DEF ServiceEventArrives, IInv, TypeRest, specVars, podVars, counters
  <2>. QED
    BY <1>2, <2>1, <2>2, <2>3, EndpointsFrame, RoundFrame, Whole
    DEF ServiceEventArrives
<1>3. ASSUME NEW b \in Brokers, EndpointsEventArrives(b)
      PROVE  IInv'
  <2>1. TypeEndpoints'
    BY <1>3, TypeParts DEF EndpointsEventArrives, IInv, TypeEndpoints
  <2>2. Coherent'
    BY <1>3, TypeParts
    DEF EndpointsEventArrives, IInv, Coherent, TypeEndpoints, svcVars
  <2>3. TypeRest'
    BY <1>3, TypeParts
    DEF EndpointsEventArrives, IInv, TypeRest, specVars, podVars, counters
  <2>. QED
    BY <1>3, <2>1, <2>2, <2>3, ServicesFrame, RoundFrame, Whole
    DEF EndpointsEventArrives, specVars, svcVars
<1>4. ASSUME NEW p \in Pods, PodEventArrives(p)
      PROVE  IInv'
  <2>1. Shown(pods[p]) \in CachedPod
    BY ShownType, TypeParts DEF IInv, TypeRest
  <2>2. TypeRest'
    BY <1>4, <2>1, TypeParts DEF PodEventArrives, IInv, TypeRest, specVars, counters
  <2>. QED
    BY <1>4, <2>2, ServicesFrame, EndpointsFrame, RoundFrame, CoherentFrame, Whole
    DEF PodEventArrives, specVars, svcVars
<1>. QED
  BY <1>1, <1>2, <1>3, <1>4 DEF EventsArrive

-----------------------------------------------------------------------------
(* ReconcileServices.                                                      *)

\* A step of it changes at most the call, one Service and its mark.
LEMMA ContinueType ==
  ASSUME IInv, NEW todo \in SUBSET srec.todo, Continue(todo)
  PROVE  srec' \in SRec /\ ServicesInv'
<1>1. CASE todo = {}
  BY <1>1, IdleTypes DEF Continue, ServicesInv, Wanted, IdleS
<1>2. CASE todo # {}
  BY <1>2 DEF Continue, ServicesInv, Wanted, IInv, TypeOK, SRec
<1>. QED
  BY <1>1, <1>2

LEMMA ReconcileServicesKeeps ==
  ASSUME IInv, ReconcileServices \/ \E n \in Brokers : ServiceCallFails(n)
  PROVE  IInv'
<1>1. CASE StartServices
  <2>1. TypeServices' /\ ServicesInv'
    BY <1>1, TypeParts
    DEF StartServices, IInv, TypeServices, TypeRest, ServicesInv, SRec, Wanted,
        specVars, svcVars
  <2>. QED
    BY <1>1, <2>1, EndpointsFrame, RoundFrame, CoherentFrame, RestFrame, Whole
    DEF StartServices, specVars
<1>2. ASSUME NEW n \in Brokers, ReconcileService(n)
      PROVE  IInv'
  <2>1. UNCHANGED <<specVars, svcCache, epsVars, podVars, erec, counters>>
    BY <1>2 DEF ReconcileService
  <2>2. srec' \in SRec /\ ServicesInv'
    BY <1>2, ContinueType DEF ReconcileService, IInv, TypeOK, SRec
  <2>3. CASE NeedsWrite(n) /\ Accepted(n)
    <3>1. /\ svc' = [svc EXCEPT ![n] = Desired(n)]
          /\ old' = old \cup {<<"svc", n>>}
      BY <1>2, <2>3 DEF ReconcileService
    <3>2. Desired(n) \in ServiceState
      BY <1>2 DEF ReconcileService, IInv, ServicesInv, Wanted, Desired, ServiceState
    <3>3. TypeServices'
      BY <2>1, <2>2, <3>1, <3>2, TypeParts DEF IInv, TypeServices, specVars
    <3>4. Coherent'
      BY <2>1, <3>1, TypeParts DEF IInv, Coherent, TypeServices, epsVars
    <3>5. TypeRest'
      BY <2>1, <3>1, TypeParts DEF IInv, TypeRest, specVars, podVars, counters
    <3>. QED
      BY <2>1, <2>2, <3>3, <3>4, <3>5, EndpointsFrame, RoundFrame, Whole
  <2>4. CASE ~(NeedsWrite(n) /\ Accepted(n))
    <3>1. UNCHANGED <<svc, old>>
      BY <1>2, <2>4 DEF ReconcileService
    <3>2. TypeServices'
      BY <2>1, <2>2, <3>1, TypeParts DEF IInv, TypeServices, specVars
    <3>. QED
      BY <2>1, <2>2, <3>1, <3>2, EndpointsFrame, RoundFrame, CoherentFrame,
         RestFrame, Whole DEF specVars, svcVars
  <2>. QED
    BY <2>3, <2>4
<1>3. ASSUME NEW n \in Brokers, ServiceCallFails(n)
      PROVE  IInv'
  <2>1. srec' \in SRec /\ ServicesInv'
    BY <1>3, ContinueType DEF ServiceCallFails
  <2>2. TypeServices'
    BY <1>3, <2>1, TypeParts
    DEF ServiceCallFails, IInv, TypeServices, specVars, svcVars
  <2>3. TypeRest'
    BY <1>3, BoundsAssumption, TypeParts
    DEF ServiceCallFails, Fault, IInv, TypeRest, specVars, podVars
  <2>. QED
    BY <1>3, <2>1, <2>2, <2>3, EndpointsFrame, RoundFrame, CoherentFrame, Whole
    DEF ServiceCallFails
<1>. QED
  BY <1>1, <1>2, <1>3 DEF ReconcileServices

-----------------------------------------------------------------------------
(* Reconcile of the endpoint controller.                                   *)

LEMMA RoundStarts ==
  ASSUME IInv, StartRound
  PROVE  TypeRound' /\ RoundInv'
<1> DEFINE r == [IdleE EXCEPT !.spec = specCache, !.listed = podCache,
                              !.todo = {b \in Brokers : specCache[b] # None}]
<1>1. erec' = r
  BY DEF StartRound
<1>2. /\ r \in ERec /\ r.at = None /\ r.left = {} /\ r.active = {}
      /\ \A b \in r.todo : r.spec[b] # None
  BY IdleTypes, TypeParts DEF IInv, TypeRest, ERec, IdleE
<1>. QED
  BY <1>1, <1>2 DEF TypeRound, RoundInv

LEMMA NextBrokerKeeps ==
  ASSUME IInv, NEW b \in Brokers, NextBroker(b)
  PROVE  TypeRound' /\ RoundInv'
<1>1. erec \in ERec /\ erec.at = None /\ b \in erec.todo
  BY DEF NextBroker, IInv, TypeOK
<1>2. erec.active = {} /\ erec.spec[b] # None
  BY <1>1 DEF IInv, RoundInv
<1> DEFINE left == {p \in Pods : erec.listed[p].st = "running"}
           down == {AddressOf(p) : p \in {p \in Pods : erec.listed[p].st = "down"}}
<1>3. down \subseteq Address
  BY <1>1, AddressType
<1>4. erec' = [erec EXCEPT !.todo = @ \ {b}, !.at = b, !.left = left,
                           !.notReady = down]
  BY DEF NextBroker
<1>5. TypeRound'
  <2>1. erec' \in ERec
    BY <1>1, <1>3, <1>4 DEF ERec
  <2>. QED
    BY <1>1, <1>2, <1>4, <2>1 DEF TypeRound, ERec
<1>6. /\ erec'.listed = erec.listed /\ erec'.spec = erec.spec
      /\ erec'.todo \subseteq erec.todo /\ erec'.at = b /\ erec'.left = left
      /\ erec'.notReady = down /\ erec'.active = {}
  BY <1>1, <1>2, <1>4 DEF ERec
<1>7. \A p \in Pods : AddressOf(p)' = AddressOf(p)
  BY <1>6 DEF AddressOf
<1>8. Found' = down \cup {AddressOf(p)' : p \in left}
  BY <1>6, <1>7 DEF Found
<1>. QED
  BY <1>5, <1>6, <1>8, ConstantsAssumption DEF RoundInv, IInv

\* However a pod answers, its address joins one of the lists.
LEMMA ProbeKeeps ==
  ASSUME IInv, NEW p \in erec.left,
         \/ erec' = [erec EXCEPT !.left = @ \ {p}, !.active = @ \cup {AddressOf(p)}]
         \/ erec' = [erec EXCEPT !.left = @ \ {p}, !.notReady = @ \cup {AddressOf(p)}]
  PROVE  TypeRound' /\ RoundInv'
<1>1. erec \in ERec /\ TypeRound /\ p \in Pods /\ erec.at # None
  BY TypeParts DEF IInv, TypeRound, RoundInv
<1>2. AddressOf(p) \in Address
  BY <1>1, AddressType
<1>3. /\ erec'.listed = erec.listed /\ erec'.spec = erec.spec
      /\ erec'.todo = erec.todo /\ erec'.at = erec.at
      /\ erec'.left = erec.left \ {p}
      /\ erec'.active \cup erec'.notReady
           = erec.active \cup erec.notReady \cup {AddressOf(p)}
  BY <1>1 DEF ERec
<1>4. TypeRound'
  <2>1. [erec EXCEPT !.left = @ \ {p}, !.active = @ \cup {AddressOf(p)}] \in ERec
    BY <1>1, <1>2 DEF ERec
  <2>2. [erec EXCEPT !.left = @ \ {p}, !.notReady = @ \cup {AddressOf(p)}] \in ERec
    BY <1>1, <1>2 DEF ERec
  <2>. QED
    BY <1>1, <1>3, <2>1, <2>2 DEF TypeRound
<1>5. \A q \in Pods : AddressOf(q)' = AddressOf(q)
  BY <1>3 DEF AddressOf
<1>6. Found' = Found
  BY <1>3, <1>5 DEF Found
<1>7. Found = erec.active \cup erec.notReady \cup {AddressOf(q) : q \in erec.left}
  BY <1>1 DEF IInv, RoundInv
<1>8. {AddressOf(q)' : q \in erec'.left} \cup {AddressOf(p)}
        = {AddressOf(q) : q \in erec.left}
  BY <1>1, <1>3, <1>5 DEF ERec
<1>. QED
  BY <1>1, <1>3, <1>4, <1>6, <1>7, <1>8 DEF RoundInv, IInv

LEMMA LeaveKeeps ==
  ASSUME IInv, erec' = Leave, erec.left = {}
  PROVE  TypeRound' /\ RoundInv'
<1>1. erec \in ERec /\ RoundInv
  BY DEF IInv, TypeOK
<1>. QED
  BY <1>1, LeaveType DEF TypeRound, RoundInv

LEMMA ReconcileEndpointsKeeps ==
  ASSUME IInv,
         \/ ReconcileEndpoints \/ UpdateEndpointsFails
         \/ \E p \in Pods : ProbeFails(p)
  PROVE  IInv'
<1>1. CASE StartRound
  BY <1>1, RoundStarts, ServicesFrame, EndpointsFrame, CoherentFrame, RestFrame,
     Whole DEF StartRound, specVars, svcVars
<1>2. ASSUME NEW b \in Brokers, NextBroker(b)
      PROVE  IInv'
  BY <1>2, NextBrokerKeeps, ServicesFrame, EndpointsFrame, CoherentFrame,
     RestFrame, Whole DEF NextBroker, specVars, svcVars
<1>3. ASSUME NEW p \in Pods, Probe(p) \/ ProbeFails(p)
      PROVE  IInv'
  <2>1. TypeRound' /\ RoundInv'
    BY <1>3, ProbeKeeps DEF Probe, ProbeFails
  <2>2. UNCHANGED <<specVars, svcVars, epsVars, old, podVars, srec>>
    BY <1>3 DEF Probe, ProbeFails
  <2>3. TypeRest'
    <3>1. Fault \/ UNCHANGED counters
      BY <1>3 DEF Probe, ProbeFails
    <3>2. changes' \in 0..MaxChanges /\ faults' \in 0..MaxFaults
      BY <3>1, BoundsAssumption DEF Fault, counters, IInv, TypeOK
    <3>. QED
      BY <2>2, <3>2, TypeParts DEF IInv, TypeRest, specVars, podVars
  <2>. QED
    BY <2>1, <2>2, <2>3, ServicesFrame, EndpointsFrame, CoherentFrame, Whole
    DEF specVars, svcVars
<1>4. CASE UpdateEndpoints
  <2>1. /\ erec.at # None /\ erec.at \in Brokers /\ erec.left = {} /\ erec' = Leave
        /\ UNCHANGED <<specVars, svcVars, epsCache, podVars, srec, counters>>
    BY <1>4 DEF UpdateEndpoints, IInv, TypeOK, ERec
  <2>2. CASE UNCHANGED <<eps, old>>
    BY <2>1, <2>2, LeaveKeeps, ServicesFrame, EndpointsFrame, CoherentFrame,
       RestFrame, Whole DEF specVars, svcVars, epsVars
  <2>3. CASE /\ eps' = [eps EXCEPT ![erec.at] = NewEndpoints]
             /\ old' = old \cup {<<"eps", erec.at>>}
    <3>1. NewEndpoints \in Endpoints \cup {None}
      BY <2>1, NewEndpointsType, TypeParts DEF IInv, TypeRound
    <3>2. TypeEndpoints'
      BY <2>1, <2>3, <3>1, TypeParts DEF IInv, TypeEndpoints
    <3>3. Coherent'
      BY <2>1, <2>3, TypeParts DEF IInv, Coherent, TypeEndpoints, svcVars
    <3>4. TypeRest'
      BY <2>1, <2>3, TypeParts DEF IInv, TypeRest, specVars, podVars, counters
    <3>. QED
      BY <2>1, <3>2, <3>3, <3>4, LeaveKeeps, ServicesFrame, Whole
      DEF specVars, svcVars
  <2>. QED
    BY <1>4, <2>2, <2>3 DEF UpdateEndpoints
<1>5. CASE UpdateEndpointsFails
  <2>1. TypeRest'
    BY <1>5, BoundsAssumption, TypeParts
    DEF UpdateEndpointsFails, Fault, IInv, TypeRest, specVars, podVars
  <2>. QED
    BY <1>5, <2>1, LeaveKeeps, ServicesFrame, EndpointsFrame, CoherentFrame, Whole
    DEF UpdateEndpointsFails, specVars, svcVars
<1>. QED
  BY <1>1, <1>2, <1>3, <1>4, <1>5 DEF ReconcileEndpoints

LEMMA RestartKeeps ==
  ASSUME IInv, Restart
  PROVE  IInv'
<1>1. /\ specCache' = spec /\ svcCache' = svc /\ epsCache' = eps /\ old' = {}
      /\ srec' = IdleS /\ erec' = IdleE
      /\ UNCHANGED <<spec, taken, svc, eps, pods>>
  BY DEF Restart
<1>2. TypeServices' /\ ServicesInv'
  BY <1>1, IdleTypes, TypeParts
  DEF IInv, TypeServices, ServicesInv, IdleS, Wanted
<1>3. TypeEndpoints'
  BY <1>1, TypeParts DEF IInv, TypeEndpoints
<1>4. TypeRound' /\ RoundInv'
  BY <1>1, IdleTypes DEF TypeRound, RoundInv, IdleE
<1>5. Coherent'
  BY <1>1 DEF Coherent
<1>6. TypeRest'
  <2>1. pods \in [Pods -> PodRec]
    BY DEF IInv, TypeOK
  <2>2. podCache' \in [Pods -> CachedPod]
    BY <2>1, ShownType DEF Restart
  <2>3. changes' \in 0..MaxChanges /\ faults' \in 0..MaxFaults
    BY BoundsAssumption DEF Restart, Fault, IInv, TypeOK
  <2>. QED
    BY <1>1, <2>2, <2>3, TypeParts DEF IInv, TypeRest
<1>. QED
  BY <1>2, <1>3, <1>4, <1>5, <1>6, Whole

LEMMA InvStep == IInv /\ [Next]_vars => IInv'
<1> SUFFICES ASSUME IInv, [Next]_vars PROVE IInv'
  OBVIOUS
<1>1. CASE UNCHANGED vars
  BY <1>1, ServicesFrame, EndpointsFrame, RoundFrame, CoherentFrame, RestFrame, Whole
  DEF vars, specVars, svcVars
<1>2. CASE Cluster
  BY <1>2, UsersKeep, PodsKeep DEF Cluster
<1>3. CASE ReconcileServices \/ \E n \in Brokers : ServiceCallFails(n)
  BY <1>3, ReconcileServicesKeeps
<1>4. CASE \/ ReconcileEndpoints \/ UpdateEndpointsFails
           \/ \E p \in Pods : ProbeFails(p)
  BY <1>4, ReconcileEndpointsKeeps
<1>. QED
  BY <1>1, <1>2, <1>3, <1>4, EventsKeep, RestartKeeps DEF Next, Faults

LEMMA Invariant == Spec => []IInv
  BY InvInit, InvStep, PTL DEF Spec

-----------------------------------------------------------------------------

\* Who writes Services and Endpoints.
LEMMA WritersKnown ==
  ASSUME IInv, Next
  PROVE  \/ UNCHANGED <<svc, eps>> \/ UpdateEndpoints
         \/ \E m \in Brokers : ReconcileService(m)
         \/ \E n \in Brokers : EditService(n) \/ DeleteService(n)
<1>1. CASE Cluster
  BY <1>1 DEF Cluster, EditSpec, TakePort, FreePort, PodAdvances, PodFails, DeletePod,
              SetPod, svcVars, epsVars
<1>2. CASE EventsArrive
  BY <1>2 DEF EventsArrive, SpecEventArrives, ServiceEventArrives,
              EndpointsEventArrives, PodEventArrives, svcVars, epsVars
<1>3. CASE StartServices \/ StartRound \/ UpdateEndpointsFails \/ Restart
  BY <1>3 DEF StartServices, StartRound, UpdateEndpointsFails, Restart,
              svcVars, epsVars
<1>4. CASE \/ \E b \in Brokers : NextBroker(b)
           \/ \E p \in Pods : Probe(p) \/ ProbeFails(p)
           \/ \E n \in Brokers : ServiceCallFails(n)
  BY <1>4 DEF NextBroker, Probe, ProbeFails, ServiceCallFails, svcVars, epsVars
<1>. QED
  BY <1>1, <1>2, <1>3, <1>4
  DEF Next, ReconcileServices, ReconcileEndpoints, Faults

\* Users are known by what they count.
LEMMA OperatorWrites ==
  ASSUME IInv, Next, changes' = changes
  PROVE  \/ UNCHANGED <<svc, eps>> \/ UpdateEndpoints
         \/ \E m \in Brokers : ReconcileService(m)
<1>1. ~Change
  BY DEF Change, IInv, TypeOK
<1>. QED
  BY <1>1, WritersKnown DEF EditService, DeleteService

\* The state is well-formed: Services are created for NodePort brokers only, and a
\* round asks none but running pods, for brokers of the spec.
THEOREM BrokerAccessTypeCorrect == Spec => []TypeOK
  BY Invariant, PTL DEF IInv

\* What the two controllers write, they write over the state they have seen.
THEOREM NothingOverwrittenUnseen == Spec => SeenBeforeWritten
<1> DEFINE Seen ==
      changes' = changes =>
        /\ \A n \in Brokers : svc'[n] # svc[n] => svcCache[n] = svc[n]
        /\ \A b \in Brokers :
             eps'[b] # eps[b] => epsCache[b] = eps[b] \/ eps'[b] = None
<1>1. IInv /\ [Next]_vars => [Seen]_vars
  <2> SUFFICES ASSUME IInv, Next, changes' = changes PROVE Seen
    BY DEF vars
  <2>1. CASE UNCHANGED <<svc, eps>>
    BY <2>1
  <2>2. ASSUME NEW m \in Brokers, ReconcileService(m)
        PROVE  Seen
    <3>1. eps' = eps
      BY <2>2 DEF ReconcileService, epsVars
    <3>2. ASSUME NEW n \in Brokers, svc'[n] # svc[n] PROVE svcCache[n] = svc[n]
      <4>1. Accepted(m) /\ n = m
        BY <2>2, <3>2 DEF ReconcileService, IInv, TypeOK
      <4>. QED
        BY <4>1 DEF Accepted, IInv, Coherent
    <3>. QED
      BY <3>1, <3>2
  <2>3. CASE UpdateEndpoints
    <3>1. svc' = svc
      BY <2>3 DEF UpdateEndpoints, svcVars
    <3>2. ASSUME NEW b \in Brokers, eps'[b] # eps[b]
          PROVE  epsCache[b] = eps[b] \/ eps'[b] = None
      <4>1. /\ b = erec.at /\ eps'[b] = NewEndpoints
            /\ NewEndpoints = None \/ <<"eps", erec.at>> \notin old
        BY <2>3, <3>2 DEF UpdateEndpoints, IInv, TypeOK
      <4>. QED
        BY <4>1 DEF IInv, Coherent
    <3>. QED
      BY <3>1, <3>2
  <2>. QED
    BY <2>1, <2>2, <2>3, OperatorWrites
<1>. QED
  BY <1>1, Invariant, PTL DEF Spec, SeenBeforeWritten

-----------------------------------------------------------------------------
(* Endpoints come from sweeps.                                             *)

LEMMA SweptInit == Init => Swept!Init
<1> SUFFICES ASSUME Init PROVE Swept!Init
  OBVIOUS
<1>1. Found = {}
  BY DEF Init, Found, IdleE, NoPods
<1>2. {b \in Brokers : svc[b] # None} = {}
  BY DEF Init
<1>. QED
  BY <1>1, <1>2 DEF Init, Swept!Init, IdleE

\* Where nothing is written the sweep is all that may have changed.
LEMMA SweepOnly ==
  ASSUME TypeOK', UNCHANGED <<svc, eps>>
  PROVE  Swept!Sweep
<1>1. \A p \in Pods : AddressOf(p)' \in Address
  BY DEF TypeOK, ERec, AddressOf, Address, CachedPod
<1>2. Found' \in SUBSET Address
  BY <1>1 DEF Found
<1>3. erec'.spec \in [Brokers -> Setting \cup {None}]
  BY DEF TypeOK, ERec, BrokerSpec
<1>. QED
  BY <1>2, <1>3 DEF Swept!Sweep

\* The end of a broker's turn leaves the round as it is, or ends it.
LEMMA TurnEnds ==
  ASSUME IInv, erec' = Leave, svc' = svc
  PROVE  Swept!Turn
<1>1. CASE erec.todo = {}
  <2>1. erec' = IdleE
    BY <1>1 DEF Leave
  <2>2. Found' = {}
    BY <2>1 DEF Found, IdleE, NoPods
  <2>. QED
    BY <2>1, <2>2 DEF Swept!Turn, IdleE
<1>2. CASE erec.todo # {}
  <2>1. erec'.listed = erec.listed /\ erec'.spec = erec.spec
    BY <1>2 DEF Leave, IInv, TypeOK, ERec
  <2>2. \A p \in Pods : AddressOf(p)' = AddressOf(p)
    BY <2>1 DEF AddressOf
  <2>3. Found' = Found
    BY <2>1, <2>2 DEF Found
  <2>. QED
    BY <2>1, <2>3 DEF Swept!Turn
<1>. QED
  BY <1>1, <1>2

\* What a round has made of a broker is what its sweep allows.
LEMMA WrittenAsSwept ==
  ASSUME IInv, UpdateEndpoints, eps' = [eps EXCEPT ![erec.at] = NewEndpoints]
  PROVE  erec.at \in Brokers /\ (Swept!Publish(erec.at) \/ Swept!Withdraw(erec.at))
<1>1. /\ erec.at \in Brokers /\ erec.spec[erec.at] # None /\ erec.left = {}
      /\ erec' = Leave /\ svc' = svc
  BY DEF UpdateEndpoints, IInv, TypeOK, ERec, svcVars
<1>2. Found = erec.active \cup erec.notReady
  BY <1>1 DEF UpdateEndpoints, IInv, RoundInv
<1>3. Swept!Turn
  BY <1>1, TurnEnds
<1>4. CASE Found = {}
  <2>1. NewEndpoints = None
    BY <1>2, <1>4 DEF NewEndpoints
  <2>. QED
    BY <1>1, <1>3, <1>4, <2>1 DEF Swept!Withdraw
<1>5. CASE Found # {}
  <2>1. NewEndpoints =
          [port |-> erec.spec[erec.at], ready |-> erec.active,
           notReady |-> IF erec.active = {} THEN erec.notReady ELSE {}]
    BY <1>2, <1>5 DEF NewEndpoints
  <2>2. erec.active = {} => erec.notReady = Found
    BY <1>2
  <2>3. erec.active \in SUBSET Found
    BY <1>2
  <2>4. NewEndpoints =
          [port |-> erec.spec[erec.at], ready |-> erec.active,
           notReady |-> IF erec.active = {} THEN Found ELSE {}]
    BY <2>1, <2>2
  <2>. QED
    BY <1>1, <1>3, <1>5, <2>3, <2>4 DEF Swept!Publish
<1>. QED
  BY <1>1, <1>4, <1>5

LEMMA SweptStep == IInv /\ [Next]_vars => [Swept!Next]_(Swept!vars)
<1> SUFFICES ASSUME IInv, [Next]_vars PROVE [Swept!Next]_(Swept!vars)
  OBVIOUS
<1> DEFINE offered == {b \in Brokers : svc[b] # None}
<1>1. TypeOK'
  BY InvStep DEF IInv
<1>2. CASE UNCHANGED <<svc, eps>>
  BY <1>1, <1>2, SweepOnly DEF Swept!Next
<1>3. CASE UpdateEndpoints
  <2>1. CASE eps' = [eps EXCEPT ![erec.at] = NewEndpoints]
    BY <1>3, <2>1, WrittenAsSwept DEF Swept!Next
  <2>2. CASE eps' = eps
    BY <1>2, <1>3, <2>2 DEF UpdateEndpoints, svcVars
  <2>. QED
    BY <1>3, <2>1, <2>2 DEF UpdateEndpoints
<1>4. ASSUME NEW m \in Brokers, ReconcileService(m)
      PROVE  Swept!Next
  <2>1. eps' = eps /\ erec' = erec
    BY <1>4 DEF ReconcileService, epsVars
  <2>2. CASE svc' = svc
    BY <1>2, <2>1, <2>2, <1>1, SweepOnly DEF Swept!Next
  <2>3. CASE svc' # svc
    <3>1. svc' = [svc EXCEPT ![m] = Desired(m)]
      BY <1>4, <2>3 DEF ReconcileService
    <3>2. Desired(m) \in Ports
      BY <1>4 DEF ReconcileService, IInv, ServicesInv, Wanted, Desired
    <3>3. Desired(m) # None
      BY <3>2, ConstantsAssumption
    <3>4. offered' = offered \cup {m}
      BY <3>1, <3>3 DEF IInv, TypeOK
    <3>5. Found' = Found
      BY <2>1 DEF Found, AddressOf
    <3>6. Swept!Offer(m)
      BY <2>1, <3>4, <3>5 DEF Swept!Offer
    <3>. QED
      BY <3>6 DEF Swept!Next
  <2>. QED
    BY <2>2, <2>3
<1>5. ASSUME NEW n \in Brokers, EditService(n)
      PROVE  UNCHANGED Swept!vars
  <2>1. /\ svc[n] # None /\ svc' = [svc EXCEPT ![n] = Edited]
        /\ eps' = eps /\ erec' = erec
    BY <1>5 DEF EditService, Change, epsVars
  <2>2. Edited # None
    BY ConstantsAssumption
  <2>3. offered' = offered
    BY <2>1, <2>2 DEF IInv, TypeOK
  <2>4. Found' = Found
    BY <2>1 DEF Found, AddressOf
  <2>. QED
    BY <2>1, <2>3, <2>4 DEF Swept!vars
<1>6. ASSUME NEW n \in Brokers, DeleteService(n)
      PROVE  Swept!Next
  <2>1. /\ svc[n] # None /\ svc' = [svc EXCEPT ![n] = None]
        /\ eps' = [eps EXCEPT ![n] = None] /\ erec' = erec
    BY <1>6 DEF DeleteService, Change
  <2>2. n \in offered /\ offered' = offered \ {n}
    BY <2>1 DEF IInv, TypeOK
  <2>3. Found' = Found
    BY <2>1 DEF Found, AddressOf
  <2>4. Swept!Remove(n)
    BY <2>1, <2>2, <2>3 DEF Swept!Remove
  <2>. QED
    BY <2>4 DEF Swept!Next
<1>7. CASE UNCHANGED vars
  BY <1>2, <1>7 DEF vars, svcVars, epsVars
<1>. QED
  BY <1>2, <1>3, <1>4, <1>5, <1>6, <1>7, WritersKnown

\* Endpoints are the result of one whole sweep, whatever is old, refused or fails.
THEOREM EndpointsAreSwept == Spec => ImplementsSweep
  BY SweptInit, SweptStep, Invariant, PTL DEF Spec, Swept!Spec, ImplementsSweep

\* So clients find pods that serve, or the pods that do not, and never a mixture.
THEOREM EndpointsAreClear == Spec => []Swept!Clear
<1>1. Swept!Init => Swept!Clear
  BY DEF Swept!Init, Swept!Clear
<1>2. TypeOK /\ Swept!Clear /\ [Swept!Next]_(Swept!vars) => Swept!Clear'
  <2> SUFFICES ASSUME TypeOK, Swept!Clear, [Swept!Next]_(Swept!vars),
                      NEW c \in Brokers, eps'[c] # None
               PROVE  /\ eps'[c].ready \cup eps'[c].notReady # {}
                      /\ eps'[c].ready = {} \/ eps'[c].notReady = {}
    BY DEF Swept!Clear
  <2>1. CASE eps'[c] = eps[c]
    BY <2>1 DEF Swept!Clear
  <2>2. ASSUME NEW b \in Brokers, Swept!Publish(b), eps'[c] # eps[c]
        PROVE  /\ eps'[c].ready \cup eps'[c].notReady # {}
               /\ eps'[c].ready = {} \/ eps'[c].notReady = {}
    <3>1. PICK ready \in SUBSET Found :
            eps' = [eps EXCEPT ![b] =
              [port |-> erec.spec[b], ready |-> ready,
               notReady |-> IF ready = {} THEN Found ELSE {}]]
      BY <2>2 DEF Swept!Publish
    <3>2. /\ eps'[c].ready = ready
          /\ eps'[c].notReady = IF ready = {} THEN Found ELSE {}
      BY <2>2, <3>1 DEF TypeOK
    <3>3. Found # {}
      BY <2>2 DEF Swept!Publish
    <3>. QED
      BY <3>2, <3>3
  <2>3. ASSUME NEW b \in Brokers, Swept!Withdraw(b) \/ Swept!Remove(b)
        PROVE  eps'[c] = eps[c]
    BY <2>3 DEF Swept!Withdraw, Swept!Remove, TypeOK
  <2>. QED
    BY <2>1, <2>2, <2>3 DEF Swept!Next, Swept!Sweep, Swept!Offer, Swept!vars
<1>. QED
  BY <1>1, <1>2, BrokerAccessTypeCorrect, EndpointsAreSwept, PTL
     DEF Swept!Spec, ImplementsSweep

-----------------------------------------------------------------------------
(* What has converged stays.                                               *)

\* The Services are as the spec says, and the call in progress, if any, works from
\* the present spec. The operator's copies of the Services may be old.
ServicesSettled ==
  /\ specCache = spec
  /\ srec.todo # {} => srec.spec = spec
  /\ \A b \in Wanted(spec) : svc[b] = spec[b]

LEMMA ContinueSettled ==
  ASSUME IInv, ServicesSettled, NEW todo \in SUBSET srec.todo, Continue(todo)
  PROVE  srec'.todo # {} => srec'.spec = spec
BY DEF Continue, IdleS, ServicesSettled, IInv, TypeOK, SRec

\* No step of the operator leaves that state or writes a Service in it, whichever
\* copies are old and whatever fails or restarts: only who changes the spec or a
\* Service does (ReconcileServices, protectCRManagedService).
THEOREM SettledServicesStay ==
  Spec => [][ServicesSettled /\ changes' = changes =>
               ServicesSettled' /\ svc' = svc]_vars
<1> DEFINE Stay == ServicesSettled /\ changes' = changes =>
                     ServicesSettled' /\ svc' = svc
<1>1. IInv /\ [Next]_vars => [Stay]_vars
  <2> SUFFICES ASSUME IInv, Next, ServicesSettled, changes' = changes
               PROVE  ServicesSettled' /\ svc' = svc
    BY DEF vars
  <2>1. ~Change
    BY DEF Change, IInv, TypeOK
  <2>2. spec' = spec /\ (specCache' = specCache \/ specCache' = spec)
    BY <2>1 DEF Next, Cluster, EditSpec, TakePort, FreePort, EditService, DeleteService,
       PodAdvances, PodFails, DeletePod, SetPod, EventsArrive, SpecEventArrives,
       ServiceEventArrives, EndpointsEventArrives, PodEventArrives,
       ReconcileServices, StartServices, ReconcileService,
       ReconcileEndpoints, StartRound, NextBroker, Probe, UpdateEndpoints,
       Faults, ServiceCallFails, ProbeFails, UpdateEndpointsFails, Restart, specVars
  <2>3. ASSUME NEW n \in Brokers, ReconcileService(n)
        PROVE  svc' = svc /\ (srec'.todo # {} => srec'.spec = spec)
    <3>1. srec.spec = spec /\ svc[n] = Desired(n)
      BY <2>3 DEF ReconcileService, ServicesSettled, Desired, IInv, ServicesInv
    <3>2. ~(NeedsWrite(n) /\ Accepted(n))
      BY <3>1 DEF NeedsWrite, Accepted, IInv, Coherent
    <3>. QED
      BY <2>3, <3>2, ContinueSettled DEF ReconcileService
  <2>4. ASSUME StartServices
        PROVE  svc' = svc /\ (srec'.todo # {} => srec'.spec = spec)
    BY <2>4 DEF StartServices, ServicesSettled, svcVars
  <2>5. ASSUME NEW n \in Brokers, ServiceCallFails(n)
        PROVE  svc' = svc /\ (srec'.todo # {} => srec'.spec = spec)
    BY <2>5, ContinueSettled DEF ServiceCallFails, svcVars
  <2>6. ASSUME Restart
        PROVE  svc' = svc /\ (srec'.todo # {} => srec'.spec = spec)
    BY <2>6 DEF Restart, IdleS
  <2>7. ASSUME \/ ReconcileEndpoints \/ EventsArrive \/ UpdateEndpointsFails
               \/ \E p \in Pods : ProbeFails(p)
        PROVE  svc' = svc /\ (srec'.todo # {} => srec'.spec = spec)
    <3>1. srec' = srec /\ svc' = svc
      BY <2>7 DEF ReconcileEndpoints, StartRound, NextBroker, Probe, UpdateEndpoints,
         EventsArrive, SpecEventArrives, ServiceEventArrives, EndpointsEventArrives,
         PodEventArrives, UpdateEndpointsFails, ProbeFails, svcVars
    <3>. QED
      BY <3>1 DEF ServicesSettled
  <2>8. ASSUME \E p \in Pods : PodAdvances(p)
        PROVE  svc' = svc /\ (srec'.todo # {} => srec'.spec = spec)
    BY <2>8 DEF PodAdvances, SetPod, svcVars, ServicesSettled
  <2>9. svc' = svc /\ (srec'.todo # {} => srec'.spec = spec)
    BY <2>1, <2>3, <2>4, <2>5, <2>6, <2>7, <2>8
    DEF Next, Cluster, EditSpec, TakePort, FreePort, EditService, DeleteService,
        PodFails, DeletePod, ReconcileServices, Faults
  <2>. QED
    BY <2>2, <2>9 DEF ServicesSettled, Wanted
<1>. QED
  BY <1>1, Invariant, PTL DEF Spec

Known == [p \in Pods |-> Shown(pods[p])]

\* The round in progress has found the pods that are there, and what they answered
\* is still so.
RoundSettled ==
  /\ erec.at # None \/ erec.todo # {} => erec.spec = spec /\ erec.listed = Known
  /\ erec.at # None =>
       /\ erec.active = {Current(p) : p \in {q \in Pods : /\ pods[q].st = "serving"
                                                          /\ q \notin erec.left}}
       /\ erec.notReady = {Current(p) : p \in {q \in Pods : \/ pods[q].st = "down"
                                                            \/ /\ pods[q].st = "idle"
                                                               /\ q \notin erec.left}}

\* The Endpoints are as pods and spec are, and the operator knows both. Its copies of
\* the Endpoints may be old.
EndpointsSettled ==
  /\ specCache = spec /\ podCache = Known
  /\ RoundSettled
  /\ \A b \in Brokers : spec[b] # None => Reachable(b)

\* Where a round knows the pods, the addresses it writes are the present ones.
LEMMA KnownPods ==
  ASSUME IInv, erec.listed = Known, NEW p \in Pods
  PROVE  /\ AddressOf(p) = Current(p)
         /\ erec.listed[p].st = "running" <=> pods[p].st \in {"idle", "serving"}
         /\ erec.listed[p].st = "down" <=> pods[p].st = "down"
<1>1. pods[p] \in PodRec
  BY DEF IInv, TypeOK
<1>2. erec.listed[p] = [pods[p] EXCEPT !.st =
                          IF @ \in {"idle", "serving"} THEN "running" ELSE @]
  BY DEF Known, Shown
<1>3. erec.listed[p].ip = pods[p].ip
  BY <1>1, <1>2 DEF PodRec
<1>4. CASE pods[p].st \in {"idle", "serving"}
  BY <1>1, <1>2, <1>3, <1>4 DEF PodRec, AddressOf, Current
<1>5. CASE pods[p].st \notin {"idle", "serving"}
  BY <1>1, <1>2, <1>3, <1>5 DEF PodRec, AddressOf, Current
<1>. QED
  BY <1>4, <1>5

LEMMA LeaveSettled ==
  ASSUME IInv, RoundSettled, erec' = Leave, spec' = spec, pods' = pods, erec.at # None
  PROVE  RoundSettled'
<1>1. CASE erec.todo = {}
  BY <1>1 DEF Leave, IdleE, RoundSettled
<1>2. CASE erec.todo # {}
  <2>1. /\ erec'.at = None
        /\ erec'.spec = erec.spec /\ erec'.listed = erec.listed
    BY <1>2 DEF Leave, IInv, TypeOK, ERec
  <2>. QED
    BY <2>1 DEF RoundSettled, Known, Shown
<1>. QED
  BY <1>1, <1>2

LEMMA NextBrokerSettled ==
  ASSUME IInv, RoundSettled, NEW b \in Brokers, NextBroker(b), spec' = spec, pods' = pods
  PROVE  RoundSettled'
<1>1. erec.spec = spec /\ erec.listed = Known /\ erec.active = {}
  BY DEF NextBroker, RoundSettled, IInv, RoundInv
<1>2. /\ erec'.at = b /\ erec'.spec = erec.spec /\ erec'.listed = erec.listed
      /\ erec'.active = {}
      /\ erec'.left = {p \in Pods : erec.listed[p].st = "running"}
      /\ erec'.notReady =
           {AddressOf(p) : p \in {p \in Pods : erec.listed[p].st = "down"}}
  BY <1>1 DEF NextBroker, IInv, TypeOK, ERec
<1>3. \A p \in Pods : /\ AddressOf(p) = Current(p)
                      /\ p \in erec'.left <=> pods[p].st \in {"idle", "serving"}
                      /\ erec.listed[p].st = "down" <=> pods[p].st = "down"
  BY <1>1, <1>2, KnownPods
<1>4. Known' = Known
  BY DEF Known, Shown
<1>5. \A p \in Pods : Current(p)' = Current(p)
  BY DEF Current
<1>6. {q \in Pods : pods[q].st = "serving" /\ q \notin erec'.left} = {}
  BY <1>3
<1>7. erec'.notReady = {Current(p) : p \in {q \in Pods : \/ pods[q].st = "down"
                                                         \/ /\ pods[q].st = "idle"
                                                            /\ q \notin erec'.left}}
  BY <1>2, <1>3
<1>8. (erec.active = {Current(p) : p \in {q \in Pods : /\ pods[q].st = "serving"
                                                        /\ q \notin erec.left}})'
  BY <1>2, <1>6
<1>9. (erec.notReady = {Current(p) : p \in {q \in Pods : \/ pods[q].st = "down"
                                                          \/ /\ pods[q].st = "idle"
                                                             /\ q \notin erec.left}})'
  BY <1>5, <1>7
<1>. QED
  BY <1>1, <1>2, <1>4, <1>8, <1>9 DEF RoundSettled

LEMMA ProbeSettled ==
  ASSUME IInv, RoundSettled, NEW p \in Pods, Probe(p), spec' = spec, pods' = pods
  PROVE  RoundSettled'
<1>1. erec.at # None
  BY DEF Probe, IInv, RoundInv
<1>2. erec.spec = spec /\ erec.listed = Known
  BY <1>1 DEF RoundSettled
<1>3. AddressOf(p) = Current(p) /\ pods[p].st \in {"idle", "serving"}
  BY <1>2, KnownPods DEF Probe, IInv, TypeOK
<1>4. Known' = Known /\ \A q \in Pods : Current(q)' = Current(q)
  BY DEF Known, Shown, Current
<1>5. /\ erec'.at = erec.at /\ erec'.spec = erec.spec /\ erec'.listed = erec.listed
      /\ erec'.left = erec.left \ {p}
  BY DEF Probe, IInv, TypeOK, ERec
<1>6. CASE pods[p].st = "serving"
  <2>1. /\ erec'.active = erec.active \cup {Current(p)}
        /\ erec'.notReady = erec.notReady
    BY <1>3, <1>6 DEF Probe, IInv, TypeOK, ERec
  <2>. QED
    BY <1>1, <1>2, <1>4, <1>5, <1>6, <2>1 DEF RoundSettled, Probe
<1>7. CASE pods[p].st = "idle"
  <2>1. /\ erec'.active = erec.active
        /\ erec'.notReady = erec.notReady \cup {Current(p)}
    BY <1>3, <1>7 DEF Probe, IInv, TypeOK, ERec
  <2>. QED
    BY <1>1, <1>2, <1>4, <1>5, <1>7, <2>1 DEF RoundSettled, Probe
<1>. QED
  BY <1>3, <1>6, <1>7

\* What a settled round would write is there already.
LEMMA NothingToWrite ==
  ASSUME IInv, EndpointsSettled, UpdateEndpoints
  PROVE  eps' = eps
<1>1. /\ erec.at \in Brokers /\ erec.left = {} /\ erec.spec = spec
      /\ spec[erec.at] # None
  BY DEF UpdateEndpoints, EndpointsSettled, RoundSettled, IInv, TypeOK, ERec
<1> DEFINE serving == {p \in Pods : pods[p].st = "serving"}
           notReady == {p \in Pods : pods[p].st \in {"down", "idle"}}
<1>2. erec.active = {Current(p) : p \in serving}
  BY <1>1 DEF UpdateEndpoints, EndpointsSettled, RoundSettled
<1>3. erec.notReady = {Current(p) : p \in notReady}
  <2>1. notReady = {q \in Pods : \/ pods[q].st = "down"
                                 \/ pods[q].st = "idle" /\ q \notin erec.left}
    BY <1>1
  <2>. QED
    BY <1>1, <2>1 DEF UpdateEndpoints, EndpointsSettled, RoundSettled
<1>4. eps[erec.at] =
        IF serving \cup notReady = {} THEN None
        ELSE [port |-> spec[erec.at], ready |-> {Current(p) : p \in serving},
              notReady |-> IF serving = {} THEN {Current(p) : p \in notReady} ELSE {}]
  BY <1>1 DEF EndpointsSettled, Reachable
<1>5. /\ erec.active = {} <=> serving = {}
      /\ erec.notReady = {} <=> notReady = {}
  BY <1>2, <1>3
<1>6. NewEndpoints = eps[erec.at]
  <2> HIDE DEF serving, notReady
  <2>1. erec.active \cup erec.notReady = {} <=> serving \cup notReady = {}
    BY <1>5
  <2>. QED
    BY <1>1, <1>2, <1>3, <1>4, <1>5, <2>1 DEF NewEndpoints
<1>. QED
  BY <1>1, <1>6 DEF UpdateEndpoints, IInv, TypeOK

\* The operator writes no Endpoints while they are as pods and spec are, whichever
\* copies of them are old and whatever is refused, fails or restarts. That no probe
\* fails is a hypothesis: a pod that cannot be asked is taken out (Reconcile,
\* updateBrokerEndpointComplete).
THEOREM SettledEndpointsStay ==
  Spec => [][/\ EndpointsSettled
             /\ changes' = changes /\ pods' = pods
             /\ ~ \E p \in Pods : ProbeFails(p)
             => EndpointsSettled' /\ eps' = eps]_vars
<1> DEFINE Stay == /\ EndpointsSettled
                   /\ changes' = changes /\ pods' = pods
                   /\ ~ \E p \in Pods : ProbeFails(p)
                   => EndpointsSettled' /\ eps' = eps
<1>1. IInv /\ [Next]_vars => [Stay]_vars
  <2> SUFFICES ASSUME IInv, Next, EndpointsSettled, changes' = changes, pods' = pods,
                      ~ \E p \in Pods : ProbeFails(p)
               PROVE  EndpointsSettled' /\ eps' = eps
    BY DEF vars
  <2>1. ~Change
    BY DEF Change, IInv, TypeOK
  <2>2. spec' = spec /\ specCache' = spec
    BY <2>1 DEF EndpointsSettled, Next, Cluster, EditSpec, TakePort, FreePort,
       EditService, DeleteService, PodAdvances, PodFails, DeletePod, SetPod,
       EventsArrive, SpecEventArrives, ServiceEventArrives, EndpointsEventArrives,
       PodEventArrives, ReconcileServices, StartServices, ReconcileService,
       ReconcileEndpoints, StartRound, NextBroker, Probe, UpdateEndpoints,
       Faults, ServiceCallFails, UpdateEndpointsFails, Restart, specVars
  <2>3. podCache' = Known
    <3>1. ASSUME NEW p \in Pods PROVE ~PodEventArrives(p)
      BY DEF PodEventArrives, EndpointsSettled, Known
    <3>2. podCache' = podCache \/ Restart
      BY <2>1, <3>1 DEF Next, Cluster, EditSpec, TakePort, FreePort,
         EditService, DeleteService, PodAdvances, PodFails, DeletePod, SetPod,
         EventsArrive, SpecEventArrives, ServiceEventArrives, EndpointsEventArrives,
         ReconcileServices, StartServices, ReconcileService,
         ReconcileEndpoints, StartRound, NextBroker, Probe, UpdateEndpoints,
         Faults, ServiceCallFails, UpdateEndpointsFails, podVars
    <3>. QED
      BY <3>2 DEF Restart, EndpointsSettled, Known
  <2>4. Known' = Known
    BY DEF Known, Shown
  <2>5. ASSUME erec' = erec PROVE RoundSettled'
    BY <2>2, <2>4, <2>5 DEF EndpointsSettled, RoundSettled, Current
  <2>6. ASSUME StartRound \/ Restart PROVE RoundSettled'
    <3>1. CASE StartRound
      BY <2>2, <2>4, <3>1 DEF StartRound, EndpointsSettled, RoundSettled, IdleE
    <3>2. CASE Restart
      BY <3>2 DEF Restart, RoundSettled, IdleE
    <3>. QED
      BY <2>6, <3>1, <3>2
  <2>7. ASSUME UpdateEndpoints \/ UpdateEndpointsFails PROVE RoundSettled'
    BY <2>2, <2>7, LeaveSettled
    DEF UpdateEndpoints, UpdateEndpointsFails, EndpointsSettled
  <2>8. RoundSettled'
    BY <2>1, <2>2, <2>5, <2>6, <2>7, NextBrokerSettled, ProbeSettled
    DEF EndpointsSettled, Next, Cluster, EditSpec, TakePort, FreePort, EditService,
        DeleteService, PodAdvances, PodFails, DeletePod, EventsArrive,
        SpecEventArrives, ServiceEventArrives, EndpointsEventArrives, PodEventArrives,
        ReconcileServices, StartServices, ReconcileService, ReconcileEndpoints,
        Faults, ServiceCallFails
  <2>9. eps' = eps
    <3>1. UNCHANGED <<svc, eps>> \/ UpdateEndpoints \/ \E m \in Brokers : ReconcileService(m)
      BY OperatorWrites
    <3>. QED
      BY <3>1, NothingToWrite DEF ReconcileService, epsVars
  <2>. QED
    BY <2>2, <2>3, <2>4, <2>8, <2>9 DEF EndpointsSettled, Reachable, Current
<1>. QED
  BY <1>1, Invariant, PTL DEF Spec
=============================================================================
