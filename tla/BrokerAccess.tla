---------------------------- MODULE BrokerAccess ----------------------------
(***************************************************************************)
(* How clients reach the brokers of a CubridDB.  The CubridDB controller   *)
(* keeps one Service per NodePort broker as the spec says                  *)
(* (pkg/manager/service_manager.go).  These Services have no selector: a   *)
(* second controller (internal/controller/broker_endpoint_controller.go)   *)
(* asks every pod, every ten seconds, whether the broker's port is open,   *)
(* and writes the Endpoints of the same name.                              *)
(*                                                                         *)
(* A setting of a broker stands for its port, its service port and its     *)
(* service type.  The headless Service, which is reconciled by the same    *)
(* function after the brokers, is left out.                                *)
(***************************************************************************)
EXTENDS Naturals, FiniteSets

CONSTANTS
  Pods,         \* the pods of the CubridDB
  Brokers,      \* names of brokers
  Ports,        \* settings of type NodePort: each has its own node port
  ClusterIP,    \* a setting of type ClusterIP
  None,         \* no broker, Service or Endpoints of that name
  Edited,       \* the state of a Service a user has changed
  MaxChanges,   \* bound on what users and the cluster change,
  MaxFaults     \* and on the calls that fail and the restarts

ASSUME ConstantsAssumption ==
  /\ IsFiniteSet(Pods) /\ IsFiniteSet(Brokers) /\ IsFiniteSet(Ports)
  /\ ClusterIP \notin {None, Edited} /\ None # Edited
  /\ {ClusterIP, None, Edited} \cap Ports = {}
  /\ None \notin Brokers

ASSUME BoundsAssumption == MaxChanges \in Nat /\ MaxFaults \in Nat

VARIABLES
  spec,       \* the brokers of the CubridDB
  specCache,  \* and in the operator's cache
  taken,      \* node ports of foreign Services
  svc,        \* the Services
  svcCache,   \* and in the operator's cache
  eps,        \* the Endpoints
  epsCache,   \* and in the operator's cache
  old,        \* the Services and Endpoints whose cached copy is not the stored one
  pods,       \* the pods
  podCache,   \* and in the operator's cache
  srec,       \* the ReconcileServices call in progress
  erec,       \* the Reconcile call of the endpoint controller in progress
  changes,    \* how much users and the cluster have changed,
  faults      \* and how many faults there were

specVars == <<spec, specCache, taken>>
svcVars == <<svc, svcCache>>
epsVars == <<eps, epsCache>>
podVars == <<pods, podCache>>
counters == <<changes, faults>>

vars == <<specVars, svcVars, epsVars, old, podVars, srec, erec, counters>>

-----------------------------------------------------------------------------

Setting == Ports \cup {ClusterIP}

BrokerSpec == [Brokers -> Setting \cup {None}]

ServiceState == Ports \cup {Edited, None}

\* Every new pod of a name has another address.
Address == [pod : Pods, ip : {0, 1}]

Endpoints == [port : Setting, ready : SUBSET Address, notReady : SUBSET Address]

ASSUME NoneAssumption == None \notin Endpoints

\* new: without an address; down: not all containers run. Whether a running
\* pod listens is not in the pod's status.
PodRec == [st : {"absent", "new", "down", "idle", "serving"}, ip : {0, 1}]

CachedPod == [st : {"absent", "new", "down", "running"}, ip : {0, 1}]

Shown(pod) == [pod EXCEPT !.st = IF @ \in {"idle", "serving"} THEN "running" ELSE @]

\* todo: the Services still to look at.
SRec == [spec : BrokerSpec, todo : SUBSET Brokers]

IdleS == [spec |-> [b \in Brokers |-> None], todo |-> {}]

\* listed are the pods found, todo the brokers to come; at is the broker whose
\* pods are asked, left those not asked yet, active and notReady the lists.
ERec == [spec : BrokerSpec, listed : [Pods -> CachedPod], todo : SUBSET Brokers,
         at : Brokers \cup {None}, left : SUBSET Pods,
         active : SUBSET Address, notReady : SUBSET Address]

NoPods == [p \in Pods |-> [st |-> "absent", ip |-> 0]]

IdleE == [spec |-> [b \in Brokers |-> None], listed |-> NoPods, todo |-> {},
          at |-> None, left |-> {}, active |-> {}, notReady |-> {}]

TypeOK ==
  /\ spec \in BrokerSpec /\ specCache \in BrokerSpec
  /\ taken \subseteq Ports
  /\ svc \in [Brokers -> ServiceState] /\ svcCache \in [Brokers -> ServiceState]
  /\ eps \in [Brokers -> Endpoints \cup {None}]
  /\ epsCache \in [Brokers -> Endpoints \cup {None}]
  /\ old \subseteq {"svc"} \X Brokers \cup {"eps"} \X Brokers
  /\ pods \in [Pods -> PodRec] /\ podCache \in [Pods -> CachedPod]
  /\ srec \in SRec /\ erec \in ERec
  /\ erec.left \subseteq {p \in Pods : erec.listed[p].st = "running"}
  /\ erec.at # None => erec.spec[erec.at] # None
  /\ changes \in 0..MaxChanges /\ faults \in 0..MaxFaults

Init ==
  /\ spec \in BrokerSpec /\ specCache = spec
  /\ taken = {}
  /\ svc = [b \in Brokers |-> None] /\ svcCache = svc
  /\ eps = [b \in Brokers |-> None] /\ epsCache = eps
  /\ old = {}
  /\ pods = NoPods /\ podCache = NoPods
  /\ srec = IdleS /\ erec = IdleE
  /\ changes = 0 /\ faults = 0

-----------------------------------------------------------------------------
(* Users and the cluster.                                                  *)

Change ==
  /\ changes < MaxChanges
  /\ changes' = changes + 1
  /\ UNCHANGED <<faults, srec, erec>>

EditSpec(b, s) ==
  /\ Change
  /\ spec[b] # s
  /\ spec' = [spec EXCEPT ![b] = s]
  /\ UNCHANGED <<specCache, taken, svcVars, epsVars, old, podVars>>

\* Node ports in use: by foreign Services and by those of the brokers.
InUse(n) == taken \cup {svc[k] : k \in Brokers \ {n}}

TakePort(port) ==
  /\ Change
  /\ port \notin InUse(None)
  /\ taken' = taken \cup {port}
  /\ UNCHANGED <<spec, specCache, svcVars, epsVars, old, podVars>>

FreePort(port) ==
  /\ Change
  /\ port \in taken
  /\ taken' = taken \ {port}
  /\ UNCHANGED <<spec, specCache, svcVars, epsVars, old, podVars>>

EditService(n) ==
  /\ Change
  /\ svc[n] \notin {None, Edited}
  /\ svc' = [svc EXCEPT ![n] = Edited]
  /\ old' = old \cup {<<"svc", n>>}
  /\ UNCHANGED <<specVars, svcCache, epsVars, podVars>>

\* Kubernetes deletes the Endpoints with the Service.
DeleteService(n) ==
  /\ Change
  /\ svc[n] # None
  /\ svc' = [svc EXCEPT ![n] = None]
  /\ eps' = [eps EXCEPT ![n] = None]
  /\ old' = old \cup {<<"svc", n>>, <<"eps", n>>}
  /\ UNCHANGED <<specVars, svcCache, epsCache, podVars>>

SetPod(p, st) ==
  /\ pods' = [pods EXCEPT ![p].st = st]
  /\ UNCHANGED <<specVars, svcVars, epsVars, old, podCache>>

\* A pod is created, gets an address, runs, and its brokers open their ports.
PodAdvances(p) ==
  /\ pods[p].st # "serving"
  /\ SetPod(p, CASE pods[p].st = "absent" -> "new"
                 [] pods[p].st = "new"    -> "down"
                 [] pods[p].st = "down"   -> "idle"
                 [] OTHER                 -> "serving")
  /\ UNCHANGED <<srec, erec, counters>>

\* The brokers stop, or the containers do.
PodFails(p) ==
  /\ Change
  /\ pods[p].st \in {"idle", "serving"}
  /\ \E st \in {"down", "idle"} \ {pods[p].st} : SetPod(p, st)

DeletePod(p) ==
  /\ Change
  /\ pods[p].st # "absent"
  /\ pods' = [pods EXCEPT ![p] = [st |-> "absent", ip |-> 1 - @.ip]]
  /\ UNCHANGED <<specVars, svcVars, epsVars, old, podCache>>

-----------------------------------------------------------------------------
(* Events reach the caches.                                                *)

SpecEventArrives ==
  /\ specCache # spec
  /\ specCache' = spec
  /\ UNCHANGED <<spec, taken, svcVars, epsVars, old, podVars, srec, erec, counters>>

ServiceEventArrives(n) ==
  /\ <<"svc", n>> \in old
  /\ svcCache' = [svcCache EXCEPT ![n] = svc[n]]
  /\ old' = old \ {<<"svc", n>>}
  /\ UNCHANGED <<specVars, svc, epsVars, podVars, srec, erec, counters>>

EndpointsEventArrives(b) ==
  /\ <<"eps", b>> \in old
  /\ epsCache' = [epsCache EXCEPT ![b] = eps[b]]
  /\ old' = old \ {<<"eps", b>>}
  /\ UNCHANGED <<specVars, svcVars, eps, podVars, srec, erec, counters>>

PodEventArrives(p) ==
  /\ podCache[p] # Shown(pods[p])
  /\ podCache' = [podCache EXCEPT ![p] = Shown(pods[p])]
  /\ UNCHANGED <<specVars, svcVars, epsVars, old, pods, srec, erec, counters>>

Fault ==
  /\ faults < MaxFaults
  /\ faults' = faults + 1
  /\ UNCHANGED changes

-----------------------------------------------------------------------------
(* ReconcileServices, in the Reconcile of the CubridDB controller.          *)

\* The Services to reconcile: of the NodePort brokers.
Wanted(copy) == {b \in Brokers : copy[b] \in Ports}

Desired(n) == srec.spec[n]

\* A Reconcile may start at any time: for an event of the CubridDB or of a
\* Service, after an error, and, if for nothing else, because informers resync.
StartServices ==
  /\ srec.todo = {}
  /\ Wanted(specCache) # {}
  /\ srec' = [spec |-> specCache, todo |-> Wanted(specCache)]
  /\ UNCHANGED <<specVars, svcVars, epsVars, old, podVars, erec, counters>>

Continue(todo) ==
  srec' = IF todo = {} THEN IdleS ELSE [srec EXCEPT !.todo = todo]


\* protectCRManagedService: the copy is absent, or not as the spec says.
NeedsWrite(n) == svcCache[n] # Desired(n)

\* The API server refuses to create what exists, to update from a copy that is
\* not the stored one, and a node port in use.
Accepted(n) ==
  /\ <<"svc", n>> \notin old
  /\ Desired(n) \notin InUse(n)

\* An error ends the call: the brokers left get their turn in the next.
ReconcileService(n) ==
  /\ n \in srec.todo
  /\ IF NeedsWrite(n) /\ Accepted(n)
     THEN /\ svc' = [svc EXCEPT ![n] = Desired(n)]
          /\ old' = old \cup {<<"svc", n>>}
     ELSE UNCHANGED <<svc, old>>
  /\ Continue(IF NeedsWrite(n) /\ ~Accepted(n) THEN {} ELSE srec.todo \ {n})
  /\ UNCHANGED <<specVars, svcCache, epsVars, podVars, erec, counters>>

ServiceCallFails(n) ==
  /\ Fault
  /\ n \in srec.todo
  /\ Continue({})
  /\ UNCHANGED <<specVars, svcVars, epsVars, old, podVars, erec>>

-----------------------------------------------------------------------------
(* Reconcile of the endpoint controller.                                   *)

\* Every ten seconds.
StartRound ==
  /\ erec.at = None /\ erec.todo = {}
  /\ {b \in Brokers : specCache[b] # None} # {}
  /\ erec' = [IdleE EXCEPT !.spec = specCache, !.listed = podCache,
                           !.todo = {b \in Brokers : specCache[b] # None}]
  /\ UNCHANGED <<specVars, svcVars, epsVars, old, podVars, srec, counters>>

\* The address the copy of a pod shows.
AddressOf(p) == [pod |-> p, ip |-> erec.listed[p].ip]

MutantNextBroker(b) ==
  /\ erec.at = None
  /\ b \in erec.todo
  /\ erec' = [erec EXCEPT
       !.todo = @ \ {b}, !.at = b,
       !.left = {p \in Pods : erec.listed[p].st # "absent"},
       !.notReady = {AddressOf(p) : p \in {p \in Pods : erec.listed[p].st = "down"}}]
  /\ UNCHANGED <<specVars, svcVars, epsVars, old, podVars, srec, counters>>

\* Pods that do not run are not ready, those without an address are left out.
NextBroker(b) ==
  /\ erec.at = None
  /\ b \in erec.todo
  /\ erec' = [erec EXCEPT
       !.todo = @ \ {b}, !.at = b,
       !.left = {p \in Pods : erec.listed[p].st = "running"},
       !.notReady = {AddressOf(p) : p \in {p \in Pods : erec.listed[p].st = "down"}}]
  /\ UNCHANGED <<specVars, svcVars, epsVars, old, podVars, srec, counters>>

\* The pod of that name, which may not be the one listed, is asked for the port.
Probe(p) ==
  /\ p \in erec.left
  /\ erec' = IF pods[p].st = "serving"
             THEN [erec EXCEPT !.left = @ \ {p}, !.active = @ \cup {AddressOf(p)}]
             ELSE [erec EXCEPT !.left = @ \ {p}, !.notReady = @ \cup {AddressOf(p)}]
  /\ UNCHANGED <<specVars, svcVars, epsVars, old, podVars, srec, counters>>

MutantProbeFails(p) ==
  /\ Fault
  /\ p \in erec.left
  /\ erec' = [erec EXCEPT !.left = @ \ {p}]
  /\ UNCHANGED <<specVars, svcVars, epsVars, old, podVars, srec>>

\* A pod that cannot be asked counts as not ready.
ProbeFails(p) ==
  /\ Fault
  /\ p \in erec.left
  /\ erec' = [erec EXCEPT !.left = @ \ {p}, !.notReady = @ \cup {AddressOf(p)}]
  /\ UNCHANGED <<specVars, svcVars, epsVars, old, podVars, srec>>

Leave ==
  IF erec.todo = {} THEN IdleE
  ELSE [erec EXCEPT !.at = None, !.active = {}, !.notReady = {}]

\* With one active pod the others are not listed; with no address at all the
\* Endpoints are deleted.
NewEndpoints ==
  IF erec.active \cup erec.notReady = {} THEN None
  ELSE [port |-> erec.spec[erec.at], ready |-> erec.active,
        notReady |-> IF erec.active = {} THEN erec.notReady ELSE {}]

Names(e) == IF e = None THEN {} ELSE {a.pod : a \in e.ready \cup e.notReady}

MutantDiffers == Names(epsCache[erec.at]) # Names(NewEndpoints)

Differs == epsCache[erec.at] # NewEndpoints

MutantUpdateEndpoints ==
  /\ erec.at # None /\ erec.left = {}
  /\ IF Differs
     THEN /\ eps' = [eps EXCEPT ![erec.at] = NewEndpoints]
          /\ old' = old \cup {<<"eps", erec.at>>}
     ELSE UNCHANGED <<eps, old>>
  /\ erec' = Leave
  /\ UNCHANGED <<specVars, svcVars, epsCache, podVars, srec, counters>>

\* Refused when the copy is not the stored one. The next broker follows anyway.
\* A deletion asks for no version.
UpdateEndpoints ==
  /\ erec.at # None /\ erec.left = {}
  /\ IF Differs /\ (NewEndpoints = None \/ <<"eps", erec.at>> \notin old)
     THEN /\ eps' = [eps EXCEPT ![erec.at] = NewEndpoints]
          /\ old' = old \cup {<<"eps", erec.at>>}
     ELSE UNCHANGED <<eps, old>>
  /\ erec' = Leave
  /\ UNCHANGED <<specVars, svcVars, epsCache, podVars, srec, counters>>

UpdateEndpointsFails ==
  /\ Fault
  /\ erec.at # None /\ erec.left = {}
  /\ erec' = Leave
  /\ UNCHANGED <<specVars, svcVars, epsVars, old, podVars, srec>>

-----------------------------------------------------------------------------

\* A new process lists everything.
Restart ==
  /\ Fault
  /\ specCache' = spec /\ svcCache' = svc /\ epsCache' = eps
  /\ podCache' = [p \in Pods |-> Shown(pods[p])]
  /\ old' = {}
  /\ srec' = IdleS /\ erec' = IdleE
  /\ UNCHANGED <<spec, taken, svc, eps, pods>>

Cluster ==
  \/ \E b \in Brokers, s \in Setting \cup {None} : EditSpec(b, s)
  \/ \E port \in Ports : TakePort(port) \/ FreePort(port)
  \/ \E n \in Brokers : EditService(n) \/ DeleteService(n)
  \/ \E p \in Pods : PodAdvances(p) \/ PodFails(p) \/ DeletePod(p)

EventsArrive ==
  \/ SpecEventArrives
  \/ \E n \in Brokers : ServiceEventArrives(n)
  \/ \E b \in Brokers : EndpointsEventArrives(b)
  \/ \E p \in Pods : PodEventArrives(p)

ReconcileServices == StartServices \/ \E n \in Brokers : ReconcileService(n)

ReconcileEndpoints ==
  \/ StartRound
  \/ \E b \in Brokers : NextBroker(b)
  \/ \E p \in Pods : Probe(p)
  \/ UpdateEndpoints

Faults ==
  \/ \E n \in Brokers : ServiceCallFails(n)
  \/ \E p \in Pods : ProbeFails(p)
  \/ UpdateEndpointsFails
  \/ Restart

Next == Cluster \/ EventsArrive \/ ReconcileServices \/ ReconcileEndpoints \/ Faults

Spec == Init /\ [][Next]_vars

\* Events arrive, and each controller's worker runs.
Fairness ==
  /\ WF_vars(EventsArrive)
  /\ WF_vars(ReconcileServices)
  /\ WF_vars(ReconcileEndpoints)

FairSpec == Spec /\ Fairness

-----------------------------------------------------------------------------
(* Properties.                                                             *)

\* Neither controller writes over what it has not seen: a Service or Endpoints
\* that differ from the copy the decision was made from are left as they are
\* (protectCRManagedService, updateBrokerEndpointComplete). Only a deletion, for
\* which a round that found no address decides, needs no fresh copy.
SeenBeforeWritten ==
  [][changes' = changes =>
       /\ \A n \in Brokers : svc'[n] # svc[n] => svcCache[n] = svc[n]
       /\ \A b \in Brokers :
            eps'[b] # eps[b] => epsCache[b] = eps[b] \/ eps'[b] = None]_vars

\* The addresses of the pods a round has found.
Found == {AddressOf(p) : p \in {p \in Pods : erec.listed[p].st \in {"down", "running"}}}

\* The Endpoints as the round in progress makes them.
Swept == INSTANCE EndpointsSweep WITH
  Addresses <- Address,
  Settings <- Setting,
  offered <- {b \in Brokers : svc[b] # None},
  found <- Found,
  port <- erec.spec

\* Endpoints are the result of one whole round: they send clients to pods of one
\* listing only, to the port the broker had then, and while no pod serves they keep
\* every pod found, also those that could not be asked. They go only when no pod was
\* found, or with their Service, whatever copies are old, and whatever is refused,
\* fails or restarts (Reconcile, lines 136 to 210).
ImplementsSweep == Swept!Spec

Current(p) == [pod |-> p, ip |-> pods[p].ip]

\* Where clients of a broker should be sent.
Reachable(b) ==
  LET serving == {p \in Pods : pods[p].st = "serving"}
      notReady == {p \in Pods : pods[p].st \in {"down", "idle"}}
  IN
  IF serving \cup notReady = {} THEN eps[b] = None
  ELSE eps[b] = [port |-> spec[b], ready |-> {Current(p) : p \in serving},
                 notReady |-> IF serving = {} THEN {Current(p) : p \in notReady}
                              ELSE {}]

\* Once the cluster rests (changes and faults are bounded), the Endpoints of
\* every broker of the spec list the present addresses of the pods that serve,
\* whatever was probed, edited, replaced or lost before.
EndpointsConverge ==
  <>[](\A b \in Brokers : spec[b] # None => Reachable(b))

=============================================================================
