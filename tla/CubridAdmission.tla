-------------------------- MODULE CubridAdmission --------------------------
(***************************************************************************)
(* What may be written into a CubridDB.  Every creation and every update,  *)
(* also one by the operator, goes through the two admission webhooks       *)
(* (api/v1/cubriddb_webhook.go): Default fills what is missing, then       *)
(* ValidateCreate or ValidateUpdate accepts or refuses.  Reconcile begins  *)
(* with a patch that fills in defaults as well, made from a cached copy    *)
(* (setSpecDefaults, internal/controller/cubriddb_controller.go).          *)
(*                                                                         *)
(* A spec is a record of the fields the validators look at; a list of      *)
(* brokers is reduced to one broker.  Image, update strategy and the CMS   *)
(* container port, which nothing here depends on, are left out.            *)
(***************************************************************************)
EXTENDS Integers, FiniteSets, Sequences

CONSTANTS
  Dbs,          \* names of CubridDB resources
  Masters,      \* names a replica group may refer to
  NoRef,        \* the empty name
  Ports,        \* port numbers users write
  StorageLists, \* lists of storages users write
  Manifests,    \* specs users create resources from
  Unset,        \* a field that is not there
  MaxChanges    \* bound on what users do

ASSUME ConstantsAssumption ==
  /\ IsFiniteSet(Dbs) /\ IsFiniteSet(Masters)
  /\ NoRef \notin Masters
  /\ Ports \subseteq Int
  /\ Unset \notin Int /\ Unset \notin Masters \cup {NoRef}
  /\ Unset \notin BOOLEAN
  /\ Unset \notin {"", "master-slave", "replica", "other", "NodePort", "Ingress",
                  "ClusterIP", "IfNotPresent", "Always"}

ASSUME BoundsAssumption == MaxChanges \in Nat

VARIABLES
  obj,      \* the stored spec of each CubridDB, or Unset
  cache,    \* and in the caches of the operator and of the webhook
  patch,    \* the defaulting patch in progress
  changes   \* how much users have done

vars == <<obj, cache, patch, changes>>

-----------------------------------------------------------------------------
(* Specs.                                                                  *)

DefaultStartPort == 31000
DefaultHAPort == 59901

\* template is a volume claim template without or with a storage class, sound
\* stands for the checks of one field each.
Storage == [name : STRING, class : BOOLEAN, template : {"none", "static", "class"},
            selector : BOOLEAN, sound : BOOLEAN]

ASSUME StorageAssumption == StorageLists \subseteq Seq(Storage)

DefaultStorage == <<[name |-> "database", class |-> TRUE, template |-> "none",
                     selector |-> FALSE, sound |-> TRUE]>>

Broker == [type : {"NodePort", "ClusterIP"}, port : Ports \cup {DefaultStartPort}]

DefaultBroker == [type |-> "NodePort", port |-> DefaultStartPort]

\* What a user may put into each field.
Values ==
  [enable    |-> BOOLEAN,
   replicas  |-> {Unset, 1, 2},
   type      |-> {Unset, "", "master-slave", "replica", "other"},
   ref       |-> Masters \cup {NoRef},
   anti      |-> BOOLEAN \cup {Unset},
   cmsType   |-> {Unset, "NodePort", "Ingress"},
   startPort |-> Ports \cup {Unset},
   haPort    |-> Ports \cup {Unset},
   broker    |-> [type : {"NodePort", "ClusterIP"}, port : Ports] \cup {Unset},
   storage   |-> StorageLists \cup {Unset},
   policy    |-> {Unset, "IfNotPresent", "Always"}]

Fields == DOMAIN Values

ASSUME ManifestsAssumption ==
  \A m \in Manifests : DOMAIN m = Fields /\ \A f \in Fields : m[f] \in Values[f]

\* A stored spec: the mutating webhook leaves little unset.
Stored ==
  [enable : BOOLEAN, replicas : {1, 2},
   type : {"", "master-slave", "replica", "other"}, ref : Values.ref, anti : BOOLEAN,
   cmsType : {"NodePort", "Ingress"}, startPort : Ports \cup {DefaultStartPort},
   haPort : Ports \cup {DefaultHAPort}, broker : Broker,
   storage : StorageLists \cup {DefaultStorage}, policy : Values.policy]

\* The one patch in progress: the resource, and the fields it sets.
NoPatch == [db |-> Unset, set |-> <<>>]

PatchSet == UNION {[F -> UNION {Values[f] : f \in F}] : F \in SUBSET {"type", "policy"}}

TypeOK ==
  /\ obj \in [Dbs -> Stored \cup {Unset}] /\ cache \in [Dbs -> Stored \cup {Unset}]
  /\ patch \in [db : Dbs, set : PatchSet] \cup {NoPatch}
  /\ changes \in 0..MaxChanges

Init ==
  /\ obj = [d \in Dbs |-> Unset] /\ cache = obj
  /\ patch = NoPatch
  /\ changes = 0

-----------------------------------------------------------------------------
(* Defaults.                                                               *)

Else(value, default) == IF value = Unset THEN default ELSE value

MutantReplication(m) == [m EXCEPT !.replicas = Else(@, 1)]

\* A missing hamodeType is created with no type; one with no type is master-slave.
Replication(m) ==
  [m EXCEPT !.replicas = Else(@, 1),
            !.type = CASE @ = Unset -> "" [] @ = "" -> "master-slave" [] OTHER -> @]

InitBroker(m) == [m EXCEPT !.broker = Else(@, DefaultBroker)]

InitStorages(m) == [m EXCEPT !.storage = Else(@, DefaultStorage)]

\* The question whether HA is enabled fills in replication a second time.
InitAffinity(m) ==
  IF m.anti = Unset THEN [Replication(m) EXCEPT !.anti = m.enable] ELSE m

\* Only where the whole section is missing.
MutantInitCMSService(m) ==
  IF m.cmsType = Unset /\ m.startPort = Unset
  THEN [m EXCEPT !.cmsType = "NodePort", !.startPort = DefaultStartPort] ELSE m

InitCMSService(m) ==
  [m EXCEPT !.cmsType = Else(@, "NodePort"), !.startPort = Else(@, DefaultStartPort)]

InitHAPort(m) == [m EXCEPT !.haPort = Else(@, DefaultHAPort)]

InitContainerTemplate(m) == [m EXCEPT !.policy = Else(@, "IfNotPresent")]

\* The mutating webhook, which leaves imagePullPolicy alone, and the operator.
Default(m) ==
  InitHAPort(InitCMSService(InitAffinity(InitStorages(InitBroker(Replication(m))))))

SetDefaults(m) == InitContainerTemplate(Default(m))

-----------------------------------------------------------------------------
(* Validation.                                                             *)

NodePortRange == 30000..32767

ValidHA(m) == m.enable \/ Replication(m).replicas = 1

\* An empty name is one that no other resource refers to.
MutantValidRef(d, m, listed) ==
  m.enable /\ Replication(m).type = "replica" =>
    \A e \in Dbs \ {d} : listed[e] # Unset => m.ref = NoRef \/ listed[e].ref # m.ref

\* A replica group names its master, which no other resource in the list names.
ValidRef(d, m, listed) ==
  m.enable /\ Replication(m).type = "replica" =>
    /\ m.ref # NoRef
    /\ \A e \in Dbs \ {d} : listed[e] # Unset => listed[e].ref # m.ref

ValidCMSService(m) == m.cmsType = "NodePort" => m.startPort \in NodePortRange

ValidBroker(m) ==
  m.broker.type = "NodePort" /\ m.broker.port # 0 => m.broker.port \in NodePortRange

ValidHAPort(m) == m.enable => m.haPort \in 1..65535

\* Dynamic provisioning names a class, static a selector; not both.
ValidStorage(s) ==
  /\ ~(s.class /\ s.template = "static")
  /\ s.template = "static" => s.selector
  /\ s.sound

\* No check of the names.
MutantValidStorages(list) == \A i \in DOMAIN list : ValidStorage(list[i])

ValidStorages(list) ==
  /\ \A i \in DOMAIN list : ValidStorage(list[i])
  /\ \A i, j \in DOMAIN list : list[i].name = list[j].name => i = j

ValidateCreate(d, m, listed) ==
  /\ ValidHA(m) /\ ValidRef(d, m, listed) /\ ValidCMSService(m) /\ ValidBroker(m)
  /\ ValidHAPort(m) /\ ValidStorages(m.storage)

\* A field counts as changed only where both specs have it.
Same(old, new) == Unset \in {old, new} \/ old = new

\* The type of the old resource as it was stored.
MutantHAmodeType(m) == m.type

HAmodeType(m) == Replication(m).type

ValidUpdateHA(m, old) ==
  /\ m.enable = old.enable
  /\ m.enable =>
       /\ HAmodeType(m) = HAmodeType(old)
       /\ HAmodeType(m) \in {"master-slave", "replica"}
       /\ HAmodeType(m) = "replica" => m.ref # NoRef
       /\ m.anti
  /\ ~m.enable => Replication(m).replicas = 1

ValidateUpdate(m, old) ==
  /\ Same(old.cmsType, m.cmsType) /\ Same(old.startPort, m.startPort)
  /\ old.storage = m.storage
  /\ ValidUpdateHA(m, old) /\ ValidBroker(m) /\ ValidStorages(m.storage)

-----------------------------------------------------------------------------
(* Users.                                                                  *)

Change ==
  /\ changes < MaxChanges
  /\ changes' = changes + 1
  /\ UNCHANGED <<cache, patch>>

Create(d, m) ==
  /\ Change
  /\ obj[d] = Unset
  /\ ValidateCreate(d, Default(m), cache)
  /\ obj' = [obj EXCEPT ![d] = Default(m)]

\* A field is edited, or taken out. The API server validates against the version
\* it then replaces.
Edit(d, field, value) ==
  /\ Change
  /\ obj[d] # Unset
  /\ LET m == Default([obj[d] EXCEPT ![field] = value])
     IN /\ m # obj[d] /\ ValidateUpdate(m, obj[d])
        /\ obj' = [obj EXCEPT ![d] = m]

Delete(d) ==
  /\ Change
  /\ obj[d] # Unset
  /\ obj' = [obj EXCEPT ![d] = Unset]

EventArrives(d) ==
  /\ cache[d] # obj[d]
  /\ cache' = [cache EXCEPT ![d] = obj[d]]
  /\ UNCHANGED <<obj, patch, changes>>

-----------------------------------------------------------------------------
(* The operator.                                                           *)

\* A merge patch holds the fields that the defaults change, and no version.
MergePatch(copy) ==
  LET filled == SetDefaults(copy)
  IN [f \in {g \in Fields : filled[g] # copy[g]} |-> filled[f]]

\* A Reconcile comes with every event, after every error and at every resync.
StartPatch(d) ==
  /\ patch = NoPatch
  /\ cache[d] # Unset
  /\ patch' = [db |-> d, set |-> MergePatch(cache[d])]
  /\ UNCHANGED <<obj, cache, changes>>

Merged(current, set) == [f \in Fields |-> IF f \in DOMAIN set THEN set[f] ELSE current[f]]

\* Not found, refused by ValidateUpdate, or stored.
PatchAnswered ==
  /\ patch # NoPatch
  /\ LET current == obj[patch.db]
         m == Default(Merged(current, patch.set))
     IN obj' = IF current # Unset /\ ValidateUpdate(m, current)
               THEN [obj EXCEPT ![patch.db] = m] ELSE obj
  /\ patch' = NoPatch
  /\ UNCHANGED <<cache, changes>>

-----------------------------------------------------------------------------

User ==
  \E d \in Dbs :
    \/ \E m \in Manifests : Create(d, m)
    \/ \E f \in Fields : \E v \in Values[f] : Edit(d, f, v)
    \/ Delete(d)

Next == User \/ PatchAnswered \/ \E d \in Dbs : EventArrives(d) \/ StartPatch(d)

Spec == Init /\ [][Next]_vars

\* The API server answers, the caches hear of every change, and each resource
\* is reconciled again and again.
Fairness ==
  /\ WF_vars(PatchAnswered)
  /\ \A d \in Dbs : WF_vars(EventArrives(d)) /\ SF_vars(StartPatch(d))

FairSpec == Spec /\ Fairness

-----------------------------------------------------------------------------
(* Properties.                                                             *)

\* What cannot be changed later stays what it was at the creation, over any
\* number of edits, removals of fields and patches from old copies: although a
\* field counts as changed only where both specs have it (lines 367 and 389).
FixedFields ==
  [][\A d \in Dbs : obj[d] # Unset /\ obj'[d] # Unset =>
       /\ obj'[d].enable = obj[d].enable
       /\ obj'[d].cmsType = obj[d].cmsType /\ obj'[d].startPort = obj[d].startPort
       /\ obj'[d].storage = obj[d].storage
       /\ obj[d].enable => HAmodeType(obj'[d]) = HAmodeType(obj[d])]_vars

\* An HA group without anti-affinity or with an unknown type may be created, but
\* not updated, not even by the operator.
Frozen(m) == m.enable /\ (~m.anti \/ m.type = "other")

\* Every other CubridDB gets its defaults, so that Reconcile goes on to the
\* StatefulSet: no spec that was admitted is refused when the operator writes it
\* (setSpecDefaults).
DefaultsConverge ==
  \A d \in Dbs : <>[](obj[d] # Unset /\ ~Frozen(obj[d]) =>
                        obj[d].policy # Unset /\ obj[d].type # "")

\* No resource is stuck: no check of an update (ValidateUpdate, line 249) refuses
\* what a creation or an earlier update has let through, when the operator writes
\* it back with its defaults; but for those that are frozen.
OwnPatchAccepted ==
  \A d \in Dbs : obj[d] # Unset /\ ~Frozen(obj[d]) =>
    ValidateUpdate(Default(Merged(obj[d], MergePatch(obj[d]))), obj[d])

\* The manager can build what is stored: one pod where there is no HA, a master
\* for every replica group, a claim of one kind for every storage, of its own.
StoredIsSound ==
  \A d \in Dbs : obj[d] # Unset =>
    /\ obj[d].enable \/ obj[d].replicas = 1
    /\ obj[d].enable /\ obj[d].type = "replica" => obj[d].ref # NoRef
    /\ \A i \in DOMAIN obj[d].storage :
         LET s == obj[d].storage[i]
         IN /\ s.template = "static" => s.selector /\ ~s.class
            /\ \A j \in DOMAIN obj[d].storage \ {i} : s.name # obj[d].storage[j].name
=============================================================================
