--------------------------- MODULE AdmissionProofs ---------------------------
(***************************************************************************)
(* Proofs about what the two admission webhooks let through.               *)
(*                                                                         *)
(* FixedFields is about fields that count as changed only where both specs *)
(* have them.  Filled, that no stored spec lacks one of them, is what it   *)
(* rests on: every way into the store leads through Default.  WellFormed   *)
(* adds what the copies and the operator's patch are like, from which      *)
(* follows that a patch changes nothing where the defaults are.  The last  *)
(* section is about the schedules of a BackupDB.                           *)
(***************************************************************************)
EXTENDS CubridAdmission, TLAPS

LEMMA FieldNames ==
  Fields = {"enable", "replicas", "type", "ref", "anti", "cmsType", "startPort",
            "haPort", "broker", "storage", "policy"}
BY DEF Fields, Values

LEMMA UnsetIsNone == Unset \notin {1, DefaultStartPort, "NodePort", "replica"}
<1>1. 1 \in Int /\ DefaultStartPort \in Int
  BY SMT DEF DefaultStartPort
<1>2. Unset # 1 /\ Unset # DefaultStartPort
  BY <1>1, ConstantsAssumption, Zenon
<1>. QED BY <1>2, ConstantsAssumption

\* A spec that is there has all fields, and those that count are set.
Complete(m) ==
  /\ DOMAIN m = Fields
  /\ m.replicas # Unset /\ m.cmsType # Unset /\ m.startPort # Unset
  /\ Else(m.broker, DefaultBroker) = m.broker
  /\ Else(m.storage, DefaultStorage) = m.storage

Filled ==
  /\ obj = [d \in Dbs |-> obj[d]]
  /\ \A d \in Dbs : obj[d] # Unset => Complete(obj[d])

\* What Default does to the fields, but for the type.
LEMMA DefaultFields ==
  ASSUME NEW m, DOMAIN m = Fields
  PROVE  /\ DOMAIN Default(m) = Fields
         /\ Default(m).enable = m.enable /\ Default(m).ref = m.ref
         /\ Default(m).anti = Else(m.anti, m.enable)
         /\ Default(m).cmsType = Else(m.cmsType, "NodePort")
         /\ Default(m).startPort = Else(m.startPort, DefaultStartPort)
         /\ Default(m).replicas = Else(m.replicas, 1)
         /\ Default(m).broker = Else(m.broker, DefaultBroker)
         /\ Default(m).storage = Else(m.storage, DefaultStorage)
         /\ Default(m).haPort = Else(m.haPort, DefaultHAPort)
         /\ Default(m).policy = m.policy
<1> DEFINE a == Replication(m)
           b == InitStorages(InitBroker(a))
           c == InitAffinity(b)
<1>0. \A v : Else(Else(v, 1), 1) = Else(v, 1)
  BY UnsetIsNone DEF Else
<1>1. /\ DOMAIN a = Fields
      /\ \A f \in Fields \ {"replicas", "type"} : a[f] = m[f]
      /\ a.replicas = Else(m.replicas, 1)
  BY FieldNames DEF Replication
<1>2. /\ DOMAIN b = Fields
      /\ \A f \in Fields \ {"broker", "storage"} : b[f] = a[f]
      /\ b.broker = Else(a.broker, DefaultBroker)
      /\ b.storage = Else(a.storage, DefaultStorage)
  BY <1>1, FieldNames DEF InitStorages, InitBroker
<1>3. /\ DOMAIN c = Fields
      /\ \A f \in Fields \ {"replicas", "type", "anti"} : c[f] = b[f]
      /\ c.anti = Else(b.anti, b.enable)
      /\ c.replicas \in {b.replicas, Else(b.replicas, 1)}
  <2> DEFINE r == Replication(b)
  <2>1. /\ DOMAIN r = Fields
        /\ \A f \in Fields \ {"replicas", "type"} : r[f] = b[f]
        /\ r.replicas = Else(b.replicas, 1)
    BY <1>2, FieldNames DEF Replication
  <2>2. CASE b.anti = Unset
    <3>1. c = [r EXCEPT !.anti = b.enable]
      BY <2>2 DEF InitAffinity
    <3> HIDE DEF c, r
    <3>. QED BY <2>1, <2>2, <3>1, FieldNames DEF Else
  <2>3. CASE b.anti # Unset
    BY <1>2, <2>3 DEF InitAffinity, Else
  <2>. QED BY <2>2, <2>3
<1>4. c.replicas = Else(m.replicas, 1)
  BY <1>0, <1>1, <1>2, <1>3, FieldNames
<1>5. /\ DOMAIN Default(m) = Fields
      /\ \A f \in Fields \ {"cmsType", "startPort", "haPort"} : Default(m)[f] = c[f]
      /\ Default(m).cmsType = Else(c.cmsType, "NodePort")
      /\ Default(m).startPort = Else(c.startPort, DefaultStartPort)
      /\ Default(m).haPort = Else(c.haPort, DefaultHAPort)
  BY <1>3, FieldNames DEF Default, InitHAPort, InitCMSService
<1>6. /\ m.enable = c.enable /\ m.ref = c.ref
      /\ m.cmsType = c.cmsType /\ m.startPort = c.startPort
      /\ c.anti = Else(m.anti, m.enable)
      /\ c.broker = Else(m.broker, DefaultBroker)
      /\ c.storage = Else(m.storage, DefaultStorage)
      /\ c.haPort = m.haPort /\ c.policy = m.policy
  BY <1>1, <1>2, <1>3, FieldNames
<1>. QED
  BY <1>4, <1>5, <1>6, FieldNames

LEMMA DefaultCompletes ==
  ASSUME NEW m, DOMAIN m = Fields
  PROVE  Complete(Default(m))
BY UnsetIsNone, DefaultFields DEF Complete, Else

-----------------------------------------------------------------------------
(* The fields that stay.                                                   *)

\* ValidateUpdate leaves no way around a fixed field where both specs have it.
LEMMA UpdateKeeps ==
  ASSUME NEW m, NEW old, Complete(m), Complete(old), ValidateUpdate(m, old)
  PROVE  /\ m.enable = old.enable
         /\ m.cmsType = old.cmsType /\ m.startPort = old.startPort
         /\ m.storage = old.storage
         /\ old.enable => HAmodeType(m) = HAmodeType(old)
BY DEF Complete, ValidateUpdate, ValidUpdateHA, Same

\* A change of one resource: gone, or given a complete spec that was validated.
Written(d) ==
  \E m : /\ obj' = [obj EXCEPT ![d] = m]
         /\ \/ m = Unset
            \/ obj[d] = Unset /\ Complete(m) /\ \E c : ValidateCreate(d, m, c)
            \/ obj[d] # Unset /\ Complete(m) /\ ValidateUpdate(m, obj[d])

LEMMA EveryWrite ==
  ASSUME Filled, [Next]_vars
  PROVE  obj' = obj \/ \E d \in Dbs : Written(d)
<1>1. ASSUME NEW d \in Dbs, NEW m \in Manifests, Create(d, m)
      PROVE  Written(d)
  <2>1. Complete(Default(m))
    BY ManifestsAssumption, DefaultCompletes
  <2>. QED BY <1>1, <2>1 DEF Create, Written
<1>2. ASSUME NEW d \in Dbs, NEW f \in Fields, NEW v, Edit(d, f, v)
      PROVE  Written(d)
  <2>1. obj[d] # Unset /\ DOMAIN [obj[d] EXCEPT ![f] = v] = Fields
    BY <1>2 DEF Filled, Complete, Edit
  <2>2. Complete(Default([obj[d] EXCEPT ![f] = v]))
    BY <2>1, DefaultCompletes
  <2>. QED BY <1>2, <2>2 DEF Edit, Written
<1>3. ASSUME NEW d \in Dbs, Delete(d)
      PROVE  Written(d)
  BY <1>3 DEF Delete, Written
<1>4. ASSUME PatchAnswered
      PROVE  obj' = obj \/ \E d \in Dbs : Written(d)
  <2> DEFINE current == obj[patch.db]
             m == Default(Merged(current, patch.set))
  <2>1. CASE current # Unset /\ ValidateUpdate(m, current)
    <3>1. DOMAIN Merged(current, patch.set) = Fields
      BY DEF Merged
    <3>2. Complete(m)
      BY <3>1, DefaultCompletes
    <3>3. obj' = [obj EXCEPT ![patch.db] = m]
      BY <1>4, <2>1 DEF PatchAnswered
    <3>4. CASE patch.db \in Dbs
      BY <2>1, <3>2, <3>3, <3>4 DEF Written
    <3>5. CASE patch.db \notin Dbs
      BY <3>3, <3>5 DEF Filled
    <3>. QED BY <3>4, <3>5
  <2>. QED BY <1>4, <2>1 DEF PatchAnswered
<1>5. ASSUME NEW d \in Dbs, EventArrives(d) \/ StartPatch(d)
      PROVE  obj' = obj
  BY <1>5 DEF EventArrives, StartPatch
<1>6. CASE UNCHANGED vars
  BY <1>6 DEF vars
<1>. QED
  BY <1>1, <1>2, <1>3, <1>4, <1>5, <1>6 DEF Next, User

LEMMA FilledStep ==
  ASSUME Filled, [Next]_vars
  PROVE  Filled'
<1>1. CASE obj' = obj
  BY <1>1 DEF Filled
<1>2. ASSUME NEW d \in Dbs, Written(d)
      PROVE  Filled'
  BY <1>2 DEF Written, Filled
<1>. QED BY <1>1, <1>2, EveryWrite

LEMMA FilledInit == Init => Filled
BY DEF Init, Filled

\* FixedFields without its box.
Fixed ==
  \A d \in Dbs : obj[d] # Unset /\ obj'[d] # Unset =>
    /\ obj'[d].enable = obj[d].enable
    /\ obj'[d].cmsType = obj[d].cmsType /\ obj'[d].startPort = obj[d].startPort
    /\ obj'[d].storage = obj[d].storage
    /\ obj[d].enable => HAmodeType(obj'[d]) = HAmodeType(obj[d])

LEMMA FixedStep ==
  ASSUME Filled, [Next]_vars
  PROVE  Fixed
<1>1. CASE obj' = obj
  BY <1>1 DEF Fixed, HAmodeType
<1>2. ASSUME NEW d \in Dbs, Written(d)
      PROVE  Fixed
  <2> SUFFICES ASSUME NEW e \in Dbs, obj[e] # Unset, obj'[e] # Unset
               PROVE  /\ obj'[e].enable = obj[e].enable
                      /\ obj'[e].cmsType = obj[e].cmsType
                      /\ obj'[e].startPort = obj[e].startPort
                      /\ obj'[e].storage = obj[e].storage
                      /\ obj[e].enable => HAmodeType(obj'[e]) = HAmodeType(obj[e])
    BY DEF Fixed
  <2>1. CASE e # d
    <3>1. obj'[e] = obj[e]
      BY <1>2, <2>1 DEF Written, Filled
    <3>. QED BY <3>1
  <2>2. CASE e = d
    <3>1. Complete(obj'[d]) /\ ValidateUpdate(obj'[d], obj[d])
      BY <1>2, <2>2 DEF Written, Filled
    <3>2. Complete(obj[d])
      BY <2>2 DEF Filled
    <3>. QED BY <2>2, <3>1, <3>2, UpdateKeeps
  <2>. QED BY <2>1, <2>2
<1>. QED BY <1>1, <1>2, EveryWrite

\* What cannot be changed later stays, for any number of resources, users and
\* patches, whatever they write (ValidateUpdate over Default).
THEOREM FixedFieldsStay == Spec => FixedFields
<1>1. Filled /\ [Next]_vars => Fixed
  BY FixedStep
<1>2. Spec => []Filled
  BY FilledInit, FilledStep, PTL DEF Spec
<1>3. Filled /\ [Next]_vars => [Fixed]_vars
  BY <1>1
<1>. QED BY <1>2, <1>3, PTL DEF Spec, FixedFields, Fixed

-----------------------------------------------------------------------------
(* What can be built.                                                      *)

Buildable(m) ==
  /\ m.enable \/ m.replicas = 1
  /\ m.enable /\ m.type = "replica" => m.ref # NoRef
  /\ \A i \in DOMAIN m.storage :
       LET s == m.storage[i]
       IN /\ s.template = "static" => s.selector /\ ~s.class
          /\ \A j \in DOMAIN m.storage \ {i} : s.name # m.storage[j].name

LEMMA ReplicationKeeps ==
  ASSUME NEW m, Complete(m)
  PROVE  /\ Replication(m).replicas = m.replicas
         /\ m.type = "replica" => Replication(m).type = "replica"
BY FieldNames, UnsetIsNone DEF Complete, Replication, Else

LEMMA ValidStoragesBuildable ==
  ASSUME NEW list, ValidStorages(list), NEW i \in DOMAIN list
  PROVE  /\ list[i].template = "static" => list[i].selector /\ ~list[i].class
         /\ \A j \in DOMAIN list \ {i} : list[i].name # list[j].name
BY DEF ValidStorages, ValidStorage

LEMMA CreatedIsBuildable ==
  ASSUME NEW d, NEW m, NEW c, Complete(m), ValidateCreate(d, m, c)
  PROVE  Buildable(m)
BY ReplicationKeeps, ValidStoragesBuildable
   DEF ValidateCreate, ValidHA, ValidRef, Buildable

LEMMA UpdatedIsBuildable ==
  ASSUME NEW m, NEW old, Complete(m), ValidateUpdate(m, old)
  PROVE  Buildable(m)
BY ReplicationKeeps, ValidStoragesBuildable
   DEF ValidateUpdate, ValidUpdateHA, HAmodeType, Buildable

Sound == \A d \in Dbs : obj[d] # Unset => Buildable(obj[d])

LEMMA SoundStep ==
  ASSUME Filled, Sound, [Next]_vars
  PROVE  Sound'
<1>1. CASE obj' = obj
  BY <1>1 DEF Sound
<1>2. ASSUME NEW d \in Dbs, Written(d)
      PROVE  Sound'
  <2>1. obj'[d] # Unset => Buildable(obj'[d])
    BY <1>2, CreatedIsBuildable, UpdatedIsBuildable DEF Written, Filled
  <2>2. \A e \in Dbs \ {d} : obj'[e] = obj[e]
    BY <1>2 DEF Written, Filled
  <2>. QED BY <2>1, <2>2 DEF Sound
<1>. QED BY <1>1, <1>2, EveryWrite

\* The manager can build what is stored, whichever creations, edits and patches
\* it came from: what ValidateCreate checks no update can undo.
THEOREM StoredSpecsAreSound == Spec => []StoredIsSound
<1>1. Init => Sound
  BY DEF Init, Sound
<1>2. Filled /\ Sound /\ [Next]_vars => Sound'
  BY SoundStep
<1>3. Spec => []Filled
  BY FilledInit, FilledStep, PTL DEF Spec
<1>4. Sound => StoredIsSound
  BY DEF Sound, Buildable, StoredIsSound
<1>. QED BY <1>1, <1>2, <1>3, <1>4, PTL DEF Spec

-----------------------------------------------------------------------------
(* The operator's own patch.                                               *)

Types == {"", "master-slave", "replica", "other"}

LEMMA TypeNames == Values.type = Types \cup {Unset} /\ Unset \notin Types
BY ConstantsAssumption DEF Values, Types

\* No resource, copy or patch has a type from outside the list.
KnownTypes ==
  /\ cache = [d \in Dbs |-> cache[d]]
  /\ \A d \in Dbs : obj[d] # Unset => obj[d].type \in Types
  /\ \A d \in Dbs : cache[d] # Unset => DOMAIN cache[d] = Fields /\ cache[d].type \in Types
  /\ "type" \in DOMAIN patch.set => patch.set.type \in Types

LEMMA DefaultType ==
  ASSUME NEW m, DOMAIN m = Fields, m.type \in Types \cup {Unset}
  PROVE  /\ Default(m).type \in Types
         /\ m.type \in Types \ {""} => Default(m).type = m.type
         /\ m.type = "" => Default(m).type = "master-slave"
<1> DEFINE a == Replication(m)
           b == InitStorages(InitBroker(a))
           c == InitAffinity(b)
<1>1. /\ DOMAIN a = Fields /\ a.type \in Types
      /\ m.type \in Types \ {""} => a.type = m.type
      /\ m.type = "" => a.type = "master-slave"
  BY FieldNames, TypeNames DEF Replication, Types
<1>2. DOMAIN b = Fields /\ b.type = a.type
  BY <1>1, FieldNames DEF InitStorages, InitBroker
<1>3. /\ DOMAIN c = Fields /\ c.type \in Types
      /\ b.type # "" => c.type = b.type
  BY <1>1, <1>2, FieldNames, TypeNames DEF InitAffinity, Replication, Types
<1>4. Default(m).type = c.type
  BY <1>3, FieldNames DEF Default, InitHAPort, InitCMSService
<1>. QED
  BY <1>1, <1>2, <1>3, <1>4

LEMMA KnownTypesInit == Init => KnownTypes
<1> SUFFICES ASSUME Init PROVE KnownTypes
  OBVIOUS
<1>1. patch.set = <<>> /\ "type" \notin DOMAIN patch.set
  BY DEF Init, NoPatch
<1>. QED BY <1>1 DEF Init, KnownTypes

LEMMA KnownTypesStep ==
  ASSUME Filled, KnownTypes, [Next]_vars
  PROVE  KnownTypes'
<1>1. ASSUME NEW d \in Dbs, NEW m \in Manifests, Create(d, m)
      PROVE  KnownTypes'
  <2>1. m.type \in Types \cup {Unset} /\ DOMAIN m = Fields
    BY ManifestsAssumption, FieldNames, TypeNames
  <2>2. Default(m).type \in Types
    BY <2>1, DefaultType
  <2>. QED BY <1>1, <2>2 DEF Create, Change, KnownTypes, Filled
<1>2. ASSUME NEW d \in Dbs, NEW f \in Fields, NEW v \in Values[f], Edit(d, f, v)
      PROVE  KnownTypes'
  <2> DEFINE m == [obj[d] EXCEPT ![f] = v]
  <2>1. DOMAIN m = Fields
    BY <1>2 DEF Edit, Filled, Complete
  <2>2. m.type \in Types \cup {Unset}
    BY <1>2, FieldNames, TypeNames DEF Edit, Filled, Complete, KnownTypes
  <2>3. Default(m).type \in Types
    BY <2>1, <2>2, DefaultType
  <2>. QED BY <1>2, <2>3 DEF Edit, Change, KnownTypes, Filled
<1>3. ASSUME NEW d \in Dbs, Delete(d)
      PROVE  KnownTypes'
  BY <1>3 DEF Delete, Change, KnownTypes, Filled
<1>4. ASSUME PatchAnswered
      PROVE  KnownTypes'
  <2> DEFINE current == obj[patch.db]
             x == Merged(current, patch.set)
  <2>1. patch' = NoPatch /\ "type" \notin DOMAIN NoPatch.set
    BY <1>4 DEF PatchAnswered, NoPatch
  <2>2. CASE patch.db \in Dbs /\ current # Unset
    <3>1. DOMAIN x = Fields /\ x.type \in Types
      BY <2>2, FieldNames DEF Merged, KnownTypes
    <3>2. Default(x).type \in Types
      BY <3>1, DefaultType
    <3>. QED BY <1>4, <2>1, <2>2, <3>2 DEF PatchAnswered, KnownTypes, Filled
  <2>3. CASE ~(patch.db \in Dbs /\ current # Unset)
    <3>1. obj' = obj
      BY <1>4, <2>3 DEF PatchAnswered, Filled
    <3>. QED BY <1>4, <2>1, <3>1 DEF PatchAnswered, KnownTypes
  <2>. QED BY <2>2, <2>3
<1>5. ASSUME NEW d \in Dbs, EventArrives(d)
      PROVE  KnownTypes'
  BY <1>5 DEF EventArrives, KnownTypes, Filled, Complete
<1>6. ASSUME NEW d \in Dbs, StartPatch(d)
      PROVE  KnownTypes'
  <2>1. DOMAIN cache[d] = Fields /\ cache[d].type \in Types
    BY <1>6 DEF StartPatch, KnownTypes
  <2>2. DOMAIN Default(cache[d]) = Fields /\ Default(cache[d]).type \in Types
    BY <2>1, DefaultType, DefaultFields
  <2>3. SetDefaults(cache[d]).type \in Types
    BY <2>2, FieldNames DEF SetDefaults, InitContainerTemplate
  <2>4. "type" \in DOMAIN patch'.set => patch'.set.type \in Types
    BY <1>6, <2>3 DEF StartPatch, MergePatch
  <2>. QED BY <1>6, <2>4 DEF StartPatch, KnownTypes
<1>7. CASE UNCHANGED vars
  BY <1>7 DEF vars, KnownTypes
<1>. QED
  BY <1>1, <1>2, <1>3, <1>4, <1>5, <1>6, <1>7 DEF Next, User

LEMMA SetDefaultsFields ==
  ASSUME NEW m, DOMAIN m = Fields
  PROVE  /\ DOMAIN SetDefaults(m) = Fields
         /\ \A f \in Fields \ {"policy"} : SetDefaults(m)[f] = Default(m)[f]
BY DefaultFields, FieldNames DEF SetDefaults, InitContainerTemplate

\* The patch carries over all that the defaults change.
LEMMA MergedIsFilled ==
  ASSUME NEW m, DOMAIN m = Fields
  PROVE  LET x == Merged(m, MergePatch(m))
         IN DOMAIN x = Fields /\ \A f \in Fields : x[f] = SetDefaults(m)[f]
BY DEF Merged, MergePatch

\* What the defaults make of a spec they were in already.
LEMMA OwnPatch ==
  ASSUME NEW old, Complete(old), old.type \in Types
  PROVE  LET m == Default(Merged(old, MergePatch(old)))
         IN /\ \A f \in {"enable", "ref", "cmsType", "startPort", "replicas",
                         "broker", "storage"} : m[f] = old[f]
            /\ m.anti \in {old.anti, old.enable} /\ (old.anti # Unset => m.anti = old.anti)
            /\ m.type = IF old.type = "" THEN "master-slave" ELSE old.type
<1> DEFINE d == Default(old)
           x == Merged(old, MergePatch(old))
           m == Default(x)
<1>1. DOMAIN old = Fields
  BY DEF Complete
<1>2. /\ \A f \in {"enable", "ref", "cmsType", "startPort", "replicas",
                   "broker", "storage"} : d[f] = old[f]
      /\ d.anti = Else(old.anti, old.enable)
  BY <1>1, DefaultFields DEF Complete, Else
<1>3. DOMAIN x = Fields /\ \A f \in Fields \ {"policy"} : x[f] = d[f]
  BY <1>1, MergedIsFilled, SetDefaultsFields
<1>4. \A f \in {"enable", "ref", "cmsType", "startPort", "replicas",
               "broker", "storage"} : x[f] = old[f]
  BY <1>2, <1>3, FieldNames
<1>5. \A f \in {"enable", "ref", "cmsType", "startPort", "replicas",
               "broker", "storage"} : m[f] = old[f]
  <2> HIDE DEF x
  <2>. QED BY <1>3, <1>4, DefaultFields DEF Complete, Else
<1>6. m.anti \in {old.anti, old.enable} /\ (old.anti # Unset => m.anti = old.anti)
  <2>1. x.anti = Else(old.anti, old.enable) /\ x.enable = old.enable
    BY <1>2, <1>3, <1>4, FieldNames
  <2>2. m.anti = Else(x.anti, x.enable)
    BY <1>3, DefaultFields
  <2>. QED BY <2>1, <2>2 DEF Else
<1>7. m.type = IF old.type = "" THEN "master-slave" ELSE old.type
  <2>1. d.type = IF old.type = "" THEN "master-slave" ELSE old.type
    BY <1>1, DefaultType
  <2>2. x.type = d.type
    BY <1>3, FieldNames
  <2>3. x.type \in Types \ {""}
    BY <2>1, <2>2 DEF Types
  <2>. QED BY <1>3, <2>1, <2>2, <2>3, DefaultType
<1>. QED BY <1>5, <1>6, <1>7

\* What validation leaves of the fields that creation and update check alike.
Checked == \A d \in Dbs : obj[d] # Unset => ValidBroker(obj[d]) /\ ValidStorages(obj[d].storage)

LEMMA CheckedStep ==
  ASSUME Filled, Checked, [Next]_vars
  PROVE  Checked'
<1>1. CASE obj' = obj
  BY <1>1 DEF Checked
<1>2. ASSUME NEW d \in Dbs, Written(d)
      PROVE  Checked'
  <2>1. obj'[d] # Unset => ValidBroker(obj'[d]) /\ ValidStorages(obj'[d].storage)
    BY <1>2 DEF Written, Filled, ValidateCreate, ValidateUpdate
  <2>2. \A e \in Dbs \ {d} : obj'[e] = obj[e]
    BY <1>2 DEF Written, Filled
  <2>. QED BY <2>1, <2>2 DEF Checked
<1>. QED BY <1>1, <1>2, EveryWrite

LEMMA OwnPatchPasses ==
  ASSUME NEW old, Complete(old), old.type \in Types, Buildable(old), ~Frozen(old),
         ValidBroker(old), ValidStorages(old.storage)
  PROVE  ValidateUpdate(Default(Merged(old, MergePatch(old))), old)
<1> DEFINE m == Default(Merged(old, MergePatch(old)))
<1>1. /\ m.enable = old.enable /\ m.ref = old.ref /\ m.replicas = old.replicas
      /\ m.cmsType = old.cmsType /\ m.startPort = old.startPort
      /\ m.broker = old.broker /\ m.storage = old.storage
  BY OwnPatch
<1>2. /\ m.anti \in {old.anti, old.enable} /\ (old.anti # Unset => m.anti = old.anti)
      /\ m.type = IF old.type = "" THEN "master-slave" ELSE old.type
  BY OwnPatch
<1>3. DOMAIN m = Fields
  <2>1. DOMAIN Merged(old, MergePatch(old)) = Fields
    BY DEF Merged
  <2>. QED BY <2>1, DefaultFields
<1> HIDE DEF m
<1>4. HAmodeType(m) = m.type /\ HAmodeType(old) = m.type
  BY <1>2, <1>3, FieldNames, TypeNames DEF HAmodeType, Replication, Complete, Types
<1>5. Replication(m).replicas = old.replicas
  BY <1>1, <1>3, FieldNames DEF Replication, Else, Complete
<1>6. old.enable =>
        /\ m.type \in {"master-slave", "replica"}
        /\ m.type = "replica" => m.ref # NoRef
        /\ m.anti
  BY <1>1, <1>2 DEF Frozen, Buildable, Types
<1>7. ValidUpdateHA(m, old)
  BY <1>1, <1>4, <1>5, <1>6 DEF ValidUpdateHA, Buildable
<1>. QED BY <1>1, <1>7 DEF ValidateUpdate, Same, ValidBroker, m

\* No resource that was ever admitted is stuck, unless it is frozen: the operator
\* may always write it back with its defaults, which is how every Reconcile begins
\* (setSpecDefaults).
THEOREM OperatorIsNotRefused == Spec => []OwnPatchAccepted
<1>1. Init => Sound /\ Checked
  BY DEF Init, Sound, Checked
<1>2. Filled /\ Sound /\ Checked /\ KnownTypes /\ [Next]_vars
        => (Sound /\ Checked /\ KnownTypes)'
  BY SoundStep, CheckedStep, KnownTypesStep
<1>3. Spec => []Filled
  BY FilledInit, FilledStep, PTL DEF Spec
<1>4. Filled /\ Sound /\ Checked /\ KnownTypes => OwnPatchAccepted
  BY OwnPatchPasses DEF Filled, Sound, Checked, KnownTypes, OwnPatchAccepted
<1>. QED BY <1>1, <1>2, <1>3, <1>4, KnownTypesInit, PTL DEF Spec

-----------------------------------------------------------------------------
(* What is stored is well-formed.                                          *)

\* What may be in a field: a user's value, or a default.
Allowed ==
  [Values EXCEPT !.startPort = @ \cup {DefaultStartPort},
                 !.haPort = @ \cup {DefaultHAPort},
                 !.broker = Broker \cup {Unset},
                 !.storage = @ \cup {DefaultStorage}]

Acceptable(m) == DOMAIN m = Fields /\ \A f \in Fields : m[f] \in Allowed[f]

LEMMA AllowedFields ==
  /\ Allowed.enable = BOOLEAN /\ Allowed.replicas = {Unset, 1, 2}
  /\ Allowed.type = Types \cup {Unset} /\ Allowed.ref = Values.ref
  /\ Allowed.anti = BOOLEAN \cup {Unset}
  /\ Allowed.cmsType = {Unset, "NodePort", "Ingress"}
  /\ Allowed.startPort = Ports \cup {Unset, DefaultStartPort}
  /\ Allowed.haPort = Ports \cup {Unset, DefaultHAPort}
  /\ Allowed.broker = Broker \cup {Unset}
  /\ Allowed.storage = StorageLists \cup {Unset, DefaultStorage}
  /\ Allowed.policy = Values.policy
  BY DEF Allowed, Values, Types

LEMMA ValuesAreAllowed == \A f \in Fields : Values[f] \subseteq Allowed[f]
<1>1. Values.broker \subseteq Broker \cup {Unset}
  BY DEF Values, Broker
<1>2. ASSUME NEW f \in Fields PROVE Values[f] \subseteq Allowed[f]
  <2>1. CASE f = "broker"
    BY <1>1, <2>1, AllowedFields
  <2>2. CASE f \in {"startPort", "haPort", "storage"}
    BY <2>2 DEF Allowed, Values
  <2>3. CASE f \notin {"broker", "startPort", "haPort", "storage"}
    BY <1>2, <2>3 DEF Allowed, Fields
  <2>. QED
    BY <2>1, <2>2, <2>3
<1>. QED
  BY <1>2

LEMMA StoredAreAcceptable ==
  ASSUME NEW m \in Stored
  PROVE  Acceptable(m)
<1>1. DOMAIN m = Fields
  BY FieldNames DEF Stored
<1>2. ASSUME NEW f \in Fields PROVE m[f] \in Allowed[f]
  <2>1. /\ m.enable \in Allowed.enable /\ m.replicas \in Allowed.replicas
        /\ m.type \in Allowed.type /\ m.ref \in Allowed.ref
        /\ m.anti \in Allowed.anti /\ m.cmsType \in Allowed.cmsType
    BY AllowedFields DEF Stored, Types
  <2>2. /\ m.startPort \in Allowed.startPort /\ m.haPort \in Allowed.haPort
        /\ m.broker \in Allowed.broker /\ m.storage \in Allowed.storage
        /\ m.policy \in Allowed.policy
    BY AllowedFields DEF Stored
  <2>. QED
    BY <2>1, <2>2, FieldNames
<1>. QED
  BY <1>1, <1>2 DEF Acceptable

LEMMA UnsetIsNoValue ==
  /\ Unset \notin BOOLEAN /\ Unset # 2 /\ Unset # "Ingress"
  /\ Unset # DefaultHAPort /\ Unset # DefaultStartPort
<1>1. 2 \in Int /\ DefaultHAPort \in Int /\ DefaultStartPort \in Int
  BY SMT DEF DefaultHAPort, DefaultStartPort
<1>2. Unset # 2 /\ Unset # DefaultHAPort /\ Unset # DefaultStartPort
  BY <1>1, ConstantsAssumption, Zenon
<1>. QED
  BY <1>2, ConstantsAssumption

\* Whatever passes the mutating webhook comes out as a stored spec.
LEMMA DefaultIsStored ==
  ASSUME NEW m, Acceptable(m)
  PROVE  Default(m) \in Stored
<1> DEFINE s == Default(m)
<1>1. DOMAIN m = Fields /\ \A f \in Fields : m[f] \in Allowed[f]
  BY DEF Acceptable
<1>2. /\ DOMAIN s = Fields /\ s.enable = m.enable /\ s.ref = m.ref
      /\ s.anti = Else(m.anti, m.enable) /\ s.cmsType = Else(m.cmsType, "NodePort")
      /\ s.startPort = Else(m.startPort, DefaultStartPort)
      /\ s.replicas = Else(m.replicas, 1)
      /\ s.broker = Else(m.broker, DefaultBroker)
      /\ s.storage = Else(m.storage, DefaultStorage)
      /\ s.haPort = Else(m.haPort, DefaultHAPort) /\ s.policy = m.policy
  BY <1>1, DefaultFields
<1>3. s.type \in Types
  BY <1>1, FieldNames, AllowedFields, DefaultType
<1>4. s = [f \in Fields |-> s[f]]
  <2> DEFINE t == InitCMSService(InitAffinity(InitStorages(InitBroker(Replication(m)))))
  <2>1. s = [t EXCEPT !.haPort = Else(@, DefaultHAPort)]
    BY DEF Default, InitHAPort
  <2> HIDE DEF t
  <2>. QED
    BY <1>2, <2>1
<1> HIDE DEF s
<1>5. s.enable \in BOOLEAN /\ s.ref \in Values.ref /\ s.policy \in Values.policy
  BY <1>1, <1>2, FieldNames, AllowedFields
<1>6. s.anti \in BOOLEAN /\ s.replicas \in {1, 2}
  BY <1>1, <1>2, FieldNames, AllowedFields DEF Else
<1>7. /\ s.cmsType \in {"NodePort", "Ingress"}
      /\ s.startPort \in Ports \cup {DefaultStartPort}
      /\ s.haPort \in Ports \cup {DefaultHAPort}
  BY <1>1, <1>2, FieldNames, AllowedFields DEF Else
<1>8. s.broker \in Broker /\ s.storage \in StorageLists \cup {DefaultStorage}
  <2>1. DefaultBroker \in Broker
    BY DEF DefaultBroker, Broker
  <2>. QED
    BY <1>1, <1>2, <2>1, FieldNames, AllowedFields DEF Else
<1>9. s \in Stored
  BY <1>2, <1>3, <1>4, <1>5, <1>6, <1>7, <1>8, FieldNames DEF Stored, Types
<1>. QED
  BY <1>9 DEF s

\* A patch sets the type and the policy, if anything.
KnownPatch ==
  /\ DOMAIN patch.set \subseteq {"type", "policy"}
  /\ "type" \in DOMAIN patch.set => patch.set.type \in Types
  /\ "policy" \in DOMAIN patch.set => patch.set.policy \in Values.policy

CopiesComplete == \A d \in Dbs : cache[d] # Unset => Complete(cache[d])

WellFormed == TypeOK /\ Filled /\ CopiesComplete /\ KnownPatch

\* Of a stored spec, the defaults change nothing but these two.
LEMMA PatchOfStored ==
  ASSUME NEW m \in Stored, Complete(m)
  PROVE  /\ MergePatch(m) \in PatchSet
         /\ DOMAIN MergePatch(m) \subseteq {"type", "policy"}
         /\ "type" \in DOMAIN MergePatch(m) => MergePatch(m).type \in Types
         /\ "policy" \in DOMAIN MergePatch(m) => MergePatch(m).policy \in Values.policy
<1> DEFINE filled == SetDefaults(m)
           changed == {f \in Fields : filled[f] # m[f]}
<1>1. DOMAIN m = Fields /\ m.type \in Types /\ m.policy \in Values.policy
  BY FieldNames DEF Stored, Types
<1>2. \A f \in Fields \ {"type", "policy"} : filled[f] = m[f]
  <2>1. m.anti # Unset /\ m.haPort # Unset
    BY UnsetIsNoValue, ConstantsAssumption DEF Stored
  <2>2. /\ Default(m).anti = m.anti /\ Default(m).haPort = m.haPort
        /\ Default(m).enable = m.enable /\ Default(m).ref = m.ref
        /\ Default(m).cmsType = m.cmsType /\ Default(m).startPort = m.startPort
        /\ Default(m).replicas = m.replicas /\ Default(m).broker = m.broker
        /\ Default(m).storage = m.storage
    BY <1>1, <2>1, DefaultFields DEF Complete, Else
  <2>. QED
    BY <1>1, <2>2, SetDefaultsFields, FieldNames
<1>3. filled.type \in Types /\ filled.policy \in Values.policy
  <2>1. DOMAIN Default(m) = Fields /\ Default(m).type \in Types
        /\ Default(m).policy = m.policy
    BY <1>1, DefaultFields, DefaultType
  <2>2. filled = [Default(m) EXCEPT !.policy = Else(@, "IfNotPresent")]
    BY DEF SetDefaults, InitContainerTemplate
  <2>3. filled.type = Default(m).type /\ filled.policy = Else(m.policy, "IfNotPresent")
    BY <2>1, <2>2, FieldNames
  <2>. QED
    BY <1>1, <2>1, <2>3 DEF Else, Values
<1> HIDE DEF filled
<1>4. MergePatch(m) = [f \in changed |-> filled[f]]
  BY DEF MergePatch, filled
<1>5. changed \in SUBSET {"type", "policy"}
  BY <1>2
<1>6. \A f \in changed : filled[f] \in Values[f]
  BY <1>3, <1>5, TypeNames
<1> HIDE DEF changed
<1>7. MergePatch(m) \in [changed -> UNION {Values[f] : f \in changed}]
  BY <1>4, <1>6
<1>8. MergePatch(m) \in PatchSet
  BY <1>5, <1>7 DEF PatchSet
<1>. QED
  BY <1>3, <1>4, <1>5, <1>8

\* A user's edit and a merged patch are specs the webhook may be given.
LEMMA EditedIsAcceptable ==
  ASSUME NEW m \in Stored, NEW f \in Fields, NEW v \in Values[f]
  PROVE  Acceptable([m EXCEPT ![f] = v])
BY StoredAreAcceptable, ValuesAreAllowed DEF Acceptable

LEMMA MergedIsAcceptable ==
  ASSUME NEW m \in Stored, KnownPatch
  PROVE  Acceptable(Merged(m, patch.set))
<1>1. Acceptable(m)
  BY StoredAreAcceptable
<1>2. \A f \in DOMAIN patch.set : f \in Fields => patch.set[f] \in Allowed[f]
  BY AllowedFields DEF KnownPatch
<1>. QED
  BY <1>1, <1>2 DEF Acceptable, Merged

LEMMA WellFormedInit == Init => WellFormed
<1> SUFFICES ASSUME Init PROVE WellFormed
  OBVIOUS
<1>1. TypeOK
  BY BoundsAssumption DEF Init, TypeOK
<1>2. KnownPatch
  <2>1. DOMAIN patch.set = {}
    BY DEF Init, NoPatch
  <2>. QED
    BY <2>1 DEF KnownPatch
<1>. QED
  BY <1>1, <1>2, FilledInit DEF WellFormed, CopiesComplete, Init

\* One resource is written, and nothing else but the count.
LEMMA WriteKeepsForm ==
  ASSUME WellFormed, Filled', NEW d \in Dbs, NEW m \in Stored \cup {Unset},
         obj' = [obj EXCEPT ![d] = m], Change
  PROVE  WellFormed'
<1>1. TypeOK'
  BY BoundsAssumption DEF WellFormed, TypeOK, Change
<1>. QED
  BY <1>1 DEF WellFormed, CopiesComplete, KnownPatch, Change

LEMMA WellFormedStep == WellFormed /\ [Next]_vars => WellFormed'
<1> SUFFICES ASSUME WellFormed, [Next]_vars PROVE WellFormed'
  OBVIOUS
<1>0. Filled'
  BY FilledStep DEF WellFormed
<1>1. ASSUME NEW d \in Dbs, NEW m \in Manifests, Create(d, m)
      PROVE  WellFormed'
  <2>1. Acceptable(m)
    BY ManifestsAssumption, ValuesAreAllowed DEF Acceptable
  <2>2. Default(m) \in Stored
    BY <2>1, DefaultIsStored
  <2>. QED
    BY <1>0, <1>1, <2>2, WriteKeepsForm DEF Create
<1>2. ASSUME NEW d \in Dbs, NEW f \in Fields, NEW v \in Values[f], Edit(d, f, v)
      PROVE  WellFormed'
  <2>1. obj[d] \in Stored
    BY <1>2 DEF Edit, WellFormed, TypeOK
  <2>2. Default([obj[d] EXCEPT ![f] = v]) \in Stored
    BY <2>1, EditedIsAcceptable, DefaultIsStored
  <2>. QED
    BY <1>0, <1>2, <2>2, WriteKeepsForm DEF Edit
<1>3. ASSUME NEW d \in Dbs, Delete(d)
      PROVE  WellFormed'
  BY <1>0, <1>3, WriteKeepsForm DEF Delete
<1>4. CASE PatchAnswered
  <2> DEFINE m == Default(Merged(obj[patch.db], patch.set))
  <2>1. patch.db \in Dbs
    BY <1>4 DEF PatchAnswered, WellFormed, TypeOK
  <2>2. obj[patch.db] # Unset => m \in Stored
    BY <2>1, MergedIsAcceptable, DefaultIsStored DEF WellFormed, TypeOK
  <2> HIDE DEF m
  <2>3. /\ obj' \in [Dbs -> Stored \cup {Unset}] /\ patch' = NoPatch
        /\ UNCHANGED <<cache, changes>>
    <3>1. \/ obj' = obj
          \/ obj[patch.db] # Unset /\ obj' = [obj EXCEPT ![patch.db] = m]
      BY <1>4 DEF PatchAnswered, m
    <3>2. obj' \in [Dbs -> Stored \cup {Unset}]
      BY <2>1, <2>2, <3>1 DEF WellFormed, TypeOK
    <3>. QED
      BY <1>4, <3>2 DEF PatchAnswered
  <2>4. KnownPatch'
    <3>1. DOMAIN patch'.set = {}
      BY <2>3 DEF NoPatch
    <3>. QED
      BY <3>1 DEF KnownPatch
  <2>. QED
    BY <1>0, <2>3, <2>4 DEF WellFormed, TypeOK, CopiesComplete
<1>5. ASSUME NEW d \in Dbs, EventArrives(d)
      PROVE  WellFormed'
  <2>1. TypeOK'
    BY <1>5 DEF EventArrives, WellFormed, TypeOK
  <2>2. CopiesComplete'
    BY <1>5 DEF EventArrives, WellFormed, TypeOK, CopiesComplete, Filled
  <2>. QED
    BY <1>0, <1>5, <2>1, <2>2 DEF EventArrives, WellFormed, KnownPatch
<1>6. ASSUME NEW d \in Dbs, StartPatch(d)
      PROVE  WellFormed'
  <2>1. cache[d] \in Stored /\ Complete(cache[d])
    BY <1>6 DEF StartPatch, WellFormed, TypeOK, CopiesComplete
  <2>2. patch'.set = MergePatch(cache[d]) /\ patch'.db = d
    BY <1>6 DEF StartPatch
  <2>3. KnownPatch' /\ MergePatch(cache[d]) \in PatchSet
    BY <2>1, <2>2, PatchOfStored DEF KnownPatch
  <2>4. TypeOK'
    BY <1>6, <2>3 DEF StartPatch, WellFormed, TypeOK
  <2>. QED
    BY <1>0, <1>6, <2>3, <2>4 DEF StartPatch, WellFormed, CopiesComplete
<1>7. CASE UNCHANGED vars
  BY <1>0, <1>7 DEF vars, WellFormed, TypeOK, CopiesComplete, KnownPatch
<1>. QED
  BY <1>1, <1>2, <1>3, <1>4, <1>5, <1>6, <1>7 DEF Next, User

\* The mutating webhook leaves no field unset that the validators and the manager
\* count on, whoever writes; and the operator's patch is about two fields only.
THEOREM AdmissionTypeCorrect == Spec => []TypeOK
<1>1. WellFormed => TypeOK
  BY DEF WellFormed
<1>. QED
  BY <1>1, WellFormedInit, WellFormedStep, PTL DEF Spec

-----------------------------------------------------------------------------
(* What has its defaults keeps them.                                       *)

\* The operator has found nothing to add, and no patch from before is on its way.
HasItsDefaults(d) ==
  /\ obj[d] # Unset /\ obj[d].type # "" /\ obj[d].policy # Unset
  /\ cache[d] = obj[d]
  /\ patch # NoPatch /\ patch.db = d => DOMAIN patch.set = {}

\* HasItsDefaults lasts until a user writes, and nothing is written.
DefaultsKept ==
  \A d \in Dbs : HasItsDefaults(d) /\ changes' = changes
    => HasItsDefaults(d)' /\ obj'[d] = obj[d]

\* Default is idempotent where there is a type: the mutating webhook changes nothing.
LEMMA DefaultRepeats ==
  ASSUME NEW m \in Stored, Complete(m), m.type # ""
  PROVE  Default(m) = m
<1> DEFINE s == Default(m)
<1>1. DOMAIN m = Fields /\ m.type \in Types \ {""}
  BY FieldNames DEF Stored, Types
<1>2. m.anti # Unset /\ m.haPort # Unset
  BY UnsetIsNoValue, ConstantsAssumption DEF Stored
<1>3. /\ s.anti = m.anti /\ s.haPort = m.haPort /\ s.enable = m.enable
      /\ s.ref = m.ref /\ s.cmsType = m.cmsType /\ s.startPort = m.startPort
      /\ s.replicas = m.replicas /\ s.broker = m.broker /\ s.storage = m.storage
      /\ s.policy = m.policy /\ s.type = m.type
  BY <1>1, <1>2, DefaultFields, DefaultType DEF Complete, Else
<1>4. s \in Stored
  BY StoredAreAcceptable, DefaultIsStored
<1> HIDE DEF s
<1>5. \A f \in Fields : s[f] = m[f]
  BY <1>3, FieldNames
<1>6. s = [f \in Fields |-> s[f]] /\ m = [f \in Fields |-> m[f]]
  BY <1>4, FieldNames DEF Stored
<1>7. s = m
  BY <1>5, <1>6
<1>. QED
  BY <1>7 DEF s

\* And the operator's patch is empty where the pull policy is set as well.
LEMMA NothingToPatch ==
  ASSUME NEW m \in Stored, Complete(m), m.type # "", m.policy # Unset
  PROVE  DOMAIN MergePatch(m) = {}
<1>1. m = [f \in Fields |-> m[f]]
  BY FieldNames DEF Stored
<1>2. SetDefaults(m) = m
  BY <1>1, DefaultRepeats, FieldNames DEF SetDefaults, InitContainerTemplate, Else
<1>. QED
  BY <1>2 DEF MergePatch

LEMMA DefaultsStep ==
  ASSUME WellFormed, [Next]_vars
  PROVE  DefaultsKept
<1> SUFFICES ASSUME NEW d \in Dbs, HasItsDefaults(d), changes' = changes
             PROVE  HasItsDefaults(d)' /\ obj'[d] = obj[d]
  BY DEF DefaultsKept
<1>1. obj[d] \in Stored /\ Complete(obj[d])
  BY DEF HasItsDefaults, WellFormed, TypeOK, Filled
<1>2. ~Change
  BY DEF Change, WellFormed, TypeOK
<1>3. CASE PatchAnswered
  <2>1. patch' = NoPatch /\ UNCHANGED cache
    BY <1>3 DEF PatchAnswered
  <2>2. obj'[d] = obj[d]
    <3>1. CASE patch.db # d
      BY <1>3, <3>1 DEF PatchAnswered, WellFormed, TypeOK
    <3>2. CASE patch.db = d
      <4>1. DOMAIN patch.set = {}
        BY <1>3, <3>2 DEF PatchAnswered, HasItsDefaults
      <4>2. obj[d] = [f \in Fields |-> obj[d][f]]
        BY <1>1, FieldNames DEF Stored
      <4>3. Merged(obj[d], patch.set) = obj[d]
        BY <4>1, <4>2 DEF Merged
      <4>4. Default(Merged(obj[d], patch.set)) = obj[d]
        BY <1>1, <4>3, DefaultRepeats DEF HasItsDefaults
      <4>. QED
        BY <1>3, <3>2, <4>4 DEF PatchAnswered, WellFormed, TypeOK
    <3>. QED
      BY <3>1, <3>2
  <2>. QED
    BY <2>1, <2>2 DEF HasItsDefaults
<1>4. ASSUME NEW e \in Dbs, EventArrives(e)
      PROVE  HasItsDefaults(d)' /\ obj'[d] = obj[d]
  BY <1>4 DEF EventArrives, HasItsDefaults, WellFormed, TypeOK
<1>5. ASSUME NEW e \in Dbs, StartPatch(e)
      PROVE  HasItsDefaults(d)' /\ obj'[d] = obj[d]
  <2>1. /\ UNCHANGED <<obj, cache>>
        /\ patch'.db = e /\ patch'.set = MergePatch(cache[e])
    BY <1>5 DEF StartPatch
  <2>2. e = d => DOMAIN patch'.set = {}
    BY <1>1, <2>1, NothingToPatch DEF HasItsDefaults
  <2>. QED
    BY <2>1, <2>2 DEF HasItsDefaults
<1>6. CASE UNCHANGED vars
  BY <1>6 DEF vars, HasItsDefaults
<1>. QED
  BY <1>2, <1>3, <1>4, <1>5, <1>6 DEF Next, User, Create, Edit, Delete

\* A CubridDB that has its defaults is not written again until a user writes it:
\* of every later Reconcile the patch is empty, and an empty patch goes through the
\* mutating webhook unchanged (setSpecDefaults, Default), for any resources.
THEOREM DefaultsStay == Spec => [][DefaultsKept]_vars
<1>1. WellFormed /\ [Next]_vars => DefaultsKept
  BY DefaultsStep
<1>. QED
  BY <1>1, WellFormedInit, WellFormedStep, PTL DEF Spec

-----------------------------------------------------------------------------
(* Schedules: what the validators of CronField mean for each other.        *)

Cron == INSTANCE CronField

LEMMA BoundsAreIntegers ==
  ASSUME NEW i \in Cron!FieldIndex
  PROVE  Cron!Lowest[i] \in Int /\ Cron!Highest[i] \in Int
<1>1. i \in {0, 1, 2, 3, 4}
  BY SMT DEF Cron!FieldIndex
<1>2. Cron!Lowest[i] \in Int
  BY DEF Cron!Lowest
<1>3. Cron!Highest[i] \in {59, 23, 31, 12, 6}
  BY <1>1 DEF Cron!Highest
<1> QED
  BY <1>2, <1>3

\* Whatever the webhook admits the cron library can parse, field by field: AddFunc
\* never fails on an admitted schedule (updateBackupSchedule, line 433).
LEMMA ValidFieldIsParsable ==
  ASSUME NEW f \in Cron!Field, NEW i \in Cron!FieldIndex, Cron!IsValidCronField(f, i)
  PROVE  Cron!ParsableField(f, i)
<1>1. Cron!Lowest[i] \in Int /\ Cron!Highest[i] \in Int
  BY BoundsAreIntegers
<1>2. f.first \in Nat /\ f.last \in Nat /\ f.nums \subseteq Nat
  BY DEF Cron!Field
<1>3. CASE f.kind = "star"
  BY <1>3 DEF Cron!ParsableField
<1>4. CASE f.kind = "step" /\ Cron!IsValidStepValue(f.first, i)
  BY <1>1, <1>2, <1>4 DEF Cron!IsValidStepValue, Cron!ParsableField
<1>5. CASE f.kind = "range" /\ Cron!IsValidRangeValue(f.first, f.last, i)
  BY <1>1, <1>2, <1>5 DEF Cron!IsValidRangeValue, Cron!ParsableField
<1>6. CASE f.kind = "list" /\ \A n \in f.nums : Cron!IsValidSingleValue(n, i)
  <2>1. f.nums \subseteq Cron!Lowest[i]..Cron!Highest[i]
    BY <1>1, <1>2, <1>6 DEF Cron!IsValidSingleValue
  <2> QED
    BY <1>6, <2>1 DEF Cron!ParsableField
<1>7. CASE f.kind = "single" /\ Cron!IsValidSingleValue(f.first, i)
  BY <1>1, <1>2, <1>7 DEF Cron!IsValidSingleValue, Cron!ParsableField
<1> QED
  BY <1>3, <1>4, <1>5, <1>6, <1>7 DEF Cron!IsValidCronField

\* The same of whole schedules: with the webhook in place, updateBackupSchedule
\* cannot lose an old entry to a new one that AddFunc refuses.
THEOREM AdmittedIsParsable ==
  ASSUME NEW s \in Cron!Schedules, Cron!IsValidCronSchedule(s)
  PROVE  Cron!ParsableSchedule(s)
<1> SUFFICES ASSUME NEW i \in Cron!FieldIndex
             PROVE  Cron!ParsableField(s[i], i)
  BY DEF Cron!ParsableSchedule
<1>1. s[i] \in Cron!Field
  BY DEF Cron!Schedules
<1>2. Cron!IsValidCronField(s[i], i)
  BY DEF Cron!IsValidCronSchedule
<1> QED
  BY <1>1, <1>2, ValidFieldIsParsable
=============================================================================
