--------------------------- MODULE GroupHAProofs ---------------------------
(***************************************************************************)
(* What holds of GroupHA for any number of pods and any bound: its type    *)
(* invariant, that ha_copy_sync_mode fits ha_node_list, and that a group   *)
(* which is configured stays so.                                           *)
(***************************************************************************)
EXTENDS GroupHA, FiniteSetTheorems, TLAPS

Matches(p) == conf[p].nodes # None => conf[p].sync = Cardinality(conf[p].nodes)

\* Inductive: only the pod whose cubrid_ha.conf is about to be written may have a
\* sync mode that does not fit, and then both settings are about to be written.
SyncInv ==
  \A p \in whole :
    \/ p = rec.at /\ rec.pc = "haConf" /\ "sync" \in HAConfCommands
    \/ Matches(p)

IInv == TypeOK /\ rec.left \subseteq rec.listed /\ SyncInv

LEMMA IdleRecType ==
  IdleRec \in Rec /\ IdleRec.pc = "idle" /\ IdleRec.left \subseteq IdleRec.listed
  BY DEF IdleRec, Rec

LEMMA NoConfType == NoConf \in Conf /\ NoConf.nodes = None
  BY DEF NoConf, Conf

LEMMA SettingType ==
  ASSUME TypeOK, NEW p \in Pods
  PROVE  /\ Setting(p, "nodes") = rec.nodes /\ rec.nodes \in SUBSET Masters
         /\ Setting(p, "sync") = Cardinality(rec.nodes)
         /\ Cardinality(rec.nodes) \in 0..Cardinality(Masters)
         /\ Setting(p, "replicas") \in SUBSET Replicas
         /\ Setting(p, "mode") \in {"on", "replica"}
<1>1. rec.nodes \in SUBSET Masters /\ rec.replicas \in SUBSET Replicas
  BY DEF TypeOK, Rec
<1>2. /\ IsFiniteSet(rec.nodes)
      /\ Cardinality(rec.nodes) \in Nat /\ Cardinality(Masters) \in Nat
      /\ Cardinality(rec.nodes) <= Cardinality(Masters)
  BY <1>1, PodsAssumption, FS_Subset, FS_CardinalityType
<1>3. Cardinality(rec.nodes) \in 0..Cardinality(Masters)
  BY <1>2
<1>. QED
  BY <1>1, <1>3 DEF Setting, SyncMode

\* What a run of commands leaves in the pod.
LEMMA ExecKeeps ==
  ASSUME TypeOK, rec.at \in Pods, NEW done \in SUBSET Commands, Exec(done)
  PROVE  /\ conf' \in [Pods -> Conf]
         /\ \A p \in Pods \ {rec.at} : conf'[p] = conf[p]
         /\ {"nodes", "sync"} \subseteq done
              => conf'[rec.at].sync = Cardinality(conf'[rec.at].nodes)
         /\ {"nodes", "sync"} \cap done = {}
              => /\ conf'[rec.at].nodes = conf[rec.at].nodes
                 /\ conf'[rec.at].sync = conf[rec.at].sync
<1> DEFINE new == [c \in Commands |->
                     IF c \in done THEN Setting(rec.at, c) ELSE conf[rec.at][c]]
<1>1. conf \in [Pods -> Conf] /\ conf[rec.at] \in Conf
  BY DEF TypeOK
<1>2. conf' = [conf EXCEPT ![rec.at] = new]
  BY <1>1 DEF Exec
<1>3. /\ new.nodes = IF "nodes" \in done THEN rec.nodes ELSE conf[rec.at].nodes
      /\ new.sync = IF "sync" \in done THEN Cardinality(rec.nodes)
                    ELSE conf[rec.at].sync
      /\ new.replicas \in {None} \cup (SUBSET Replicas)
      /\ new.mode \in {None, "on", "replica"}
  BY <1>1, SettingType DEF Commands, Conf
<1>4. new = [nodes |-> new.nodes, sync |-> new.sync, replicas |-> new.replicas,
             mode |-> new.mode]
  BY DEF Commands
<1> HIDE DEF new
<1>5. new.nodes \in {None} \cup (SUBSET Masters)
      /\ new.sync \in {None} \cup 0..Cardinality(Masters)
  BY <1>1, <1>3, SettingType DEF Conf
<1>6. new \in Conf
  BY <1>3, <1>4, <1>5 DEF Conf
<1>. QED
  BY <1>1, <1>2, <1>3, <1>6

-----------------------------------------------------------------------------

LEMMA InvInit == Init => IInv
<1> SUFFICES ASSUME Init PROVE IInv
  OBVIOUS
<1>1. 0 \in 0..MaxChanges /\ 0 \in 0..MaxFaults
  BY BoundsAssumption
<1>2. rec \in Rec /\ rec.pc = "idle" /\ rec.left \subseteq rec.listed
  BY IdleRecType DEF Init
<1>3. pods \in [Pods -> PodState] /\ conf \in [Pods -> Conf]
  BY NoConfType DEF Init, PodState
<1>. QED
  BY <1>1, <1>2, <1>3 DEF Init, IInv, TypeOK, SyncInv

\* Where settings go, the pod's round no longer counts as whole.
LEMMA SyncStays ==
  ASSUME SyncInv, rec' = rec, whole' \subseteq whole,
         \A p \in whole' : conf'[p] = conf[p]
  PROVE  SyncInv'
  BY DEF SyncInv, Matches, HAConfCommands

LEMMA ClusterKeeps ==
  ASSUME IInv, Cluster
  PROVE  IInv'
<1> USE DEF IInv
<1>0. Change => changes' \in 0..MaxChanges /\ faults' = faults
  BY BoundsAssumption DEF Change, TypeOK
<1>1. ASSUME NEW d \in DBs, CreateDB(d) \/ DeleteDB(d)
      PROVE  IInv'
  <2>1. SyncInv'
    BY <1>1, SyncStays DEF CreateDB, DeleteDB
  <2>. QED
    BY <1>0, <1>1, <2>1 DEF CreateDB, DeleteDB, TypeOK
<1>2. ASSUME NEW p \in Pods, CreatePod(p) \/ PodUp(p)
      PROVE  IInv'
  <2>1. SyncInv'
    BY <1>2, SyncStays DEF CreatePod, PodUp, SetPod
  <2>2. pods' \in [Pods -> PodState]
    BY <1>2 DEF CreatePod, PodUp, SetPod, TypeOK, PodState
  <2>. QED
    BY <1>2, <2>1, <2>2 DEF CreatePod, PodUp, SetPod, TypeOK
<1>3. ASSUME NEW p \in Pods, NEW state \in PodState, SetPod(p, state),
             conf' \in {conf, [conf EXCEPT ![p] = NoConf]}, whole' = whole \ {p},
             changes' \in 0..MaxChanges, faults' = faults
      PROVE  IInv'
  <2>1. conf' \in [Pods -> Conf] /\ \A q \in Pods \ {p} : conf'[q] = conf[q]
    BY <1>3, NoConfType DEF TypeOK
  <2>2. SyncInv'
    BY <1>3, <2>1, SyncStays DEF SetPod, TypeOK
  <2>3. pods' \in [Pods -> PodState]
    BY <1>3 DEF SetPod, TypeOK
  <2>. QED
    BY <1>3, <2>1, <2>2, <2>3 DEF SetPod, TypeOK
<1>4. ASSUME NEW p \in Pods, PodDown(p)
      PROVE  IInv'
  BY <1>0, <1>3, <1>4 DEF PodDown, PodState
<1>5. ASSUME NEW p \in Pods, ScaleDown(p) \/ CollectPod(p)
      PROVE  IInv'
  <2>1. changes' \in 0..MaxChanges /\ faults' = faults /\ RemovePod(p)
    BY <1>0, <1>5 DEF ScaleDown, CollectPod, TypeOK
  <2>. QED
    BY <1>3, <2>1 DEF RemovePod, PodState
<1>. QED
  BY <1>1, <1>2, <1>4, <1>5 DEF Cluster

LEMMA EventsKeep ==
  ASSUME IInv, EventsArrive
  PROVE  IInv'
<1> USE DEF IInv
<1>1. ASSUME NEW p \in Pods, PodEventArrives(p)
      PROVE  IInv'
  <2>1. SyncInv'
    BY <1>1, SyncStays DEF PodEventArrives
  <2>. QED
    BY <1>1, <2>1 DEF PodEventArrives, TypeOK
<1>2. ASSUME NEW d \in DBs, STSEventArrives(d)
      PROVE  IInv'
  <2>1. SyncInv'
    BY <1>2, SyncStays DEF STSEventArrives
  <2>. QED
    BY <1>2, <2>1 DEF STSEventArrives, TypeOK
<1>. QED
  BY <1>1, <1>2 DEF EventsArrive

\* A step of Reconcile that leaves the pods alone, and is not about to write.
LEMMA ReadStep ==
  ASSUME IInv, rec.pc # "haConf", rec' \in Rec, rec'.left \subseteq rec'.listed,
         rec'.pc \notin {"haConf", "cubridConf"},
         UNCHANGED <<dbs, pods, conf, podCache, stsCache, whole, changes, faults>>
  PROVE  IInv'
  BY DEF IInv, TypeOK, SyncInv, Matches

LEMMA ReconcileKeeps ==
  ASSUME IInv, Reconcile
  PROVE  IInv'
<1> USE DEF IInv
<1>0. rec \in Rec /\ rec.left \subseteq rec.listed /\ rec.listed \subseteq Pods
  BY DEF TypeOK, Rec
<1>1. CASE StartReconcile
  <2>1. rec' \in Rec /\ rec'.left \subseteq rec'.listed /\ rec'.pc = "list"
    BY <1>1, IdleRecType DEF StartReconcile, Rec
  <2>. QED
    BY <1>1, <2>1, ReadStep DEF StartReconcile
<1>2. CASE GetAllPodsInGroup
  <2>1. rec' \in Rec /\ rec'.left \subseteq rec'.listed /\ rec'.pc \in {"idle", "build"}
    BY <1>0, <1>2, IdleRecType DEF GetAllPodsInGroup, Rec
  <2>. QED
    BY <1>2, <2>1, ReadStep DEF GetAllPodsInGroup
<1>3. CASE BuildGroupHAConfig
  <2>1. rec' \in Rec /\ rec'.left \subseteq rec'.listed /\ rec'.pc = "next"
    BY <1>0, <1>3 DEF BuildGroupHAConfig, DNSList, Rec
  <2>. QED
    BY <1>3, <2>1, ReadStep DEF BuildGroupHAConfig
<1>4. ASSUME NEW p \in Pods, NextPod(p)
      PROVE  IInv'
  <2>1. rec' = [rec EXCEPT !.pc = "haConf", !.at = p, !.left = @ \ {p}]
    BY <1>4 DEF NextPod
  <2>2. /\ rec' \in Rec /\ rec'.left \subseteq rec'.listed
        /\ rec'.pc = "haConf" /\ rec'.at = p /\ p \in rec'.listed
        /\ rec'.listed = rec.listed
    BY <1>0, <1>4, <2>1 DEF NextPod, Rec
  <2>3. HAConfCommands' = HAConfCommands
    BY <2>2 DEF HAConfCommands
  <2>4. SyncInv'
    BY <1>4, <2>2, <2>3 DEF NextPod, SyncInv, Matches
  <2>. QED
    BY <1>4, <2>2, <2>4 DEF NextPod, TypeOK
<1>5. Leave \in Rec /\ Leave.pc = "next" /\ Leave.left \subseteq Leave.listed
  BY <1>0 DEF Leave, Rec
<1>6. CASE ExecCommands
  <2>1. rec.at \in Pods /\ Exec(FileCommands) /\ rec.pc \in {"haConf", "cubridConf"}
    BY <1>0, <1>6 DEF ExecCommands, TypeOK
  <2>2. /\ FileCommands \in SUBSET Commands
        /\ "sync" \in FileCommands <=> "nodes" \in FileCommands
        /\ rec.pc = "haConf" => FileCommands = HAConfCommands
    BY DEF FileCommands, HAConfCommands, CubridConfCommands, Commands
  <2>3. \/ {"nodes", "sync"} \subseteq FileCommands
        \/ {"nodes", "sync"} \cap FileCommands = {} /\ (rec.at \in whole => Matches(rec.at))
    BY <2>1, <2>2 DEF SyncInv
  <2>4. /\ conf' \in [Pods -> Conf]
        /\ \A p \in Pods \ {rec.at} : conf'[p] = conf[p]
        /\ rec.at \in whole /\ conf'[rec.at].nodes # None
             => conf'[rec.at].sync = Cardinality(conf'[rec.at].nodes)
    BY <2>1, <2>2, <2>3, ExecKeeps DEF Matches
  <2>5. whole' = whole /\ \A p \in whole' : Matches(p)'
    BY <1>6, <2>4 DEF ExecCommands, SyncInv, Matches, TypeOK
  <2>6. /\ rec' \in Rec /\ rec'.left \subseteq rec'.listed
        /\ rec'.pc \in {"haConf", "cubridConf"} => rec'.at \in rec'.listed
    BY <1>0, <1>5, <1>6 DEF ExecCommands, TypeOK, Rec
  <2>. QED
    BY <1>6, <2>4, <2>5, <2>6 DEF ExecCommands, TypeOK, SyncInv
<1>7. ASSUME NEW done \in SUBSET Commands, CommandFails(done)
      PROVE  IInv'
  <2>1. rec.at \in Pods /\ Exec(done) /\ rec.pc \in {"haConf", "cubridConf"}
    BY <1>0, <1>7 DEF CommandFails, TypeOK
  <2>2. /\ conf' \in [Pods -> Conf]
        /\ \A p \in Pods \ {rec.at} : conf'[p] = conf[p]
    BY <2>1, ExecKeeps
  <2>3. rec' = Leave /\ whole' = whole \ {rec.at}
        /\ UNCHANGED <<dbs, pods, podCache, stsCache>>
    BY <1>7 DEF CommandFails
  <2>4. SyncInv'
    BY <2>2, <2>3 DEF SyncInv, Matches, TypeOK
  <2>5. changes' = changes /\ faults' \in 0..MaxFaults
    BY <1>7, BoundsAssumption DEF CommandFails, Fault, TypeOK
  <2>. QED
    BY <1>5, <2>2, <2>3, <2>4, <2>5 DEF TypeOK
<1>8. CASE Finish
  BY <1>8, IdleRecType, ReadStep DEF Finish
<1>. QED
  BY <1>1, <1>2, <1>3, <1>4, <1>6, <1>7, <1>8 DEF Reconcile

LEMMA InvStep == IInv /\ [Next]_vars => IInv'
<1>1. ASSUME IInv, UNCHANGED vars
      PROVE  IInv'
  BY <1>1 DEF vars, IInv, TypeOK, SyncInv, Matches, HAConfCommands
<1>2. ASSUME IInv, Restart
      PROVE  IInv'
  <2>1. faults' \in 0..MaxFaults /\ changes' = changes
    BY <1>2, BoundsAssumption DEF Restart, Fault, IInv, TypeOK
  <2>2. SyncInv'
    BY <1>2 DEF Restart, IInv, SyncInv, Matches
  <2>. QED
    BY <1>2, <2>1, <2>2, IdleRecType DEF Restart, IInv, TypeOK
<1>. QED
  BY <1>1, <1>2, ClusterKeeps, EventsKeep, ReconcileKeeps DEF Next

\* Files, caches and the Reconcile are well-formed, for groups of any size.
THEOREM HATypeCorrect == Spec => []TypeOK
<1>1. IInv => TypeOK
  BY DEF IInv
<1>. QED
  BY <1>1, InvInit, InvStep, PTL DEF Spec

\* ha_copy_sync_mode always has as many entries as ha_node_list, though the two
\* are written by separate commands and the lists are built from stale copies
\* (ha_manager.go, buildGroupHAConfig).
THEOREM SyncFitsNodes == Spec => []SyncMatchesNodes
<1>1. IInv => SyncMatchesNodes
  BY DEF IInv, SyncInv, SyncMatchesNodes, Matches
<1>. QED
  BY <1>1, InvInit, InvStep, PTL DEF Spec

-----------------------------------------------------------------------------
(* What is configured stays.                                               *)

\* What is there of S.
Present(S) == {p \in S : pods[p] # "absent"}

LEMMA ConfiguredPods ==
  ASSUME NEW p \in Pods
  PROVE  Configured(p) <=>
           /\ Present(Masters) # {} =>
                /\ conf[p].nodes = Present(Masters)
                /\ conf[p].sync = Cardinality(Present(Masters))
           /\ Present(Replicas) # {} => conf[p].replicas = Present(Replicas)
           /\ conf[p].mode = IF p \in Masters THEN "on" ELSE "replica"
  BY DEF Configured, Present

LEMMA ConfiguredSame ==
  ASSUME UNCHANGED pods, NEW p \in Pods, conf'[p] = conf[p], Configured(p)
  PROVE  Configured(p)'
  BY DEF Configured

\* Of the right lists, any part of the commands writes what is there already.
LEMMA ExecRepeats ==
  ASSUME TypeOK, Settled, rec.pc \in {"haConf", "cubridConf"}, UNCHANGED pods,
         NEW done \in SUBSET Commands, Exec(done),
         NEW p \in Pods, pods[p] = "up"
  PROVE  Configured(p)'
<1> DEFINE new == [c \in Commands |->
                     IF c \in done THEN Setting(rec.at, c) ELSE conf[rec.at][c]]
<1>1. Configured(p)
  BY DEF Settled
<1>2. rec.at \in Pods /\ conf' = [conf EXCEPT ![rec.at] = new]
  BY DEF TypeOK, Rec, Exec
<1>3. CASE p # rec.at
  <2>1. conf'[p] = conf[p]
    BY <1>2, <1>3 DEF TypeOK
  <2>. QED
    BY <1>1, <2>1, ConfiguredSame
<1>4. CASE p = rec.at
  <2>1. conf'[p] = new
    BY <1>2, <1>4 DEF TypeOK
  <2>2. rec.nodes = Present(Masters) /\ rec.replicas = Present(Replicas)
    BY DEF Settled, Present, Pods
  <2>3. /\ new.nodes \in {rec.nodes, conf[p].nodes}
        /\ new.sync \in {Cardinality(rec.nodes), conf[p].sync}
        /\ new.replicas \in {rec.replicas, conf[p].replicas}
        /\ new.mode \in {IF p \in Masters THEN "on" ELSE "replica", conf[p].mode}
    BY <1>4 DEF Commands, Setting, SyncMode
  <2> HIDE DEF new
  <2>4. Present(Masters)' = Present(Masters) /\ Present(Replicas)' = Present(Replicas)
    BY DEF Present
  <2>5. /\ Present(Masters) # {} =>
             /\ new.nodes = Present(Masters)
             /\ new.sync = Cardinality(Present(Masters))
        /\ Present(Replicas) # {} => new.replicas = Present(Replicas)
        /\ new.mode = IF p \in Masters THEN "on" ELSE "replica"
    BY <1>1, <2>2, <2>3, ConfiguredPods
  <2>. QED
    BY <2>1, <2>5 DEF Configured, Present
<1>. QED
  BY <1>3, <1>4

\* What a Reconcile found, as Settled has it.
RecRight ==
  /\ rec.pc \notin {"idle", "list"} => rec.listed = {p \in Pods : pods[p] # "absent"}
  /\ rec.pc \in {"next", "haConf", "cubridConf"} =>
       rec.nodes = rec.listed \cap Masters /\ rec.replicas = rec.listed \cap Replicas

LEMMA SettledAgain ==
  ASSUME Settled, UNCHANGED <<pods, dbs, podCache, stsCache>>, RecRight',
         \A p \in Pods : pods[p] = "up" => Configured(p)'
  PROVE  Settled'
  BY DEF Settled, RecRight

\* The cluster does not rest while it changes pods or CubridDBs; no event is
\* on its way.
LEMMA ClusterRests ==
  ASSUME TypeOK, Settled, UNCHANGED <<pods, dbs>>
  PROVE  ~Cluster /\ ~EventsArrive
<1>1. ASSUME NEW d \in DBs PROVE ~CreateDB(d) /\ ~DeleteDB(d) /\ ~STSEventArrives(d)
  BY DEF CreateDB, DeleteDB, STSEventArrives, Settled
<1>2. ASSUME NEW p \in Pods
      PROVE  /\ ~CreatePod(p) /\ ~PodUp(p) /\ ~PodDown(p) /\ ~ScaleDown(p)
             /\ ~CollectPod(p) /\ ~PodEventArrives(p)
  BY DEF CreatePod, PodUp, PodDown, ScaleDown, CollectPod, RemovePod, SetPod,
         PodEventArrives, Settled, TypeOK
<1>. QED
  BY <1>1, <1>2 DEF Cluster, EventsArrive

\* A configured group stays so, whatever fails in the rounds that follow, in groups
\* of any size.
THEOREM ConfiguredGroupsStay == Spec => SettledLasts
<1>1. ASSUME TypeOK, Settled, Next, UNCHANGED <<pods, dbs>>
      PROVE  Settled'
  <2>1. \A p \in Pods : conf'[p] = conf[p] /\ pods[p] = "up" => Configured(p)'
    BY <1>1, ConfiguredSame DEF Settled
  <2>2. RecRight
    BY <1>1 DEF Settled, RecRight
  <2>3. CASE StartReconcile \/ Finish
    <3>1. RecRight'
      BY <1>1, <2>3 DEF StartReconcile, Finish, IdleRec, RecRight
    <3>. QED
      BY <1>1, <2>1, <2>3, <3>1, SettledAgain DEF StartReconcile, Finish
  <2>4. CASE GetAllPodsInGroup
    <3>1. RecRight'
      BY <1>1, <2>4 DEF GetAllPodsInGroup, IdleRec, RecRight, Settled, TypeOK, Rec
    <3>. QED
      BY <1>1, <2>1, <2>4, <3>1, SettledAgain DEF GetAllPodsInGroup
  <2>5. CASE BuildGroupHAConfig
    <3>1. rec.listed = {p \in Pods : pods[p] # "absent"}
      BY <2>2, <2>5 DEF RecRight, BuildGroupHAConfig
    <3>2. \A p \in rec.listed : Owner(p) \in stsCache
      BY <1>1, <3>1 DEF Settled
    <3>3. /\ rec'.listed = rec.listed /\ rec'.pc = "next"
          /\ rec'.nodes = rec.listed \cap Masters
          /\ rec'.replicas = rec.listed \cap Replicas
      BY <1>1, <2>5, <3>2 DEF BuildGroupHAConfig, DNSList, TypeOK, Rec
    <3>4. RecRight'
      BY <1>1, <3>1, <3>3 DEF RecRight
    <3>. QED
      BY <1>1, <2>1, <2>5, <3>4, SettledAgain DEF BuildGroupHAConfig
  <2>6. ASSUME NEW p \in Pods, NextPod(p)
        PROVE  Settled'
    <3>1. RecRight'
      BY <1>1, <2>2, <2>6 DEF NextPod, RecRight, TypeOK, Rec
    <3>. QED
      BY <1>1, <2>1, <2>6, <3>1, SettledAgain DEF NextPod
  <2>7. ASSUME rec.pc \in {"haConf", "cubridConf"}, NEW done \in SUBSET Commands, Exec(done),
               UNCHANGED <<podCache, stsCache>>,
               rec' \in {Leave, [rec EXCEPT !.pc = "cubridConf"]}
        PROVE  Settled'
    <3>1. \A p \in Pods : pods[p] = "up" => Configured(p)'
      BY <1>1, <2>7, ExecRepeats
    <3>2. RecRight'
      BY <1>1, <2>2, <2>7 DEF Leave, RecRight, TypeOK, Rec
    <3>. QED
      BY <1>1, <2>7, <3>1, <3>2, SettledAgain
  <2>8. CASE ExecCommands
    <3>1. FileCommands \in SUBSET Commands
      BY DEF FileCommands, HAConfCommands, CubridConfCommands, Commands
    <3>. QED
      BY <2>7, <2>8, <3>1 DEF ExecCommands
  <2>9. ASSUME NEW done \in SUBSET Commands, CommandFails(done)
        PROVE  Settled'
    BY <2>7, <2>9 DEF CommandFails
  <2>10. CASE Restart
    <3>1. RecRight'
      BY <2>10 DEF Restart, IdleRec, RecRight
    <3>2. UNCHANGED <<podCache, stsCache>>
      BY <1>1, <2>10 DEF Restart, Settled
    <3>. QED
      BY <1>1, <2>1, <2>10, <3>1, <3>2, SettledAgain DEF Restart
  <2>. QED
    BY <1>1, ClusterRests, <2>3, <2>4, <2>5, <2>6, <2>8, <2>9, <2>10 DEF Next, Reconcile
<1>2. ASSUME TypeOK, [Next]_vars
      PROVE  [Settled /\ pods' = pods /\ dbs' = dbs => Settled']_vars
  BY <1>1, <1>2
<1>. QED
  BY <1>2, HATypeCorrect, PTL DEF Spec, SettledLasts
=============================================================================
