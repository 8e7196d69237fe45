------------------------------ MODULE GroupHA ------------------------------
(***************************************************************************)
(* How the HA configuration reaches the pods of a group                    *)
(* (pkg/manager/ha_manager.go): a master-slave CubridDB and the replica    *)
(* CubridDB that names it.  Each Reconcile of either lists the pods of the *)
(* group, builds the lists of nodes and replicas from what the caches      *)
(* show, and writes them with one command after the other into             *)
(* cubrid_ha.conf of every pod (config/scripts/operator_conf.sh).  A       *)
(* command that fails is logged, the rest of that pod is left out, and     *)
(* nothing is queued again.                                                *)
(*                                                                         *)
(* Commands that always write the same text (ha_common_config, log         *)
(* settings) are left out; where they fail, another one may as well.       *)
(***************************************************************************)
EXTENDS Naturals, FiniteSets

CONSTANTS
  Masters,      \* the pods of the master-slave CubridDB,
  Replicas,     \* and those of the replica CubridDB
  None,         \* a setting the file does not have, no pod
  MaxChanges,   \* bound on what users and the cluster change,
  MaxFaults     \* and on the faults: a command or call that fails, a restart

ASSUME PodsAssumption ==
  /\ IsFiniteSet(Masters) /\ IsFiniteSet(Replicas)
  /\ Masters \cap Replicas = {}
  /\ None \notin Masters \cup Replicas

ASSUME BoundsAssumption == MaxChanges \in Nat /\ MaxFaults \in Nat

VARIABLES
  dbs,        \* the CubridDBs that exist, each with its StatefulSet
  pods,       \* the pods: absent, starting or up
  conf,       \* the settings in each pod
  podCache,   \* the pods in the operator's cache
  stsCache,   \* the StatefulSets in the operator's cache, by their CubridDB
  rec,        \* the Reconcile call in progress
  whole,      \* pods whose last round of commands was not cut short
  changes,    \* how much users and the cluster have changed,
  faults      \* and how many faults there were

vars == <<dbs, pods, conf, podCache, stsCache, rec, whole,
          changes, faults>>

-----------------------------------------------------------------------------

Pods == Masters \cup Replicas

DBs == {"ms", "rep"}

\* The StatefulSet a pod belongs to is read off its name.
Owner(p) == IF p \in Masters THEN "ms" ELSE "rep"

PodState == {"absent", "starting", "up"}

\* ha_node_list, ha_copy_sync_mode (how many times "sync"), ha_replica_list of
\* cubrid_ha.conf and ha_mode of cubrid.conf.
Conf == [nodes : {None} \cup (SUBSET Masters),
         sync : {None} \cup 0..Cardinality(Masters),
         replicas : {None} \cup (SUBSET Replicas),
         mode : {None, "on", "replica"}]

\* The configuration files of the image.
NoConf == [nodes |-> None, sync |-> None, replicas |-> None, mode |-> None]

Commands == {"nodes", "sync", "replicas", "mode"}

\* listed are the pods found, left those still to configure; at is the pod
\* being configured, and nodes, replicas the two lists (GroupHAConfig).
Rec == [pc : {"idle", "list", "build", "next", "haConf", "cubridConf"},
        listed : SUBSET Pods, left : SUBSET Pods,
        at : Pods \cup {None},
        nodes : SUBSET Masters, replicas : SUBSET Replicas]

IdleRec == [pc |-> "idle", listed |-> {}, left |-> {}, at |-> None,
            nodes |-> {}, replicas |-> {}]

TypeOK ==
  /\ dbs \subseteq DBs
  /\ pods \in [Pods -> PodState] /\ podCache \in [Pods -> PodState]
  /\ conf \in [Pods -> Conf]
  /\ stsCache \subseteq DBs
  /\ rec \in Rec
  /\ rec.pc \in {"haConf", "cubridConf"} => rec.at \in rec.listed
  /\ whole \subseteq Pods
  /\ changes \in 0..MaxChanges /\ faults \in 0..MaxFaults

\* The operator starts when both CubridDBs exist; their pods may run already.
Init ==
  /\ dbs = DBs
  /\ \E state \in {"absent", "up"} : pods = [p \in Pods |-> state]
  /\ podCache = pods
  /\ conf = [p \in Pods |-> NoConf]
  /\ stsCache = dbs
  /\ rec = IdleRec
  /\ whole = {}
  /\ changes = 0 /\ faults = 0

-----------------------------------------------------------------------------
(* Users, the StatefulSet controller, the kubelet.                         *)

Change ==
  /\ changes < MaxChanges
  /\ changes' = changes + 1
  /\ UNCHANGED faults

CreateDB(d) ==
  /\ Change
  /\ d \notin dbs
  /\ dbs' = dbs \cup {d}
  /\ UNCHANGED <<pods, conf, podCache, stsCache, rec, whole>>

\* The StatefulSet goes with its CubridDB, the pods follow.
DeleteDB(d) ==
  /\ Change
  /\ d \in dbs
  /\ dbs' = dbs \ {d}
  /\ UNCHANGED <<pods, conf, podCache, stsCache, rec, whole>>

\* A pod changes state.
SetPod(p, state) ==
  /\ pods' = [pods EXCEPT ![p] = state]
  /\ UNCHANGED <<dbs, podCache, stsCache, rec>>

CreatePod(p) ==
  /\ pods[p] = "absent"
  /\ Owner(p) \in dbs
  /\ SetPod(p, "starting")
  /\ UNCHANGED <<conf, whole, changes, faults>>

PodUp(p) ==
  /\ pods[p] = "starting"
  /\ SetPod(p, "up")
  /\ UNCHANGED <<conf, whole, changes, faults>>

\* A container restarts: its files are those of the image, or on a volume.
PodDown(p) ==
  /\ Change
  /\ pods[p] = "up"
  /\ SetPod(p, "starting")
  /\ conf' \in {conf, [conf EXCEPT ![p] = NoConf]}
  /\ whole' = whole \ {p}

\* A pod of its name starts from the files of the image.
RemovePod(p) ==
  /\ pods[p] # "absent"
  /\ SetPod(p, "absent")
  /\ conf' = [conf EXCEPT ![p] = NoConf]
  /\ whole' = whole \ {p}

ScaleDown(p) == Owner(p) \in dbs /\ Change /\ RemovePod(p)

\* The garbage collector removes what a deleted StatefulSet leaves.
CollectPod(p) == Owner(p) \notin dbs /\ RemovePod(p) /\ UNCHANGED <<changes, faults>>

PodEventArrives(p) ==
  /\ podCache[p] # pods[p]
  /\ podCache' = [podCache EXCEPT ![p] = pods[p]]
  /\ UNCHANGED <<dbs, pods, conf, stsCache, rec, whole, changes, faults>>

STSEventArrives(d) ==
  /\ (d \in dbs) # (d \in stsCache)
  /\ stsCache' = IF d \in dbs THEN stsCache \cup {d} ELSE stsCache \ {d}
  /\ UNCHANGED <<dbs, pods, conf, podCache, rec, whole, changes, faults>>

-----------------------------------------------------------------------------
(* Reconcile.                                                              *)

Fault ==
  /\ faults < MaxFaults
  /\ faults' = faults + 1
  /\ UNCHANGED changes

\* A Reconcile of a CubridDB of the group may start at any time: for an event
\* of the CubridDB, its StatefulSet or a Service, and, if for nothing else,
\* because the informers resync.
StartReconcile ==
  /\ rec.pc = "idle"
  /\ dbs # {}
  /\ rec' = [IdleRec EXCEPT !.pc = "list"]
  /\ UNCHANGED <<dbs, pods, conf, podCache, stsCache, whole, changes, faults>>

\* Both kinds of CubridDB name the same group. Pods the copy does not show
\* running are passed over without an error.
GetAllPodsInGroup ==
  /\ rec.pc = "list"
  /\ LET listed == {p \in Pods : podCache[p] # "absent"} IN
     rec' = IF listed = {} THEN IdleRec
            ELSE [rec EXCEPT !.pc = "build", !.listed = listed,
                             !.left = {p \in listed : podCache[p] = "up"}]
  /\ UNCHANGED <<dbs, pods, conf, podCache, stsCache, whole, changes, faults>>

MutantDNSList(S) == {p \in rec.listed : Owner(p) \in stsCache}

\* The pods among S that get a DNS name: those whose StatefulSet is found.
DNSList(S) == {p \in S : Owner(p) \in stsCache}

BuildGroupHAConfig ==
  /\ rec.pc = "build"
  /\ rec' = [rec EXCEPT !.pc = "next",
                        !.nodes = DNSList(rec.listed \cap Masters),
                        !.replicas = DNSList(rec.listed \cap Replicas)]
  /\ UNCHANGED <<dbs, pods, conf, podCache, stsCache, whole, changes, faults>>

MutantSyncMode == Cardinality(rec.listed \cap Masters)

\* One "sync" per node listed.
SyncMode == Cardinality(rec.nodes)

\* A list is written when pods of its kind were found, be it empty.
HAConfCommands ==
  (IF rec.listed \cap Masters # {} THEN {"nodes", "sync"} ELSE {})
    \cup (IF rec.listed \cap Replicas # {} THEN {"replicas"} ELSE {})

CubridConfCommands(p) ==
  IF p \in Masters THEN {"mode", "nodes", "sync"} ELSE {"mode", "replicas"}

\* What a command of operator_conf.sh sets.
Setting(p, c) ==
  [nodes |-> rec.nodes, sync |-> SyncMode, replicas |-> rec.replicas,
   mode |-> IF p \in Masters THEN "on" ELSE "replica"][c]

\* applyGroupHAConfig takes up the next pod.
NextPod(p) ==
  /\ rec.pc = "next"
  /\ p \in rec.left
  /\ rec' = [rec EXCEPT !.pc = "haConf", !.at = p, !.left = @ \ {p}]
  /\ whole' = IF "sync" \in HAConfCommands THEN whole \cup {p} ELSE whole
  /\ UNCHANGED <<dbs, pods, conf, podCache, stsCache, changes, faults>>

MutantLeave == [rec EXCEPT !.pc = "next", !.at = None, !.left = {}]

\* On to the next pod.
Leave == [rec EXCEPT !.pc = "next", !.at = None]

FileCommands == IF rec.pc = "haConf" THEN HAConfCommands ELSE CubridConfCommands(rec.at)

MutantExec(done) ==
  conf' = [conf EXCEPT ![rec.at] =
             [c \in Commands |-> IF c \in done THEN Setting(rec.at, c)
                                ELSE IF c \in FileCommands THEN None ELSE @[c]]]

\* The commands done set what they set in the pod.
Exec(done) ==
  conf' = [conf EXCEPT ![rec.at] =
             [c \in Commands |-> IF c \in done THEN Setting(rec.at, c) ELSE @[c]]]

\* All commands of cubrid_ha.conf, then all those of cubrid.conf.
ExecCommands ==
  /\ rec.pc \in {"haConf", "cubridConf"}
  /\ pods[rec.at] = "up"
  /\ Exec(FileCommands)
  /\ rec' = IF rec.pc = "haConf" THEN [rec EXCEPT !.pc = "cubridConf"]
            ELSE Leave
  /\ UNCHANGED <<dbs, pods, podCache, stsCache, whole, changes, faults>>

\* The commands of a file run in any order (they are kept in a map). One fails,
\* and the pod keeps what those before it have written.
CommandFails(done) ==
  /\ rec.pc \in {"haConf", "cubridConf"}
  /\ done \subseteq FileCommands
  /\ done # FileCommands
  /\ IF pods[rec.at] = "up" THEN Fault ELSE done = {} /\ UNCHANGED <<changes, faults>>
  /\ Exec(done)
  /\ rec' = Leave
  /\ whole' = whole \ {rec.at}
  /\ UNCHANGED <<dbs, pods, podCache, stsCache>>

Finish ==
  /\ rec.pc = "next"
  /\ rec.left = {}
  /\ rec' = IdleRec
  /\ UNCHANGED <<dbs, pods, conf, podCache, stsCache, whole, changes, faults>>

\* A new process lists everything and reconciles every CubridDB.
Restart ==
  /\ Fault
  /\ podCache' = pods
  /\ stsCache' = dbs
  /\ rec' = IdleRec
  /\ whole' = whole \ {rec.at}
  /\ UNCHANGED <<dbs, pods, conf>>

Reconcile ==
  \/ StartReconcile
  \/ GetAllPodsInGroup
  \/ BuildGroupHAConfig
  \/ \E p \in Pods : NextPod(p)
  \/ ExecCommands
  \/ \E done \in SUBSET Commands : CommandFails(done)
  \/ Finish

Cluster ==
  \/ \E d \in DBs : CreateDB(d) \/ DeleteDB(d)
  \/ \E p \in Pods : CreatePod(p) \/ PodUp(p) \/ PodDown(p)
                    \/ ScaleDown(p) \/ CollectPod(p)

EventsArrive ==
  \/ \E p \in Pods : PodEventArrives(p)
  \/ \E d \in DBs : STSEventArrives(d)

Next ==
  \/ Cluster
  \/ EventsArrive
  \/ Reconcile
  \/ Restart

Spec == Init /\ [][Next]_vars

\* Events arrive, the worker runs, and the informers resync.
Fairness ==
  /\ \A p \in Pods : WF_vars(PodEventArrives(p)) /\ WF_vars(CollectPod(p))
  /\ \A d \in DBs : WF_vars(STSEventArrives(d))
  /\ WF_vars(Reconcile)

FairSpec == Spec /\ Fairness

-----------------------------------------------------------------------------
(* Properties.                                                             *)

\* ha_copy_sync_mode has one entry per node of ha_node_list, in every pod whose
\* last round was not cut short by a failing command or a restart, whichever
\* StatefulSets the cache missed (buildGroupHAConfig).
SyncMatchesNodes ==
  \A p \in whole \ {rec.at} :
    conf[p].nodes # None => conf[p].sync = Cardinality(conf[p].nodes)

\* What a running pod should be told.
Configured(p) ==
  LET masters  == {q \in Masters : pods[q] # "absent"}
      replicas == {q \in Replicas : pods[q] # "absent"}
  IN
  /\ masters # {} => conf[p].nodes = masters /\ conf[p].sync = Cardinality(masters)
  /\ replicas # {} => conf[p].replicas = replicas
  /\ conf[p].mode = IF p \in Masters THEN "on" ELSE "replica"

\* Nothing is left to do: the caches show what is there, every pod belongs to a
\* CubridDB, those that run are configured, and so is what a Reconcile has found.
Settled ==
  /\ podCache = pods /\ stsCache = dbs
  /\ \A p \in Pods : pods[p] # "absent" => Owner(p) \in dbs
  /\ \A p \in Pods : pods[p] = "up" => Configured(p)
  /\ rec.pc \notin {"idle", "list"} => rec.listed = {p \in Pods : pods[p] # "absent"}
  /\ rec.pc \in {"next", "haConf", "cubridConf"} =>
       rec.nodes = rec.listed \cap Masters /\ rec.replicas = rec.listed \cap Replicas

\* A group that is configured stays so until its pods or CubridDBs change: each
\* resync writes all files again, in any order of commands, and one that fails or a
\* restart in between leaves a pod with part of what it had already
\* (applyGroupHAConfig, operator_conf.sh).
SettledLasts ==
  [][Settled /\ pods' = pods /\ dbs' = dbs => Settled']_vars

\* Once the cluster rests (changes and faults are bounded), every running pod of the group gets
\* the present lists, although failed commands are forgotten and pods not yet
\* seen running are passed over: the resync makes up for both.
HAConverges ==
  (\E d \in DBs : <>[](d \in dbs)) =>
    <>[](\A p \in Pods : pods[p] = "up" /\ Owner(p) \in dbs => Configured(p))
=============================================================================
