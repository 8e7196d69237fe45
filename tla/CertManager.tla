---------------------------- MODULE CertManager ----------------------------
(***************************************************************************)
(* The webhook server's own certificates (pkg/certmanager/certificate.go,  *)
(* started by cmd/main.go).  A webhook pod takes the certificate from a    *)
(* Secret, or creates one and stores it there; the kubelet mounts the      *)
(* Secret into the pod, which serves what is mounted.  Two goroutines      *)
(* follow: watchPodReady writes the CA the pod holds in memory into both   *)
(* webhook configurations, once; watchCertificate looks at the Secret      *)
(* every hour, replaces a certificate that nears its end and asks for a    *)
(* rolling restart, because only a new pod writes the new CA.              *)
(*                                                                         *)
(* One replica, as the manifests deploy it: a rolling update runs a second *)
(* pod beside it.  A certificate stands for its key and its CA too, which  *)
(* are created and stored with it.                                         *)
(***************************************************************************)
EXTENDS Naturals, FiniteSets

CONSTANTS
  Pods,             \* slots for the pods of the deployment
  None,             \* no certificate
  MaxDisturbances   \* bound on ageing, deletions, upgrades, crashes, failures

ASSUME PodsAssumption == IsFiniteSet(Pods) /\ Cardinality(Pods) >= 2

ASSUME CertAssumption == None \notin Nat

ASSUME BoundAssumption == MaxDisturbances \in Nat

VARIABLES
  made,         \* how many certificates were created: they are 1..made
  age,          \* fresh, due (less than a month left) or expired
  secret,       \* the certificate in the Secret
  ca,           \* whose CA each webhook configuration holds
  pod,          \* the pods
  newest,       \* the pod created last
  disturbances, \* how many there were
  lost          \* whether a renewal was lost, see below

vars == <<made, age, secret, ca, pod, newest, disturbances, lost>>

-----------------------------------------------------------------------------

Hooks == {"mutating", "validating"}

Cert == 1..made

\* st: not there, in Start, storing the certificate it created, running.
\* own is the certificate in m.config, mount the one mounted and served, current
\* that the pod has the deployment's present template. hook and watch are where
\* watchPodReady and watchCertificate are.
PodRec ==
  [st : {"none", "start", "save", "run"}, current : BOOLEAN, ready : BOOLEAN,
   own : Nat \cup {None}, mount : Nat \cup {None},
   hook : {"wait", "mutating", "validating", "done"},
   watch : {"check", "save", "restart"}]

NewPod == [st |-> "start", current |-> TRUE, ready |-> FALSE, own |-> None,
           mount |-> None, hook |-> "wait", watch |-> "check"]

NoPod == [NewPod EXCEPT !.st = "none"]

There == {i \in Pods : pod[i].st # "none"}

TypeOK ==
  /\ made \in Nat
  /\ age \in [Cert -> {"fresh", "due", "expired"}]
  /\ secret \in Cert \cup {None}
  /\ ca \in [Hooks -> Cert \cup {None}]
  /\ pod \in [Pods -> PodRec]
  /\ \A i \in Pods :
       /\ {pod[i].own, pod[i].mount} \subseteq Cert \cup {None}
       /\ pod[i].st \in {"save", "run"} => pod[i].own # None
  /\ newest \in Pods
  /\ disturbances \in 0..MaxDisturbances
  /\ lost \in BOOLEAN

\* The manifests create an empty Secret and a deployment of one pod.
Init ==
  /\ made = 0 /\ age = << >>
  /\ secret = None
  /\ ca = [h \in Hooks |-> None]
  /\ newest = CHOOSE i \in Pods : TRUE
  /\ pod = [i \in Pods |-> IF i = newest THEN NewPod ELSE NoPod]
  /\ disturbances = 0 /\ lost = FALSE

-----------------------------------------------------------------------------
(* The cluster and its users.                                              *)

Disturb ==
  /\ disturbances < MaxDisturbances
  /\ disturbances' = disturbances + 1

\* Time passes for the certificate in the Secret, and so for all older ones.
Age ==
  /\ Disturb
  /\ secret # None
  /\ age[secret] # "expired"
  /\ LET older == IF age[secret] = "fresh" THEN "due" ELSE "expired" IN
     age' = [c \in Cert |-> IF c <= secret THEN older ELSE age[c]]
  /\ UNCHANGED <<made, secret, ca, pod, newest, lost>>

DeleteSecret ==
  /\ Disturb
  /\ secret # None
  /\ secret' = None
  /\ UNCHANGED <<made, age, ca, pod, newest, lost>>

\* The pod template changes: every pod is to be replaced.
Upgraded == [i \in Pods |-> [pod[i] EXCEPT !.current = FALSE]]

Upgrade ==
  /\ Disturb
  /\ pod' = Upgraded
  /\ UNCHANGED <<made, age, secret, ca, newest, lost>>

\* A rolling update adds one pod to the single replica.
CreatePod(i) ==
  /\ pod[i].st = "none"
  /\ Cardinality(There) <= 1
  /\ \A j \in There : ~pod[j].current
  /\ pod' = [pod EXCEPT ![i] = NewPod]
  /\ newest' = i
  /\ UNCHANGED <<made, age, secret, ca, disturbances, lost>>

\* The only pod that holds the certificate of the Secret, with work left.
MustGoOn(i) ==
  /\ secret # None
  /\ pod[i].own = secret
  /\ pod[i].watch = "restart" \/ pod[i].hook # "done"
  /\ \A j \in There \ {i} : pod[j].own # secret

\* An old pod goes when it is not ready or another one is.
DeletePod(i) ==
  /\ i \in There
  /\ ~pod[i].current
  /\ \E j \in There \ {i} : ~pod[i].ready \/ pod[j].ready
  /\ pod' = [pod EXCEPT ![i] = NoPod]
  /\ newest' = IF i = newest THEN CHOOSE j \in There \ {i} : TRUE ELSE newest
  /\ lost' = (lost \/ MustGoOn(i))
  /\ UNCHANGED <<made, age, secret, ca, disturbances>>

\* The kubelet brings the mounted files up to date.
Mount(i) ==
  /\ i \in There
  /\ secret # None
  /\ pod[i].mount # secret
  /\ pod' = [pod EXCEPT ![i].mount = secret]
  /\ UNCHANGED <<made, age, secret, ca, newest, disturbances, lost>>

\* main waits for the mounted files before it serves.
BecomeReady(i) ==
  /\ pod[i].st = "run"
  /\ pod[i].mount # None
  /\ ~pod[i].ready
  /\ pod' = [pod EXCEPT ![i].ready = TRUE]
  /\ UNCHANGED <<made, age, secret, ca, newest, disturbances, lost>>

\* The process ends and the container starts again in the same pod.
Restarted(i) == [NewPod EXCEPT !.current = pod[i].current, !.mount = pod[i].mount]

Crash(i) ==
  /\ Disturb
  /\ i \in There
  /\ pod' = [pod EXCEPT ![i] = Restarted(i)]
  /\ lost' = (lost \/ (pod[i].watch = "restart" /\ Cardinality(There) > 1))
  /\ UNCHANGED <<made, age, secret, ca, newest>>

-----------------------------------------------------------------------------
(* Start.                                                                  *)

\* createSelfSignedCertificate: pod i holds the new certificate in memory.
Create(i, next) ==
  /\ made' = made + 1
  /\ age' = [c \in 1..(made + 1) |-> IF c \in Cert THEN age[c] ELSE "fresh"]
  /\ pod' = [pod EXCEPT ![i] = [next EXCEPT !.own = made + 1]]

MutantStartAdopts(i) ==
  /\ pod[i].st = "start"
  /\ secret # None
  /\ pod' = [pod EXCEPT ![i].st = "run"]
  /\ UNCHANGED <<made, age, secret, ca, newest, disturbances, lost>>

\* isValidCertificate: a certificate about to end is still good enough.
ValidInSecret == secret # None /\ age[secret] # "expired"

StartAdopts(i) ==
  /\ pod[i].st = "start"
  /\ ValidInSecret
  /\ pod' = [pod EXCEPT ![i].st = "run", ![i].own = secret]
  /\ UNCHANGED <<made, age, secret, ca, newest, disturbances, lost>>

\* Also when the Secret cannot be read.
StartCreates(i) ==
  /\ pod[i].st = "start"
  /\ IF ValidInSecret THEN Disturb ELSE UNCHANGED disturbances
  /\ Create(i, [pod[i] EXCEPT !.st = "save"])
  /\ UNCHANGED <<secret, ca, newest, lost>>

\* saveCertificatesToSecret overwrites what is there, be it newer.
Save(i) ==
  /\ secret' = pod[i].own
  /\ lost' = (lost \/ pod[i].own # made)

StartSaves(i) ==
  /\ pod[i].st = "save"
  /\ Save(i)
  /\ pod' = [pod EXCEPT ![i].st = "run"]
  /\ UNCHANGED <<made, age, ca, newest, disturbances>>

\* An error ends the process; the write may have been stored.
StartFails(i) ==
  /\ Disturb
  /\ pod[i].st = "save"
  /\ Save(i) \/ UNCHANGED <<secret, lost>>
  /\ pod' = [pod EXCEPT ![i] = Restarted(i)]
  /\ UNCHANGED <<made, age, ca, newest>>

-----------------------------------------------------------------------------
(* watchPodReady.                                                          *)

Goto(i, field, where) == pod' = [pod EXCEPT ![i][field] = where]

\* With one pod there is nothing to wait for.
IsPodReady == Cardinality(There) <= 1 \/ pod[newest].ready

SeeReady(i) ==
  /\ pod[i].st = "run"
  /\ pod[i].hook = "wait"
  /\ IsPodReady
  /\ Goto(i, "hook", "mutating")
  /\ UNCHANGED <<made, age, secret, ca, newest, disturbances, lost>>

MutantUpdateConfiguration(i) ==
  /\ pod[i].st = "run"
  /\ pod[i].hook \in Hooks
  /\ ca' = [ca EXCEPT ![pod[i].hook] = pod[i].mount]
  /\ lost' = (lost \/ (secret # None /\ secret > pod[i].own))
  /\ Goto(i, "hook", IF pod[i].hook = "mutating" THEN "validating" ELSE "done")
  /\ UNCHANGED <<made, age, secret, newest, disturbances>>

\* updateWebhookConfiguration: one configuration after the other gets the CA
\* in memory at that time.
UpdateConfiguration(i) ==
  /\ pod[i].st = "run"
  /\ pod[i].hook \in Hooks
  /\ ca' = [ca EXCEPT ![pod[i].hook] = pod[i].own]
  /\ lost' = (lost \/ (secret # None /\ secret > pod[i].own))
  /\ Goto(i, "hook", IF pod[i].hook = "mutating" THEN "validating" ELSE "done")
  /\ UNCHANGED <<made, age, secret, newest, disturbances>>

\* After an error both are written again.
UpdateFails(i) ==
  /\ Disturb
  /\ pod[i].st = "run"
  /\ pod[i].hook \in Hooks
  /\ Goto(i, "hook", "wait")
  /\ UNCHANGED <<made, age, secret, ca, newest, lost>>

-----------------------------------------------------------------------------
(* watchCertificate.                                                       *)

\* certificatesExistAndValid.
NeedsRenewal == secret # None => age[secret] # "fresh"

\* A check that finds nothing to do sleeps for an hour and changes nothing.
CheckRenews(i) ==
  /\ pod[i].st = "run"
  /\ pod[i].watch = "check"
  /\ NeedsRenewal
  /\ Create(i, [pod[i] EXCEPT !.watch = "save"])
  /\ UNCHANGED <<secret, ca, newest, disturbances, lost>>

MutantWatchSaves(i) ==
  /\ pod[i].st = "run"
  /\ pod[i].watch = "save"
  /\ Save(i)
  /\ pod' = [pod EXCEPT ![i].watch = "check"]
  /\ UNCHANGED <<made, age, ca, newest, disturbances>>

WatchSaves(i) ==
  /\ pod[i].st = "run"
  /\ pod[i].watch = "save"
  /\ Save(i)
  /\ pod' = [pod EXCEPT ![i].watch = "restart"]
  /\ UNCHANGED <<made, age, ca, newest, disturbances>>

\* restartPod.
RestartPod(i) ==
  /\ pod[i].st = "run"
  /\ pod[i].watch = "restart"
  /\ pod' = [Upgraded EXCEPT ![i].watch = "check"]
  /\ UNCHANGED <<made, age, secret, ca, newest, disturbances, lost>>

\* An error is logged and the next check is in an hour. The certificate in memory
\* is the new one all the same.
WatchFails(i) ==
  /\ Disturb
  /\ pod[i].st = "run"
  /\ pod[i].watch = "save"
  /\ pod' = [pod EXCEPT ![i].watch = "check"]
  /\ UNCHANGED <<made, age, secret, ca, newest, lost>>

\* The next check finds a valid certificate and asks for no restart.
RestartFails(i) ==
  /\ Disturb
  /\ pod[i].st = "run"
  /\ pod[i].watch = "restart"
  /\ Goto(i, "watch", "check")
  /\ lost' = TRUE
  /\ UNCHANGED <<made, age, secret, ca, newest>>

-----------------------------------------------------------------------------

PodStep(i) ==
  \/ StartAdopts(i) \/ StartSaves(i)
  \/ StartCreates(i) /\ UNCHANGED disturbances
  \/ BecomeReady(i)

HookStep(i) == SeeReady(i) \/ UpdateConfiguration(i)

WatchStep(i) == CheckRenews(i) \/ WatchSaves(i) \/ RestartPod(i)

Deployment(i) == CreatePod(i) \/ DeletePod(i)

Faults(i) ==
  \/ Crash(i) \/ StartFails(i) \/ UpdateFails(i) \/ WatchFails(i)
  \/ RestartFails(i) \/ StartCreates(i)

Next ==
  \/ Age \/ DeleteSecret \/ Upgrade
  \/ \E i \in Pods :
       \/ Deployment(i) \/ Mount(i)
       \/ PodStep(i) \/ HookStep(i) \/ WatchStep(i)
       \/ Faults(i)

Spec == Init /\ [][Next]_vars

\* Every goroutine, the kubelet and the deployment go on.
Fairness ==
  \A i \in Pods :
    /\ WF_vars(CreatePod(i)) /\ WF_vars(DeletePod(i)) /\ WF_vars(Mount(i))
    /\ WF_vars(PodStep(i)) /\ WF_vars(HookStep(i)) /\ WF_vars(WatchStep(i))

FairSpec == Spec /\ Fairness

-----------------------------------------------------------------------------
(* Properties.                                                             *)

\* The webhooks work: both configurations trust what every ready pod serves.
Trusted ==
  \A i \in There : pod[i].ready => \A h \in Hooks : ca[h] = pod[i].mount

\* Nothing is left to do: the Secret holds a certificate far from its end, both
\* configurations trust it, and no pod serves or holds another one.
Working ==
  /\ ~NeedsRenewal
  /\ secret # None
  /\ \A h \in Hooks : ca[h] = secret
  /\ \A i \in There :
       /\ pod[i].mount \in {secret, None} /\ (pod[i].ready => pod[i].mount # None)
       /\ pod[i].st = "start" \/ (pod[i].st = "run" /\ pod[i].own = secret)
       /\ pod[i].watch = "check"

\* What works goes on working: only a new certificate, the end of the present one
\* or the loss of the Secret can break the trust. Upgrades, crashes, refused calls
\* and pods that start or go, at whatever point of their work, cannot.
WorkingLasts ==
  [][Working /\ made' = made /\ age' = age /\ secret' # None
       => Working' /\ Trusted']_vars

\* A renewal is lost when a pod stores its certificate after a later one was
\* created, or writes its CA after a later one was stored, or goes with its work
\* undone, or is refused the restart.  When none was lost and nothing disturbs the
\* webhooks any more, a certificate far from its end is in the Secret and the API
\* server trusts what the pods serve.
TrustConverges == []~lost => <>[](~NeedsRenewal /\ Trusted)
=============================================================================
