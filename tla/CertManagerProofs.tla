-------------------------- MODULE CertManagerProofs --------------------------
(***************************************************************************)
(* What holds of CertManager for any number of pods and disturbances: its  *)
(* type invariant, and that webhooks which work go on working until a new  *)
(* certificate, the end of the present one or the loss of the Secret.      *)
(***************************************************************************)
EXTENDS CertManager, FiniteSetTheorems, TLAPS

\* A pod when n certificates were created.
PodOK(r, n) ==
  /\ r \in PodRec
  /\ {r.own, r.mount} \subseteq (1..n) \cup {None}
  /\ r.st \in {"save", "run"} => r.own # None

Rest ==
  /\ made \in Nat
  /\ age \in [Cert -> {"fresh", "due", "expired"}]
  /\ secret \in Cert \cup {None}
  /\ ca \in [Hooks -> Cert \cup {None}]
  /\ newest \in Pods
  /\ disturbances \in 0..MaxDisturbances
  /\ lost \in BOOLEAN

PodsOK == pod = [i \in Pods |-> pod[i]] /\ \A i \in Pods : PodOK(pod[i], made)

LEMMA TypeParts == TypeOK <=> Rest /\ PodsOK
<1>1. ASSUME TypeOK PROVE Rest /\ PodsOK
  BY <1>1 DEF TypeOK, Rest, PodsOK, PodOK, Cert
<1>2. ASSUME Rest, PodsOK PROVE TypeOK
  <2>1. pod \in [Pods -> PodRec]
    BY <1>2 DEF PodsOK, PodOK
  <2>. QED
    BY <1>2, <2>1 DEF TypeOK, Rest, PodsOK, PodOK, Cert
<1>. QED
  BY <1>1, <1>2

\* The same of the next state.
LEMMA TypeWhole ==
  ASSUME Rest', PodsOK'
  PROVE  TypeOK'
<1>1. pod' \in [Pods -> PodRec]
  BY DEF PodsOK, PodOK
<1>. QED
  BY <1>1 DEF TypeOK, Rest, PodsOK, PodOK, Cert

LEMMA NewPodOK == \A n \in Nat : PodOK(NewPod, n) /\ PodOK(NoPod, n)
  BY DEF NewPod, NoPod, PodOK, PodRec

LEMMA RestartedOK ==
  ASSUME TypeOK, NEW i \in Pods
  PROVE  PodOK(Restarted(i), made)
  BY CertAssumption DEF Restarted, NewPod, PodOK, PodRec, TypeOK, Cert

\* One pod takes a step.
LEMMA OnePod ==
  ASSUME TypeOK, NEW i \in Pods, NEW r, PodOK(r, made'),
         pod' = [pod EXCEPT ![i] = r], made' \in Nat, made' >= made
  PROVE  PodsOK'
<1>1. \A j \in Pods : PodOK(pod[j], made')
  <2>1. \A c \in Cert \cup {None} : c \in (1..made') \cup {None}
    BY DEF Cert, TypeOK
  <2>. QED
    BY <2>1 DEF TypeOK, PodOK
<1>. QED
  BY <1>1 DEF PodsOK, TypeOK

LEMMA OnePodOnly ==
  ASSUME TypeOK, NEW i \in Pods, NEW r, PodOK(r, made),
         pod' = [pod EXCEPT ![i] = r], made' = made
  PROVE  PodsOK'
<1>1. made' \in Nat /\ made' >= made /\ PodOK(r, made')
  BY DEF TypeOK
<1>. QED
  BY <1>1, OnePod

\* What is certified once stays so when another certificate is created.
LEMMA CreateKeeps ==
  ASSUME TypeOK, NEW i \in Pods, NEW r \in PodRec,
         r.mount \in Cert \cup {None}, Create(i, r)
  PROVE  /\ PodsOK' /\ made' = made + 1 /\ made' \in Nat
         /\ age' \in [Cert' -> {"fresh", "due", "expired"}]
         /\ Cert \subseteq Cert'
<1>1. made \in Nat /\ age \in [Cert -> {"fresh", "due", "expired"}]
  BY DEF TypeOK
<1>2. made' = made + 1 /\ made' \in Nat /\ Cert \subseteq Cert'
  BY <1>1 DEF Create, Cert
<1>3. age' \in [Cert' -> {"fresh", "due", "expired"}]
  BY <1>1, <1>2 DEF Create, Cert
<1>4. PodOK([r EXCEPT !.own = made + 1], made')
  BY <1>1, <1>2, CertAssumption DEF PodOK, PodRec, Cert
<1>5. made' >= made /\ pod' = [pod EXCEPT ![i] = [r EXCEPT !.own = made + 1]]
  BY <1>1 DEF Create
<1>6. PodsOK'
  BY <1>2, <1>4, <1>5, OnePod
<1>. QED
  BY <1>2, <1>3, <1>6

-----------------------------------------------------------------------------

LEMMA TypeInit == Init => TypeOK
<1> SUFFICES ASSUME Init PROVE TypeOK
  OBVIOUS
<1>1. newest \in Pods
  <2>1. Pods # {}
    BY PodsAssumption, FS_EmptySet
  <2>. QED
    BY <2>1 DEF Init
<1>2. age \in [Cert -> {"fresh", "due", "expired"}]
  BY DEF Init, Cert
<1>3. Rest
  <2>1. 0 \in 0..MaxDisturbances
    BY BoundAssumption
  <2>. QED
    BY <1>1, <1>2, <2>1 DEF Init, Rest
<1>4. PodsOK
  BY NewPodOK DEF Init, PodsOK
<1>. QED
  BY <1>3, <1>4, TypeParts

\* The steps of the cluster.
LEMMA ClusterType ==
  ASSUME TypeOK,
         \/ Age \/ DeleteSecret \/ Upgrade
         \/ \E i \in Pods : Deployment(i) \/ Mount(i) \/ BecomeReady(i)
  PROVE  TypeOK'
<1>1. CASE Age
  <2>1. age' \in [Cert' -> {"fresh", "due", "expired"}]
    BY <1>1 DEF Age, TypeOK, Cert
  <2>. QED
    BY <1>1, <2>1, BoundAssumption, TypeParts, TypeWhole
    DEF Age, Disturb, Rest, PodsOK, Cert
<1>2. CASE DeleteSecret
  BY <1>2, BoundAssumption, TypeParts, TypeWhole
  DEF DeleteSecret, Disturb, Rest, PodsOK, Cert
<1>3. CASE Upgrade
  <2>1. \A i \in Pods : PodOK([pod[i] EXCEPT !.current = FALSE], made)
    BY TypeParts DEF PodsOK, PodOK, PodRec
  <2>2. PodsOK'
    BY <1>3, <2>1 DEF Upgrade, Upgraded, PodsOK
  <2>. QED
    BY <1>3, <2>2, BoundAssumption, TypeParts, TypeWhole
    DEF Upgrade, Disturb, Rest, Cert
<1>4. ASSUME NEW i \in Pods, CreatePod(i)
      PROVE  TypeOK'
  <2>1. PodsOK'
    BY <1>4, NewPodOK, OnePodOnly DEF CreatePod, TypeOK
  <2>. QED
    BY <1>4, <2>1, TypeParts, TypeWhole
    DEF CreatePod, Rest, Cert
<1>5. ASSUME NEW i \in Pods, DeletePod(i)
      PROVE  TypeOK'
  <2>1. PodsOK'
    BY <1>5, NewPodOK, OnePodOnly DEF DeletePod, TypeOK
  <2>2. newest' \in Pods
    <3>1. PICK j \in There \ {i} : TRUE
      BY <1>5 DEF DeletePod
    <3>2. (CHOOSE k \in There \ {i} : TRUE) \in There \ {i}
      BY <3>1
    <3>. QED
      BY <1>5, <3>2 DEF DeletePod, There, TypeOK
  <2>3. lost' \in BOOLEAN
    BY <1>5 DEF DeletePod
  <2>. QED
    BY <1>5, <2>1, <2>2, <2>3, TypeParts, TypeWhole
    DEF DeletePod, Rest, Cert
<1>6. ASSUME NEW i \in Pods, Mount(i)
      PROVE  TypeOK'
  <2>1. PodOK([pod[i] EXCEPT !.mount = secret], made)
    BY DEF PodOK, TypeOK, PodRec, Cert
  <2>2. PodsOK'
    BY <1>6, <2>1, OnePodOnly DEF Mount, TypeOK
  <2>. QED
    BY <1>6, <2>2, TypeParts, TypeWhole
    DEF Mount, Rest, Cert
<1>7. ASSUME NEW i \in Pods, BecomeReady(i)
      PROVE  TypeOK'
  <2>1. PodOK([pod[i] EXCEPT !.ready = TRUE], made)
    BY DEF PodOK, TypeOK, PodRec, Cert
  <2>2. PodsOK'
    BY <1>7, <2>1, OnePodOnly DEF BecomeReady, TypeOK
  <2>. QED
    BY <1>7, <2>2, TypeParts, TypeWhole
    DEF BecomeReady, Rest, Cert
<1>. QED
  BY <1>1, <1>2, <1>3, <1>4, <1>5, <1>6, <1>7 DEF Deployment

LEMMA DisturbType ==
  ASSUME TypeOK, Disturb
  PROVE  disturbances' \in 0..MaxDisturbances
  BY BoundAssumption DEF TypeOK, Disturb

\* A step that moves one pod on and leaves the certificates alone.
LEMMA MoveType ==
  ASSUME TypeOK, NEW i \in Pods, NEW r, PodOK(r, made),
         pod' = [pod EXCEPT ![i] = r],
         UNCHANGED <<made, age, newest>>,
         secret' \in Cert \cup {None}, ca' \in [Hooks -> Cert \cup {None}],
         Disturb \/ UNCHANGED disturbances, lost' \in BOOLEAN
  PROVE  TypeOK'
<1>1. PodsOK'
  BY OnePodOnly
<1>2. disturbances' \in 0..MaxDisturbances
  BY DisturbType DEF TypeOK
<1>3. Cert' = Cert
  BY DEF Cert
<1>. QED
  BY <1>1, <1>2, <1>3, TypeParts, TypeWhole DEF Rest

\* The steps of Start.
LEMMA StartType ==
  ASSUME TypeOK, NEW i \in Pods,
         \/ StartAdopts(i) \/ StartCreates(i) \/ StartSaves(i) \/ StartFails(i)
         \/ Crash(i)
  PROVE  TypeOK'
<1>0. PodOK(pod[i], made) /\ pod[i] \in PodRec /\ ca \in [Hooks -> Cert \cup {None}]
  BY TypeParts DEF PodsOK, PodOK, Rest
<1>1. CASE StartAdopts(i)
  <2>1. PodOK([pod[i] EXCEPT !.st = "run", !.own = secret], made)
    <3>1. secret \in 1..made /\ secret \in Nat /\ secret # None
      BY <1>1 DEF StartAdopts, ValidInSecret, TypeOK, Cert
    <3>. QED
      BY <1>0, <3>1 DEF PodOK, PodRec
  <2>2. pod' = [pod EXCEPT ![i] = [pod[i] EXCEPT !.st = "run", !.own = secret]]
    BY <1>0, <1>1 DEF StartAdopts, TypeOK
  <2>. QED
    BY <1>1, <2>1, <2>2, MoveType DEF StartAdopts, TypeOK
<1>2. CASE StartCreates(i)
  <2>1. [pod[i] EXCEPT !.st = "save"] \in PodRec
    BY <1>0 DEF PodRec
  <2>2. [pod[i] EXCEPT !.st = "save"].mount \in Cert \cup {None}
    BY <1>0 DEF PodOK, PodRec, Cert
  <2>3. /\ PodsOK' /\ made' \in Nat
        /\ age' \in [Cert' -> {"fresh", "due", "expired"}] /\ Cert \subseteq Cert'
    BY <1>2, <2>1, <2>2, CreateKeeps DEF StartCreates
  <2>4. disturbances' \in 0..MaxDisturbances
    BY <1>2, DisturbType DEF StartCreates, TypeOK
  <2>. QED
    BY <1>2, <2>3, <2>4, TypeParts, TypeWhole DEF StartCreates, Rest
<1>3. CASE StartSaves(i)
  <2>1. PodOK([pod[i] EXCEPT !.st = "run"], made) /\ pod[i].own \in Cert \cup {None}
    BY <1>0, <1>3 DEF StartSaves, PodOK, PodRec, Cert
  <2>2. pod' = [pod EXCEPT ![i] = [pod[i] EXCEPT !.st = "run"]]
    BY <1>3 DEF StartSaves, TypeOK
  <2>3. lost' \in BOOLEAN /\ secret' = pod[i].own
    BY <1>3 DEF StartSaves, Save
  <2>. QED
    BY <1>0, <1>3, <2>1, <2>2, <2>3, MoveType DEF StartSaves
<1>4. CASE StartFails(i)
  <2>1. PodOK(Restarted(i), made) /\ pod[i].own \in Cert \cup {None}
    BY <1>0, RestartedOK DEF PodOK, Cert
  <2>2. lost' \in BOOLEAN /\ secret' \in Cert \cup {None}
    BY <1>4, <2>1 DEF StartFails, Save, TypeOK
  <2>. QED
    BY <1>0, <1>4, <2>1, <2>2, MoveType DEF StartFails
<1>5. CASE Crash(i)
  <2>1. PodOK(Restarted(i), made)
    BY RestartedOK
  <2>2. lost' \in BOOLEAN /\ secret \in Cert \cup {None}
    BY <1>5 DEF Crash, TypeOK
  <2>. QED
    BY <1>0, <1>5, <2>1, <2>2, MoveType DEF Crash
<1>. QED
  BY <1>1, <1>2, <1>3, <1>4, <1>5

\* The steps of watchPodReady.
LEMMA HookType ==
  ASSUME TypeOK, NEW i \in Pods,
         SeeReady(i) \/ UpdateConfiguration(i) \/ UpdateFails(i)
  PROVE  TypeOK'
<1>0. /\ PodOK(pod[i], made) /\ pod[i] \in PodRec
      /\ ca \in [Hooks -> Cert \cup {None}] /\ secret \in Cert \cup {None}
  BY TypeParts DEF PodsOK, PodOK, Rest
<1>1. \A where \in {"wait", "mutating", "validating", "done"} :
        PodOK([pod[i] EXCEPT !.hook = where], made)
  BY <1>0 DEF PodOK, PodRec
<1>2. PICK where \in {"wait", "mutating", "validating", "done"} : Goto(i, "hook", where)
  BY DEF SeeReady, UpdateConfiguration, UpdateFails
<1>3. pod' = [pod EXCEPT ![i] = [pod[i] EXCEPT !.hook = where]]
  BY <1>2 DEF Goto
<1>4. CASE UpdateConfiguration(i)
  <2>1. pod[i].own \in Cert \cup {None} /\ pod[i].hook \in Hooks
    BY <1>0, <1>4 DEF PodOK, Cert, UpdateConfiguration
  <2>2. ca' \in [Hooks -> Cert \cup {None}] /\ lost' \in BOOLEAN
    BY <1>0, <1>4, <2>1 DEF UpdateConfiguration
  <2>. QED
    BY <1>0, <1>1, <1>3, <1>4, <2>2, MoveType DEF UpdateConfiguration
<1>5. CASE SeeReady(i) \/ UpdateFails(i)
  BY <1>0, <1>1, <1>3, <1>5, MoveType DEF SeeReady, UpdateFails, TypeOK
<1>. QED
  BY <1>4, <1>5

\* The steps of watchCertificate.
LEMMA WatchType ==
  ASSUME TypeOK, NEW i \in Pods,
         \/ CheckRenews(i) \/ WatchSaves(i) \/ RestartPod(i)
         \/ WatchFails(i) \/ RestartFails(i)
  PROVE  TypeOK'
<1>0. /\ PodOK(pod[i], made) /\ pod[i] \in PodRec
      /\ ca \in [Hooks -> Cert \cup {None}] /\ secret \in Cert \cup {None}
  BY TypeParts DEF PodsOK, PodOK, Rest
<1>1. \A where \in {"check", "save", "restart"} :
        PodOK([pod[i] EXCEPT !.watch = where], made)
  BY <1>0 DEF PodOK, PodRec
<1>2. CASE CheckRenews(i)
  <2>1. /\ [pod[i] EXCEPT !.watch = "save"] \in PodRec
        /\ [pod[i] EXCEPT !.watch = "save"].mount \in Cert \cup {None}
    BY <1>0 DEF PodOK, PodRec, Cert
  <2>2. /\ PodsOK' /\ made' \in Nat
        /\ age' \in [Cert' -> {"fresh", "due", "expired"}] /\ Cert \subseteq Cert'
    BY <1>2, <2>1, CreateKeeps DEF CheckRenews
  <2>. QED
    BY <1>2, <2>2, TypeParts, TypeWhole DEF CheckRenews, Rest
<1>3. CASE WatchSaves(i)
  <2>1. pod[i].own \in Cert \cup {None} /\ secret' = pod[i].own /\ lost' \in BOOLEAN
    BY <1>0, <1>3 DEF PodOK, Cert, WatchSaves, Save
  <2>2. pod' = [pod EXCEPT ![i] = [pod[i] EXCEPT !.watch = "restart"]]
    BY <1>3 DEF WatchSaves
  <2>. QED
    BY <1>0, <1>1, <1>3, <2>1, <2>2, MoveType DEF WatchSaves
<1>4. CASE RestartPod(i)
  <2>1. \A j \in Pods : PodOK([pod[j] EXCEPT !.current = FALSE], made)
    BY TypeParts DEF PodsOK, PodOK, PodRec
  <2>2. PodOK([[pod[i] EXCEPT !.current = FALSE] EXCEPT !.watch = "check"], made)
    BY <2>1 DEF PodOK, PodRec
  <2>3. \A j \in Pods : pod'[j] =
          IF j = i THEN [[pod[i] EXCEPT !.current = FALSE] EXCEPT !.watch = "check"]
          ELSE [pod[j] EXCEPT !.current = FALSE]
    BY <1>4 DEF RestartPod, Upgraded
  <2>4. pod' = [j \in Pods |-> pod'[j]] /\ made' = made
    BY <1>4 DEF RestartPod, Upgraded
  <2>5. PodsOK'
    BY <2>1, <2>2, <2>3, <2>4 DEF PodsOK
  <2>. QED
    BY <1>4, <2>5, TypeParts, TypeWhole DEF RestartPod, Rest, Cert
<1>5. CASE WatchFails(i)
  BY <1>0, <1>1, <1>5, MoveType DEF WatchFails, TypeOK
<1>6. CASE RestartFails(i)
  BY <1>0, <1>1, <1>6, MoveType DEF RestartFails, Goto, TypeOK
<1>. QED
  BY <1>2, <1>3, <1>4, <1>5, <1>6

\* A certificate in use was made, and a pod that runs holds one.
THEOREM CertManagerTypeCorrect == Spec => []TypeOK
<1>1. TypeOK /\ [Next]_vars => TypeOK'
  <2> SUFFICES ASSUME TypeOK, [Next]_vars PROVE TypeOK'
    OBVIOUS
  <2>1. CASE UNCHANGED vars
    BY <2>1 DEF vars, TypeOK, Cert
  <2>2. CASE Next
    BY <2>2, ClusterType, StartType, HookType, WatchType
    DEF Next, PodStep, HookStep, WatchStep, Faults
  <2>. QED
    BY <2>1, <2>2
<1>. QED
  BY <1>1, TypeInit, PTL DEF Spec

-----------------------------------------------------------------------------
(* What works goes on working.                                             *)

\* A pod that is in line with the certificate c.
InLine(r, c) ==
  /\ r.mount \in {c, None} /\ (r.ready => r.mount # None)
  /\ r.st = "start" \/ (r.st = "run" /\ r.own = c)
  /\ r.watch = "check"

LEMMA WorkingIs ==
  Working <=> /\ ~NeedsRenewal /\ secret # None
              /\ \A h \in Hooks : ca[h] = secret
              /\ \A i \in Pods : pod[i].st = "none" \/ InLine(pod[i], secret)
  BY DEF Working, InLine, There

\* One pod changes and stays in line.
LEMMA OneInLine ==
  ASSUME TypeOK, Working, UNCHANGED <<age, secret, ca>>, NEW i \in Pods, NEW r,
         pod' = [pod EXCEPT ![i] = r], r.st = "none" \/ InLine(r, secret)
  PROVE  Working'
<1>1. \A j \in Pods : pod'[j].st = "none" \/ InLine(pod'[j], secret')
  BY WorkingIs DEF TypeOK
<1>2. /\ ~NeedsRenewal' /\ secret' # None
      /\ \A h \in Hooks : ca'[h] = secret'
  BY DEF Working, NeedsRenewal
<1>. QED
  BY <1>1, <1>2 DEF Working, InLine, There

LEMMA WorkingStep ==
  ASSUME TypeOK, Working, Next, made' = made, age' = age, secret' # None
  PROVE  Working'
<1>1. /\ secret # None /\ secret \in Cert /\ age[secret] = "fresh" /\ ~NeedsRenewal
      /\ ca \in [Hooks -> Cert \cup {None}] /\ \A h \in Hooks : ca[h] = secret
      /\ pod \in [Pods -> PodRec]
  BY DEF Working, NeedsRenewal, TypeOK
<1>2. ASSUME NEW i \in Pods, pod[i].st # "none"
      PROVE  InLine(pod[i], secret) /\ pod[i] \in PodRec
  BY <1>1, <1>2, WorkingIs
<1>3. CASE Age \/ DeleteSecret
  <2>1. CASE Age
    <3>1. age'[secret] = "due"
      BY <1>1, <2>1 DEF Age, TypeOK, Cert
    <3>. QED
      BY <1>1, <3>1
  <2>. QED
    BY <1>3, <2>1 DEF DeleteSecret
<1>4. CASE Upgrade
  <2>1. \A j \in Pods : pod'[j].st = "none" \/ InLine(pod'[j], secret')
    BY <1>1, <1>2, <1>4 DEF Upgrade, Upgraded, InLine, PodRec
  <2>. QED
    BY <1>1, <1>4, <2>1 DEF Upgrade, Working, InLine, There, NeedsRenewal
<1>5. ASSUME NEW i \in Pods, CreatePod(i) \/ DeletePod(i)
      PROVE  Working'
  <2>1. InLine(NewPod, secret) /\ NoPod.st = "none"
    BY DEF InLine, NewPod, NoPod
  <2>. QED
    BY <1>5, <2>1, OneInLine DEF CreatePod, DeletePod
<1>6. ASSUME NEW i \in Pods, Mount(i) \/ BecomeReady(i) \/ StartAdopts(i) \/ Crash(i)
      PROVE  Working'
  <2>1. InLine(pod[i], secret) /\ pod[i] \in PodRec
    BY <1>2, <1>6 DEF Mount, BecomeReady, StartAdopts, Crash, There
  <2>2. CASE Mount(i)
    <3>1. InLine([pod[i] EXCEPT !.mount = secret], secret)
      BY <1>1, <2>1 DEF InLine, PodRec
    <3>. QED
      BY <2>2, <3>1, OneInLine DEF Mount
  <2>3. CASE BecomeReady(i)
    <3>1. InLine([pod[i] EXCEPT !.ready = TRUE], secret)
      BY <2>1, <2>3 DEF BecomeReady, InLine, PodRec
    <3>. QED
      BY <2>3, <3>1, OneInLine DEF BecomeReady
  <2>4. CASE StartAdopts(i)
    <3>1. InLine([pod[i] EXCEPT !.st = "run", !.own = secret], secret)
      BY <2>1 DEF InLine, PodRec
    <3>2. pod' = [pod EXCEPT ![i] = [pod[i] EXCEPT !.st = "run", !.own = secret]]
      BY <1>1, <2>4 DEF StartAdopts
    <3>. QED
      BY <2>4, <3>1, <3>2, OneInLine DEF StartAdopts
  <2>5. CASE Crash(i)
    <3>1. InLine(Restarted(i), secret)
      BY <2>1 DEF InLine, PodRec, Restarted, NewPod
    <3>. QED
      BY <2>5, <3>1, OneInLine DEF Crash
  <2>. QED
    BY <1>6, <2>2, <2>3, <2>4, <2>5
<1>7. ASSUME NEW i \in Pods, SeeReady(i) \/ UpdateConfiguration(i) \/ UpdateFails(i)
      PROVE  Working'
  <2>1. /\ pod[i].st = "run" /\ InLine(pod[i], secret) /\ pod[i] \in PodRec
        /\ pod[i].own = secret
    BY <1>2, <1>7 DEF SeeReady, UpdateConfiguration, UpdateFails, InLine
  <2>2. PICK where : pod' = [pod EXCEPT ![i] = [pod[i] EXCEPT !.hook = where]]
    BY <1>7 DEF SeeReady, UpdateConfiguration, UpdateFails, Goto
  <2>3. InLine([pod[i] EXCEPT !.hook = where], secret)
    BY <2>1 DEF InLine, PodRec
  <2>4. ca' = ca /\ secret' = secret
    BY <1>1, <1>7, <2>1 DEF SeeReady, UpdateConfiguration, UpdateFails
  <2>. QED
    BY <2>2, <2>3, <2>4, OneInLine
<1>8. ASSUME NEW i \in Pods, StartSaves(i) \/ StartFails(i)
      PROVE  FALSE
  BY <1>2, <1>8 DEF StartSaves, StartFails, InLine
<1>9. ASSUME NEW i \in Pods, StartCreates(i) \/ CheckRenews(i)
      PROVE  FALSE
  BY <1>9 DEF StartCreates, CheckRenews, Create, TypeOK
<1>10. ASSUME NEW i \in Pods,
              WatchSaves(i) \/ RestartPod(i) \/ WatchFails(i) \/ RestartFails(i)
       PROVE  FALSE
  BY <1>2, <1>10 DEF WatchSaves, RestartPod, WatchFails, RestartFails, InLine
<1>. QED
  BY <1>3, <1>4, <1>5, <1>6, <1>7, <1>8, <1>9, <1>10
  DEF Next, Deployment, PodStep, HookStep, WatchStep, Faults

\* Nothing but a new certificate, the end of the present one or the loss of the
\* Secret breaks what works.
THEOREM WorkingWebhooksLast == Spec => WorkingLasts
<1> DEFINE Lasts == Working /\ made' = made /\ age' = age /\ secret' # None
                      => Working' /\ Trusted'
<1>1. Working' => Trusted'
  BY DEF Working, Trusted, There
<1>2. TypeOK /\ [Next]_vars => [Lasts]_vars
  BY <1>1, WorkingStep DEF vars
<1>. QED
  BY <1>2, CertManagerTypeCorrect, PTL DEF Spec, WorkingLasts
=============================================================================
