--------------------------- MODULE MCBrokerAccess ---------------------------
(***************************************************************************)
(* BrokerAccess on small sets, for TLC: one broker with one node port and  *)
(* a pod; or two brokers with two node ports, of which users edit the spec *)
(* only, so that the Service of one stands in the way of the other.        *)
(***************************************************************************)
EXTENDS BrokerAccess

CONSTANTS TheBroker, ThePort

ASSUME FocusAssumption == TheBroker \in Brokers /\ ThePort \in Ports

\* No other broker and no other node port is, or is still thought to be, there.
OneBroker ==
  /\ \A copy \in {spec, specCache, srec.spec, erec.spec}, b \in Brokers :
       copy[b] \in IF b = TheBroker THEN {ThePort, ClusterIP, None} ELSE {None}
  /\ svc[TheBroker] \in {ThePort, Edited, None}
  /\ \A b \in Brokers \ {TheBroker} : svc[b] = None /\ svcCache[b] = None
  /\ taken \subseteq {ThePort}

\* No pods, no faults, no foreign, changed or deleted Service.
EditsOnly ==
  /\ pods = NoPods /\ podCache = NoPods
  /\ taken = {} /\ faults = 0
  /\ \A b \in Brokers :
       /\ ClusterIP \notin {spec[b], specCache[b], srec.spec[b], erec.spec[b]}
       /\ svc[b] # Edited
       /\ svc[b] = None => svcCache[b] = None

\* The steps that leave this are the users', the cluster's and faults, which are
\* free not to happen: it cuts off no step that fairness asks for.
Focus == OneBroker \/ EditsOnly
=============================================================================
