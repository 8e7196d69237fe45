--------------------------- MODULE EndpointsSweep ---------------------------
(***************************************************************************)
(* What the endpoint controller promises about the Endpoints of a          *)
(* CubridDB's brokers: they come from sweeps.  A sweep finds pods once and *)
(* publishes for each broker all of them, or those of them that serve.     *)
(* Endpoints go when a sweep has found no pod, and with the Service of     *)
(* their name; nothing else takes them away.  How pods are found, asked    *)
(* and copied, and what is refused or fails, is detail that BrokerAccess   *)
(* adds and hides again behind this module.                                *)
(***************************************************************************)
CONSTANTS
  Brokers,     \* names of brokers
  Addresses,   \* addresses pods may have
  Settings,    \* settings of a broker
  None         \* no broker, no Endpoints

VARIABLES
  eps,         \* the Endpoints of each broker
  offered,     \* the brokers with a Service
  found,       \* the addresses the present sweep has found,
  port         \* and the setting it goes by for each broker

vars == <<eps, offered, found, port>>

Init ==
  /\ eps = [b \in Brokers |-> None]
  /\ offered = {}
  /\ found = {}
  /\ port = [b \in Brokers |-> None]

-----------------------------------------------------------------------------

\* The end of a sweep is one that has found nothing and goes by nothing.
Sweep ==
  /\ found' \in SUBSET Addresses
  /\ port' \in [Brokers -> Settings \cup {None}]
  /\ UNCHANGED <<eps, offered>>

\* A broker's turn, which may be the last.
Turn ==
  /\ \/ UNCHANGED <<found, port>>
     \/ found' = {} /\ port' = [b \in Brokers |-> None]
  /\ UNCHANGED offered

\* The pods that serve, or all there are where none does.
Publish(b) ==
  /\ port[b] # None
  /\ found # {}
  /\ \E ready \in SUBSET found :
       eps' = [eps EXCEPT ![b] =
         [port |-> port[b], ready |-> ready,
          notReady |-> IF ready = {} THEN found ELSE {}]]
  /\ Turn

Withdraw(b) ==
  /\ port[b] # None
  /\ found = {}
  /\ eps' = [eps EXCEPT ![b] = None]
  /\ Turn

Offer(b) ==
  /\ offered' = offered \cup {b}
  /\ UNCHANGED <<eps, found, port>>

\* Endpoints go with their Service.
Remove(b) ==
  /\ b \in offered
  /\ offered' = offered \ {b}
  /\ eps' = [eps EXCEPT ![b] = None]
  /\ UNCHANGED <<found, port>>

Next ==
  \/ Sweep
  \/ \E b \in Brokers : Publish(b) \/ Withdraw(b) \/ Offer(b) \/ Remove(b)

Spec == Init /\ [][Next]_vars

-----------------------------------------------------------------------------

\* Endpoints have an address at least, and list pods that serve or pods that do
\* not, never both: a client is not sent to a pod that is known not to listen.
Clear ==
  \A b \in Brokers : eps[b] # None =>
    /\ eps[b].ready \cup eps[b].notReady # {}
    /\ eps[b].ready = {} \/ eps[b].notReady = {}
=============================================================================
