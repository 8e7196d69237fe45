------------------------- MODULE MCCubridAdmission -------------------------
(* CubridAdmission on small sets, for TLC.                                 *)
EXTENDS CubridAdmission, TLC

MCPorts == {0, 31000, 32768}

Dynamic == [name |-> "data", class |-> TRUE, template |-> "none",
            selector |-> FALSE, sound |-> TRUE]

Static == [Dynamic EXCEPT !.class = FALSE, !.template = "static", !.selector = TRUE]

\* One storage of each kind; a static one without its selector, one of both
\* kinds, two of one name, and one with a bad field.
MCStorageLists ==
  {<<Dynamic>>, <<Static>>,
   <<[Static EXCEPT !.selector = FALSE]>>, <<[Static EXCEPT !.class = TRUE]>>,
   <<Dynamic, Static>>, <<[Dynamic EXCEPT !.sound = FALSE]>>}

Single == [f \in Fields |-> CASE f = "enable" -> FALSE [] f = "ref" -> NoRef [] OTHER -> Unset]

Master == [Single EXCEPT !.enable = TRUE]

Replica(m) == [Master EXCEPT !.type = "replica", !.ref = m]

\* A plain group of each kind, and HA groups with one field set.
MCManifests ==
  LET groups == {Master} \cup {Replica(m) : m \in Masters}
  IN {Single} \cup groups
       \cup {[m EXCEPT !.type = t] : m \in groups, t \in Values.type}
       \cup {[m EXCEPT !.anti = a] : m \in groups, a \in BOOLEAN}
       \cup {[Master EXCEPT !.storage = l] : l \in StorageLists}
=============================================================================
