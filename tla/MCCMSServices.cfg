\* Two replicas, three node ports.
CONSTANTS
  MaxReplicas = 2
  LastPort = 2
  StartPort = 0
  Dashed = FALSE
  None = None
  MaxChanges = 2
  MaxFaults = 1
SPECIFICATION FairSpec
INVARIANTS
  TypeOK
PROPERTIES
  SettledLasts
  NodePortsConverge
  IngressConverges
CHECK_DEADLOCK FALSE
