\* One pod, one broker and one node port, or two brokers and two node ports.
CONSTANTS
  Pods = {p}
  Brokers = {b1, b2}
  Ports = {n1, n2}
  TheBroker = b1
  ThePort = n1
  ClusterIP = ClusterIP
  None = None
  Edited = Edited
  MaxChanges = 2
  MaxFaults = 1
SPECIFICATION FairSpec
CONSTRAINT Focus
INVARIANTS
  TypeOK
PROPERTIES
  SeenBeforeWritten
  ImplementsSweep
  EndpointsConverge
  
CHECK_DEADLOCK FALSE
