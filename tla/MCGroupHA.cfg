\* A master and a replica; two changes and one fault.
CONSTANTS
  Masters = {m0}
  Replicas = {r0}
  None = None
  MaxChanges = 2
  MaxFaults = 1
SPECIFICATION FairSpec
INVARIANTS
  TypeOK
  SyncMatchesNodes
PROPERTIES
  SettledLasts
  HAConverges
CHECK_DEADLOCK FALSE
