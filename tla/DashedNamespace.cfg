\* One replica in a namespace with a dash; nothing else happens.
CONSTANTS
  MaxReplicas = 1
  LastPort = 0
  StartPort = 0
  Dashed = TRUE
  None = None
  MaxChanges = 0
  MaxFaults = 0
SPECIFICATION FairSpec
PROPERTIES
  ServicesCreatedForPods
CHECK_DEADLOCK FALSE
