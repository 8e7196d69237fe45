\* Two pods (a rolling update of one replica); two disturbances.
CONSTANTS
  Pods = {a, b}
  None = None
  MaxDisturbances = 2
SPECIFICATION FairSpec
CONSTRAINT NothingLost
INVARIANTS
  TypeOK
PROPERTIES
  WorkingLasts
  TrustConverges
CHECK_DEADLOCK FALSE
