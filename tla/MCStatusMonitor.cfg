\* Two resources, so that an error of one may hide the other.
SPECIFICATION FairSpec
CONSTANTS
  Gone = Gone
  Single = Single
  Dbs = {x, y}
  Pods = {p, q}
  MaxChanges = 2
  MaxFaults = 1
INVARIANTS
  TypeOK
  FreshStatusIsTrue
PROPERTIES
  ObservationsInOrder
  StatusConverges
CHECK_DEADLOCK FALSE
