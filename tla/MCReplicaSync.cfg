\* HA mode: 0 can be scaled to and is not valid. Three edits: one that is undone,
\* and one to race with both.
SPECIFICATION FairSpec
CONSTANTS
  Size = {0, 1, 2, 3}
  Valid = {1, 2, 3}
  NoSize = NoSize
  MaxEdits = 3
  MaxLag = 3
INVARIANTS
  ReplicaTypeOK
  QuietIsAgreed
  LastEditWins
PROPERTY ReplicasConverge
CHECK_DEADLOCK FALSE
