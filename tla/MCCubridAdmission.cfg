\* Two resources, for the check of one against the other; a creation and two
\* edits of it, or two creations and an edit.
SPECIFICATION FairSpec
CONSTANTS
  Dbs = {x, y}
  Masters = {m}
  NoRef = NoRef
  Unset = Unset
  Ports <- MCPorts
  StorageLists <- MCStorageLists
  Manifests <- MCManifests
  MaxChanges = 3
INVARIANTS
  TypeOK
  StoredIsSound
  OwnPatchAccepted
PROPERTIES
  FixedFields
  DefaultsConverge
CHECK_DEADLOCK FALSE
