SPECIFICATION FairScheduleSpec
CONSTANTS
  NoSchedule = NoSchedule
  p1 = p1
  Schedule <- MCSchedule
  MatchesRegex <- MCMatchesRegex
  Parsable <- MCParsable
  Admitted <- MCAdmitted
  Pod = {p1}
  MaxVersion = 6
  MaxRestarts = 1
INVARIANTS
  ScheduleTypeOK
  ScheduleInv
PROPERTIES
  ImplementsGuard
  ScheduleConverges
  DeletionCompletes
CHECK_DEADLOCK FALSE
