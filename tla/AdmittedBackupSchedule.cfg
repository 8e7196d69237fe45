\* A schedule the webhook admits and the controller cannot install: both
\* schedules are admitted, only one matches cronExprRegex.
SPECIFICATION FairScheduleSpec
CONSTANTS
  NoSchedule = NoSchedule
  p1 = p1
  Schedule <- MCTwoSchedules
  MatchesRegex <- MCMatchesRegex
  Parsable <- MCParsable
  Admitted <- MCAdmitted
  Pod = {p1}
  MaxVersion = 3
  MaxRestarts = 1
PROPERTIES
  AdmittedConverges
CHECK_DEADLOCK FALSE
