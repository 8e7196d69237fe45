\* The smallest instance with a job and a retry that overlap: one pod, a third
\* goroutine, and versions for a life of the resource with one finalizer.
SPECIFICATION FairSpec
CONSTANTS
  daily = daily
  NoSchedule = NoSchedule
  p1 = p1
  r1 = r1
  r2 = r2
  r3 = r3
  None = None
  Schedule = {daily}
  MatchesRegex = {daily}
  Parsable = {daily}
  Admitted = {daily}
  Pod = {p1}
  Target = {p1}
  Routine = {r1, r2, r3}
  MaxAttempts = 1
  MaxVersion = 3
  MaxRestarts = 1
INVARIANTS
  TypeOK
  HandlesAreLive
  RetryBudget
PROPERTIES
  OnlyRetriesLeft
  QuietAfterDeletion
CHECK_DEADLOCK FALSE
