\* One command goroutine is enough: its failure is written to the status.
SPECIFICATION RoutineSpec
CONSTANTS
  p1 = p1
  r1 = r1
  r2 = r2
  None = None
  Target = {p1}
  Routine = {r1, r2}
  MaxAttempts = 1
PROPERTY RetryAfterFailure
CHECK_DEADLOCK FALSE
