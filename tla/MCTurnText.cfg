CONSTANTS
  Requests = {q1, q2}
  Capacity = 1
  Written = FALSE
  TurnSeconds = 2
  HelpSeconds = 2
  Grace = 1
  MaxAttempts = 2
  LastRelease = 2
SPECIFICATION Spec
INVARIANT FloorKept
CHECK_DEADLOCK FALSE
