CONSTANTS
  Requests = {q1, q2}
  Capacity = 1
  Written = TRUE
  TurnSeconds = 2
  HelpSeconds = 2
  Grace = 1
  MaxAttempts = 2
  LastRelease = 2
SPECIFICATION Spec
INVARIANT EmergencyNeverTimesOut
CHECK_DEADLOCK FALSE
