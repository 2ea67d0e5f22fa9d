CONSTANTS
  q1 = q1
  q2 = q2
  c1 = c1
  c2 = c2
  directory = directory
  names = names
  Questions <- TwoQuestions
  Callers <- TwoCallers
  Names <- TwoNames
  Pinned <- OnePinned
  LastPointer = 3
  LastActive = 2
SPECIFICATION MCSpec
PROPERTY NeverMeansNever
CHECK_DEADLOCK FALSE
