CONSTANTS
  o1 = o1
  o2 = o2
  o3 = o3
  Ops <- ThreeOps
  Cap = 2
  Extra <- FirstMonthSupplement
  Development = TRUE
  MaxNusd = 2
  LastMonth = 3
  MaxLag = 0
  v1 = v1
  v2 = v2
  v3 = v3
  Voters <- ThreePicks
  Allowance = 3
  TurnSeconds = 3
  PickSeconds = 2
  GraceSeconds = 1
  AskSeconds = 1
  Rounds = 2
  MaxAbove = 1
SPECIFICATION MCSpec
CHECK_DEADLOCK FALSE
INVARIANT PicksTypeOK
INVARIANT SpendBounded
INVARIANT LedgerTypeOK
INVARIANT WithinCap
PROPERTY NoAdmissionAfterOverrun
PROPERTY SettledIsFinal
PROPERTY ImplementsAllowance
PROPERTY PicksEnd
