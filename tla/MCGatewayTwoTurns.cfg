CONSTANTS
  c1 = c1
  c2 = c2
  c3 = c3
  ta = ta
  tb = tb
  Ops <- ThreeCalls
  Turns = {ta, tb}
  TurnOf <- TwoTurns
  Embeds = {c3}
  MaxCalls = 1
  MaxTurn = 1
  Cap = 2
  Extra <- NoSupplement
  Development = FALSE
  MaxNusd = 2
  LastMonth = 2
  MaxLag = 1
SPECIFICATION FairSpec
INVARIANT GatewayTypeOK
INVARIANT CallsBounded
INVARIANT MoneyIsKept
INVARIANT TurnWithinAllowance
INVARIANT WithinCap
CHECK_DEADLOCK FALSE
PROPERTY LedgerSpec
PROPERTY CallsEnd
