CONSTANTS
  Ops = {o1, o2, o3}
  Cap = 3
  Extra <- NoSupplement
  Development = FALSE
  MaxNusd = 3
  LastMonth = 2
  MaxLag = 1
SPECIFICATION LedgerSpec
SYMMETRY Symmetry
INVARIANT CapEnforced
