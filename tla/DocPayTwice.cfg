SPECIFICATION PayPageSpec
CONSTANTS
  page = page
  n1 = n1
  n2 = n2
  Payers = {page}
  KindOf <- MCKindOf
  Bound = {}
  Nonces = {n1, n2}
  MaxCap = 2
  MaxIntents = 1
CHECK_DEADLOCK FALSE
INVARIANTS
  DocPaidOnce
