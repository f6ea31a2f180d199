SPECIFICATION BatchSpec
CONSTANTS
  c1 = c1
  c2 = c2
  c3 = c3
  Debits = {c1, c2, c3}
  DebitOf <- MCDebits
  CreatorBps = 3333
  MaxBatchCount = 2
  MaxBatchSeconds = 1
  MinEconomical = 3
  BatchCap = 9
  MaxSeq = 3
  MaxClock = 0
  Faults = {}
CHECK_DEADLOCK FALSE
INVARIANTS
  NoDebitLost
