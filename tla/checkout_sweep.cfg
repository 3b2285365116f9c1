\* The periodic cleanup runs beside two workers; nothing fails and no lock expires.
SPECIFICATION Spec
CONSTANTS
  j1 = j1
  j2 = j2
  j3 = j3
  a = a
  b = b
  Products = {a}
  Workers = {w1, w2}
  Jobs = {j1, j2, j3}
  CardJobs = {j1}
  Cart <- OneProductCarts
  Qty <- PairQty
  InitialStock <- SweepStock
  Attempts = 3
  MaxStalled = 1
  LocksEnabled = TRUE
  Faults = {"sweep"}
  NoLock = NoLock
  NoRun = NoRun
INVARIANTS
  StockNonNegative
CHECK_DEADLOCK FALSE
