\* Processes die, round trips to the lock and to the database fail.
SPECIFICATION FairSpec
CONSTANTS
  j1 = j1
  j2 = j2
  j3 = j3
  a = a
  b = b
  Products = {a}
  Workers = {w1, w2}
  Jobs = {j1, j2}
  CardJobs = {j1}
  Cart <- OneProductCarts
  Qty <- OneProductQty
  InitialStock <- OneProductStock
  Attempts = 1
  MaxStalled = 1
  LocksEnabled = TRUE
  Faults = {"crash", "redis", "mongo"}
  NoLock = NoLock
  NoRun = NoRun
INVARIANTS
  StockNonNegative
PROPERTIES
  ImplementsGuard
  EventuallyQuiet
CHECK_DEADLOCK FALSE
