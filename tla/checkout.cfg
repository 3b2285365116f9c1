\* Locks on, nothing fails: three orders over two products, two workers.
SPECIFICATION FairSpec
CONSTANTS
  j1 = j1
  j2 = j2
  j3 = j3
  a = a
  b = b
  Products = {a, b}
  Workers = {w1, w2}
  Jobs = {j1, j2, j3}
  CardJobs = {j1}
  Cart <- CrossedCarts
  Qty <- CrossedQty
  InitialStock <- CrossedStock
  Attempts = 3
  MaxStalled = 1
  LocksEnabled = TRUE
  Faults = {}
  NoLock = NoLock
  NoRun = NoRun
INVARIANTS
  TypeOK
  StockNonNegative
  NothingLost
  JobAndOrderAgree
  StockoutMarked
PROPERTIES
  OwnerKeepsLock
  ImplementsGuard
  EventuallyQuiet
CHECK_DEADLOCK FALSE
