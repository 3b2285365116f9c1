\* Two orders of two units over three: the loser of the race retries on stock its own compensation made up.
SPECIFICATION Spec
CONSTANTS
  j1 = j1
  j2 = j2
  j3 = j3
  a = a
  b = b
  Products = {a}
  Workers = {w1, w2}
  Jobs = {j1, j2}
  CardJobs = {j1}
  Cart <- OneProductCarts
  Qty <- PairQty
  InitialStock <- PairStock
  Attempts = 3
  MaxStalled = 1
  LocksEnabled = TRUE
  Faults = {}
  NoLock = NoLock
  NoRun = NoRun
INVARIANTS
  SoldWithinStock
CHECK_DEADLOCK FALSE
