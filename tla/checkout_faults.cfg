\* Runs taken for abandoned, locks that expire under their holder, the cleanup.
SPECIFICATION Spec
CONSTANTS
  j1 = j1
  j2 = j2
  j3 = j3
  a = a
  b = b
  Products = {a}
  Workers = {w1, w2}
  Jobs = {j1, j2}
  CardJobs = {j1}
  Cart <- OneProductCarts
  Qty <- OneProductQty
  InitialStock <- OneProductStock
  Attempts = 1
  MaxStalled = 1
  LocksEnabled = TRUE
  Faults = {"stall", "expire", "sweep"}
  NoLock = NoLock
  NoRun = NoRun
INVARIANTS
  RunsBounded
PROPERTIES
  NoForeignRelease
CHECK_DEADLOCK FALSE
