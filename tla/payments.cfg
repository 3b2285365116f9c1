\* A card order and another one for the last unit, events repeated and reordered.
SPECIFICATION PaymentsSpec
CONSTANTS
  a = a
  Products = {a}
  Workers = {w1}
  Jobs = {j1, j2}
  CardJobs = {j1}
  Cart <- OneProductCarts
  Qty <- OneProductQty
  InitialStock <- OneProductStock
  Attempts = 2
  MaxStalled = 1
  LocksEnabled = TRUE
  Faults = {}
  Hooks = {h1}
  MaxDeliveries = 2
  MaxHookErrors = 1
  AdminStatuses = {"shipped"}
  NoLock = NoLock
  NoRun = NoRun
  NoEvent = NoEvent
INVARIANTS
  PaymentsTypeOK
  PaidMeansCharged
  StatusHasCause
  ChargeShown
PROPERTIES
  ChargedIsPicked
CHECK_DEADLOCK FALSE
