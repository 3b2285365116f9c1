\* The services beside the queue's guard, one at a time.
SPECIFICATION ServicesSpec
CONSTANTS
  \* direct orders, and a queue without Redis
  j1 = j1
  j2 = j2
  p1 = p1
  p2 = p2
  p3 = p3
  Products = {p1, p2}
  Workers = {w1, w2}
  Jobs = {j1, j2}
  CardJobs = {j1}
  Cart <- CrossedCarts
  Qty <- CrossedQty
  InitialStock <- CrossedStock
  Attempts = 1
  MaxStalled = 1
  LocksEnabled = FALSE
  Faults = {}
  NoLock = NoLock
  NoRun = NoRun
  Purchases = {d1}
  Wants <- OneOfEach
  Uses <- TwoPoints
  Earns <- OnePoint
  InitialPoints = 3
  \* fulfilment
  PickOrders = {o1}
  OrderItems <- BulkyItems
  Pickers = {k1, k2}
  PickAttempts = 3
  MaxPickStalls = 1
  MaxPickCalls = 2
  MaxPickErrors = 3
  NoOrder = NoOrder
  \* the ChatOps engine
  Commands = {c1, c2, c3}
  FetchAttempts = 3
  FailureThreshold = 3
  SuccessThreshold = 1
  \* a channel's history
  ChatMessages = {m1, m2, m3}
  ChatCommands = {m1}
  Readers = {q1}
  HistoryLimit = 4
  MaxChatFaults = 1
  Welcome = Welcome
  Unloaded = Unloaded
  \* a cart
  Goods = {p1, p2}
  OnHand <- TwoOfEach
  Edits = {"add", "slug", "update", "remove", "merge", "clear"}
  EditOf <- CartEdits
  Basket <- OneLine
  NoCart = NoCart
INVARIANTS
  ServicesTypeOK
  LostOnlyByOverwriting
  JobAndOrderAgree
  PointsAddUp
  EverythingPicked
  LogTellsOutcome
  HistoryShowsStored
  WithinStock
PROPERTIES
  PickingEnds
  OpensOnStreak
  Recovers
  OnlyOwnLines
CHECK_DEADLOCK FALSE
