---------------------------- MODULE CheckoutQueue ----------------------------
(***************************************************************************)
(* The checkout queue of the commerce backend                              *)
(* (backend/server/services/checkoutQueueService.ts) on top of the stock   *)
(* lock: jobs of a Bull queue, the workers (one per server process) that   *)
(* run the processor on them, the stock they decrement, the orders they    *)
(* confirm or fail.                                                        *)
(*                                                                         *)
(* An action is what the processor does between two awaits: one round trip *)
(* to Redis or to the database.  Everything else may run in between.       *)
(***************************************************************************)
EXTENDS StockLock

CONSTANTS
  Workers,       \* server processes; Bull gives each one job at a time
  Jobs,          \* one job per order: enqueueCheckout is called once for it
  Cart,          \* Cart[j]: the products of order j, in the order of its items
  CardJobs,      \* the orders paid by card, unpaid when they are enqueued
  Qty,           \* Qty[j][p]: the units of p order j asks for
  InitialStock,  \* units on hand before the first order
  Attempts,      \* `attempts: 3` of enqueueCheckout
  MaxStalled,    \* Bull's maxStalledCount, which nothing in the code changes
  LocksEnabled,  \* FALSE: no Redis, acquireStockLock returns null and phase 1
                 \* goes on without a lock
  Faults,        \* what the environment may do beside working
  NoRun          \* an idle worker's run

(***************************************************************************)
(* The environment's classes of steps that a run can switch on:            *)
(*  - crash: a server process dies between two round trips and restarts    *)
(*  - stall: Bull takes a slow but living worker's job for abandoned       *)
(*  - expire: a lock's 30 s run out while its holder still works           *)
(*  - sweep: cleanupExpiredLocks runs                                      *)
(*  - redis, mongo: a round trip to the lock or to the database fails      *)
(***************************************************************************)
FaultKinds == {"crash", "stall", "expire", "sweep", "redis", "mongo"}

ASSUME CheckoutAssumption ==
  /\ CardJobs \subseteq Jobs
  /\ Cart \in [Jobs -> Seq(Products)]
  /\ Qty \in [Jobs -> [Products -> Nat]]
  /\ InitialStock \in [Products -> Nat]
  /\ Attempts \in Nat \ {0}
  /\ MaxStalled \in Nat
  /\ LocksEnabled \in BOOLEAN
  /\ Faults \subseteq FaultKinds

\* The checkout route rejects an empty order (orders.ts:162) and an order
\* whose items name a product twice (orders.ts:221-222).
ASSUME CartAssumption ==
  \A j \in Jobs :
    /\ Cart[j] # <<>>
    /\ \A m, n \in DOMAIN Cart[j] : Cart[j][m] = Cart[j][n] => m = n

VARIABLES
  stock,    \* Product.stockQuantity
  inStock,  \* Product.inStock, which administrators set whatever the stock is
  order,    \* the status and the paymentStatus of each order
  job,      \* Bull's record of each job: state, attemptsMade, times stalled
  runs,     \* runs[j]: how often the processor was started on job j
  wk        \* wk[w]: where worker w is in the processor

redis == <<lock, sweep>>
shop == <<stock, inStock, order>>
bull == <<job, runs>>
vars == <<lock, sweep, stock, inStock, order, job, runs, wk>>

(***************************************************************************)
(* A run is one call of the processor.  `i` is the index of the item it is *)
(* at, `held` the keys of its `locks` map, `ok` whether it returned.       *)
(***************************************************************************)
RunIds == [job : Jobs, n : Nat]

Pcs == {"idle", "acquire", "backoff", "check", "decrement", "markout",
        "confirm", "compensate", "failorder", "release"}

Idle == [pc |-> "idle", run |-> NoRun, i |-> 1, held |-> {}, ok |-> FALSE]
Started(r) == [pc |-> "acquire", run |-> r, i |-> 1, held |-> {}, ok |-> FALSE]

ASSUME NullAssumption == NoRun \notin RunIds /\ NoLock \notin RunIds

CartOf(w) == Cart[wk[w].run.job]
ItemOf(w) == CartOf(w)[wk[w].i]
QtyOf(w, p) == Qty[wk[w].run.job][p]

Init ==
  /\ LockInit
  /\ stock = InitialStock
  /\ inStock \in [Products -> BOOLEAN]
  /\ order = [j \in Jobs |->
                IF j \in CardJobs THEN [status |-> "pending", payment |-> "pending"]
                                  ELSE [status |-> "confirmed", payment |-> "paid"]]
  /\ job = [j \in Jobs |-> [state |-> "waiting", attempts |-> 0, stalls |-> 0]]
  /\ runs = [j \in Jobs |-> 0]
  /\ wk = [w \in Workers |-> Idle]

-----------------------------------------------------------------------------
\* Bull hands a waiting job to an idle worker.
StartJob(w, j) ==
  /\ wk[w].pc = "idle"
  /\ job[j].state = "waiting"
  /\ job' = [job EXCEPT ![j].state = "active"]
  /\ runs' = [runs EXCEPT ![j] = @ + 1]
  /\ wk' = [wk EXCEPT ![w] = Started([job |-> j, n |-> runs[j] + 1])]
  /\ UNCHANGED <<redis, shop>>

\* The run goes to `pc` with the n-th item of its order.
Goto(w, pc, n) == [wk[w] EXCEPT !.pc = pc, !.i = n]

\* The loop over the items goes on with `loop`, or is done and `next` follows.
Advance(w, loop, next) ==
  IF wk[w].i < Len(CartOf(w)) THEN Goto(w, loop, wk[w].i + 1)
                              ELSE Goto(w, next, 1)

\* An error is thrown: the catch block starts with the first item.
Throw(w) == wk' = [wk EXCEPT ![w] = Goto(w, "compensate", 1)]

-----------------------------------------------------------------------------
(***************************************************************************)
(* Phase 1: a lock for each product, in the order of the items.            *)
(***************************************************************************)

\* Where a worker goes that returns from inside the loop, with one lock.
AfterFirstLock(w) == Goto(w, "check", 1)
AfterLock(w) == Advance(w, "acquire", "check")

AcquireLock(w) ==
  /\ LocksEnabled
  /\ wk[w].pc \in {"acquire", "backoff"}
  /\ SetNX(ItemOf(w), wk[w].run)
  /\ wk' = [wk EXCEPT ![w] = [AfterLock(w) EXCEPT !.held = @ \cup {ItemOf(w)}]]
  /\ UNCHANGED <<sweep, shop, bull>>

\* acquireStockLock without Redis: null, and the processor goes on.
SkipLock(w) ==
  /\ ~LocksEnabled
  /\ wk[w].pc = "acquire"
  /\ wk' = [wk EXCEPT ![w] = Advance(w, "acquire", "check")]
  /\ UNCHANGED <<redis, shop, bull>>

\* acquireStockLock, with or without Redis.
TakeLock(w) == IF LocksEnabled THEN AcquireLock(w) ELSE SkipLock(w)

\* The key is taken: wait LOCK_WAIT and try again.
LockBusy(w) ==
  /\ LocksEnabled
  /\ wk[w].pc = "acquire"
  /\ lock[ItemOf(w)] # NoLock
  /\ wk' = [wk EXCEPT ![w] = Goto(w, "backoff", wk[w].i)]
  /\ UNCHANGED <<redis, shop, bull>>

\* A worker that waits for as long as the key is taken.
NeverGivesUp(w) == FALSE
\* The 10 s since the first try may end in any wait; the lock is not looked at
\* again after it.
GivesUp(w) == wk[w].pc = "backoff"

LockTimeout(w) ==
  /\ GivesUp(w)
  /\ Throw(w)
  /\ UNCHANGED <<redis, shop, bull>>

-----------------------------------------------------------------------------
(***************************************************************************)
(* Phase 2: for each item read, check, decrement, mark out of stock.       *)
(* Phase 3: confirm the order.                                             *)
(***************************************************************************)

\* A check of the flag alone.
FlagSuffices(w) == inStock[ItemOf(w)]
StockSuffices(w) == inStock[ItemOf(w)] /\ stock[ItemOf(w)] >= QtyOf(w, ItemOf(w))

CheckStock(w) ==
  /\ wk[w].pc = "check"
  /\ IF StockSuffices(w)
     THEN wk' = [wk EXCEPT ![w] = Goto(w, "decrement", wk[w].i)]
     ELSE Throw(w)
  /\ UNCHANGED <<redis, shop, bull>>

Decremented(w) == [stock EXCEPT ![ItemOf(w)] = @ - QtyOf(w, ItemOf(w))]

\* $inc on the document as it is now, whatever the check saw.  The updated
\* document comes back; the flag is written by a save of its own.
DecrementStock(w) ==
  /\ wk[w].pc = "decrement"
  /\ stock' = Decremented(w)
  /\ wk' = [wk EXCEPT ![w] = IF stock'[ItemOf(w)] = 0
                             THEN Goto(w, "markout", wk[w].i)
                             ELSE Advance(w, "check", "confirm")]
  /\ UNCHANGED <<redis, inStock, order, bull>>

\* The document that was changed but not saved.
Unsaved(p) == inStock
OutOfStock(p) == [inStock EXCEPT ![p] = FALSE]

MarkOutOfStock(w) ==
  /\ wk[w].pc = "markout"
  /\ inStock' = OutOfStock(ItemOf(w))
  /\ wk' = [wk EXCEPT ![w] = Advance(w, "check", "confirm")]
  /\ UNCHANGED <<redis, stock, order, bull>>

\* Bull's word for the end of a job, where the order's belongs.
BullsWords == [status |-> "completed", payment |-> "completed"]
\* The payment's word for money that came in.
PaidByQueue == [status |-> "confirmed", payment |-> "paid"]
ConfirmedOrder == [status |-> "confirmed", payment |-> "completed"]

ConfirmOrder(w) ==
  /\ wk[w].pc = "confirm"
  /\ order' = [order EXCEPT ![wk[w].run.job] = ConfirmedOrder]
  /\ wk' = [wk EXCEPT ![w] = [Goto(w, "release", 1) EXCEPT !.ok = TRUE]]
  /\ UNCHANGED <<redis, stock, inStock, bull>>

\* A round trip throws: SET fails or the client cannot connect; a read, an
\* update or a save of phases 2 and 3 fails.
RoundTripFails(w) ==
  /\ \/ "redis" \in Faults /\ LocksEnabled /\ wk[w].pc \in {"acquire", "backoff"}
     \/ "mongo" \in Faults /\ wk[w].pc \in {"check", "decrement", "markout", "confirm"}
  /\ Throw(w)
  /\ UNCHANGED <<redis, shop, bull>>

\* SET took effect and its reply is lost: it throws, or the client sends it
\* again and is told that the key is taken.
SetReplyLost(w) ==
  /\ "redis" \in Faults /\ LocksEnabled
  /\ wk[w].pc \in {"acquire", "backoff"}
  /\ SetNX(ItemOf(w), wk[w].run)
  /\ Throw(w) \/ wk' = [wk EXCEPT ![w] = Goto(w, "backoff", wk[w].i)]
  /\ UNCHANGED <<sweep, shop, bull>>

\* An update or a save took effect and its reply is lost.
WriteReplyLost(w) ==
  /\ "mongo" \in Faults
  /\ \/ /\ wk[w].pc = "decrement"
        /\ stock' = Decremented(w) /\ UNCHANGED <<inStock, order>>
     \/ /\ wk[w].pc = "markout"
        /\ inStock' = OutOfStock(ItemOf(w)) /\ UNCHANGED <<stock, order>>
     \/ /\ wk[w].pc = "confirm"
        /\ order' = [order EXCEPT ![wk[w].run.job] = ConfirmedOrder]
        /\ UNCHANGED <<stock, inStock>>
  /\ Throw(w)
  /\ UNCHANGED <<redis, bull>>

-----------------------------------------------------------------------------
(***************************************************************************)
(* Compensation: every item of the order is given back, those the run      *)
(* never took included; then the order is marked as failed.                *)
(***************************************************************************)

\* A compensation that starts with the second item.
GivenBackFromSecond(w) ==
  IF wk[w].i = 1 THEN stock ELSE [stock EXCEPT ![ItemOf(w)] = @ + QtyOf(w, ItemOf(w))]
GivenBack(w) == [stock EXCEPT ![ItemOf(w)] = @ + QtyOf(w, ItemOf(w))]

CompensateItem(w) ==
  /\ wk[w].pc = "compensate"
  /\ stock' = GivenBack(w)
  /\ wk' = [wk EXCEPT ![w] = Advance(w, "compensate", "failorder")]
  /\ UNCHANGED <<redis, inStock, order, bull>>

\* What the webhook of a failed payment writes (orders.ts:132-136).
HeldOrder == [status |-> "pending", payment |-> "failed"]
FailedOrder == [status |-> "failed", payment |-> "failed"]

FailOrder(w) ==
  /\ wk[w].pc = "failorder"
  /\ order' = [order EXCEPT ![wk[w].run.job] = FailedOrder]
  /\ wk' = [wk EXCEPT ![w] = Goto(w, "release", 1)]
  /\ UNCHANGED <<redis, stock, inStock, bull>>

\* An update of the compensation throws: the rest of it is skipped.
CompensationFails(w) ==
  /\ "mongo" \in Faults
  /\ wk[w].pc \in {"compensate", "failorder"}
  /\ wk' = [wk EXCEPT ![w] = Goto(w, "release", 1)]
  /\ UNCHANGED <<redis, shop, bull>>

\* Or the update took effect and its reply is lost.
GiveBackReplyLost(w) ==
  /\ "mongo" \in Faults
  /\ wk[w].pc = "compensate"
  /\ stock' = GivenBack(w)
  /\ wk' = [wk EXCEPT ![w] = Goto(w, "release", 1)]
  /\ UNCHANGED <<redis, inStock, order, bull>>

-----------------------------------------------------------------------------
(***************************************************************************)
(* The finally block: release in the order of acquisition, then Bull moves *)
(* the job on.                                                             *)
(***************************************************************************)

\* p is the first product of the cart that the run still holds.
NextHeld(w, p) ==
  /\ p \in wk[w].held
  /\ \E n \in DOMAIN CartOf(w) :
       /\ CartOf(w)[n] = p
       /\ \A m \in 1..(n - 1) : CartOf(w)[m] \notin wk[w].held

ReleaseLock(w) ==
  /\ wk[w].pc = "release"
  /\ \E p \in Products :
       /\ NextHeld(w, p)
       /\ CompareAndDelete(p, wk[w].run)
       /\ wk' = [wk EXCEPT ![w].held = @ \ {p}]
  /\ UNCHANGED <<sweep, shop, bull>>

\* The script fails: the error is logged and the key left to its TTL.
ReleaseFails(w) ==
  /\ "redis" \in Faults
  /\ wk[w].pc = "release"
  /\ \E p \in Products : NextHeld(w, p) /\ wk' = [wk EXCEPT ![w].held = @ \ {p}]
  /\ UNCHANGED <<redis, shop, bull>>

\* A queue that never gives up on a job.
AlwaysRetry(j) ==
  [state |-> "waiting", attempts |-> job[j].attempts, stalls |-> job[j].stalls]

\* What Bull makes of a processor that threw: the next attempt, after a
\* backoff that is part of waiting here, or the end.
AfterFailure(j) ==
  [state |-> IF job[j].attempts + 1 < Attempts THEN "waiting" ELSE "failed",
   attempts |-> job[j].attempts + 1,
   stalls |-> job[j].stalls]

\* Worker w runs the processor for the attempt Bull counts on.  A run whose
\* job was taken away no longer holds Bull's lock on it.
Owns(w) ==
  /\ wk[w].pc # "idle"
  /\ job[wk[w].run.job].state = "active"
  /\ wk[w].run.n = runs[wk[w].run.job]

\* What Bull makes of a run's end.
AfterRun(w) ==
  IF wk[w].ok THEN [job[wk[w].run.job] EXCEPT !.state = "completed"]
              ELSE AfterFailure(wk[w].run.job)

\* The processor returned or threw; a result Bull no longer waits for is
\* dropped.
FinishJob(w) ==
  /\ wk[w].pc = "release"
  /\ wk[w].held = {}
  /\ job' = IF Owns(w) THEN [job EXCEPT ![wk[w].run.job] = AfterRun(w)] ELSE job
  /\ wk' = [wk EXCEPT ![w] = Idle]
  /\ UNCHANGED <<redis, shop, runs>>

-----------------------------------------------------------------------------
(***************************************************************************)
(* The environment.                                                        *)
(***************************************************************************)

\* The process dies where it stands; its locks and its job stay behind.
Crash(w) ==
  /\ "crash" \in Faults
  /\ wk[w].pc # "idle"
  /\ wk' = [wk EXCEPT ![w] = Idle]
  /\ UNCHANGED <<redis, shop, bull>>

\* A stalled job goes back to the others, a limited number of times.
AfterStall(j) ==
  IF job[j].stalls < MaxStalled
  THEN [state |-> "waiting", attempts |-> job[j].attempts,
        stalls |-> job[j].stalls + 1]
  ELSE [job[j] EXCEPT !.state = "failed"]

\* Bull finds a job active that nobody works on (or takes it for such).
Stalled(j) ==
  /\ job[j].state = "active"
  /\ "stall" \in Faults \/ \A w \in Workers : ~(Owns(w) /\ wk[w].run.job = j)
  /\ job' = [job EXCEPT ![j] = AfterStall(j)]
  /\ UNCHANGED <<redis, shop, runs, wk>>

\* A run that still holds p under the id that is stored.
Holds(w, p) == p \in wk[w].held /\ lock[p] = wk[w].run

ExpireLock(p) ==
  /\ "expire" \in Faults \/ \A w \in Workers : ~Holds(w, p)
  /\ TtlRunsOut(p)
  /\ UNCHANGED <<shop, bull, wk>>

Sweep ==
  /\ "sweep" \in Faults
  /\ SweepKeys \/ \E p \in Products : SweepTtl(p) \/ SweepDel(p)
  /\ UNCHANGED <<shop, bull, wk>>

-----------------------------------------------------------------------------
Process(w) ==
  \/ TakeLock(w) \/ LockBusy(w) \/ LockTimeout(w)
  \/ CheckStock(w) \/ DecrementStock(w) \/ MarkOutOfStock(w) \/ ConfirmOrder(w)
  \/ CompensateItem(w) \/ FailOrder(w)
  \/ ReleaseLock(w) \/ FinishJob(w)

Fault(w) ==
  \/ RoundTripFails(w) \/ SetReplyLost(w) \/ WriteReplyLost(w)
  \/ CompensationFails(w) \/ GiveBackReplyLost(w) \/ ReleaseFails(w)
  \/ Crash(w)

Next ==
  \/ \E w \in Workers : Process(w) \/ Fault(w) \/ \E j \in Jobs : StartJob(w, j)
  \/ \E j \in Jobs : Stalled(j)
  \/ \E p \in Products : ExpireLock(p)
  \/ Sweep

Spec == Init /\ [][Next]_vars

(***************************************************************************)
(* Fairness: a live process goes on with its callbacks and its timers fire;*)
(* Bull starts waiting jobs and looks for stalled ones; Redis expires keys.*)
(* Nothing is assumed of the faults.                                       *)
(***************************************************************************)
Fairness ==
  /\ \A w \in Workers : WF_vars(Process(w))
  /\ \A j \in Jobs : WF_vars(\E w \in Workers : StartJob(w, j))
  /\ \A j \in Jobs : WF_vars(Stalled(j))
  /\ \A p \in Products : WF_vars(ExpireLock(p))

FairSpec == Spec /\ Fairness

=============================================================================
