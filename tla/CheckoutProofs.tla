--------------------------- MODULE CheckoutProofs ----------------------------
(***************************************************************************)
(* Proofs about the checkout queue and its stock lock, for every number of *)
(* workers, orders, products and attempts.                                 *)
(*                                                                         *)
(* Part 1: type correctness and the bound on the runs of a job; no fault   *)
(* is excluded.                                                            *)
(*                                                                         *)
(* Part 2: the ids of runs are unique, hence no release frees a lock of    *)
(* another run, whatever fails.                                            *)
(*                                                                         *)
(* Part 3 assumes that the lock is sound: no key expires under a run that  *)
(* still uses it and cleanupExpiredLocks does not run. Crashes, stalled    *)
(* jobs and failing round trips stay possible. Held locks are then really  *)
(* owned; with locks enabled, the processor holds every product of its     *)
(* order from the first check to the confirmation, and what a check saw is *)
(* still there when the decrement arrives.                                 *)
(*                                                                         *)
(* Part 4, the orders and the units, assumes LiveWork: processes do not    *)
(* die, Bull does not take a living run for a stalled one, the database    *)
(* answers. The lock may fail in any way: time-outs, failing round trips,  *)
(* keys that expire, the sweep. The marking of what is sold out needs the  *)
(* lock, and that the flag's save takes place.                             *)
(***************************************************************************)
EXTENDS CheckoutProperties, SumProofs

USE DEF redis, shop, bull

-----------------------------------------------------------------------------
(***************************************************************************)
(* Lemmas on the operators the processor is built from.                    *)
(***************************************************************************)

\* The records Runner is cut from.
Frames == [pc : Pcs, run : RunIds \cup {NoRun}, i : Nat \ {0},
           held : SUBSET Products, ok : BOOLEAN]

Busy(w) == wk[w].pc # "idle"

\* The types but for those of the orders, which others than the queue write.
QueueTyped ==
  /\ lock \in [Products -> RunIds \cup {NoLock}]
  /\ sweep \in [keys : SUBSET Products, dels : SUBSET Products]
  /\ stock \in [Products -> Int]
  /\ inStock \in [Products -> BOOLEAN]
  /\ job \in [Jobs -> [state : {"waiting", "active", "completed", "failed"},
                       attempts : Nat, stalls : Nat]]
  /\ runs \in [Jobs -> Nat]
  /\ wk \in [Workers -> Runner]

QueueOrders == [Jobs -> [status : {"pending", "confirmed", "failed"},
                         payment : {"pending", "paid", "completed", "failed"}]]

\* A cart is a non-empty sequence of products, each asked for in some number
\* of units (the route's validation, orders.ts:162-222).
LEMMA CartFacts ==
  ASSUME NEW j \in Jobs
  PROVE  /\ Cart[j] \in Seq(Products)
         /\ Len(Cart[j]) \in Nat \ {0}
         /\ DOMAIN Cart[j] = 1..Len(Cart[j])
         /\ \A n \in 1..Len(Cart[j]) : Cart[j][n] \in Products
         /\ \A p \in Products : Qty[j][p] \in Nat
BY CheckoutAssumption, CartAssumption

\* A busy worker is in a run of some job, at some item of that job's order.
LEMMA BusyFacts ==
  ASSUME QueueTyped, NEW w \in Workers, Busy(w)
  PROVE  /\ wk[w] \in Frames
         /\ wk[w].run \in RunIds
         /\ wk[w].run.job \in Jobs
         /\ wk[w].i \in 1..Len(CartOf(w))
         /\ Len(CartOf(w)) \in Nat \ {0}
         /\ DOMAIN CartOf(w) = 1..Len(CartOf(w))
         /\ \A n \in 1..Len(CartOf(w)) : CartOf(w)[n] \in Products
         /\ ItemOf(w) \in Products
         /\ \A p \in Products : QtyOf(w, p) \in Nat
<1>1. wk[w] \in Frames /\ wk[w].run \in RunIds /\ wk[w].i \in DOMAIN CartOf(w)
  BY DEF QueueTyped, Runner, Frames, Busy, CartOf
<1>2. wk[w].run.job \in Jobs
  BY <1>1 DEF RunIds
<1>. QED
  BY <1>1, <1>2, CartFacts DEF CartOf, ItemOf, QtyOf

\* Goto sets the position and leaves run and locks as they are.
LEMMA GotoFacts ==
  ASSUME QueueTyped, NEW w \in Workers, Busy(w),
         NEW q \in Pcs, NEW k \in 1..Len(CartOf(w))
  PROVE  /\ Goto(w, q, k) \in Runner
         /\ Goto(w, q, k).pc = q
         /\ Goto(w, q, k).run = wk[w].run
         /\ Goto(w, q, k).i = k
         /\ Goto(w, q, k).held = wk[w].held
<1>. DEFINE r == Goto(w, q, k)
<1>1. /\ wk[w] \in Frames
      /\ wk[w].run \in RunIds
      /\ DOMAIN Cart[wk[w].run.job] = 1..Len(CartOf(w))
      /\ Len(CartOf(w)) \in Nat
  BY BusyFacts DEF CartOf
<1>2. k \in Nat \ {0}
  BY <1>1
<1>3. /\ r \in Frames
      /\ r.pc = q
      /\ r.run = wk[w].run
      /\ r.i = k
      /\ r.held = wk[w].held
  BY <1>1, <1>2 DEF Frames, Goto
<1>. HIDE DEF r
<1>4. r \in Runner
  BY <1>1, <1>3 DEF Runner, Frames
<1>. QED
  BY <1>3, <1>4 DEF r

\* Advance moves within the cart and leaves run and locks as they are.
LEMMA AdvanceFacts ==
  ASSUME QueueTyped, NEW w \in Workers, Busy(w), NEW loop \in Pcs, NEW next \in Pcs
  PROVE  /\ Advance(w, loop, next) \in Runner
         /\ Advance(w, loop, next).run = wk[w].run
         /\ Advance(w, loop, next).held = wk[w].held
         /\ \/ /\ wk[w].i < Len(CartOf(w))
               /\ Advance(w, loop, next).pc = loop
               /\ Advance(w, loop, next).i = wk[w].i + 1
            \/ /\ wk[w].i = Len(CartOf(w))
               /\ Advance(w, loop, next).pc = next
               /\ Advance(w, loop, next).i = 1
<1>1. /\ wk[w].i \in 1..Len(CartOf(w))
      /\ Len(CartOf(w)) \in Nat \ {0}
  BY BusyFacts
<1>2. CASE wk[w].i < Len(CartOf(w))
  <2>1. wk[w].i + 1 \in 1..Len(CartOf(w))
    BY <1>1, <1>2
  <2>. QED
    BY <1>2, <2>1, GotoFacts DEF Advance
<1>3. CASE ~(wk[w].i < Len(CartOf(w)))
  <2>1. wk[w].i = Len(CartOf(w)) /\ 1 \in 1..Len(CartOf(w))
    BY <1>1, <1>3
  <2>. QED
    BY <1>3, <2>1, GotoFacts DEF Advance
<1>. QED
  BY <1>2, <1>3

-----------------------------------------------------------------------------
(***************************************************************************)
(* Part 1.  Type correctness.  First what a step of a worker may do to its *)
(* own frame; the rest of the state then falls into the few groups of      *)
(* variables an action leaves alone.                                       *)
(***************************************************************************)

ShopTypeOK ==
  /\ stock \in [Products -> Int]
  /\ inStock \in [Products -> BOOLEAN]
RedisTypeOK ==
  /\ lock \in [Products -> RunIds \cup {NoLock}]
  /\ sweep \in [keys : SUBSET Products, dels : SUBSET Products]
BullTypeOK ==
  /\ job \in [Jobs -> [state : {"waiting", "active", "completed", "failed"},
                       attempts : Nat, stalls : Nat]]
  /\ runs \in [Jobs -> Nat]
WorkersTypeOK == wk \in [Workers -> Runner]

LEMMA TypeParts ==
  /\ QueueTyped <=> ShopTypeOK /\ RedisTypeOK /\ BullTypeOK /\ WorkersTypeOK
  /\ QueueTyped' <=> ShopTypeOK' /\ RedisTypeOK' /\ BullTypeOK' /\ WorkersTypeOK'
BY DEF QueueTyped, ShopTypeOK, RedisTypeOK, BullTypeOK, WorkersTypeOK

LEMMA IdleFacts == Idle \in Runner /\ Idle.pc = "idle" /\ Idle.held = {}
BY DEF Idle, Runner, Pcs

LEMMA StartedFacts ==
  ASSUME NEW r \in RunIds
  PROVE  Started(r) \in Runner
<1>1. r.job \in Jobs
  BY DEF RunIds
<1>2. 1 \in DOMAIN Cart[r.job]
  BY <1>1, CartFacts
<1>. QED
  BY <1>2 DEF Started, Runner, Pcs

\* A frame that differs in its locks or its result alone is still a frame.
LEMMA HeldFacts ==
  ASSUME NEW r \in Runner, NEW H \in SUBSET Products
  PROVE  /\ [r EXCEPT !.held = H] \in Runner
         /\ [r EXCEPT !.held = H].held = H
         /\ [r EXCEPT !.held = H].pc = r.pc
         /\ [r EXCEPT !.held = H].run = r.run
         /\ [r EXCEPT !.held = H].i = r.i
BY DEF Runner

LEMMA ResultFacts ==
  ASSUME NEW r \in Runner
  PROVE  /\ [r EXCEPT !.ok = TRUE] \in Runner
         /\ [r EXCEPT !.ok = TRUE].held = r.held
         /\ [r EXCEPT !.ok = TRUE].pc = r.pc
         /\ [r EXCEPT !.ok = TRUE].run = r.run
         /\ [r EXCEPT !.ok = TRUE].i = r.i
BY DEF Runner

LEMMA PcFacts ==
  /\ {"acquire", "backoff", "check", "decrement", "markout", "confirm",
      "compensate", "failorder", "release"} \subseteq Pcs
  /\ "idle" \in Pcs
BY DEF Pcs

\* The initial state is typed.
LEMMA TypeInit == Init => QueueTyped
<1>. SUFFICES ASSUME Init PROVE QueueTyped
  OBVIOUS
<1>1. ShopTypeOK
  BY CheckoutAssumption DEF Init, ShopTypeOK
<1>2. RedisTypeOK
  BY DEF Init, LockInit, RedisTypeOK
<1>3. BullTypeOK
  BY DEF Init, BullTypeOK
<1>4. WorkersTypeOK
  BY IdleFacts DEF Init, WorkersTypeOK
<1>. QED
  BY <1>1, <1>2, <1>3, <1>4, TypeParts

\* Any action that gives w a proper frame keeps the workers typed.
LEMMA FrameStep ==
  ASSUME QueueTyped, NEW w \in Workers, NEW r \in Runner, wk' = [wk EXCEPT ![w] = r]
  PROVE  WorkersTypeOK'
BY DEF QueueTyped, WorkersTypeOK

\* The end of a run and a stalled job leave Bull's record of the job typed.
LEMMA BullFacts ==
  ASSUME BullTypeOK, NEW j \in Jobs
  PROVE  /\ AfterFailure(j) \in [state : {"waiting", "failed"}, attempts : Nat, stalls : Nat]
         /\ AfterFailure(j).attempts = job[j].attempts + 1
         /\ AfterFailure(j).stalls = job[j].stalls
         /\ AfterFailure(j).state = "waiting" => job[j].attempts + 1 < Attempts
         /\ AfterStall(j) \in [state : {"waiting", "failed"}, attempts : Nat, stalls : Nat]
         /\ AfterStall(j).attempts = job[j].attempts
         /\ \/ /\ AfterStall(j).state = "waiting"
               /\ job[j].stalls < MaxStalled
               /\ AfterStall(j).stalls = job[j].stalls + 1
            \/ /\ AfterStall(j).state = "failed"
               /\ AfterStall(j).stalls = job[j].stalls
         /\ [job[j] EXCEPT !.state = "completed"]
              \in [state : {"completed"}, attempts : Nat, stalls : Nat]
         /\ [job[j] EXCEPT !.state = "completed"].attempts = job[j].attempts
         /\ [job[j] EXCEPT !.state = "completed"].stalls = job[j].stalls
<1>1. job[j] \in [state : {"waiting", "active", "completed", "failed"},
                  attempts : Nat, stalls : Nat]
  BY DEF BullTypeOK
<1>2. MaxStalled \in Nat /\ Attempts \in Nat
  BY CheckoutAssumption
<1>3. /\ AfterFailure(j) \in [state : {"waiting", "failed"}, attempts : Nat, stalls : Nat]
      /\ AfterFailure(j).attempts = job[j].attempts + 1
      /\ AfterFailure(j).stalls = job[j].stalls
      /\ AfterFailure(j).state = "waiting" => job[j].attempts + 1 < Attempts
  BY <1>1, <1>2 DEF AfterFailure
<1>4. /\ AfterStall(j) \in [state : {"waiting", "failed"}, attempts : Nat, stalls : Nat]
      /\ AfterStall(j).attempts = job[j].attempts
      /\ \/ /\ AfterStall(j).state = "waiting"
            /\ job[j].stalls < MaxStalled
            /\ AfterStall(j).stalls = job[j].stalls + 1
         \/ /\ AfterStall(j).state = "failed"
            /\ AfterStall(j).stalls = job[j].stalls
  <2>1. CASE job[j].stalls < MaxStalled
    BY <1>1, <1>2, <2>1 DEF AfterStall
  <2>2. CASE ~(job[j].stalls < MaxStalled)
    BY <1>1, <1>2, <2>2 DEF AfterStall
  <2>. QED
    BY <2>1, <2>2
<1>. QED
  BY <1>1, <1>3, <1>4

LEMMA TypeUnchanged ==
  /\ ShopTypeOK /\ UNCHANGED <<stock, inStock>> => ShopTypeOK'
  /\ RedisTypeOK /\ UNCHANGED <<lock, sweep>> => RedisTypeOK'
  /\ BullTypeOK /\ UNCHANGED <<job, runs>> => BullTypeOK'
  /\ WorkersTypeOK /\ UNCHANGED wk => WorkersTypeOK'
BY DEF ShopTypeOK, RedisTypeOK, BullTypeOK, WorkersTypeOK

\* Where the processor of a busy worker goes, the frame is a proper one.
LEMMA ThrowFacts ==
  ASSUME QueueTyped, NEW w \in Workers, Busy(w)
  PROVE  /\ Goto(w, "compensate", 1) \in Runner
         /\ Goto(w, "compensate", 1).pc = "compensate"
         /\ Goto(w, "compensate", 1).run = wk[w].run
         /\ Goto(w, "compensate", 1).held = wk[w].held
<1>1. 1 \in 1..Len(CartOf(w))
  BY BusyFacts
<1>. QED
  BY <1>1, GotoFacts, PcFacts

LEMMA TypeProcess ==
  ASSUME QueueTyped, NEW w \in Workers, Process(w)
  PROVE  QueueTyped'
<1>. USE TypeParts
<1>1. Busy(w)
  BY DEF Process, TakeLock, AcquireLock, LockBusy, LockTimeout, GivesUp, SkipLock, CheckStock,
         DecrementStock, MarkOutOfStock, ConfirmOrder, CompensateItem, FailOrder,
         ReleaseLock, FinishJob, Busy
<1>2. /\ 1 \in 1..Len(CartOf(w))
      /\ wk[w].i \in 1..Len(CartOf(w))
      /\ ItemOf(w) \in Products
      /\ wk[w] \in Runner
      /\ wk[w].run \in RunIds
      /\ wk[w].run.job \in Jobs
      /\ QtyOf(w, ItemOf(w)) \in Nat
  BY <1>1, BusyFacts DEF QueueTyped
<1>3. ASSUME AcquireLock(w) PROVE QueueTyped'
  <2>1. /\ AfterLock(w) \in Runner
        /\ AfterLock(w).held \cup {ItemOf(w)} \in SUBSET Products
    BY <1>1, <1>2, AdvanceFacts, PcFacts DEF AfterLock, Runner
  <2>2. [AfterLock(w) EXCEPT !.held = AfterLock(w).held \cup {ItemOf(w)}] \in Runner
    BY <2>1, HeldFacts
  <2>3. WorkersTypeOK'
    BY <1>3, <2>2, FrameStep DEF AcquireLock
  <2>4. RedisTypeOK'
    BY <1>2, <1>3 DEF AcquireLock, SetNX, RedisTypeOK
  <2>. QED
    BY <1>3, <2>3, <2>4, TypeUnchanged DEF AcquireLock
<1>4. ASSUME LockBusy(w) PROVE QueueTyped'
  BY <1>1, <1>2, <1>4, GotoFacts, PcFacts, FrameStep, TypeUnchanged DEF LockBusy
<1>5. ASSUME LockTimeout(w) PROVE QueueTyped'
  BY <1>1, <1>5, ThrowFacts, FrameStep, TypeUnchanged DEF LockTimeout, Throw
<1>6. ASSUME SkipLock(w) PROVE QueueTyped'
  BY <1>1, <1>6, AdvanceFacts, PcFacts, FrameStep, TypeUnchanged DEF SkipLock
<1>7. ASSUME CheckStock(w) PROVE QueueTyped'
  <2>1. CASE StockSuffices(w)
    BY <1>1, <1>2, <1>7, <2>1, GotoFacts, PcFacts, FrameStep, TypeUnchanged DEF CheckStock
  <2>2. CASE ~StockSuffices(w)
    BY <1>1, <1>7, <2>2, ThrowFacts, FrameStep, TypeUnchanged DEF CheckStock, Throw
  <2>. QED
    BY <2>1, <2>2
<1>8. ASSUME DecrementStock(w) PROVE QueueTyped'
  <2>1. \/ wk' = [wk EXCEPT ![w] = Goto(w, "markout", wk[w].i)]
        \/ wk' = [wk EXCEPT ![w] = Advance(w, "check", "confirm")]
    BY <1>8 DEF DecrementStock
  <2>2. Goto(w, "markout", wk[w].i) \in Runner /\ Advance(w, "check", "confirm") \in Runner
    BY <1>1, <1>2, AdvanceFacts, GotoFacts, PcFacts
  <2>3. ShopTypeOK'
    BY <1>2, <1>8 DEF DecrementStock, Decremented, ShopTypeOK
  <2>4. WorkersTypeOK'
    BY <2>1, <2>2, FrameStep
  <2>. QED
    BY <1>8, <2>3, <2>4, TypeUnchanged DEF DecrementStock
<1>9. ASSUME MarkOutOfStock(w) PROVE QueueTyped'
  <2>1. WorkersTypeOK'
    BY <1>1, <1>9, AdvanceFacts, PcFacts, FrameStep DEF MarkOutOfStock
  <2>2. ShopTypeOK'
    BY <1>2, <1>9 DEF MarkOutOfStock, OutOfStock, ShopTypeOK
  <2>. QED
    BY <1>9, <2>1, <2>2, TypeUnchanged DEF MarkOutOfStock
<1>10. ASSUME ConfirmOrder(w) PROVE QueueTyped'
  <2>1. [Goto(w, "release", 1) EXCEPT !.ok = TRUE] \in Runner
    BY <1>1, <1>2, GotoFacts, PcFacts, ResultFacts
  <2>2. WorkersTypeOK'
    BY <1>10, <2>1, FrameStep DEF ConfirmOrder
  <2>. QED
    BY <1>10, <2>2, TypeUnchanged DEF ConfirmOrder
<1>11. ASSUME CompensateItem(w) PROVE QueueTyped'
  <2>1. WorkersTypeOK'
    BY <1>1, <1>11, AdvanceFacts, PcFacts, FrameStep DEF CompensateItem
  <2>2. ShopTypeOK'
    BY <1>2, <1>11 DEF CompensateItem, GivenBack, ShopTypeOK
  <2>. QED
    BY <1>11, <2>1, <2>2, TypeUnchanged DEF CompensateItem
<1>12. ASSUME FailOrder(w) PROVE QueueTyped'
  <2>1. WorkersTypeOK'
    BY <1>1, <1>2, <1>12, GotoFacts, PcFacts, FrameStep DEF FailOrder
  <2>. QED
    BY <1>12, <2>1, TypeUnchanged DEF FailOrder
<1>13. ASSUME ReleaseLock(w) PROVE QueueTyped'
  <2>1. PICK p \in Products : /\ CompareAndDelete(p, wk[w].run)
                              /\ wk' = [wk EXCEPT ![w].held = @ \ {p}]
    BY <1>13 DEF ReleaseLock
  <2>2. wk[w].held \ {p} \in SUBSET Products
    BY <1>2 DEF Runner
  <2>3. WorkersTypeOK'
    BY <1>2, <2>1, <2>2, HeldFacts, FrameStep
  <2>4. RedisTypeOK'
    BY <1>13, <2>1 DEF ReleaseLock, CompareAndDelete, RedisTypeOK
  <2>. QED
    BY <1>13, <2>3, <2>4, TypeUnchanged DEF ReleaseLock
<1>14. ASSUME FinishJob(w) PROVE QueueTyped'
  <2>1. WorkersTypeOK'
    BY <1>14, IdleFacts, FrameStep DEF FinishJob
  <2>2. AfterRun(w) \in [state : {"waiting", "active", "completed", "failed"},
                         attempts : Nat, stalls : Nat]
    BY <1>2, BullFacts DEF AfterRun
  <2>3. BullTypeOK'
    BY <1>2, <1>14, <2>2 DEF FinishJob, BullTypeOK
  <2>. QED
    BY <1>14, <2>1, <2>3, TypeUnchanged DEF FinishJob
<1>. QED
  BY <1>3, <1>4, <1>5, <1>6, <1>7, <1>8, <1>9, <1>10, <1>11, <1>12, <1>13, <1>14
  DEF Process, TakeLock

LEMMA TypeFault ==
  ASSUME QueueTyped, NEW w \in Workers, Fault(w)
  PROVE  QueueTyped'
<1>. USE TypeParts
<1>1. Busy(w)
  BY DEF Fault, RoundTripFails, SetReplyLost, WriteReplyLost, CompensationFails,
         GiveBackReplyLost, ReleaseFails, Crash, Busy
<1>2. /\ 1 \in 1..Len(CartOf(w)) /\ wk[w].i \in 1..Len(CartOf(w)) /\ wk[w] \in Runner
      /\ ItemOf(w) \in Products /\ QtyOf(w, ItemOf(w)) \in Nat /\ wk[w].run \in RunIds
  BY <1>1, BusyFacts DEF QueueTyped
<1>3. ASSUME RoundTripFails(w) PROVE QueueTyped'
  BY <1>1, <1>3, ThrowFacts, FrameStep, TypeUnchanged DEF RoundTripFails, Throw
<1>7. ASSUME SetReplyLost(w) PROVE QueueTyped'
  <2>1. \/ wk' = [wk EXCEPT ![w] = Goto(w, "compensate", 1)]
        \/ wk' = [wk EXCEPT ![w] = Goto(w, "backoff", wk[w].i)]
    BY <1>7 DEF SetReplyLost, Throw
  <2>2. WorkersTypeOK'
    BY <1>1, <1>2, <2>1, GotoFacts, PcFacts, FrameStep
  <2>3. RedisTypeOK'
    BY <1>2, <1>7 DEF SetReplyLost, SetNX, RedisTypeOK
  <2>. QED
    BY <1>7, <2>2, <2>3, TypeUnchanged DEF SetReplyLost
<1>8. ASSUME WriteReplyLost(w) PROVE QueueTyped'
  <2>1. WorkersTypeOK'
    BY <1>1, <1>8, ThrowFacts, FrameStep DEF WriteReplyLost, Throw
  <2>2. ShopTypeOK'
    <3>1. CASE stock' = Decremented(w) /\ inStock' = inStock
      BY <1>2, <3>1 DEF Decremented, ShopTypeOK
    <3>2. CASE inStock' = OutOfStock(ItemOf(w)) /\ stock' = stock
      BY <1>2, <3>2 DEF OutOfStock, ShopTypeOK
    <3>3. CASE UNCHANGED <<stock, inStock>>
      BY <3>3, TypeUnchanged
    <3>. QED
      BY <1>8, <3>1, <3>2, <3>3 DEF WriteReplyLost
  <2>. QED
    BY <1>8, <2>1, <2>2, TypeUnchanged DEF WriteReplyLost
<1>9. ASSUME GiveBackReplyLost(w) PROVE QueueTyped'
  <2>1. WorkersTypeOK'
    BY <1>1, <1>2, <1>9, GotoFacts, PcFacts, FrameStep DEF GiveBackReplyLost
  <2>2. ShopTypeOK'
    BY <1>2, <1>9 DEF GiveBackReplyLost, GivenBack, ShopTypeOK
  <2>. QED
    BY <1>9, <2>1, <2>2, TypeUnchanged DEF GiveBackReplyLost
<1>4. ASSUME CompensationFails(w) PROVE QueueTyped'
  BY <1>1, <1>2, <1>4, GotoFacts, PcFacts, FrameStep, TypeUnchanged
  DEF CompensationFails
<1>5. ASSUME ReleaseFails(w) PROVE QueueTyped'
  <2>1. PICK p \in Products : wk' = [wk EXCEPT ![w].held = @ \ {p}]
    BY <1>5 DEF ReleaseFails
  <2>2. wk[w].held \ {p} \in SUBSET Products
    BY <1>2 DEF Runner
  <2>. QED
    BY <1>2, <1>5, <2>1, <2>2, HeldFacts, FrameStep, TypeUnchanged DEF ReleaseFails
<1>6. ASSUME Crash(w) PROVE QueueTyped'
  BY <1>6, IdleFacts, FrameStep, TypeUnchanged DEF Crash
<1>. QED
  BY <1>3, <1>4, <1>5, <1>6, <1>7, <1>8, <1>9 DEF Fault

LEMMA TypeStart ==
  ASSUME QueueTyped, NEW w \in Workers, NEW j \in Jobs, StartJob(w, j)
  PROVE  QueueTyped'
<1>. USE TypeParts
<1>1. [job |-> j, n |-> runs[j] + 1] \in RunIds
  BY DEF RunIds, BullTypeOK
<1>2. WorkersTypeOK'
  BY <1>1, StartedFacts, FrameStep DEF StartJob
<1>3. BullTypeOK'
  BY DEF StartJob, BullTypeOK
<1>. QED
  BY <1>2, <1>3, TypeUnchanged DEF StartJob

\* What the steps of the environment leave of the type invariant.
LEMMA TypeEnvironment ==
  ASSUME QueueTyped,
         \/ \E j \in Jobs : Stalled(j)
         \/ \E p \in Products : ExpireLock(p)
         \/ Sweep
  PROVE  QueueTyped'
<1>. USE TypeParts
<1>1. ASSUME NEW j \in Jobs, Stalled(j) PROVE QueueTyped'
  <2>1. AfterStall(j) \in [state : {"waiting", "active", "completed", "failed"},
                           attempts : Nat, stalls : Nat]
    BY BullFacts
  <2>2. BullTypeOK'
    BY <1>1, <2>1 DEF Stalled, BullTypeOK
  <2>. QED
    BY <1>1, <2>2, TypeUnchanged DEF Stalled
<1>2. ASSUME NEW p \in Products, ExpireLock(p) PROVE QueueTyped'
  <2>1. RedisTypeOK'
    BY <1>2 DEF ExpireLock, TtlRunsOut, RedisTypeOK
  <2>. QED
    BY <1>2, <2>1, TypeUnchanged DEF ExpireLock
<1>3. ASSUME Sweep PROVE QueueTyped'
  <2>1. CASE SweepKeys
    BY <1>3, <2>1, TypeUnchanged DEF Sweep, SweepKeys, RedisTypeOK
  <2>2. CASE \E p \in Products : SweepTtl(p)
    BY <1>3, <2>2, TypeUnchanged DEF Sweep, SweepTtl, RedisTypeOK
  <2>3. CASE \E p \in Products : SweepDel(p)
    BY <1>3, <2>3, TypeUnchanged DEF Sweep, SweepDel, RedisTypeOK
  <2>. QED
    BY <1>3, <2>1, <2>2, <2>3 DEF Sweep
<1>. QED
  BY <1>1, <1>2, <1>3

LEMMA QueueTypedStep == QueueTyped /\ [Next]_vars => QueueTyped'
<1>. SUFFICES ASSUME QueueTyped, [Next]_vars PROVE QueueTyped'
  OBVIOUS
<1>1. CASE UNCHANGED vars
  BY <1>1, TypeParts, TypeUnchanged DEF vars
<1>2. CASE Next
  BY <1>2, TypeProcess, TypeFault, TypeStart, TypeEnvironment DEF Next
<1>. QED
  BY <1>1, <1>2

LEMMA QueueTypes == Spec => []QueueTyped
BY TypeInit, QueueTypedStep, PTL DEF Spec

\* The queue gives an order one of two states, neither of them paid.
LEMMA QueueWrites ==
  Next => \/ order' = order
          \/ \E j : order' = [order EXCEPT ![j] = ConfirmedOrder]
          \/ \E j : order' = [order EXCEPT ![j] = FailedOrder]
BY DEF Next, Process, TakeLock, Fault, StartJob, Stalled, ExpireLock, Sweep, AcquireLock, LockBusy,
       LockTimeout, SkipLock, CheckStock, DecrementStock, MarkOutOfStock, ConfirmOrder,
       CompensateItem, FailOrder, ReleaseLock, FinishJob, RoundTripFails,
       SetReplyLost, WriteReplyLost, CompensationFails, GiveBackReplyLost,
       ReleaseFails, Crash, Throw

LEMMA OrdersTyped == Spec => [](order \in QueueOrders)
<1>1. Init => order \in QueueOrders
  BY DEF Init, QueueOrders
<1>2. order \in QueueOrders /\ [Next]_vars => (order \in QueueOrders)'
  BY QueueWrites DEF QueueOrders, ConfirmedOrder, FailedOrder, vars
<1>. QED
  BY <1>1, <1>2, PTL DEF Spec

\* The state of the queue, the lock and the shop is always well typed,
\* whatever fails.
THEOREM TypeCorrect == Spec => []TypeOK
<1>1. QueueTyped /\ order \in QueueOrders => TypeOK
  BY DEF QueueTyped, QueueOrders, TypeOK
<1>. QED
  BY QueueTypes, OrdersTyped, <1>1, PTL

-----------------------------------------------------------------------------
(***************************************************************************)
(* The runs of one job.  Bull's two counters, attemptsMade and the stalls, *)
(* account for every start of the processor.                               *)
(***************************************************************************)

RunCount(j) ==
  /\ job[j].state = "waiting" => runs[j] = job[j].attempts + job[j].stalls
  /\ job[j].state = "active" => runs[j] = job[j].attempts + job[j].stalls + 1
  /\ job[j].state \in {"waiting", "active"} =>
       job[j].attempts < Attempts /\ job[j].stalls <= MaxStalled
  /\ runs[j] <= Attempts + MaxStalled

RunCounts == \A j \in Jobs : RunCount(j)

\* The steps that touch Bull's records.
LEMMA BullSteps ==
  ASSUME [Next]_vars
  PROVE  \/ UNCHANGED <<job, runs>>
         \/ \E w \in Workers, j \in Jobs : StartJob(w, j)
         \/ \E w \in Workers : FinishJob(w)
         \/ \E j \in Jobs : Stalled(j)
<1>1. CASE UNCHANGED vars
  BY <1>1 DEF vars
<1>2. ASSUME NEW w \in Workers, Process(w)
      PROVE  UNCHANGED <<job, runs>> \/ FinishJob(w)
  BY <1>2 DEF Process, TakeLock, AcquireLock, LockBusy, LockTimeout, SkipLock, CheckStock,
              DecrementStock, MarkOutOfStock, ConfirmOrder, CompensateItem, FailOrder,
              ReleaseLock
<1>3. ASSUME NEW w \in Workers, Fault(w) PROVE UNCHANGED <<job, runs>>
  BY <1>3 DEF Fault, RoundTripFails, SetReplyLost, WriteReplyLost, CompensationFails,
              GiveBackReplyLost, ReleaseFails, Crash
<1>4. ASSUME NEW p \in Products, ExpireLock(p) PROVE UNCHANGED <<job, runs>>
  BY <1>4 DEF ExpireLock
<1>5. ASSUME Sweep PROVE UNCHANGED <<job, runs>>
  BY <1>5 DEF Sweep
<1>. QED
  BY <1>1, <1>2, <1>3, <1>4, <1>5 DEF Next

LEMMA RunCountsStep ==
  ASSUME QueueTyped, RunCounts, [Next]_vars
  PROVE  RunCounts'
<1>. SUFFICES ASSUME NEW k \in Jobs PROVE RunCount(k)'
  BY DEF RunCounts
<1>1. /\ RunCount(k)
      /\ BullTypeOK
      /\ job[k] \in [state : {"waiting", "active", "completed", "failed"},
                     attempts : Nat, stalls : Nat]
      /\ runs[k] \in Nat
      /\ Attempts \in Nat \ {0} /\ MaxStalled \in Nat
  BY CheckoutAssumption, TypeParts DEF RunCounts, BullTypeOK
<1>2. CASE UNCHANGED <<job, runs>>
  BY <1>1, <1>2 DEF RunCount
<1>3. ASSUME NEW w \in Workers, NEW j \in Jobs, StartJob(w, j) PROVE RunCount(k)'
  <2>1. CASE j = k
    <3>1. /\ job[k].state = "waiting"
          /\ job'[k] = [job[k] EXCEPT !.state = "active"]
          /\ runs'[k] = runs[k] + 1
      BY <1>1, <1>3, <2>1 DEF StartJob, BullTypeOK
    <3>. QED
      BY <1>1, <3>1 DEF RunCount
  <2>2. CASE j # k
    <3>1. job'[k] = job[k] /\ runs'[k] = runs[k]
      BY <1>1, <1>3, <2>2 DEF StartJob, BullTypeOK
    <3>. QED
      BY <1>1, <3>1 DEF RunCount
  <2>. QED
    BY <2>1, <2>2
<1>4. ASSUME NEW w \in Workers, FinishJob(w) PROVE RunCount(k)'
  <2>1. CASE Owns(w) /\ wk[w].run.job = k
    <3>1. /\ job[k].state = "active"
          /\ job'[k] = AfterRun(w)
          /\ runs'[k] = runs[k]
      BY <1>1, <1>4, <2>1 DEF FinishJob, Owns, BullTypeOK
    <3>2. CASE wk[w].ok
      BY <1>1, <2>1, <3>1, <3>2, BullFacts DEF AfterRun, RunCount
    <3>3. CASE ~wk[w].ok
      <4>1. job'[k] = AfterFailure(k)
        BY <2>1, <3>1, <3>3 DEF AfterRun
      <4>2. /\ job'[k].attempts = job[k].attempts + 1
            /\ job'[k].stalls = job[k].stalls
            /\ \/ job'[k].state = "waiting" /\ job[k].attempts + 1 < Attempts
               \/ job'[k].state = "failed"
        BY <1>1, <4>1, BullFacts
      <4>. QED
        BY <1>1, <3>1, <4>2 DEF RunCount
    <3>. QED
      BY <3>2, <3>3
  <2>2. CASE ~(Owns(w) /\ wk[w].run.job = k)
    <3>1. job'[k] = job[k] /\ runs'[k] = runs[k]
      BY <1>1, <1>4, <2>2 DEF FinishJob, BullTypeOK
    <3>. QED
      BY <1>1, <3>1 DEF RunCount
  <2>. QED
    BY <2>1, <2>2
<1>5. ASSUME NEW j \in Jobs, Stalled(j) PROVE RunCount(k)'
  <2>1. CASE j = k
    <3>1. /\ job[k].state = "active"
          /\ job'[k] = AfterStall(k)
          /\ runs'[k] = runs[k]
      BY <1>1, <1>5, <2>1 DEF Stalled, BullTypeOK
    <3>2. /\ job'[k].attempts = job[k].attempts
          /\ \/ /\ job'[k].state = "waiting"
                /\ job[k].stalls < MaxStalled
                /\ job'[k].stalls = job[k].stalls + 1
             \/ /\ job'[k].state = "failed"
                /\ job'[k].stalls = job[k].stalls
      BY <1>1, <3>1, BullFacts
    <3>. QED
      BY <1>1, <3>1, <3>2 DEF RunCount
  <2>2. CASE j # k
    <3>1. job'[k] = job[k] /\ runs'[k] = runs[k]
      BY <1>1, <1>5, <2>2 DEF Stalled, BullTypeOK
    <3>. QED
      BY <1>1, <3>1 DEF RunCount
  <2>. QED
    BY <2>1, <2>2
<1>. QED
  BY <1>2, <1>3, <1>4, <1>5, BullSteps

\* No order makes the processor run more often than `attempts` and Bull's
\* limit on stalls allow together, whatever fails.
THEOREM RunsAreBounded == Spec => []RunsBounded
<1>1. Init => RunCounts
  BY CheckoutAssumption DEF Init, RunCounts, RunCount
<1>2. QueueTyped /\ RunCounts /\ [Next]_vars => RunCounts'
  BY RunCountsStep
<1>3. RunCounts => RunsBounded
  BY DEF RunCounts, RunCount, RunsBounded
<1>. QED
  BY QueueTypes, <1>1, <1>2, <1>3, PTL DEF Spec

-----------------------------------------------------------------------------
(***************************************************************************)
(* Part 2: the runs and the locks; Part 3: what a sound lock guards.       *)
(***************************************************************************)
\* A worker is idle or in a run of its own, one that was started and counted.
RunsDistinct ==
  /\ \A w \in Workers : Busy(w) \/ wk[w] = Idle
  /\ \A w \in Workers : Busy(w) => wk[w].run.n <= runs[wk[w].run.job]
  /\ \A w, v \in Workers :
       Busy(w) /\ Busy(v) /\ wk[w].run = wk[v].run => w = v

\* A run's `locks` map names keys that store its id; who is idle has none.
HeldIsOwned ==
  \A w \in Workers, p \in Products :
    p \in wk[w].held => Busy(w) /\ lock[p] = wk[w].run

-----------------------------------------------------------------------------
(***************************************************************************)
(* What one step of the processor of worker w may do to the locks.         *)
(***************************************************************************)

\* The worker's frame becomes r; nobody else moves.
Moves(w, r) == wk' = [wk EXCEPT ![w] = r]

Acquires(w, r, p) ==
  /\ lock[p] = NoLock
  /\ lock' = [lock EXCEPT ![p] = wk[w].run]
  /\ r.run = wk[w].run /\ r.held = wk[w].held \cup {p} /\ r.pc # "idle"

\* A key is set under the run's id without the run learning of it.
Leaks(w, r, p) ==
  /\ lock[p] = NoLock
  /\ lock' = [lock EXCEPT ![p] = wk[w].run]
  /\ r.run = wk[w].run /\ r.held = wk[w].held /\ r.pc # "idle"

Releases(w, r, p) ==
  /\ p \in wk[w].held
  /\ lock' = lock \/ CompareAndDelete(p, wk[w].run)
  /\ r.run = wk[w].run /\ r.held = wk[w].held \ {p} /\ r.pc # "idle"

Works(w, r) ==
  lock' = lock /\ r.run = wk[w].run /\ r.held = wk[w].held /\ r.pc # "idle"

Ends(w, r) == lock' = lock /\ r = Idle

LockStep(w, r) ==
  \/ \E p \in Products : Acquires(w, r, p) \/ Leaks(w, r, p) \/ Releases(w, r, p)
  \/ Works(w, r)
  \/ Ends(w, r)

LEMMA WorkerSteps ==
  ASSUME QueueTyped, NEW w \in Workers, Process(w) \/ Fault(w)
  PROVE  /\ Busy(w)
         /\ runs' = runs
         /\ \E r \in Runner : Moves(w, r) /\ LockStep(w, r)
<1>1. Busy(w)
  BY DEF Process, TakeLock, AcquireLock, LockBusy, LockTimeout, GivesUp, SkipLock, CheckStock,
         DecrementStock, MarkOutOfStock, ConfirmOrder, CompensateItem, FailOrder,
         ReleaseLock, FinishJob, Fault, RoundTripFails, SetReplyLost,
         WriteReplyLost, CompensationFails, GiveBackReplyLost, ReleaseFails, Crash, Busy
<1>2. runs' = runs
  BY DEF Process, TakeLock, AcquireLock, LockBusy, LockTimeout, SkipLock, CheckStock,
         DecrementStock, MarkOutOfStock, ConfirmOrder, CompensateItem, FailOrder,
         ReleaseLock, FinishJob, Fault, RoundTripFails, SetReplyLost,
         WriteReplyLost, CompensationFails, GiveBackReplyLost, ReleaseFails, Crash
<1>3. /\ 1 \in 1..Len(CartOf(w))
      /\ wk[w].i \in 1..Len(CartOf(w))
      /\ ItemOf(w) \in Products
      /\ wk[w] \in Runner
      /\ wk[w].held \in SUBSET Products
  BY <1>1, BusyFacts DEF QueueTyped, Runner
<1>. DEFINE Goal == \E r \in Runner : Moves(w, r) /\ LockStep(w, r)
<1>4. ASSUME NEW q \in Pcs \ {"idle"}, NEW k \in 1..Len(CartOf(w)),
             wk' = [wk EXCEPT ![w] = Goto(w, q, k)], lock' = lock
      PROVE  Goal
  <2>. DEFINE r == Goto(w, q, k)
  <2>1. /\ r \in Runner /\ r.run = wk[w].run /\ r.held = wk[w].held
        /\ r.pc # "idle"
    BY <1>1, GotoFacts
  <2>2. Moves(w, r)
    BY <1>4 DEF Moves
  <2>. HIDE DEF r
  <2>. QED
    BY <1>4, <2>1, <2>2 DEF LockStep, Works
<1>5. ASSUME NEW q \in Pcs \ {"idle"}, NEW s \in Pcs \ {"idle"},
             wk' = [wk EXCEPT ![w] = Advance(w, q, s)], lock' = lock
      PROVE  Goal
  <2>. DEFINE r == Advance(w, q, s)
  <2>1. /\ r \in Runner /\ r.run = wk[w].run /\ r.held = wk[w].held
        /\ r.pc # "idle"
    BY <1>1, AdvanceFacts
  <2>2. Moves(w, r)
    BY <1>5 DEF Moves
  <2>. HIDE DEF r
  <2>. QED
    BY <1>5, <2>1, <2>2 DEF LockStep, Works
<1>. HIDE DEF Goal
<1>6. {"acquire", "backoff", "check", "decrement", "markout", "confirm",
       "compensate", "failorder", "release"} \subseteq Pcs \ {"idle"}
  BY PcFacts
<1>7. ASSUME AcquireLock(w) PROVE Goal
  <2>. DEFINE r == [AfterLock(w) EXCEPT !.held = @ \cup {ItemOf(w)}]
  <2>1. /\ AfterLock(w) \in Runner
        /\ AfterLock(w).run = wk[w].run
        /\ AfterLock(w).held = wk[w].held
        /\ AfterLock(w).pc # "idle"
    BY <1>1, <1>6, AdvanceFacts DEF AfterLock
  <2>2. r \in Runner /\ Moves(w, r)
    BY <1>3, <1>7, <2>1, HeldFacts DEF AcquireLock, Moves
  <2>3. Acquires(w, r, ItemOf(w))
    BY <1>3, <1>7, <2>1, HeldFacts DEF AcquireLock, SetNX, Acquires
  <2>. QED
    BY <1>3, <2>2, <2>3 DEF LockStep, Goal
<1>8. ASSUME LockBusy(w) PROVE Goal
  BY <1>3, <1>4, <1>6, <1>8 DEF LockBusy
<1>9. ASSUME LockTimeout(w) \/ RoundTripFails(w) PROVE Goal
  BY <1>3, <1>4, <1>6, <1>9 DEF LockTimeout, RoundTripFails, Throw
<1>10. ASSUME SkipLock(w) PROVE Goal
  BY <1>5, <1>6, <1>10 DEF SkipLock
<1>11. ASSUME CheckStock(w) PROVE Goal
  BY <1>3, <1>4, <1>6, <1>11 DEF CheckStock, Throw
<1>12. ASSUME DecrementStock(w) PROVE Goal
  <2>1. \/ wk' = [wk EXCEPT ![w] = Goto(w, "markout", wk[w].i)]
        \/ wk' = [wk EXCEPT ![w] = Advance(w, "check", "confirm")]
    BY <1>12 DEF DecrementStock
  <2>. QED
    BY <1>3, <1>4, <1>5, <1>6, <1>12, <2>1 DEF DecrementStock
<1>13. ASSUME MarkOutOfStock(w) PROVE Goal
  BY <1>5, <1>6, <1>13 DEF MarkOutOfStock
<1>14. ASSUME ConfirmOrder(w) PROVE Goal
  <2>. DEFINE g == Goto(w, "release", 1)
              r == [g EXCEPT !.ok = TRUE]
  <2>1. g \in Runner /\ g.run = wk[w].run /\ g.held = wk[w].held /\ g.pc = "release"
    BY <1>1, <1>3, <1>6, GotoFacts
  <2>2. wk' = [wk EXCEPT ![w] = r]
    BY <1>14 DEF ConfirmOrder
  <2>. HIDE DEF g
  <2>3. r \in Runner /\ r.run = wk[w].run /\ r.held = wk[w].held /\ r.pc = "release"
    BY <2>1, ResultFacts
  <2>. QED
    BY <1>14, <2>2, <2>3 DEF ConfirmOrder, Moves, LockStep, Works, Goal
<1>15. ASSUME CompensateItem(w) PROVE Goal
  BY <1>5, <1>6, <1>15 DEF CompensateItem
<1>16. ASSUME FailOrder(w) \/ CompensationFails(w) PROVE Goal
  BY <1>3, <1>4, <1>6, <1>16 DEF FailOrder, CompensationFails
<1>17. ASSUME ReleaseLock(w) \/ ReleaseFails(w) PROVE Goal
  <2>1. PICK p \in Products : /\ p \in wk[w].held
                              /\ lock' = lock \/ CompareAndDelete(p, wk[w].run)
                              /\ wk' = [wk EXCEPT ![w].held = @ \ {p}]
    BY <1>17 DEF ReleaseLock, ReleaseFails, NextHeld
  <2>. DEFINE r == [wk[w] EXCEPT !.held = wk[w].held \ {p}]
  <2>2. /\ r \in Runner /\ r.run = wk[w].run /\ r.held = wk[w].held \ {p}
        /\ r.pc # "idle"
    BY <1>1, <1>3, HeldFacts DEF Busy
  <2>3. Moves(w, r)
    BY <2>1 DEF Moves
  <2>. QED
    BY <2>1, <2>2, <2>3 DEF LockStep, Releases, Goal
<1>19. ASSUME SetReplyLost(w) PROVE Goal
  <2>1. PICK q \in Pcs \ {"idle"}, k \in 1..Len(CartOf(w)) :
          wk' = [wk EXCEPT ![w] = Goto(w, q, k)]
    BY <1>3, <1>6, <1>19 DEF SetReplyLost, Throw
  <2>. DEFINE r == Goto(w, q, k)
  <2>2. r \in Runner /\ r.run = wk[w].run /\ r.held = wk[w].held /\ r.pc # "idle"
    BY <1>1, GotoFacts
  <2>3. Moves(w, r)
    BY <2>1 DEF Moves
  <2>. HIDE DEF r
  <2>4. Leaks(w, r, ItemOf(w))
    BY <1>19, <2>2 DEF SetReplyLost, SetNX, Leaks
  <2>. QED
    BY <1>3, <2>2, <2>3, <2>4 DEF LockStep, Goal
<1>20. ASSUME WriteReplyLost(w) \/ GiveBackReplyLost(w) PROVE Goal
  <2>1. /\ lock' = lock
        /\ \/ wk' = [wk EXCEPT ![w] = Goto(w, "compensate", 1)]
           \/ wk' = [wk EXCEPT ![w] = Goto(w, "release", 1)]
    BY <1>20 DEF WriteReplyLost, GiveBackReplyLost, Throw
  <2>. QED
    BY <1>3, <1>4, <1>6, <2>1
<1>18. ASSUME FinishJob(w) \/ Crash(w) PROVE Goal
  BY <1>18, IdleFacts DEF FinishJob, Crash, Moves, LockStep, Ends, Goal
<1>. QED
  BY <1>1, <1>2, <1>7, <1>8, <1>9, <1>10, <1>11, <1>12, <1>13, <1>14, <1>15, <1>16,
     <1>17, <1>18, <1>19, <1>20 DEF Process, TakeLock, Fault, Goal

\* The steps that move no worker: Redis and Bull on their own account.
Quiet ==
  \/ UNCHANGED vars
  \/ \E j \in Jobs : Stalled(j)
  \/ \E p \in Products : ExpireLock(p)
  \/ Sweep

LEMMA QuietFacts == Quiet => UNCHANGED <<stock, runs, wk>>
BY DEF Quiet, Stalled, ExpireLock, Sweep, vars

LEMMA StepCases ==
  ASSUME [Next]_vars
  PROVE  \/ Quiet
         \/ \E w \in Workers, j \in Jobs : StartJob(w, j)
         \/ \E w \in Workers : Process(w) \/ Fault(w)
BY DEF Next, Quiet

-----------------------------------------------------------------------------
(***************************************************************************)
(* Part 1.  The ids of runs.                                               *)
(***************************************************************************)

LEMMA RunsDistinctStep ==
  ASSUME QueueTyped, RunsDistinct, [Next]_vars
  PROVE  RunsDistinct'
<1>1. ASSUME NEW w \in Workers, NEW j \in Jobs, StartJob(w, j)
      PROVE  RunsDistinct'
  <2>. DEFINE r == Started([job |-> j, n |-> runs[j] + 1])
  <2>1. /\ wk \in [Workers -> Runner]
        /\ runs \in [Jobs -> Nat]
        /\ wk' = [wk EXCEPT ![w] = r]
        /\ runs' = [runs EXCEPT ![j] = @ + 1]
    BY <1>1 DEF StartJob, QueueTyped
  <2>2. r.run.job = j /\ r.run.n = runs[j] + 1 /\ r.pc = "acquire"
    BY DEF Started
  <2>. HIDE DEF r
  <2>3. ASSUME NEW v \in Workers, v # w, Busy(v)
        PROVE  /\ wk'[v] = wk[v] /\ wk[v].run.job \in Jobs /\ wk[v].run.n \in Nat
               /\ wk[v].run.n <= runs[wk[v].run.job]
               /\ wk[v].run # r.run
    <3>1. wk'[v] = wk[v] /\ wk[v].run.job \in Jobs /\ wk[v].run.n \in Nat
      BY <2>1, <2>3, BusyFacts DEF RunIds
    <3>2. wk[v].run.n <= runs[wk[v].run.job]
      BY <2>3 DEF RunsDistinct
    <3>. QED
      BY <2>1, <2>2, <3>1, <3>2
  <2>4. ASSUME NEW v \in Workers, Busy(v)' PROVE (wk[v].run.n <= runs[wk[v].run.job])'
    BY <2>1, <2>2, <2>3, <2>4 DEF Busy
  <2>5. ASSUME NEW u \in Workers, NEW v \in Workers,
               Busy(u)', Busy(v)', wk'[u].run = wk'[v].run
        PROVE  u = v
    <3>1. CASE u # w /\ v # w
      BY <2>1, <2>5, <3>1 DEF Busy, RunsDistinct
    <3>2. CASE u = w
      BY <2>1, <2>3, <2>5, <3>2 DEF Busy
    <3>3. CASE v = w
      BY <2>1, <2>3, <2>5, <3>3 DEF Busy
    <3>. QED
      BY <3>1, <3>2, <3>3
  <2>6. ASSUME NEW v \in Workers PROVE Busy(v)' \/ wk'[v] = Idle
    BY <2>1, <2>2 DEF Busy, RunsDistinct
  <2>. QED
    BY <2>4, <2>5, <2>6 DEF RunsDistinct
<1>2. ASSUME NEW w \in Workers, Process(w) \/ Fault(w) PROVE RunsDistinct'
  <2>1. PICK r \in Runner : Moves(w, r) /\ LockStep(w, r)
    BY <1>2, WorkerSteps
  <2>2. Busy(w) /\ runs' = runs
    BY <1>2, WorkerSteps
  <2>3. r.pc = "idle" \/ r.run = wk[w].run
    BY <2>1, IdleFacts DEF LockStep, Acquires, Leaks, Releases, Works, Ends
  <2>4. ASSUME NEW v \in Workers, Busy(v)'
        PROVE  Busy(v) /\ wk'[v].run = wk[v].run
    BY <2>1, <2>2, <2>3, <2>4 DEF Moves, Busy, QueueTyped
  <2>5. ASSUME NEW v \in Workers PROVE Busy(v)' \/ wk'[v] = Idle
    BY <2>1, <2>2 DEF Moves, Busy, QueueTyped, RunsDistinct, LockStep, Acquires, Leaks,
                      Releases, Works, Ends
  <2>. QED
    BY <2>2, <2>4, <2>5 DEF RunsDistinct
<1>3. CASE Quiet
  BY <1>3, QuietFacts DEF RunsDistinct, Busy
<1>. QED
  BY <1>1, <1>2, <1>3, StepCases

LEMMA RunsAreDistinct == Spec => [](QueueTyped /\ RunsDistinct)
<1>1. Init => RunsDistinct
  BY IdleFacts DEF Init, RunsDistinct, Busy
<1>2. QueueTyped /\ RunsDistinct /\ [Next]_vars => RunsDistinct'
  BY RunsDistinctStep
<1>. QED
  BY QueueTypes, <1>1, <1>2, PTL DEF Spec

\* A release, late or not, never frees a lock another run holds: the script
\* compares ids, and ids are unique.  Holds whatever fails.
THEOREM ReleasesAreOwn == Spec => NoForeignRelease
<1>. DEFINE A == \A w, v \in Workers, p \in Products :
                   Holds(w, p) /\ v # w /\ wk'[v] # wk[v] => Holds(w, p)'
<1>1. QueueTyped /\ RunsDistinct /\ [Next]_vars => A
  <2>. SUFFICES ASSUME QueueTyped, RunsDistinct, [Next]_vars,
                       NEW w \in Workers, NEW v \in Workers, NEW p \in Products,
                       Holds(w, p), v # w, wk'[v] # wk[v]
                PROVE  Holds(w, p)'
    OBVIOUS
  <2>1. wk[w] \in Runner /\ lock \in [Products -> RunIds \cup {NoLock}]
    BY DEF QueueTyped
  <2>2. ASSUME NEW u \in Workers, NEW j \in Jobs, StartJob(u, j)
        PROVE  Holds(w, p)'
    BY <2>2 DEF StartJob, Holds, QueueTyped
  <2>3. ASSUME NEW u \in Workers, Process(u) \/ Fault(u) PROVE Holds(w, p)'
    <3>1. PICK r \in Runner : Moves(u, r) /\ LockStep(u, r)
      BY <2>3, WorkerSteps
    <3>2. u = v /\ wk'[w] = wk[w]
      BY <3>1 DEF Moves, QueueTyped
    <3>3. Busy(v) /\ wk[v].run \in RunIds
      BY <2>3, <3>2, WorkerSteps, BusyFacts
    <3>4. wk[w].run \in RunIds /\ Busy(w)
      BY BusyFacts, IdleFacts DEF Holds, RunsDistinct
    <3>5. lock[p] = wk[w].run /\ lock[p] # NoLock /\ lock[p] # wk[v].run
      BY <3>3, <3>4, NullAssumption DEF Holds, RunsDistinct
    <3>6. lock'[p] = lock[p]
      BY <2>1, <3>1, <3>2, <3>5
      DEF LockStep, Acquires, Leaks, Releases, Works, Ends, CompareAndDelete
    <3>. QED
      BY <3>2, <3>6 DEF Holds
  <2>4. CASE Quiet
    BY <2>4, QuietFacts
  <2>. QED
    BY <2>2, <2>3, <2>4, StepCases
<1>. QED
  BY RunsAreDistinct, <1>1, PTL DEF Spec, NoForeignRelease

-----------------------------------------------------------------------------
(***************************************************************************)
(* Part 2.  Under a sound lock.                                            *)
(***************************************************************************)

\* Holders finish within the 30 s of LOCK_TTL, and cleanupExpiredLocks, whose
\* DEL compares nothing, does not run.
LockSound == "expire" \notin Faults /\ "sweep" \notin Faults

\* The environment then takes away only keys that no run uses.
LEMMA QuietLock ==
  ASSUME LockSound, Quiet, NEW w \in Workers, NEW p \in Products, Holds(w, p)
  PROVE  Holds(w, p)'
<1>1. wk' = wk
  BY QuietFacts
<1>2. lock' = lock \/ \E q \in Products : ExpireLock(q)
  BY DEF Quiet, Stalled, Sweep, LockSound, vars
<1>3. ASSUME NEW q \in Products, ExpireLock(q) PROVE lock'[p] = lock[p]
  BY <1>3 DEF ExpireLock, TtlRunsOut, LockSound
<1>. QED
  BY <1>1, <1>2, <1>3 DEF Holds

\* A step of another worker leaves a held lock with its holder.
LEMMA OthersLock ==
  ASSUME QueueTyped, RunsDistinct, NEW u \in Workers, Process(u) \/ Fault(u),
         NEW w \in Workers, w # u, NEW p \in Products, Holds(w, p)
  PROVE  Holds(w, p)' /\ wk'[w] = wk[w]
<1>1. PICK r \in Runner : Moves(u, r) /\ LockStep(u, r)
  BY WorkerSteps
<1>2. wk'[w] = wk[w]
  BY <1>1 DEF Moves, QueueTyped
<1>3. Busy(u) /\ Busy(w) /\ wk[u].run \in RunIds /\ wk[w].run \in RunIds
  BY WorkerSteps, BusyFacts, IdleFacts DEF Holds, RunsDistinct
<1>4. lock[p] = wk[w].run /\ lock[p] # NoLock /\ lock[p] # wk[u].run
  BY <1>3, NullAssumption DEF Holds, RunsDistinct
<1>5. lock'[p] = lock[p]
  BY <1>1, <1>4 DEF LockStep, Acquires, Leaks, Releases, Works, Ends, CompareAndDelete, QueueTyped
<1>. QED
  BY <1>2, <1>5 DEF Holds

LEMMA HeldIsOwnedStep ==
  ASSUME LockSound, QueueTyped, RunsDistinct, HeldIsOwned, [Next]_vars
  PROVE  HeldIsOwned'
<1>. SUFFICES ASSUME NEW w \in Workers, NEW p \in Products, p \in wk'[w].held
              PROVE  Busy(w)' /\ Holds(w, p)'
  BY DEF HeldIsOwned, Holds
<1>1. p \in wk[w].held => Busy(w) /\ Holds(w, p)
  BY DEF HeldIsOwned, Holds
<1>2. CASE Quiet
  BY <1>1, <1>2, QuietFacts, QuietLock DEF Busy
<1>3. ASSUME NEW u \in Workers, NEW j \in Jobs, StartJob(u, j)
      PROVE  Busy(w)' /\ Holds(w, p)'
  <2>1. w # u /\ wk'[w] = wk[w]
    BY <1>3 DEF StartJob, Started, QueueTyped
  <2>. QED
    BY <1>1, <1>3, <2>1 DEF StartJob, Holds, Busy
<1>4. ASSUME NEW u \in Workers, Process(u) \/ Fault(u)
      PROVE  Busy(w)' /\ Holds(w, p)'
  <2>1. PICK r \in Runner : Moves(u, r) /\ LockStep(u, r)
    BY <1>4, WorkerSteps
  <2>2. CASE w # u
    <3>1. wk'[w] = wk[w]
      BY <2>1, <2>2 DEF Moves, QueueTyped
    <3>. QED
      BY <1>1, <1>4, <2>2, <3>1, OthersLock DEF Busy
  <2>3. CASE w = u
    <3>1. wk'[w] = r /\ lock \in [Products -> RunIds \cup {NoLock}] /\ p \in r.held
      BY <2>1, <2>3 DEF Moves, QueueTyped
    <3>2. r.pc # "idle" /\ r.run = wk[w].run
      BY <2>1, <2>3, <3>1, IdleFacts DEF LockStep, Acquires, Leaks, Releases, Works, Ends
    <3>3. lock'[p] = wk[w].run
      <4>1. ASSUME NEW q \in Products, Acquires(w, r, q) PROVE lock'[p] = wk[w].run
        BY <1>1, <3>1, <4>1 DEF Acquires, Holds
      <4>5. ASSUME NEW q \in Products, Leaks(w, r, q) PROVE lock'[p] = wk[w].run
        BY <1>1, <3>1, <4>5 DEF Leaks, Holds
      <4>2. ASSUME NEW q \in Products, Releases(w, r, q) PROVE lock'[p] = wk[w].run
        BY <1>1, <3>1, <4>2 DEF Releases, CompareAndDelete, Holds
      <4>3. CASE Works(w, r)
        BY <1>1, <3>1, <4>3 DEF Works, Holds
      <4>4. CASE Ends(w, r)
        BY <3>1, <4>4, IdleFacts DEF Ends
      <4>. QED
        BY <2>1, <2>3, <4>1, <4>2, <4>3, <4>4, <4>5 DEF LockStep
    <3>. QED
      BY <3>1, <3>2, <3>3 DEF Busy, Holds
  <2>. QED
    BY <2>2, <2>3
<1>. QED
  BY <1>2, <1>3, <1>4, StepCases

LEMMA HeldLocksAreOwned ==
  ASSUME LockSound PROVE Spec => [](QueueTyped /\ RunsDistinct /\ HeldIsOwned)
<1>1. Init => HeldIsOwned
  BY IdleFacts DEF Init, HeldIsOwned
<1>2. QueueTyped /\ RunsDistinct /\ HeldIsOwned /\ [Next]_vars => HeldIsOwned'
  BY HeldIsOwnedStep
<1>. QED
  BY RunsAreDistinct, <1>1, <1>2, PTL DEF Spec

\* A lock is taken from the run that holds it by that run's own steps alone,
\* although processes die, jobs stall and releases fail.
THEOREM LocksAreKept ==
  ASSUME LockSound PROVE Spec => OwnerKeepsLock
<1>. DEFINE A == \A w \in Workers, p \in Products :
                   Holds(w, p) => Holds(w, p)' \/ wk'[w] # wk[w]
<1>1. QueueTyped /\ RunsDistinct /\ [Next]_vars => A
  <2>. SUFFICES ASSUME QueueTyped, RunsDistinct, [Next]_vars,
                       NEW w \in Workers, NEW p \in Products,
                       Holds(w, p), wk'[w] = wk[w]
                PROVE  Holds(w, p)'
    OBVIOUS
  <2>1. ASSUME NEW u \in Workers, NEW j \in Jobs, StartJob(u, j)
        PROVE  Holds(w, p)'
    BY <2>1 DEF StartJob, Holds
  <2>2. ASSUME NEW u \in Workers, Process(u) \/ Fault(u) PROVE Holds(w, p)'
    <3>1. CASE w # u
      BY <2>2, <3>1, OthersLock
    <3>2. CASE w = u
      <4>1. PICK r \in Runner : Moves(w, r) /\ LockStep(w, r)
        BY <2>2, <3>2, WorkerSteps
      <4>2. r = wk[w]
        BY <4>1 DEF Moves, QueueTyped
      <4>3. Busy(w) /\ wk[w].run \in RunIds
        BY <2>2, <3>2, WorkerSteps, BusyFacts
      <4>4. lock'[p] = lock[p]
        BY <4>1, <4>2, <4>3, IdleFacts, NullAssumption
        DEF LockStep, Acquires, Leaks, Releases, Works, Ends, Holds, QueueTyped
      <4>. QED
        BY <4>4 DEF Holds
    <3>. QED
      BY <3>1, <3>2
  <2>3. CASE Quiet
    BY <2>3, QuietLock
  <2>. QED
    BY <2>1, <2>2, <2>3, StepCases
<1>. QED
  BY RunsAreDistinct, <1>1, PTL DEF Spec, OwnerKeepsLock

-----------------------------------------------------------------------------
(***************************************************************************)
(* With locks enabled as well: what the processor holds in each phase, and *)
(* why the stock never goes negative.                                      *)
(***************************************************************************)

\* Phase 1 holds the products before item i, phases 2 and 3 all of them.
LockedPhases == {"check", "decrement", "markout", "confirm"}

FramePhase(r) ==
  /\ r.pc \in {"acquire", "backoff"} =>
       \A n \in 1..(r.i - 1) : Cart[r.run.job][n] \in r.held
  /\ r.pc \in LockedPhases =>
       \A n \in 1..Len(Cart[r.run.job]) : Cart[r.run.job][n] \in r.held

PhaseHolds == \A w \in Workers : FramePhase(wk[w])

\* What the check saw is still there when the decrement is sent.
CheckStillHolds ==
  \A w \in Workers :
    wk[w].pc = "decrement" => stock[ItemOf(w)] >= QtyOf(w, ItemOf(w))

\* A step within phases 2 and 3 keeps what it holds.
LEMMA StaysLocked ==
  ASSUME PhaseHolds, NEW w \in Workers, wk[w].pc \in LockedPhases,
         NEW r, r.run = wk[w].run, r.held = wk[w].held, r.pc \in LockedPhases
  PROVE  FramePhase(r)
<1>1. r.pc \notin {"acquire", "backoff"}
  BY DEF LockedPhases
<1>. QED
  BY <1>1 DEF PhaseHolds, FramePhase

\* The later phases ask for nothing.
LEMMA Unphased ==
  ASSUME NEW r, r.pc \in {"idle", "compensate", "failorder", "release"}
  PROVE  FramePhase(r)
BY DEF FramePhase, LockedPhases

LEMMA PhaseProcess ==
  ASSUME LocksEnabled, QueueTyped, PhaseHolds, NEW w \in Workers, Process(w) \/ Fault(w)
  PROVE  FramePhase(wk'[w])
<1>1. Busy(w)
  BY WorkerSteps
<1>2. /\ 1 \in 1..Len(CartOf(w))
      /\ wk[w].i \in 1..Len(CartOf(w))
      /\ Len(CartOf(w)) \in Nat
      /\ ItemOf(w) \in Products
      /\ wk[w] \in Runner /\ wk \in [Workers -> Runner]
  BY <1>1, BusyFacts DEF QueueTyped
<1>3. {"acquire", "backoff", "check", "decrement", "markout", "confirm",
       "compensate", "failorder", "release"} \subseteq Pcs
  BY PcFacts
<1>4. LockedPhases = {"check", "decrement", "markout", "confirm"}
  BY DEF LockedPhases
<1>5. ASSUME AcquireLock(w) PROVE FramePhase(wk'[w])
  <2>. DEFINE a == AfterLock(w)
              r == [a EXCEPT !.held = wk[w].held \cup {ItemOf(w)}]
              L == Len(CartOf(w))
              c == CartOf(w)
  <2>1. /\ a \in Runner /\ a.run = wk[w].run /\ a.held = wk[w].held
        /\ \/ wk[w].i < L /\ a.pc = "acquire" /\ a.i = wk[w].i + 1
           \/ wk[w].i = L /\ a.pc = "check"
    BY <1>1, <1>3, AdvanceFacts DEF AfterLock
  <2>2. wk'[w] = r
    BY <1>2, <1>5, <2>1 DEF AcquireLock
  <2>. HIDE DEF a
  <2>3. /\ r.run = wk[w].run /\ r.held = wk[w].held \cup {ItemOf(w)}
        /\ r.pc = a.pc /\ r.i = a.i
    BY <1>2, <2>1, HeldFacts DEF Runner
  <2>4. wk[w].pc \in {"acquire", "backoff"}
    BY <1>5 DEF AcquireLock
  <2>5. \A n \in 1..wk[w].i : c[n] \in r.held
    <3>1. \A n \in 1..(wk[w].i - 1) : c[n] \in wk[w].held
      BY <2>4 DEF PhaseHolds, FramePhase, CartOf
    <3>. QED
      BY <1>2, <2>3, <3>1 DEF ItemOf
  <2>6. c = Cart[r.run.job]
    BY <2>3 DEF CartOf
  <2>. HIDE DEF r, c
  <2>7. CASE wk[w].i < L /\ a.pc = "acquire" /\ a.i = wk[w].i + 1
    <3>1. r.i - 1 = wk[w].i /\ r.pc = "acquire"
      BY <1>2, <2>3, <2>7
    <3>. QED
      BY <1>4, <2>2, <2>5, <2>6, <3>1 DEF FramePhase
  <2>8. CASE wk[w].i = L /\ a.pc = "check"
    <3>1. Len(Cart[r.run.job]) = wk[w].i /\ r.pc = "check"
      BY <2>3, <2>6, <2>8 DEF c
    <3>. QED
      BY <2>2, <2>5, <2>6, <3>1 DEF FramePhase
  <2>. QED
    BY <2>1, <2>7, <2>8
<1>6. ASSUME LockBusy(w) PROVE FramePhase(wk'[w])
  <2>. DEFINE r == Goto(w, "backoff", wk[w].i)
  <2>1. r.run = wk[w].run /\ r.held = wk[w].held /\ r.pc = "backoff" /\ r.i = wk[w].i
    BY <1>1, <1>2, <1>3, GotoFacts
  <2>2. wk'[w] = r /\ wk[w].pc = "acquire"
    BY <1>2, <1>6 DEF LockBusy
  <2>. HIDE DEF r
  <2>. QED
    BY <1>4, <2>1, <2>2 DEF PhaseHolds, FramePhase
<1>7. ASSUME LockTimeout(w) \/ RoundTripFails(w) PROVE FramePhase(wk'[w])
  <2>1. wk'[w] = Goto(w, "compensate", 1)
    BY <1>2, <1>7 DEF LockTimeout, RoundTripFails, Throw
  <2>. QED
    BY <1>1, <2>1, ThrowFacts, Unphased
<1>16. ASSUME SetReplyLost(w) PROVE FramePhase(wk'[w])
  <2>1. CASE wk'[w] = Goto(w, "compensate", 1)
    BY <1>1, <2>1, ThrowFacts, Unphased
  <2>2. CASE wk'[w] = Goto(w, "backoff", wk[w].i)
    <3>. DEFINE r == Goto(w, "backoff", wk[w].i)
    <3>1. r.run = wk[w].run /\ r.held = wk[w].held /\ r.pc = "backoff" /\ r.i = wk[w].i
      BY <1>1, <1>2, <1>3, GotoFacts
    <3>2. wk'[w] = r /\ wk[w].pc \in {"acquire", "backoff"}
      BY <1>16, <2>2 DEF SetReplyLost
    <3>. HIDE DEF r
    <3>. QED
      BY <1>4, <3>1, <3>2 DEF PhaseHolds, FramePhase
  <2>. QED
    BY <1>2, <1>16, <2>1, <2>2 DEF SetReplyLost, Throw
<1>17. ASSUME WriteReplyLost(w) \/ GiveBackReplyLost(w) PROVE FramePhase(wk'[w])
  <2>1. wk'[w] = Goto(w, "compensate", 1) \/ wk'[w] = Goto(w, "release", 1)
    BY <1>2, <1>17 DEF WriteReplyLost, GiveBackReplyLost, Throw
  <2>2. Goto(w, "compensate", 1).pc = "compensate" /\ Goto(w, "release", 1).pc = "release"
    BY <1>1, <1>2, <1>3, GotoFacts
  <2>. QED
    BY <2>1, <2>2, Unphased
<1>8. ASSUME CheckStock(w) PROVE FramePhase(wk'[w])
  <2>1. CASE StockSuffices(w)
    <3>1. wk'[w] = Goto(w, "decrement", wk[w].i) /\ wk[w].pc \in LockedPhases
      BY <1>2, <1>4, <1>8, <2>1 DEF CheckStock
    <3>2. Goto(w, "decrement", wk[w].i).pc \in LockedPhases
      BY <1>1, <1>2, <1>3, <1>4, GotoFacts
    <3>. QED
      BY <1>1, <1>2, <1>3, <3>1, <3>2, GotoFacts, StaysLocked
  <2>2. CASE ~StockSuffices(w)
    <3>1. wk'[w] = Goto(w, "compensate", 1)
      BY <1>2, <1>8, <2>2 DEF CheckStock, Throw
    <3>. QED
      BY <1>1, <3>1, ThrowFacts, Unphased
  <2>. QED
    BY <2>1, <2>2
<1>9. ASSUME DecrementStock(w) \/ MarkOutOfStock(w) PROVE FramePhase(wk'[w])
  <2>1. /\ wk[w].pc \in LockedPhases
        /\ \/ wk'[w] = Goto(w, "markout", wk[w].i)
           \/ wk'[w] = Advance(w, "check", "confirm")
    BY <1>2, <1>4, <1>9 DEF DecrementStock, MarkOutOfStock
  <2>2. CASE wk'[w] = Goto(w, "markout", wk[w].i)
    <3>1. Goto(w, "markout", wk[w].i).pc \in LockedPhases
      BY <1>1, <1>2, <1>3, <1>4, GotoFacts
    <3>. QED
      BY <1>1, <1>2, <1>3, <2>1, <2>2, <3>1, GotoFacts, StaysLocked
  <2>3. CASE wk'[w] = Advance(w, "check", "confirm")
    <3>1. Advance(w, "check", "confirm").pc \in LockedPhases
      BY <1>1, <1>3, <1>4, AdvanceFacts
    <3>. QED
      BY <1>1, <1>3, <2>1, <2>3, <3>1, AdvanceFacts, StaysLocked
  <2>. QED
    BY <2>1, <2>2, <2>3
<1>10. ASSUME ConfirmOrder(w) PROVE FramePhase(wk'[w])
  <2>. DEFINE g == Goto(w, "release", 1)
  <2>1. g \in Runner /\ g.pc = "release"
    BY <1>1, <1>2, <1>3, GotoFacts
  <2>2. wk'[w] = [g EXCEPT !.ok = TRUE]
    BY <1>2, <1>10 DEF ConfirmOrder
  <2>. HIDE DEF g
  <2>3. wk'[w].pc = "release"
    BY <2>1, <2>2, ResultFacts
  <2>. QED
    BY <2>3, Unphased
<1>11. ASSUME CompensateItem(w) PROVE FramePhase(wk'[w])
  <2>1. wk'[w] = Advance(w, "compensate", "failorder")
    BY <1>2, <1>11 DEF CompensateItem
  <2>2. Advance(w, "compensate", "failorder").pc \in {"compensate", "failorder"}
    BY <1>1, <1>3, AdvanceFacts
  <2>. QED
    BY <2>1, <2>2, Unphased
<1>12. ASSUME FailOrder(w) \/ CompensationFails(w) PROVE FramePhase(wk'[w])
  <2>1. wk'[w] = Goto(w, "release", 1)
    BY <1>2, <1>12 DEF FailOrder, CompensationFails
  <2>2. Goto(w, "release", 1).pc = "release"
    BY <1>1, <1>2, <1>3, GotoFacts
  <2>. QED
    BY <2>1, <2>2, Unphased
<1>13. ASSUME ReleaseLock(w) \/ ReleaseFails(w) PROVE FramePhase(wk'[w])
  <2>1. PICK p \in Products : wk' = [wk EXCEPT ![w].held = @ \ {p}]
    BY <1>13 DEF ReleaseLock, ReleaseFails
  <2>2. wk'[w].pc = "release"
    BY <1>2, <1>13, <2>1, HeldFacts DEF ReleaseLock, ReleaseFails, Runner
  <2>. QED
    BY <2>2, Unphased
<1>14. ASSUME FinishJob(w) \/ Crash(w) PROVE FramePhase(wk'[w])
  BY <1>2, <1>14, IdleFacts, Unphased DEF FinishJob, Crash
<1>15. ASSUME SkipLock(w) PROVE FALSE
  BY <1>15 DEF SkipLock
<1>. QED
  BY <1>5, <1>6, <1>7, <1>8, <1>9, <1>10, <1>11, <1>12, <1>13, <1>14, <1>15,
     <1>16, <1>17
  DEF Process, TakeLock, Fault

LEMMA PhaseHoldsStep ==
  ASSUME LocksEnabled, QueueTyped, PhaseHolds, [Next]_vars
  PROVE  PhaseHolds'
<1>. SUFFICES ASSUME NEW w \in Workers PROVE FramePhase(wk'[w])
  BY DEF PhaseHolds, FramePhase
<1>1. CASE Quiet
  BY <1>1, QuietFacts DEF PhaseHolds
<1>2. ASSUME NEW u \in Workers, NEW j \in Jobs, StartJob(u, j)
      PROVE  FramePhase(wk'[w])
  <2>1. CASE w # u
    BY <1>2, <2>1 DEF StartJob, QueueTyped, PhaseHolds
  <2>2. CASE w = u
    <3>1. wk'[w].pc = "acquire" /\ wk'[w].i = 1
      BY <1>2, <2>2 DEF StartJob, Started, QueueTyped
    <3>. QED
      BY <3>1 DEF FramePhase, LockedPhases
  <2>. QED
    BY <2>1, <2>2
<1>3. ASSUME NEW u \in Workers, Process(u) \/ Fault(u) PROVE FramePhase(wk'[w])
  <2>1. CASE w # u
    BY <1>3, <2>1, WorkerSteps DEF Moves, QueueTyped, PhaseHolds
  <2>2. CASE w = u
    BY <1>3, <2>2, PhaseProcess
  <2>. QED
    BY <2>1, <2>2
<1>. QED
  BY <1>1, <1>2, <1>3, StepCases

\* The processor in phase 2 holds the product of its item.
LEMMA HoldsItem ==
  ASSUME QueueTyped, PhaseHolds, NEW w \in Workers, wk[w].pc \in LockedPhases
  PROVE  /\ Busy(w)
         /\ ItemOf(w) \in Products
         /\ ItemOf(w) \in wk[w].held
<1>1. Busy(w)
  BY DEF Busy, LockedPhases
<1>2. wk[w].i \in 1..Len(CartOf(w)) /\ ItemOf(w) \in Products
  BY <1>1, BusyFacts
<1>. QED
  BY <1>1, <1>2 DEF PhaseHolds, FramePhase, ItemOf, CartOf

\* The only steps that change the stock.
Decrements(w) ==
  /\ wk[w].pc = "decrement"
  /\ stock' = [stock EXCEPT ![ItemOf(w)] = @ - QtyOf(w, ItemOf(w))]
Compensates(w) ==
  /\ wk[w].pc = "compensate"
  /\ stock' = [stock EXCEPT ![ItemOf(w)] = @ + QtyOf(w, ItemOf(w))]

LEMMA StockSteps ==
  ASSUME NEW w \in Workers, Process(w) \/ Fault(w)
  PROVE  \/ stock' = stock
         \/ (DecrementStock(w) \/ WriteReplyLost(w)) /\ Decrements(w)
         \/ (CompensateItem(w) \/ GiveBackReplyLost(w)) /\ Compensates(w)
BY DEF Process, TakeLock, AcquireLock, LockBusy, LockTimeout, SkipLock, CheckStock,
       DecrementStock, MarkOutOfStock, ConfirmOrder, CompensateItem, FailOrder,
       ReleaseLock, FinishJob, Fault, RoundTripFails, SetReplyLost,
       WriteReplyLost, CompensationFails, GiveBackReplyLost, ReleaseFails, Crash,
       Decrements, Decremented, Compensates, GivenBack

\* Only the check sends a worker on to the decrement.
LEMMA BeforeDecrement ==
  ASSUME QueueTyped, NEW w \in Workers, Process(w) \/ Fault(w), wk'[w].pc = "decrement"
  PROVE  /\ CheckStock(w) /\ StockSuffices(w)
         /\ wk'[w].run = wk[w].run /\ wk'[w].i = wk[w].i
<1>1. Busy(w)
  BY WorkerSteps
<1>2. /\ 1 \in 1..Len(CartOf(w))
      /\ wk[w].i \in 1..Len(CartOf(w))
      /\ wk[w] \in Runner /\ wk \in [Workers -> Runner]
  BY <1>1, BusyFacts DEF QueueTyped
<1>3. {"acquire", "backoff", "check", "decrement", "markout", "confirm",
       "compensate", "failorder", "release"} \subseteq Pcs
  BY PcFacts
<1>4. ASSUME NEW q \in Pcs \ {"decrement"}, NEW k \in 1..Len(CartOf(w)),
             wk' = [wk EXCEPT ![w] = Goto(w, q, k)]
      PROVE  FALSE
  BY <1>1, <1>2, <1>4, GotoFacts
<1>5. ASSUME NEW q \in Pcs \ {"decrement"}, NEW s \in Pcs \ {"decrement"},
             wk' = [wk EXCEPT ![w] = Advance(w, q, s)]
      PROVE  FALSE
  BY <1>1, <1>2, <1>5, AdvanceFacts
<1>6. ~AcquireLock(w)
  <2>1. SUFFICES ASSUME AcquireLock(w) PROVE FALSE
    OBVIOUS
  <2>2. AfterLock(w) \in Runner /\ AfterLock(w).pc \in {"acquire", "check"}
        /\ AfterLock(w).held = wk[w].held
    BY <1>1, <1>3, AdvanceFacts DEF AfterLock
  <2>3. wk[w].held \cup {ItemOf(w)} \in SUBSET Products
    BY <1>1, <1>2, BusyFacts DEF Runner
  <2>. QED
    BY <1>2, <2>1, <2>2, <2>3, HeldFacts DEF AcquireLock
<1>7. /\ ~LockBusy(w) /\ ~LockTimeout(w) /\ ~RoundTripFails(w) /\ ~SetReplyLost(w)
      /\ ~WriteReplyLost(w)
  BY <1>2, <1>3, <1>4
  DEF LockBusy, LockTimeout, RoundTripFails, SetReplyLost, WriteReplyLost, Throw
<1>8. ~SkipLock(w) /\ ~MarkOutOfStock(w) /\ ~CompensateItem(w)
  BY <1>3, <1>5 DEF SkipLock, MarkOutOfStock, CompensateItem
<1>9. ~DecrementStock(w)
  <2>1. SUFFICES ASSUME DecrementStock(w) PROVE FALSE
    OBVIOUS
  <2>2. \/ wk' = [wk EXCEPT ![w] = Goto(w, "markout", wk[w].i)]
        \/ wk' = [wk EXCEPT ![w] = Advance(w, "check", "confirm")]
    BY <2>1 DEF DecrementStock
  <2>. QED
    BY <1>2, <1>3, <1>4, <1>5, <2>2
<1>10. ~ConfirmOrder(w)
  <2>1. SUFFICES ASSUME ConfirmOrder(w) PROVE FALSE
    OBVIOUS
  <2>. DEFINE g == Goto(w, "release", 1)
  <2>2. g \in Runner /\ g.pc = "release"
    BY <1>1, <1>2, <1>3, GotoFacts
  <2>3. wk'[w] = [g EXCEPT !.ok = TRUE]
    BY <1>2, <2>1 DEF ConfirmOrder
  <2>. HIDE DEF g
  <2>. QED
    BY <2>2, <2>3, ResultFacts
<1>11. ~FailOrder(w) /\ ~CompensationFails(w) /\ ~GiveBackReplyLost(w)
  BY <1>2, <1>3, <1>4 DEF FailOrder, CompensationFails, GiveBackReplyLost
<1>12. ~ReleaseLock(w) /\ ~ReleaseFails(w)
  BY <1>2 DEF ReleaseLock, ReleaseFails, Runner
<1>13. ~FinishJob(w) /\ ~Crash(w)
  BY <1>2, IdleFacts DEF FinishJob, Crash
<1>14. CheckStock(w)
  BY <1>6, <1>7, <1>8, <1>9, <1>10, <1>11, <1>12, <1>13 DEF Process, TakeLock, Fault
<1>15. StockSuffices(w)
  BY <1>2, <1>3, <1>4, <1>14 DEF CheckStock, Throw
<1>16. wk'[w] = Goto(w, "decrement", wk[w].i)
  BY <1>2, <1>14, <1>15 DEF CheckStock
<1>. QED
  BY <1>1, <1>2, <1>3, <1>14, <1>15, <1>16, GotoFacts

\* Two workers in phase 2 are never at the same product.
LEMMA DifferentItems ==
  ASSUME QueueTyped, RunsDistinct, HeldIsOwned, PhaseHolds,
         NEW w \in Workers, NEW u \in Workers, w # u,
         wk[w].pc = "decrement", wk[u].pc = "decrement"
  PROVE  ItemOf(w) # ItemOf(u)
<1>1. wk[w].pc \in LockedPhases /\ wk[u].pc \in LockedPhases
  BY DEF LockedPhases
<1>2. /\ Busy(w) /\ ItemOf(w) \in Products /\ ItemOf(w) \in wk[w].held
      /\ Busy(u) /\ ItemOf(u) \in Products /\ ItemOf(u) \in wk[u].held
  BY <1>1, HoldsItem
<1>. QED
  BY <1>2 DEF HeldIsOwned, RunsDistinct

LEMMA StockStep ==
  ASSUME QueueTyped, RunsDistinct, HeldIsOwned, PhaseHolds, CheckStillHolds,
         StockNonNegative, [Next]_vars
  PROVE  CheckStillHolds' /\ StockNonNegative'
<1>1. stock \in [Products -> Int]
  BY DEF QueueTyped
<1>2. CASE Quiet
  BY <1>2, QuietFacts DEF CheckStillHolds, StockNonNegative, ItemOf, QtyOf, CartOf
<1>3. ASSUME NEW u \in Workers, NEW j \in Jobs, StartJob(u, j)
      PROVE  CheckStillHolds' /\ StockNonNegative'
  <2>1. stock' = stock
    BY <1>3 DEF StartJob
  <2>2. ASSUME NEW w \in Workers, wk'[w].pc = "decrement" PROVE wk'[w] = wk[w]
    BY <1>3, <2>2 DEF StartJob, Started, QueueTyped
  <2>. QED
    BY <2>1, <2>2 DEF CheckStillHolds, StockNonNegative, ItemOf, QtyOf, CartOf
<1>4. ASSUME NEW u \in Workers, Process(u) \/ Fault(u)
      PROVE  CheckStillHolds' /\ StockNonNegative'
  <2>1. /\ ItemOf(u) \in Products
        /\ QtyOf(u, ItemOf(u)) \in Nat
    BY <1>4, WorkerSteps, BusyFacts
  <2>2. ASSUME NEW p \in Products PROVE stock'[p] >= 0
    <3>1. stock[p] >= 0
      BY DEF StockNonNegative
    <3>2. CASE stock' = stock
      BY <3>1, <3>2
    <3>3. CASE Decrements(u)
      BY <1>1, <2>1, <3>1, <3>3 DEF Decrements, CheckStillHolds
    <3>4. CASE Compensates(u)
      BY <1>1, <2>1, <3>1, <3>4 DEF Compensates
    <3>. QED
      BY <1>4, <3>2, <3>3, <3>4, StockSteps
  <2>3. ASSUME NEW w \in Workers, wk'[w].pc = "decrement"
        PROVE  stock'[ItemOf(w)'] >= QtyOf(w, ItemOf(w))'
    <3>1. CASE w = u
      <4>1. /\ CheckStock(u) /\ StockSuffices(u)
            /\ wk'[u].run = wk[u].run /\ wk'[u].i = wk[u].i
        BY <1>4, <2>3, <3>1, BeforeDecrement
      <4>2. stock' = stock
        BY <4>1 DEF CheckStock
      <4>. QED
        BY <3>1, <4>1, <4>2 DEF StockSuffices, ItemOf, QtyOf, CartOf
    <3>2. CASE w # u
      <4>1. wk'[w] = wk[w]
        BY <1>4, <3>2, WorkerSteps DEF Moves, QueueTyped
      <4>2. /\ stock[ItemOf(w)] >= QtyOf(w, ItemOf(w))
            /\ wk[w].pc = "decrement"
        BY <2>3, <4>1 DEF CheckStillHolds
      <4>3. ItemOf(w) \in Products /\ QtyOf(w, ItemOf(w)) \in Nat
        BY <4>2, BusyFacts DEF Busy
      <4>4. ItemOf(w)' = ItemOf(w) /\ QtyOf(w, ItemOf(w))' = QtyOf(w, ItemOf(w))
        BY <4>1 DEF ItemOf, QtyOf, CartOf
      <4>5. stock'[ItemOf(w)] >= stock[ItemOf(w)]
        <5>1. CASE stock' = stock
          BY <1>1, <4>3, <5>1
        <5>2. CASE Decrements(u)
          <6>1. ItemOf(w) # ItemOf(u)
            BY <3>2, <4>2, <5>2, DifferentItems DEF Decrements
          <6>. QED
            BY <1>1, <2>1, <4>3, <5>2, <6>1 DEF Decrements
        <5>3. CASE Compensates(u)
          BY <1>1, <2>1, <4>3, <5>3 DEF Compensates
        <5>. QED
          BY <1>4, <5>1, <5>2, <5>3, StockSteps
      <4>6. stock' \in [Products -> Int]
        <5>1. CASE stock' = stock
          BY <1>1, <5>1
        <5>2. CASE Decrements(u)
          BY <1>1, <2>1, <5>2 DEF Decrements
        <5>3. CASE Compensates(u)
          BY <1>1, <2>1, <5>3 DEF Compensates
        <5>. QED
          BY <1>4, <5>1, <5>2, <5>3, StockSteps
      <4>. QED
        BY <1>1, <4>2, <4>3, <4>4, <4>5, <4>6
    <3>. QED
      BY <3>1, <3>2
  <2>. QED
    BY <2>2, <2>3 DEF CheckStillHolds, StockNonNegative
<1>. QED
  BY <1>2, <1>3, <1>4, StepCases

\* The inductive invariant of the queue under locks.
LockInv ==
  QueueTyped /\ RunsDistinct /\ HeldIsOwned /\ PhaseHolds /\ CheckStillHolds
  /\ StockNonNegative

LEMMA LockInvariant ==
  ASSUME LockSound, LocksEnabled PROVE Spec => []LockInv
<1>1. Init => PhaseHolds /\ CheckStillHolds
  BY IdleFacts DEF Init, PhaseHolds, CheckStillHolds, FramePhase, LockedPhases
<1>2. Init => StockNonNegative
  BY CheckoutAssumption DEF Init, StockNonNegative
<1>3. LockInv /\ [Next]_vars
        => PhaseHolds' /\ CheckStillHolds' /\ StockNonNegative'
  BY PhaseHoldsStep, StockStep DEF LockInv
<1>4. LockInv <=> /\ QueueTyped /\ RunsDistinct /\ HeldIsOwned
                  /\ PhaseHolds /\ CheckStillHolds /\ StockNonNegative
  BY DEF LockInv
<1>. QED
  BY HeldLocksAreOwned, <1>1, <1>2, <1>3, <1>4, PTL DEF Spec

\* No interleaving of the checks and decrements of any number of workers takes
\* a product below zero, although the decrement does not repeat the check.
THEOREM StockNeverNegative ==
  ASSUME LockSound, LocksEnabled PROVE Spec => []StockNonNegative
<1>1. LockInv => StockNonNegative
  BY DEF LockInv
<1>. QED
  BY LockInvariant, <1>1, PTL

-----------------------------------------------------------------------------
(***************************************************************************)
(* The queue implements StockGuard.  Acquiring a key is Enter, a decrement *)
(* is Take, an item of a compensation is GiveBack; a release and the end   *)
(* of a process are Leave; everything else leaves the guard as it is.      *)
(***************************************************************************)

\* The refinement mapping of CheckoutProperties.
Inside == [p \in Products |-> {w \in Workers : p \in wk[w].held}]

\* A step in which nobody's locks change.
LEMMA SameHeld ==
  ASSUME \A w \in Workers : wk'[w].held = wk[w].held
  PROVE  Inside' = Inside
BY DEF Inside

\* Stock moves while the mover's locks stay.
LEMMA StockMoverKeeps ==
  ASSUME QueueTyped, NEW u \in Workers,
         \/ DecrementStock(u) \/ WriteReplyLost(u)
         \/ CompensateItem(u) \/ GiveBackReplyLost(u)
  PROVE  Inside' = Inside
<1>1. Busy(u)
  BY DEF DecrementStock, CompensateItem, WriteReplyLost, GiveBackReplyLost, Busy
<1>2. /\ wk[u].i \in 1..Len(CartOf(u)) /\ 1 \in 1..Len(CartOf(u))
      /\ wk \in [Workers -> Runner]
  BY <1>1, BusyFacts DEF QueueTyped
<1>3. \/ wk' = [wk EXCEPT ![u] = Goto(u, "markout", wk[u].i)]
      \/ wk' = [wk EXCEPT ![u] = Advance(u, "check", "confirm")]
      \/ wk' = [wk EXCEPT ![u] = Advance(u, "compensate", "failorder")]
      \/ wk' = [wk EXCEPT ![u] = Goto(u, "compensate", 1)]
      \/ wk' = [wk EXCEPT ![u] = Goto(u, "release", 1)]
  BY DEF DecrementStock, CompensateItem, WriteReplyLost, GiveBackReplyLost, Throw
<1>4. /\ Goto(u, "markout", wk[u].i).held = wk[u].held
      /\ Advance(u, "check", "confirm").held = wk[u].held
      /\ Advance(u, "compensate", "failorder").held = wk[u].held
      /\ Goto(u, "compensate", 1).held = wk[u].held
      /\ Goto(u, "release", 1).held = wk[u].held
  BY <1>1, <1>2, PcFacts, GotoFacts, AdvanceFacts
<1>. QED
  BY <1>2, <1>3, <1>4, SameHeld

\* The workers inside for p are the one run that owns its key, or none.
LEMMA InsideFacts ==
  ASSUME LockInv, NEW p \in Products
  PROVE  /\ \A w \in Workers : p \in wk[w].held => Inside[p] = {w}
         /\ lock[p] = NoLock => Inside[p] = {}
<1>1. ASSUME NEW w \in Workers, p \in wk[w].held
      PROVE  Busy(w) /\ lock[p] = wk[w].run /\ lock[p] # NoLock
  BY <1>1, BusyFacts, NullAssumption DEF LockInv, HeldIsOwned
<1>2. ASSUME NEW w \in Workers, p \in wk[w].held
      PROVE  Inside[p] = {w}
  BY <1>1, <1>2 DEF LockInv, RunsDistinct, Inside
<1>. QED
  BY <1>1, <1>2 DEF Inside

\* The steps of StockGuard, read off the queue.
Enters(w, p) ==
  Inside[p] = {} /\ Inside' = [Inside EXCEPT ![p] = {w}] /\ stock' = stock
Takes(w, p, q) ==
  /\ Inside[p] = {w} /\ stock[p] >= q
  /\ stock' = [stock EXCEPT ![p] = @ - q] /\ Inside' = Inside
GivesBack(p, q) == stock' = [stock EXCEPT ![p] = @ + q] /\ Inside' = Inside
Leaves(w, P) ==
  /\ Inside' = [p \in Products |-> IF p \in P THEN Inside[p] \ {w} ELSE Inside[p]]
  /\ stock' = stock

GuardMove ==
  \/ stock' = stock /\ Inside' = Inside
  \/ \E w \in Workers, p \in Products : Enters(w, p)
  \/ \E w \in Workers, p \in Products, j \in Jobs : Takes(w, p, Qty[j][p])
  \/ \E p \in Products, j \in Jobs : GivesBack(p, Qty[j][p])
  \/ \E w \in Workers : \E P \in SUBSET Products : Leaves(w, P)

LEMMA GuardStep ==
  ASSUME LockInv, [Next]_vars
  PROVE  GuardMove
<1>1. QueueTyped /\ wk \in [Workers -> Runner]
  BY DEF LockInv, QueueTyped
<1>2. CASE Quiet
  BY <1>2, QuietFacts, SameHeld DEF GuardMove
<1>3. ASSUME NEW u \in Workers, NEW j \in Jobs, StartJob(u, j) PROVE GuardMove
  <2>1. wk[u].held = {}
    BY <1>3, IdleFacts DEF StartJob, Busy, LockInv, RunsDistinct
  <2>2. \A w \in Workers : wk'[w].held = wk[w].held
    BY <1>1, <1>3, <2>1 DEF StartJob, Started
  <2>. QED
    BY <1>3, <2>2, SameHeld DEF StartJob, GuardMove
<1>4. ASSUME NEW u \in Workers, DecrementStock(u) \/ WriteReplyLost(u), Decrements(u)
      PROVE  GuardMove
  <2>1. wk[u].pc \in LockedPhases /\ wk[u].pc = "decrement"
    BY <1>4 DEF Decrements, LockedPhases
  <2>2. /\ ItemOf(u) \in Products /\ ItemOf(u) \in wk[u].held
        /\ wk[u].run.job \in Jobs
    BY <1>1, <2>1, HoldsItem, BusyFacts DEF LockInv
  <2>3. Inside[ItemOf(u)] = {u}
    BY <2>2, InsideFacts
  <2>4. stock[ItemOf(u)] >= QtyOf(u, ItemOf(u))
    BY <2>1 DEF LockInv, CheckStillHolds
  <2>5. Takes(u, ItemOf(u), Qty[wk[u].run.job][ItemOf(u)])
    BY <1>1, <1>4, <2>3, <2>4, StockMoverKeeps DEF Decrements, QtyOf, Takes
  <2>. QED
    BY <2>2, <2>5 DEF GuardMove
<1>5. ASSUME NEW u \in Workers, CompensateItem(u) \/ GiveBackReplyLost(u), Compensates(u)
      PROVE  GuardMove
  <2>1. ItemOf(u) \in Products /\ wk[u].run.job \in Jobs
    BY <1>1, <1>5, BusyFacts DEF Busy, Compensates
  <2>2. GivesBack(ItemOf(u), Qty[wk[u].run.job][ItemOf(u)])
    BY <1>1, <1>5, StockMoverKeeps DEF Compensates, QtyOf, GivesBack
  <2>. QED
    BY <2>1, <2>2 DEF GuardMove
<1>6. ASSUME NEW u \in Workers, Process(u) \/ Fault(u), stock' = stock PROVE GuardMove
  <2>1. PICK r \in Runner : Moves(u, r) /\ LockStep(u, r)
    BY <1>1, <1>6, WorkerSteps
  <2>2. \A w \in Workers : wk'[w].held = IF w = u THEN r.held ELSE wk[w].held
    BY <1>1, <2>1 DEF Moves
  <2>3. Inside' = [p \in Products |->
                     {w \in Workers : p \in IF w = u THEN r.held ELSE wk[w].held}]
    BY <2>2 DEF Inside
  <2>4. ASSUME NEW q \in Products, Acquires(u, r, q) PROVE GuardMove
    <3>1. Inside[q] = {}
      BY <2>4, InsideFacts DEF Acquires
    <3>2. ASSUME NEW p \in Products, p # q PROVE Inside'[p] = Inside[p]
      BY <2>3, <2>4, <3>2 DEF Acquires, Inside
    <3>3. Inside'[q] = {u}
      BY <2>3, <2>4, <3>1 DEF Acquires, Inside
    <3>4. Inside' = [Inside EXCEPT ![q] = {u}]
      BY <3>2, <3>3 DEF Inside
    <3>. QED
      BY <1>6, <3>1, <3>4 DEF GuardMove, Enters
  <2>8. ASSUME NEW q \in Products, Leaks(u, r, q) PROVE GuardMove
    BY <1>6, <2>2, <2>8, SameHeld DEF Leaks, GuardMove
  <2>5. ASSUME NEW q \in Products, Releases(u, r, q) PROVE GuardMove
    <3>1. ASSUME NEW p \in Products
          PROVE  Inside'[p] = IF p \in {q} THEN Inside[p] \ {u} ELSE Inside[p]
      BY <2>3, <2>5 DEF Releases, Inside
    <3>2. Leaves(u, {q})
      BY <1>6, <3>1 DEF Leaves, Inside
    <3>3. {q} \in SUBSET Products
      OBVIOUS
    <3>. QED
      BY <3>2, <3>3 DEF GuardMove
  <2>6. CASE Works(u, r)
    BY <1>6, <2>2, <2>6, SameHeld DEF Works, GuardMove
  <2>7. CASE Ends(u, r)
    <3>1. ASSUME NEW p \in Products PROVE Inside'[p] = Inside[p] \ {u}
      BY <2>3, <2>7, IdleFacts DEF Ends, Inside
    <3>2. Leaves(u, Products)
      BY <1>6, <3>1 DEF Leaves, Inside
    <3>3. Products \in SUBSET Products
      OBVIOUS
    <3>. QED
      BY <3>2, <3>3 DEF GuardMove
  <2>. QED
    BY <2>1, <2>4, <2>5, <2>6, <2>7, <2>8 DEF LockStep
<1>. QED
  BY <1>2, <1>3, <1>4, <1>5, <1>6, StepCases, StockSteps

\* Every behaviour of the queue under locks is one StockGuard allows.
THEOREM GuardImplemented ==
  ASSUME LockSound, LocksEnabled PROVE Spec => ImplementsGuard
<1>1. Init => Guard!Init
  BY IdleFacts DEF Init, Guard!Init
<1>2. LockInv /\ [Next]_vars => [Guard!Next]_(Guard!vars)
  <2>. SUFFICES ASSUME GuardMove PROVE [Guard!Next]_(Guard!vars)
    BY GuardStep
  <2>1. CASE stock' = stock /\ Inside' = Inside
    BY <2>1 DEF Inside, Guard!vars
  <2>2. ASSUME NEW w \in Workers, NEW p \in Products, Enters(w, p)
        PROVE  Guard!Next
    <3>1. Guard!Enter(w, p)
      BY <2>2 DEF Enters, Inside, Guard!Enter
    <3>. QED
      BY <3>1 DEF Guard!Next
  <2>3. ASSUME NEW w \in Workers, NEW p \in Products, NEW j \in Jobs,
               Takes(w, p, Qty[j][p])
        PROVE  Guard!Next
    <3>1. Guard!Take(w, p, Qty[j][p])
      BY <2>3 DEF Takes, Inside, Guard!Take
    <3>. QED
      BY <3>1 DEF Guard!Next
  <2>4. ASSUME NEW p \in Products, NEW j \in Jobs, GivesBack(p, Qty[j][p])
        PROVE  Guard!Next
    <3>1. Guard!GiveBack(p, Qty[j][p])
      BY <2>4 DEF GivesBack, Inside, Guard!GiveBack
    <3>. QED
      BY <3>1 DEF Guard!Next
  <2>5. ASSUME NEW w \in Workers, NEW P \in SUBSET Products, Leaves(w, P)
        PROVE  Guard!Next
    <3>1. Guard!Leave(w, P)
      BY <2>5 DEF Leaves, Inside, Guard!Leave
    <3>. QED
      BY <3>1 DEF Guard!Next
  <2>. QED
    BY <2>1, <2>2, <2>3, <2>4, <2>5 DEF GuardMove
<1>. QED
  BY LockInvariant, <1>1, <1>2, PTL DEF Spec, ImplementsGuard, Guard!Spec

-----------------------------------------------------------------------------
(***************************************************************************)
(* Part 4: the orders and the units.                                       *)
(***************************************************************************)
LiveWork == Faults \cap {"crash", "stall", "mongo"} = {}

\* Bull counts on every run under way, and a job is active only because of one.
RunsOwnJobs ==
  /\ \A w \in Workers : Busy(w) => Owns(w)
  /\ \A j \in Jobs : job[j].state = "active" =>
       \E w \in Workers : Busy(w) /\ wk[w].run.job = j

\* A run that is at its releases has written what its result says.
OutcomeWritten ==
  \A w \in Workers :
    /\ wk[w].ok => wk[w].pc = "release"
    /\ wk[w].pc = "release" =>
         order[wk[w].run.job].status = IF wk[w].ok THEN "confirmed" ELSE "failed"

\* What holds of the runs, whoever else writes the orders.
RunsInv == QueueTyped /\ RunsDistinct /\ RunsOwnJobs

OrderInv ==
  RunsInv /\ order \in QueueOrders /\ OutcomeWritten /\ JobAndOrderAgree

-----------------------------------------------------------------------------
\* The places of the cart whose units the run of frame r has taken, or is to
\* give back.
Places(r) ==
  {n \in 1..Len(Cart[r.run.job]) :
     \/ r.pc \in {"check", "decrement"} /\ n < r.i
     \/ r.pc = "markout" /\ n <= r.i
     \/ r.pc = "confirm"
     \/ r.pc = "compensate" /\ r.i <= n
     \/ r.pc = "release" /\ r.ok}

\* The units of p it answers for.
Owed(r, p) ==
  IF \E n \in Places(r) : Cart[r.run.job][n] = p THEN Qty[r.run.job][p] ELSE 0

Owing(p) == SumFunction([w \in Workers |-> Owed(wk[w], p)])

\* Compensation may give back more than was taken, hence no equality.
UnitsAccounted ==
  \A p \in Products : stock[p] + Sold(p) + Owing(p) >= InitialStock[p]

-----------------------------------------------------------------------------
(***************************************************************************)
(* What a step of the processor of worker w does to its run, its order and *)
(* its job.                                                                *)
(***************************************************************************)
LEMMA GotoResult ==
  ASSUME QueueTyped, NEW w \in Workers, Busy(w), NEW q, NEW k
  PROVE  Goto(w, q, k).ok = wk[w].ok
BY BusyFacts DEF Goto, Frames

LEMMA AdvanceResult ==
  ASSUME QueueTyped, NEW w \in Workers, Busy(w), NEW q, NEW s
  PROVE  Advance(w, q, s).ok = wk[w].ok
BY GotoResult DEF Advance

Goes(w, r) ==
  /\ r.pc # "idle" /\ r.run = wk[w].run /\ r.ok = wk[w].ok
  /\ r.pc = "release" <=> wk[w].pc = "release"
  /\ order' = order /\ job' = job

Confirms(w, r) ==
  /\ wk[w].pc = "confirm"
  /\ r.pc = "release" /\ r.run = wk[w].run /\ r.ok = TRUE
  /\ order' = [order EXCEPT ![wk[w].run.job] = ConfirmedOrder] /\ job' = job

Fails(w, r) ==
  /\ wk[w].pc = "failorder"
  /\ r.pc = "release" /\ r.run = wk[w].run /\ r.ok = wk[w].ok
  /\ order' = [order EXCEPT ![wk[w].run.job] = FailedOrder] /\ job' = job

OrderStep(w, r) ==
  Goes(w, r) \/ Confirms(w, r) \/ Fails(w, r) \/ (FinishJob(w) /\ r = Idle)

LEMMA OrderSteps ==
  ASSUME LiveWork, QueueTyped, NEW w \in Workers, Process(w) \/ Fault(w)
  PROVE  \E r \in Runner : Moves(w, r) /\ OrderStep(w, r)
<1>1. Busy(w)
  BY WorkerSteps
<1>2. /\ 1 \in 1..Len(CartOf(w)) /\ wk[w].i \in 1..Len(CartOf(w))
      /\ ItemOf(w) \in Products /\ wk[w] \in Runner
  BY <1>1, BusyFacts DEF QueueTyped
<1>3. {"acquire", "backoff", "check", "decrement", "markout", "confirm",
       "compensate", "failorder", "release"} \subseteq Pcs \ {"idle"}
  BY PcFacts
<1>0. /\ "acquire" \in Pcs \ {"idle", "release"} /\ "check" \in Pcs \ {"idle", "release"}
      /\ "confirm" \in Pcs \ {"idle", "release"}
      /\ "compensate" \in Pcs \ {"idle", "release"}
      /\ "failorder" \in Pcs \ {"idle", "release"}
  BY PcFacts
<1>. DEFINE Goal == \E r \in Runner : Moves(w, r) /\ OrderStep(w, r)
<1>4. ASSUME NEW q \in Pcs \ {"idle", "release"}, NEW k \in 1..Len(CartOf(w)),
             wk' = [wk EXCEPT ![w] = Goto(w, q, k)], order' = order, job' = job,
             wk[w].pc # "release"
      PROVE  Goal
  <2>. DEFINE r == Goto(w, q, k)
  <2>1. r \in Runner /\ r.run = wk[w].run /\ r.pc = q /\ r.ok = wk[w].ok
    BY <1>1, <1>4, GotoFacts, GotoResult
  <2>2. Moves(w, r)
    BY <1>4 DEF Moves
  <2>. HIDE DEF r
  <2>. QED BY <1>4, <2>1, <2>2 DEF OrderStep, Goes
<1>5. ASSUME NEW q \in Pcs \ {"idle", "release"}, NEW s \in Pcs \ {"idle", "release"},
             wk' = [wk EXCEPT ![w] = Advance(w, q, s)], order' = order, job' = job,
             wk[w].pc # "release"
      PROVE  Goal
  <2>. DEFINE r == Advance(w, q, s)
  <2>1. r \in Runner /\ r.run = wk[w].run /\ r.pc \in {q, s} /\ r.ok = wk[w].ok
    BY <1>1, <1>5, AdvanceFacts, AdvanceResult
  <2>2. Moves(w, r)
    BY <1>5 DEF Moves
  <2>. HIDE DEF r
  <2>. QED BY <1>5, <2>1, <2>2 DEF OrderStep, Goes
<1>. HIDE DEF Goal
<1>6. ASSUME AcquireLock(w) PROVE Goal
  <2>. DEFINE a == AfterLock(w)
              r == [a EXCEPT !.held = @ \cup {ItemOf(w)}]
  <2>1. /\ a \in Runner /\ a.run = wk[w].run /\ a.ok = wk[w].ok
        /\ a.held \in SUBSET Products /\ a.pc \in {"acquire", "check"}
        /\ wk[w].pc # "release"
    BY <1>1, <1>3, <1>6, AdvanceFacts, AdvanceResult DEF AcquireLock, AfterLock, Runner
  <2>2. Moves(w, r) /\ order' = order /\ job' = job
    BY <1>6 DEF AcquireLock, Moves
  <2>. HIDE DEF a
  <2>3. r \in Runner /\ r.run = wk[w].run /\ r.pc = a.pc /\ r.ok = a.ok
    BY <1>2, <2>1, HeldFacts DEF Runner
  <2>. HIDE DEF r
  <2>. QED BY <2>1, <2>2, <2>3 DEF OrderStep, Goes, Goal
<1>7. ASSUME LockBusy(w) PROVE Goal
  BY <1>2, <1>3, <1>4, <1>7 DEF LockBusy
<1>8. ASSUME LockTimeout(w) \/ RoundTripFails(w) PROVE Goal
  <2>1. /\ wk' = [wk EXCEPT ![w] = Goto(w, "compensate", 1)]
        /\ order' = order /\ job' = job /\ wk[w].pc # "release"
    BY <1>8 DEF LockTimeout, GivesUp, RoundTripFails, Throw
  <2>. QED BY <1>0, <1>2, <1>4, <2>1
<1>19. ASSUME SetReplyLost(w) PROVE Goal
  <2>1. /\ \/ wk' = [wk EXCEPT ![w] = Goto(w, "compensate", 1)]
           \/ wk' = [wk EXCEPT ![w] = Goto(w, "backoff", wk[w].i)]
        /\ order' = order /\ job' = job /\ wk[w].pc # "release"
    BY <1>19 DEF SetReplyLost, Throw
  <2>. QED BY <1>0, <1>2, <1>3, <1>4, <2>1
<1>9. ASSUME SkipLock(w) PROVE Goal
  BY <1>0, <1>5, <1>9 DEF SkipLock
<1>10. ASSUME CheckStock(w) PROVE Goal
  BY <1>2, <1>3, <1>4, <1>10 DEF CheckStock, Throw
<1>11. ASSUME DecrementStock(w) PROVE Goal
  <2>1. /\ order' = order /\ job' = job /\ wk[w].pc # "release"
        /\ \/ wk' = [wk EXCEPT ![w] = Goto(w, "markout", wk[w].i)]
           \/ wk' = [wk EXCEPT ![w] = Advance(w, "check", "confirm")]
    BY <1>11 DEF DecrementStock
  <2>. QED BY <1>2, <1>3, <1>4, <1>5, <2>1
<1>12. ASSUME MarkOutOfStock(w) PROVE Goal
  BY <1>0, <1>5, <1>12 DEF MarkOutOfStock
<1>13. ASSUME ConfirmOrder(w) PROVE Goal
  <2>. DEFINE g == Goto(w, "release", 1)
              r == [g EXCEPT !.ok = TRUE]
  <2>1. g \in Runner /\ g.pc = "release" /\ g.run = wk[w].run
    BY <1>1, <1>2, <1>3, GotoFacts
  <2>2. /\ Moves(w, r) /\ wk[w].pc = "confirm" /\ job' = job
        /\ order' = [order EXCEPT ![wk[w].run.job] = ConfirmedOrder]
    BY <1>13 DEF ConfirmOrder, Moves
  <2>. HIDE DEF g
  <2>3. r \in Runner /\ r.run = wk[w].run /\ r.pc = "release" /\ r.ok = TRUE
    BY <2>1, ResultFacts DEF Runner
  <2>. HIDE DEF r
  <2>. QED BY <2>2, <2>3 DEF OrderStep, Confirms, Goal
<1>14. ASSUME CompensateItem(w) PROVE Goal
  BY <1>0, <1>5, <1>14 DEF CompensateItem
<1>15. ASSUME FailOrder(w) PROVE Goal
  <2>. DEFINE r == Goto(w, "release", 1)
  <2>1. r \in Runner /\ r.pc = "release" /\ r.run = wk[w].run /\ r.ok = wk[w].ok
    BY <1>1, <1>2, <1>3, GotoFacts, GotoResult
  <2>2. /\ Moves(w, r) /\ wk[w].pc = "failorder" /\ job' = job
        /\ order' = [order EXCEPT ![wk[w].run.job] = FailedOrder]
    BY <1>15 DEF FailOrder, Moves
  <2>. HIDE DEF r
  <2>. QED BY <2>1, <2>2 DEF OrderStep, Fails, Goal
<1>16. ASSUME ReleaseLock(w) \/ ReleaseFails(w) PROVE Goal
  <2>1. PICK p \in Products : wk' = [wk EXCEPT ![w].held = @ \ {p}]
    BY <1>16 DEF ReleaseLock, ReleaseFails
  <2>. DEFINE r == [wk[w] EXCEPT !.held = @ \ {p}]
  <2>2. /\ r \in Runner /\ r.run = wk[w].run /\ r.pc = "release" /\ r.ok = wk[w].ok
        /\ wk[w].pc = "release" /\ order' = order /\ job' = job
    BY <1>2, <1>16, HeldFacts DEF ReleaseLock, ReleaseFails, Runner
  <2>3. Moves(w, r)
    BY <1>2, <2>1 DEF Moves, QueueTyped
  <2>. HIDE DEF r
  <2>. QED BY <2>2, <2>3 DEF OrderStep, Goes, Goal
<1>17. ASSUME FinishJob(w) PROVE Goal
  BY <1>17, IdleFacts DEF OrderStep, Goal, Moves, FinishJob
<1>18. ~Crash(w) /\ ~CompensationFails(w) /\ ~WriteReplyLost(w) /\ ~GiveBackReplyLost(w)
  BY DEF LiveWork, Crash, CompensationFails, WriteReplyLost, GiveBackReplyLost
<1>. QED
  BY <1>6, <1>7, <1>8, <1>9, <1>10, <1>11, <1>12, <1>13, <1>14, <1>15, <1>16,
     <1>17, <1>18, <1>19
  DEF Process, Fault, TakeLock, Goal

-----------------------------------------------------------------------------
(***************************************************************************)
(* The inductive step.                                                     *)
(***************************************************************************)
LEMMA OneRunPerJob ==
  ASSUME QueueTyped, RunsDistinct, RunsOwnJobs, NEW w \in Workers, NEW v \in Workers,
         Busy(w), Busy(v), wk[w].run.job = wk[v].run.job
  PROVE  w = v
<1>1. wk[w].run \in RunIds /\ wk[v].run \in RunIds
  BY BusyFacts
<1>2. wk[w].run.n = wk[v].run.n
  BY DEF RunsOwnJobs, Owns
<1>3. wk[w].run = wk[v].run
  BY <1>1, <1>2 DEF RunIds
<1>. QED BY <1>3 DEF RunsDistinct

\* A job that is under way is not found stalled.
LEMMA NobodyStalls ==
  ASSUME LiveWork, RunsOwnJobs, Quiet
  PROVE  UNCHANGED <<order, job, runs, wk, stock>>
<1>1. ASSUME NEW j \in Jobs, Stalled(j) PROVE FALSE
  <2>1. PICK w \in Workers : Busy(w) /\ wk[w].run.job = j
    BY <1>1 DEF Stalled, RunsOwnJobs
  <2>2. Owns(w)
    BY <2>1 DEF RunsOwnJobs
  <2>. QED BY <1>1, <2>1, <2>2 DEF Stalled, LiveWork
<1>. QED BY <1>1, QuietFacts DEF Quiet, ExpireLock, Sweep, vars

LEMMA StartOwns ==
  ASSUME RunsInv, NEW w \in Workers, NEW j \in Jobs, StartJob(w, j)
  PROVE  RunsOwnJobs'
<1>. DEFINE r == Started([job |-> j, n |-> runs[j] + 1])
<1>1. /\ wk \in [Workers -> Runner] /\ runs \in [Jobs -> Nat]
      /\ job \in [Jobs -> [state : {"waiting", "active", "completed", "failed"},
                           attempts : Nat, stalls : Nat]]
      /\ wk' = [wk EXCEPT ![w] = r] /\ runs' = [runs EXCEPT ![j] = @ + 1]
      /\ job[j].state = "waiting" /\ job' = [job EXCEPT ![j].state = "active"]
      /\ ~Busy(w)
  BY DEF RunsInv, StartJob, QueueTyped, Busy
<1>2. r.run.job = j /\ r.run.n = runs[j] + 1 /\ r.pc = "acquire" /\ r.ok = FALSE
  BY DEF Started
<1>. HIDE DEF r
<1>3. /\ job'[j].state = "active"
      /\ \A k \in Jobs \ {j} : job'[k] = job[k] /\ runs'[k] = runs[k]
  BY <1>1
<1>4. ASSUME NEW v \in Workers, v # w, Busy(v)
      PROVE  /\ wk'[v] = wk[v] /\ wk[v].run.job \in Jobs \ {j} /\ Owns(v)
             /\ job[wk[v].run.job].state = "active"
  BY <1>1, <1>4, BusyFacts DEF RunsInv, RunsOwnJobs, Owns
<1>5. /\ wk'[w] = r /\ Busy(w)' /\ wk'[w].run.n = runs'[j]
      /\ \A v \in Workers : v # w => wk'[v] = wk[v]
  BY <1>1, <1>2 DEF Busy
<1>6. ASSUME NEW v \in Workers, Busy(v)' PROVE Owns(v)'
  <2>1. CASE v = w
    BY <1>2, <1>3, <1>5, <2>1 DEF Owns, Busy
  <2>2. CASE v # w
    <3>1. Busy(v)
      BY <1>5, <1>6, <2>2 DEF Busy
    <3>. QED BY <1>3, <1>4, <2>2, <3>1 DEF Owns
  <2>. QED BY <2>1, <2>2
<1>7. ASSUME NEW k \in Jobs, job'[k].state = "active"
      PROVE  \E v \in Workers : Busy(v)' /\ wk'[v].run.job = k
  <2>1. CASE k = j
    BY <1>2, <1>5, <2>1
  <2>2. CASE k # j
    <3>1. PICK v \in Workers : Busy(v) /\ wk[v].run.job = k
      BY <1>3, <1>7, <2>2 DEF RunsInv, RunsOwnJobs
    <3>. QED BY <1>1, <1>5, <3>1 DEF Busy
  <2>. QED BY <2>1, <2>2
<1>. QED BY <1>6, <1>7 DEF RunsOwnJobs

LEMMA StartKeepsOrder ==
  ASSUME OrderInv, NEW w \in Workers, NEW j \in Jobs, StartJob(w, j)
  PROVE  OutcomeWritten' /\ JobAndOrderAgree'
<1>1. /\ \A v \in Workers : v # w => wk'[v] = wk[v]
      /\ wk'[w].pc = "acquire" /\ ~wk'[w].ok
      /\ job'[j].state = "active" /\ \A k \in Jobs \ {j} : job'[k] = job[k]
      /\ order' = order
  BY DEF OrderInv, RunsInv, QueueTyped, StartJob, Started
<1>2. OutcomeWritten'
  BY <1>1 DEF OrderInv, OutcomeWritten
<1>3. JobAndOrderAgree'
  BY <1>1 DEF OrderInv, JobAndOrderAgree
<1>. QED BY <1>2, <1>3

LEMMA WorkerOwns ==
  ASSUME LiveWork, RunsInv, NEW w \in Workers, Process(w) \/ Fault(w)
  PROVE  RunsOwnJobs'
<1>. DEFINE k == wk[w].run.job
<1>1. /\ wk \in [Workers -> Runner]
      /\ job \in [Jobs -> [state : {"waiting", "active", "completed", "failed"},
                           attempts : Nat, stalls : Nat]]
      /\ QueueTyped /\ RunsDistinct /\ RunsOwnJobs
  BY DEF RunsInv, QueueTyped
<1>2. PICK r \in Runner : Moves(w, r) /\ OrderStep(w, r)
  BY <1>1, OrderSteps
<1>3. Busy(w) /\ runs' = runs /\ k \in Jobs /\ Owns(w) /\ job[k].state = "active"
  BY <1>1, WorkerSteps, BusyFacts DEF RunsOwnJobs, Owns
<1>4. wk'[w] = r /\ \A v \in Workers : v # w => wk'[v] = wk[v]
  BY <1>1, <1>2 DEF Moves
<1>5. \A v \in Workers : v # w /\ Busy(v) => wk[v].run.job \in Jobs \ {k}
  BY <1>1, <1>3, OneRunPerJob, BusyFacts
<1>6. CASE r.pc # "idle" /\ r.run = wk[w].run /\ job' = job
  <2>1. \A v \in Workers : /\ Busy(v)' = Busy(v) /\ wk'[v].run = wk[v].run
                           /\ Owns(v)' = Owns(v)
    BY <1>3, <1>4, <1>6 DEF Busy, Owns
  <2>. QED
    BY <1>1, <1>6, <2>1 DEF RunsOwnJobs
<1>7. CASE FinishJob(w) /\ r = Idle
  <2>1. job' = [job EXCEPT ![k] = AfterRun(w)]
    BY <1>3, <1>7 DEF FinishJob
  <2>2. job'[k] = AfterRun(w) /\ \A j \in Jobs \ {k} : job'[j] = job[j]
    BY <1>1, <1>3, <2>1
  <2>3. AfterRun(w).state # "active"
    BY <1>1, <1>3 DEF AfterRun, AfterFailure
  <2>4. ~Busy(w)' /\ \A v \in Workers : v # w => Busy(v)' = Busy(v) /\ wk'[v] = wk[v]
    BY <1>4, <1>7, IdleFacts DEF Busy
  <2>5. ASSUME NEW v \in Workers, Busy(v)' PROVE Owns(v)'
    <3>1. v # w /\ Busy(v) /\ Owns(v)
      BY <1>1, <2>4, <2>5 DEF RunsOwnJobs
    <3>. QED BY <1>3, <1>5, <2>2, <2>4, <3>1 DEF Owns
  <2>6. ASSUME NEW j \in Jobs, job'[j].state = "active"
        PROVE  \E v \in Workers : Busy(v)' /\ wk'[v].run.job = j
    <3>1. j # k /\ job[j].state = "active"
      BY <2>2, <2>3, <2>6
    <3>2. PICK v \in Workers : Busy(v) /\ wk[v].run.job = j
      BY <1>1, <3>1 DEF RunsOwnJobs
    <3>. QED BY <2>4, <3>1, <3>2
  <2>. QED BY <2>5, <2>6 DEF RunsOwnJobs
<1>. QED BY <1>2, <1>6, <1>7 DEF OrderStep, Goes, Confirms, Fails

\* The runs stay those of their jobs in every step of the queue.
LEMMA RunsInvStep ==
  ASSUME LiveWork, RunsInv, [Next]_vars
  PROVE  RunsInv'
<1>1. QueueTyped' /\ RunsDistinct'
  BY QueueTypedStep, RunsDistinctStep DEF RunsInv
<1>2. CASE Quiet
  <2>1. UNCHANGED <<job, runs, wk>>
    BY <1>2, NobodyStalls DEF RunsInv
  <2>. QED BY <1>1, <2>1 DEF RunsInv, RunsOwnJobs, Busy, Owns
<1>. QED BY <1>1, <1>2, StartOwns, WorkerOwns, StepCases DEF RunsInv

LEMMA WorkerKeepsOrder ==
  ASSUME LiveWork, OrderInv, NEW w \in Workers, Process(w) \/ Fault(w)
  PROVE  OutcomeWritten' /\ JobAndOrderAgree'
<1>. DEFINE k == wk[w].run.job
<1>1. /\ wk \in [Workers -> Runner] /\ order \in QueueOrders
      /\ job \in [Jobs -> [state : {"waiting", "active", "completed", "failed"},
                           attempts : Nat, stalls : Nat]]
      /\ QueueTyped /\ RunsDistinct /\ RunsOwnJobs /\ OutcomeWritten /\ JobAndOrderAgree
  BY DEF OrderInv, RunsInv, QueueTyped
<1>2. PICK r \in Runner : Moves(w, r) /\ OrderStep(w, r)
  BY <1>1, OrderSteps
<1>3. Busy(w) /\ k \in Jobs /\ Owns(w) /\ job[k].state = "active"
  BY <1>1, WorkerSteps, BusyFacts DEF RunsOwnJobs, Owns
<1>4. wk'[w] = r /\ \A v \in Workers : v # w => wk'[v] = wk[v]
  BY <1>1, <1>2 DEF Moves
<1>5. \A v \in Workers : v # w /\ Busy(v) => wk[v].run.job \in Jobs \ {k}
  BY <1>1, <1>3, OneRunPerJob, BusyFacts
<1>6. CASE Goes(w, r)
  <2>1. OutcomeWritten'
    BY <1>1, <1>4, <1>6 DEF Goes, OutcomeWritten
  <2>2. JobAndOrderAgree'
    BY <1>1, <1>6 DEF Goes, JobAndOrderAgree
  <2>. QED BY <2>1, <2>2
<1>7. ASSUME NEW o, order' = [order EXCEPT ![k] = o], job' = job,
             r.pc = "release", r.run = wk[w].run,
             o.status = IF r.ok THEN "confirmed" ELSE "failed"
      PROVE  OutcomeWritten' /\ JobAndOrderAgree'
  <2>1. order'[k] = o /\ \A j \in Jobs \ {k} : order'[j] = order[j]
    BY <1>1, <1>3, <1>7 DEF QueueOrders
  <2>2. ASSUME NEW v \in Workers
        PROVE  /\ wk'[v].ok => wk'[v].pc = "release"
               /\ wk'[v].pc = "release" =>
                    order'[wk'[v].run.job].status
                      = IF wk'[v].ok THEN "confirmed" ELSE "failed"
    <3>1. CASE v = w
      BY <1>4, <1>7, <2>1, <3>1
    <3>2. CASE v # w
      BY <1>1, <1>4, <1>5, <2>1, <3>2 DEF OutcomeWritten, Busy
    <3>. QED BY <3>1, <3>2
  <2>3. JobAndOrderAgree'
    BY <1>1, <1>3, <1>7, <2>1 DEF JobAndOrderAgree
  <2>. QED BY <2>2, <2>3 DEF OutcomeWritten
<1>8. CASE Confirms(w, r)
  <2>. DEFINE o == ConfirmedOrder
  <2>1. o.status = "confirmed"
    BY DEF ConfirmedOrder
  <2>2. /\ order' = [order EXCEPT ![k] = o] /\ job' = job
        /\ r.pc = "release" /\ r.run = wk[w].run /\ r.ok
    BY <1>8 DEF Confirms
  <2>. HIDE DEF o, k
  <2>. QED BY <1>7, <2>1, <2>2
<1>9. CASE Fails(w, r)
  <2>1. r.ok = FALSE
    BY <1>1, <1>9 DEF Fails, OutcomeWritten, Runner
  <2>. DEFINE o == FailedOrder
  <2>2. o.status = "failed"
    BY DEF FailedOrder
  <2>3. /\ order' = [order EXCEPT ![k] = o] /\ job' = job
        /\ r.pc = "release" /\ r.run = wk[w].run /\ ~r.ok
    BY <1>9, <2>1 DEF Fails
  <2>. HIDE DEF o, k
  <2>. QED BY <1>7, <2>2, <2>3
<1>10. CASE FinishJob(w) /\ r = Idle
  <2>1. /\ wk[w].pc = "release" /\ order' = order
        /\ job' = [job EXCEPT ![k] = AfterRun(w)]
    BY <1>3, <1>10 DEF FinishJob
  <2>2. job'[k] = AfterRun(w) /\ \A j \in Jobs \ {k} : job'[j] = job[j]
    BY <1>1, <1>3, <2>1
  <2>3. IF wk[w].ok THEN AfterRun(w).state = "completed"
                    ELSE AfterRun(w).state \in {"waiting", "failed"}
    BY <1>1, <1>3 DEF AfterRun, AfterFailure
  <2>4. OutcomeWritten'
    BY <1>1, <1>4, <1>10, <2>1 DEF OutcomeWritten, Idle
  <2>5. JobAndOrderAgree'
    BY <1>1, <1>3, <2>1, <2>2, <2>3 DEF JobAndOrderAgree, OutcomeWritten
  <2>. QED BY <2>4, <2>5
<1>. QED BY <1>2, <1>6, <1>8, <1>9, <1>10 DEF OrderStep

LEMMA OrderInvStarts == Init => OrderInv
<1>1. Init => RunsInv /\ OutcomeWritten /\ JobAndOrderAgree
  BY IdleFacts, TypeInit
  DEF Init, RunsInv, RunsDistinct, RunsOwnJobs, OutcomeWritten, JobAndOrderAgree, Busy, Idle
<1>2. Init => order \in QueueOrders
  BY DEF Init, QueueOrders
<1>. QED BY <1>1, <1>2 DEF OrderInv

LEMMA OrderInvStep ==
  ASSUME LiveWork, OrderInv, [Next]_vars
  PROVE  OrderInv'
<1>1. RunsInv'
  BY RunsInvStep DEF OrderInv
<1>2. (order \in QueueOrders)'
  BY QueueWrites DEF OrderInv, QueueOrders, ConfirmedOrder, FailedOrder, vars
<1>3. CASE Quiet
  <2>1. UNCHANGED <<order, job, runs, wk>>
    BY <1>3, NobodyStalls DEF OrderInv, RunsInv
  <2>. QED
    BY <1>1, <1>2, <2>1 DEF OrderInv, OutcomeWritten, JobAndOrderAgree
<1>4. CASE ~Quiet
  <2>1. OutcomeWritten' /\ JobAndOrderAgree'
    BY <1>4, StartKeepsOrder, WorkerKeepsOrder, StepCases
  <2>. QED BY <1>1, <1>2, <2>1 DEF OrderInv
<1>. QED BY <1>3, <1>4

LEMMA OrderInvariant == ASSUME LiveWork PROVE Spec => []OrderInv
<1>1. OrderInv /\ [Next]_vars => OrderInv'
  BY OrderInvStep
<1>. QED BY OrderInvStarts, <1>1, PTL DEF Spec

\* A job Bull reports as completed has its order confirmed, one it gave up on
\* has its order failed, through every retry and whatever the lock does.
THEOREM OrdersFollowJobs == ASSUME LiveWork PROVE Spec => []JobAndOrderAgree
<1>1. OrderInv => JobAndOrderAgree
  BY DEF OrderInv
<1>. QED BY OrderInvariant, <1>1, PTL

-----------------------------------------------------------------------------
(***************************************************************************)
(* The account of the units.                                               *)
(***************************************************************************)
LEMMA OwedFacts ==
  ASSUME NEW r \in Runner, NEW p \in Products
  PROVE  /\ r.run \in RunIds => Owed(r, p) \in Nat /\ Owed(r, p) <= Qty[r.run.job][p]
         /\ r.pc \in {"idle", "acquire", "backoff", "failorder"} => Owed(r, p) = 0
         /\ r.pc = "release" /\ ~r.ok => Owed(r, p) = 0
<1>1. ASSUME r.run \in RunIds PROVE Qty[r.run.job][p] \in Nat
  BY <1>1, CartFacts DEF RunIds
<1>. QED BY <1>1 DEF Owed, Places

LEMMA OwedMore ==
  ASSUME NEW r, NEW s, NEW p \in Products, r.run \in RunIds, s.run = r.run,
         Places(r) \subseteq Places(s)
  PROVE  Owed(r, p) <= Owed(s, p)
<1>1. Qty[r.run.job][p] \in Nat
  BY CartFacts DEF RunIds
<1>. QED BY <1>1 DEF Owed

\* One place more: the units of its product, and of no other.
LEMMA OwedOneMore ==
  ASSUME NEW r, NEW s, NEW p \in Products, r.run \in RunIds, s.run = r.run,
         NEW i \in 1..Len(Cart[r.run.job]), i \notin Places(r),
         Places(s) = Places(r) \cup {i}
  PROVE  Owed(s, p) = Owed(r, p) + (IF Cart[r.run.job][i] = p THEN Qty[r.run.job][p] ELSE 0)
<1>1. Qty[r.run.job][p] \in Nat /\ r.run.job \in Jobs
  BY CartFacts DEF RunIds
<1>2. \A m, n \in 1..Len(Cart[r.run.job]) :
        Cart[r.run.job][m] = Cart[r.run.job][n] => m = n
  BY <1>1, CartFacts, CartAssumption
<1>3. Places(r) \subseteq 1..Len(Cart[r.run.job])
  BY DEF Places
<1>4. CASE Cart[r.run.job][i] = p
  <2>1. ~\E n \in Places(r) : Cart[r.run.job][n] = p
    BY <1>2, <1>3, <1>4
  <2>. QED BY <1>1, <1>4, <2>1 DEF Owed
<1>5. CASE Cart[r.run.job][i] # p
  <2>1. (\E n \in Places(s) : Cart[r.run.job][n] = p)
          <=> \E n \in Places(r) : Cart[r.run.job][n] = p
    BY <1>5
  <2>. QED BY <1>1, <1>5, <2>1 DEF Owed
<1>. QED BY <1>4, <1>5

LEMMA AccountStep ==
  ASSUME LiveWork, QueueTyped, OutcomeWritten, NEW w \in Workers, Process(w) \/ Fault(w),
         ~FinishJob(w), NEW p \in Products
  PROVE  stock'[p] + Owed(wk'[w], p) >= stock[p] + Owed(wk[w], p)
<1>. DEFINE f == wk[w]
            r == wk'[w]
            L == Len(CartOf(w))
            u == IF ItemOf(w) = p THEN QtyOf(w, p) ELSE 0
            Goal == stock'[p] + Owed(r, p) >= stock[p] + Owed(f, p)
<1>1. Busy(w)
  BY WorkerSteps
<1>2. /\ wk \in [Workers -> Runner] /\ f \in Runner /\ f.run \in RunIds /\ f.ok \in BOOLEAN
      /\ L \in Nat \ {0} /\ f.i \in 1..L /\ 1 \in 1..L /\ QtyOf(w, p) \in Nat
      /\ stock \in [Products -> Int] /\ ItemOf(w) \in Products
      /\ Owed(f, p) \in Nat
      /\ f.ok => f.pc = "release"
  BY <1>1, BusyFacts, OwedFacts DEF QueueTyped, Frames, OutcomeWritten
<1>3. /\ "acquire" \in Pcs /\ "check" \in Pcs /\ "decrement" \in Pcs /\ "markout" \in Pcs
      /\ "confirm" \in Pcs /\ "compensate" \in Pcs /\ "failorder" \in Pcs
      /\ "release" \in Pcs /\ "backoff" \in Pcs
  BY PcFacts
<1>4. r \in Runner /\ (r.pc # "idle" => r.run \in RunIds /\ Owed(r, p) \in Nat)
  <2>1. r \in Runner
    BY <1>2, WorkerSteps DEF Moves
  <2>. QED BY <2>1, OwedFacts DEF Runner
<1>5. ASSUME stock' = stock, r.run = f.run, Places(f) \subseteq Places(r), r.pc # "idle"
      PROVE  Goal
  <2>1. Owed(f, p) <= Owed(r, p)
    BY <1>2, <1>5, OwedMore
  <2>. QED BY <1>2, <1>4, <1>5, <2>1
<1>6. ASSUME f.pc \in {"acquire", "backoff", "failorder"}, stock' = stock, r.run = f.run, r.pc # "idle"
      PROVE  Goal
  BY <1>2, <1>4, <1>6, OwedFacts
<1>. HIDE DEF Goal
<1>7. ASSUME AcquireLock(w) PROVE Goal
  <2>. DEFINE a == AfterLock(w)
  <2>1. /\ a \in Runner /\ a.run = f.run /\ a.pc \in {"acquire", "check"}
        /\ a.held \in SUBSET Products
    BY <1>1, <1>3, AdvanceFacts DEF AfterLock, Runner
  <2>2. r = [a EXCEPT !.held = @ \cup {ItemOf(w)}] /\ stock' = stock
        /\ f.pc \in {"acquire", "backoff"}
    BY <1>2, <1>7 DEF AcquireLock
  <2>. HIDE DEF a, r, f
  <2>3. r.run = f.run /\ r.pc # "idle"
    BY <2>1, <2>2, HeldFacts, <1>2
  <2>. QED BY <1>6, <2>2, <2>3
<1>8. ASSUME LockBusy(w) PROVE Goal
  <2>1. r = Goto(w, "backoff", f.i) /\ f.pc = "acquire" /\ stock' = stock
    BY <1>2, <1>8 DEF LockBusy
  <2>2. r.run = f.run /\ r.pc = "backoff"
    BY <1>1, <1>2, <1>3, <2>1, GotoFacts
  <2>. QED BY <1>6, <2>1, <2>2
<1>9. ASSUME SkipLock(w) PROVE Goal
  <2>1. r = Advance(w, "acquire", "check") /\ f.pc = "acquire" /\ stock' = stock
    BY <1>2, <1>9 DEF SkipLock
  <2>2. r.run = f.run /\ r.pc \in {"acquire", "check"}
    BY <1>1, <1>3, <2>1, AdvanceFacts
  <2>. QED BY <1>6, <2>1, <2>2
<1>10. ASSUME LockTimeout(w) \/ RoundTripFails(w) PROVE Goal
  <2>1. /\ r = Goto(w, "compensate", 1) /\ stock' = stock
        /\ f.pc \in {"acquire", "backoff"}
    BY <1>2, <1>10 DEF LockTimeout, GivesUp, RoundTripFails, Throw, LiveWork
  <2>2. r.run = f.run /\ r.pc = "compensate"
    BY <1>1, <1>2, <1>3, <2>1, GotoFacts
  <2>. QED BY <1>6, <2>1, <2>2
<1>19. ASSUME SetReplyLost(w) PROVE Goal
  <2>1. /\ r = Goto(w, "compensate", 1) \/ r = Goto(w, "backoff", f.i)
        /\ stock' = stock /\ f.pc \in {"acquire", "backoff"}
    BY <1>2, <1>19 DEF SetReplyLost, Throw
  <2>2. r.run = f.run /\ r.pc # "idle"
    BY <1>1, <1>2, <1>3, <2>1, GotoFacts
  <2>. QED BY <1>6, <2>1, <2>2
<1>11. ASSUME CheckStock(w) PROVE Goal
  <2>1. /\ f.pc = "check" /\ stock' = stock
        /\ r = Goto(w, "decrement", f.i) \/ r = Goto(w, "compensate", 1)
    BY <1>2, <1>11 DEF CheckStock, Throw
  <2>2. \/ r.run = f.run /\ r.pc = "decrement" /\ r.i = f.i
        \/ r.run = f.run /\ r.pc = "compensate" /\ r.i = 1
    BY <1>1, <1>2, <1>3, <2>1, GotoFacts
  <2>3. Places(f) \subseteq Places(r)
    <3>. HIDE DEF r, f
    <3>. QED BY <1>2, <2>1, <2>2 DEF Places
  <2>. QED BY <1>5, <2>1, <2>2, <2>3
<1>12. ASSUME DecrementStock(w) PROVE Goal
  <2>1. /\ f.pc = "decrement"
        /\ r = Goto(w, "markout", f.i) \/ r = Advance(w, "check", "confirm")
        /\ stock' = [stock EXCEPT ![ItemOf(w)] = @ - QtyOf(w, ItemOf(w))]
    BY <1>2, <1>12 DEF DecrementStock, Decremented
  <2>2. /\ r.run = f.run
        /\ \/ r.pc = "markout" /\ r.i = f.i
           \/ r.pc = "check" /\ r.i = f.i + 1
           \/ r.pc = "confirm" /\ f.i = L
    BY <1>1, <1>2, <1>3, <2>1, GotoFacts, AdvanceFacts
  <2>3. f.i \notin Places(f) /\ Places(r) = Places(f) \cup {f.i}
    <3>. HIDE DEF r, f
    <3>0. f.i \in Int /\ L \in Int /\ f.pc = "decrement" /\ L = Len(Cart[f.run.job])
      BY <1>2, <2>1 DEF CartOf, f
    <3>1. f.i \notin Places(f)
      BY <3>0 DEF Places
    <3>2. ASSUME NEW n \in 1..Len(Cart[f.run.job])
          PROVE  n \in Places(r) <=> n \in Places(f) \/ n = f.i
      <4>. HIDE DEF L
      <4>1. n \in Places(f) <=> n < f.i
        BY <3>0, <3>2 DEF Places
      <4>2. n \in Places(r) <=> n <= f.i
        BY <2>2, <3>0, <3>2 DEF Places
      <4>. QED BY <3>0, <3>2, <4>1, <4>2
    <3>3. Places(r) \subseteq 1..Len(Cart[f.run.job]) /\ Places(f) \subseteq 1..Len(Cart[f.run.job])
      BY <2>2 DEF Places
    <3>4. f.i \in 1..Len(Cart[f.run.job])
      BY <1>2 DEF CartOf, f
    <3>. QED BY <3>1, <3>2, <3>3, <3>4
  <2>4. Owed(r, p) = Owed(f, p) + u
    <3>1. /\ f.i \in 1..Len(Cart[f.run.job]) /\ ItemOf(w) = Cart[f.run.job][f.i]
          /\ QtyOf(w, p) = Qty[f.run.job][p]
      BY <1>2 DEF CartOf, ItemOf, QtyOf
    <3>. HIDE DEF r, f
    <3>. QED BY <1>2, <2>2, <2>3, <3>1, OwedOneMore
  <2>5. stock'[p] = stock[p] - u
    BY <1>2, <2>1
  <2>6. u \in Int
    BY <1>2
  <2>. HIDE DEF u, r, f
  <2>. QED BY <1>2, <2>4, <2>5, <2>6 DEF Goal
<1>13. ASSUME MarkOutOfStock(w) PROVE Goal
  <2>1. /\ f.pc = "markout" /\ r = Advance(w, "check", "confirm") /\ stock' = stock
    BY <1>2, <1>13 DEF MarkOutOfStock
  <2>2. /\ r.run = f.run
        /\ \/ r.pc = "check" /\ r.i = f.i + 1
           \/ r.pc = "confirm"
    BY <1>1, <1>3, <2>1, AdvanceFacts
  <2>3. Places(f) \subseteq Places(r)
    <3>. HIDE DEF r, f
    <3>. QED BY <1>2, <2>1, <2>2 DEF Places
  <2>. QED BY <1>5, <2>1, <2>2, <2>3
<1>14. ASSUME ConfirmOrder(w) PROVE Goal
  <2>. DEFINE g == Goto(w, "release", 1)
  <2>1. g \in Runner /\ g.pc = "release" /\ g.run = f.run
    BY <1>1, <1>2, <1>3, GotoFacts
  <2>2. r = [g EXCEPT !.ok = TRUE] /\ f.pc = "confirm" /\ stock' = stock
    BY <1>2, <1>14 DEF ConfirmOrder
  <2>. HIDE DEF g
  <2>3. r.run = f.run /\ r.pc = "release" /\ r.ok = TRUE
    BY <2>1, <2>2, ResultFacts DEF Runner
  <2>4. Places(f) \subseteq Places(r)
    <3>. HIDE DEF r, f
    <3>. QED BY <1>2, <2>2, <2>3 DEF Places
  <2>. QED BY <1>5, <2>2, <2>3, <2>4
<1>15. ASSUME CompensateItem(w) PROVE Goal
  <2>1. /\ f.pc = "compensate" /\ r = Advance(w, "compensate", "failorder")
        /\ stock' = [stock EXCEPT ![ItemOf(w)] = @ + QtyOf(w, ItemOf(w))]
    BY <1>2, <1>15 DEF CompensateItem, GivenBack
  <2>2. /\ r.run = f.run /\ r.ok = f.ok
        /\ \/ r.pc = "compensate" /\ r.i = f.i + 1
           \/ r.pc = "failorder" /\ f.i = L
    BY <1>1, <1>3, <2>1, AdvanceFacts, AdvanceResult
  <2>3. f.i \notin Places(r) /\ Places(f) = Places(r) \cup {f.i}
    <3>. HIDE DEF r, f
    <3>1. f.i \notin Places(r)
      BY <1>2, <2>2 DEF Places
    <3>2. ASSUME NEW n \in 1..Len(Cart[f.run.job])
          PROVE  n \in Places(f) <=> n \in Places(r) \/ n = f.i
      BY <1>2, <2>1, <2>2, <3>2 DEF Places, CartOf, f
    <3>3. Places(r) \subseteq 1..Len(Cart[f.run.job]) /\ Places(f) \subseteq 1..Len(Cart[f.run.job])
      BY <2>2 DEF Places
    <3>4. f.i \in 1..Len(Cart[f.run.job])
      BY <1>2 DEF CartOf, f
    <3>. QED BY <3>1, <3>2, <3>3, <3>4
  <2>4. Owed(f, p) = Owed(r, p) + u
    <3>1. /\ f.i \in 1..Len(Cart[f.run.job]) /\ ItemOf(w) = Cart[f.run.job][f.i]
          /\ QtyOf(w, p) = Qty[f.run.job][p] /\ r.run.job = f.run.job /\ r.run \in RunIds
      BY <1>2, <2>2 DEF CartOf, ItemOf, QtyOf
    <3>. HIDE DEF r, f
    <3>. QED BY <2>2, <2>3, <3>1, OwedOneMore
  <2>5. stock'[p] = stock[p] + u
    BY <1>2, <2>1
  <2>6. u \in Int /\ Owed(r, p) \in Nat
    BY <1>2, <1>4, <2>2
  <2>. HIDE DEF u, r, f
  <2>. QED BY <1>2, <2>4, <2>5, <2>6 DEF Goal
<1>16. ASSUME FailOrder(w) PROVE Goal
  <2>1. r = Goto(w, "release", 1) /\ f.pc = "failorder" /\ stock' = stock
    BY <1>2, <1>16 DEF FailOrder
  <2>2. r.run = f.run /\ r.pc = "release"
    BY <1>1, <1>2, <1>3, <2>1, GotoFacts
  <2>. QED BY <1>6, <2>1, <2>2
<1>17. ASSUME ReleaseLock(w) \/ ReleaseFails(w) PROVE Goal
  <2>1. PICK q \in Products : wk' = [wk EXCEPT ![w].held = @ \ {q}]
    BY <1>17 DEF ReleaseLock, ReleaseFails
  <2>2. r = [f EXCEPT !.held = @ \ {q}] /\ stock' = stock /\ f.pc = "release"
    BY <1>2, <1>17, <2>1 DEF ReleaseLock, ReleaseFails
  <2>. HIDE DEF r, f
  <2>3. r.run = f.run /\ r.pc = f.pc /\ r.ok = f.ok
    BY <1>2, <2>2 DEF Runner
  <2>4. Places(f) \subseteq Places(r)
    BY <2>2, <2>3 DEF Places
  <2>. QED BY <1>5, <2>2, <2>3, <2>4
<1>18. ~Crash(w) /\ ~CompensationFails(w) /\ ~WriteReplyLost(w) /\ ~GiveBackReplyLost(w)
  BY DEF LiveWork, Crash, CompensationFails, WriteReplyLost, GiveBackReplyLost
<1>20. Goal
  BY <1>7, <1>8, <1>9, <1>10, <1>11, <1>12, <1>13, <1>14, <1>15, <1>16, <1>17, <1>18,
     <1>19
  DEF Process, Fault, TakeLock
<1>. QED BY <1>20 DEF Goal

-----------------------------------------------------------------------------
\* The summands of Sold, of Owing and of InHand, whose sums are taken by name.
SoldOf(p) == [j \in Jobs |-> IF job[j].state = "completed" THEN Qty[j][p] ELSE 0]
OwedOf(p) == [w \in Workers |-> Owed(wk[w], p)]
HandOf(p) == [w \in Workers |-> IF wk[w].pc = "idle" THEN 0 ELSE QtyOf(w, p)]

LEMMA SummandTypes ==
  ASSUME QueueTyped, RunsDistinct, NEW p \in Products
  PROVE  /\ SoldOf(p) \in [Jobs -> Nat]
         /\ OwedOf(p) \in [Workers -> Nat]
         /\ HandOf(p) \in [Workers -> Nat]
         /\ \A w \in Workers : OwedOf(p)[w] <= HandOf(p)[w]
<1>1. SoldOf(p) \in [Jobs -> Nat]
  BY CartFacts DEF SoldOf
<1>2. ASSUME NEW w \in Workers
      PROVE  /\ Owed(wk[w], p) \in Nat
             /\ (IF wk[w].pc = "idle" THEN 0 ELSE QtyOf(w, p)) \in Nat
             /\ Owed(wk[w], p) <= IF wk[w].pc = "idle" THEN 0 ELSE QtyOf(w, p)
  <2>1. wk[w] \in Runner
    BY DEF QueueTyped
  <2>2. CASE Busy(w)
    <3>1. wk[w].run \in RunIds /\ QtyOf(w, p) \in Nat
      BY <2>2, BusyFacts
    <3>. QED BY <2>1, <2>2, <3>1, OwedFacts DEF Busy, QtyOf
  <2>3. CASE ~Busy(w)
    <3>1. Owed(wk[w], p) = 0
      BY <2>1, <2>3, OwedFacts DEF Busy
    <3>. QED BY <2>3, <3>1 DEF Busy
  <2>. QED BY <2>2, <2>3
<1>3. OwedOf(p) \in [Workers -> Nat] /\ HandOf(p) \in [Workers -> Nat]
  BY <1>2 DEF OwedOf, HandOf
<1>4. \A w \in Workers : OwedOf(p)[w] <= HandOf(p)[w]
  BY <1>2 DEF OwedOf, HandOf
<1>. QED BY <1>1, <1>3, <1>4

SummandsOK ==
  \A p \in Products : SoldOf(p) \in [Jobs -> Nat] /\ OwedOf(p) \in [Workers -> Nat]

LEMMA SummandsNext ==
  /\ QueueTyped /\ RunsDistinct => SummandsOK
  /\ QueueTyped' /\ RunsDistinct' => SummandsOK'
<1>1. QueueTyped /\ RunsDistinct => SummandsOK
  BY SummandTypes DEF SummandsOK
<1>. QED BY <1>1, PTL

LEMMA SumsByName ==
  /\ \A p : Sold(p) = SumFunction(SoldOf(p)) /\ Sold(p)' = SumFunction(SoldOf(p)')
  /\ \A p : Owing(p) = SumFunction(OwedOf(p)) /\ Owing(p)' = SumFunction(OwedOf(p)')
  /\ \A p : InHand(p) = SumFunction(HandOf(p))
BY DEF Sold, SoldOf, Owing, OwedOf, InHand, HandOf

LEMMA UnitTypes ==
  ASSUME IsFiniteSet(Workers), IsFiniteSet(Jobs), OrderInv, OrderInv', NEW p \in Products
  PROVE  /\ Sold(p) \in Int /\ Owing(p) \in Int /\ Sold(p)' \in Int /\ Owing(p)' \in Int
         /\ stock[p] \in Int /\ stock'[p] \in Int
         /\ SoldOf(p) \in [Jobs -> Int] /\ OwedOf(p) \in [Workers -> Int]
         /\ SoldOf(p)' \in [Jobs -> Int] /\ OwedOf(p)' \in [Workers -> Int]
<1>1. /\ QueueTyped /\ RunsDistinct /\ QueueTyped' /\ RunsDistinct'
      /\ stock[p] \in Int /\ stock'[p] \in Int
  BY DEF OrderInv, RunsInv, QueueTyped
<1>2. /\ SoldOf(p) \in [Jobs -> Int] /\ OwedOf(p) \in [Workers -> Int]
      /\ SoldOf(p)' \in [Jobs -> Int] /\ OwedOf(p)' \in [Workers -> Int]
  <2>1. SummandsOK /\ SummandsOK'
    BY <1>1, SummandsNext
  <2>. QED BY <2>1 DEF SummandsOK
<1>3. Sold(p) \in Int /\ Owing(p) \in Int /\ Sold(p)' \in Int /\ Owing(p)' \in Int
  BY <1>2, TotalInt, SumsByName
<1>. QED BY <1>1, <1>2, <1>3

\* No step of the queue makes units vanish.
LEMMA UnitsStep ==
  ASSUME IsFiniteSet(Workers), IsFiniteSet(Jobs), LiveWork,
         OrderInv, OrderInv', [Next]_vars, NEW p \in Products
  PROVE  stock'[p] + Sold(p)' + Owing(p)' >= stock[p] + Sold(p) + Owing(p)
<1>1. /\ QueueTyped /\ RunsDistinct /\ OutcomeWritten /\ RunsOwnJobs
      /\ QueueTyped' /\ RunsDistinct'
      /\ wk \in [Workers -> Runner]
      /\ stock[p] \in Int /\ stock'[p] \in Int
  BY DEF OrderInv, RunsInv, QueueTyped
<1>2. /\ SoldOf(p) \in [Jobs -> Int] /\ OwedOf(p) \in [Workers -> Int]
      /\ SoldOf(p)' \in [Jobs -> Int] /\ OwedOf(p)' \in [Workers -> Int]
  BY UnitTypes
<1>3. Sold(p) \in Int /\ Owing(p) \in Int /\ Sold(p)' \in Int /\ Owing(p)' \in Int
  BY UnitTypes
<1>4. ASSUME stock'[p] + Owing(p)' >= stock[p] + Owing(p), SoldOf(p)' = SoldOf(p)
      PROVE  stock'[p] + Sold(p)' + Owing(p)' >= stock[p] + Sold(p) + Owing(p)
  BY <1>1, <1>3, <1>4, SumsByName
<1>5. CASE Quiet
  <2>1. UNCHANGED <<job, wk, stock>>
    BY <1>1, <1>5, NobodyStalls
  <2>2. SoldOf(p)' = SoldOf(p) /\ OwedOf(p)' = OwedOf(p)
    BY <2>1 DEF SoldOf, OwedOf
  <2>. QED BY <1>1, <1>3, <1>4, <2>1, <2>2, SumsByName
<1>6. ASSUME NEW w \in Workers, NEW j \in Jobs, StartJob(w, j)
      PROVE  stock'[p] + Sold(p)' + Owing(p)' >= stock[p] + Sold(p) + Owing(p)
  <2>. DEFINE r == Started([job |-> j, n |-> runs[j] + 1])
  <2>1. /\ stock' = stock /\ wk[w].pc = "idle" /\ wk' = [wk EXCEPT ![w] = r]
        /\ job[j].state = "waiting" /\ job' = [job EXCEPT ![j].state = "active"]
    BY <1>6 DEF StartJob
  <2>2. r \in Runner /\ r.pc = "acquire"
    <3>1. [job |-> j, n |-> runs[j] + 1] \in RunIds
      BY <1>1 DEF RunIds, QueueTyped
    <3>. QED BY <3>1, StartedFacts DEF Started
  <2>. HIDE DEF r
  <2>3. Owed(wk[w], p) = 0 /\ Owed(r, p) = 0
    BY <1>1, <2>1, <2>2, OwedFacts
  <2>4. OwedOf(p)' = OwedOf(p)
    BY <1>1, <2>1, <2>3 DEF OwedOf
  <2>5. \A k \in Jobs : job'[k].state = "completed" <=> job[k].state = "completed"
    BY <1>1, <2>1 DEF QueueTyped
  <2>6. SoldOf(p)' = SoldOf(p)
    BY <2>5 DEF SoldOf
  <2>. QED BY <1>1, <1>3, <1>4, <2>1, <2>4, <2>6, SumsByName
<1>7. ASSUME NEW w \in Workers, Process(w) \/ Fault(w)
      PROVE  stock'[p] + Sold(p)' + Owing(p)' >= stock[p] + Sold(p) + Owing(p)
  <2>1. /\ Busy(w) /\ \A v \in Workers \ {w} : wk'[v] = wk[v]
    BY <1>1, <1>7, WorkerSteps DEF Moves
  <2>2. /\ OwedOf(p)[w] = Owed(wk[w], p) /\ OwedOf(p)'[w] = Owed(wk'[w], p)
        /\ \A v \in Workers \ {w} : OwedOf(p)'[v] = OwedOf(p)[v]
    BY <2>1 DEF OwedOf
  <2>3. Owing(p)' = Owing(p) - Owed(wk[w], p) + Owed(wk'[w], p)
    <3>. DEFINE f == OwedOf(p)  g == OwedOf(p)'
    <3>1. f \in [Workers -> Int] /\ g \in [Workers -> Int] /\ \A v \in Workers \ {w} : g[v] = f[v]
      BY <1>2, <2>2
    <3>2. SumFunction(g) = SumFunction(f) - f[w] + g[w]
      <4>. HIDE DEF f, g
      <4>. QED BY <3>1, TotalChange
    <3>. QED BY <2>2, <3>2, SumsByName
  <2>4. Owed(wk[w], p) \in Int /\ Owed(wk'[w], p) \in Int
    BY <1>2, <2>2
  <2>5. CASE ~FinishJob(w)
    <3>1. stock'[p] + Owed(wk'[w], p) >= stock[p] + Owed(wk[w], p)
      BY <1>1, <1>7, <2>5, AccountStep
    <3>2. job' = job
      BY <1>1, <1>7, <2>5, OrderSteps DEF OrderStep, Goes, Confirms, Fails
    <3>3. SoldOf(p)' = SoldOf(p)
      BY <3>2 DEF SoldOf
    <3>. QED BY <1>1, <1>3, <1>4, <2>3, <2>4, <3>1, <3>3
  <2>6. CASE FinishJob(w)
    <3>. DEFINE k == wk[w].run.job
    <3>1. /\ wk[w].pc = "release" /\ stock' = stock /\ wk'[w] = Idle
          /\ k \in Jobs /\ job[k].state = "active" /\ wk[w].run \in RunIds
          /\ wk[w] \in Runner
          /\ job' = [job EXCEPT ![k] = AfterRun(w)]
      BY <1>1, <2>1, <2>6, BusyFacts DEF FinishJob, RunsOwnJobs, Owns
    <3>2. Owed(wk'[w], p) = 0
      BY <3>1, IdleFacts, OwedFacts
    <3>3. /\ AfterRun(w).state = "completed" <=> wk[w].ok
          /\ job'[k] = AfterRun(w) /\ \A i \in Jobs \ {k} : job'[i] = job[i]
      BY <1>1, <3>1 DEF AfterRun, AfterFailure, QueueTyped
    <3>4. /\ SoldOf(p)[k] = 0
          /\ SoldOf(p)'[k] = IF wk[w].ok THEN Qty[k][p] ELSE 0
          /\ \A i \in Jobs \ {k} : SoldOf(p)'[i] = SoldOf(p)[i]
      BY <3>1, <3>3 DEF SoldOf
    <3>5. Owed(wk[w], p) <= SoldOf(p)'[k]
      BY <3>1, <3>4, OwedFacts
    <3>6. Sold(p)' = Sold(p) + SoldOf(p)'[k]
      <4>. DEFINE f == SoldOf(p)  g == SoldOf(p)'
      <4>1. /\ f \in [Jobs -> Int] /\ g \in [Jobs -> Int] /\ k \in Jobs
            /\ \A i \in Jobs \ {k} : g[i] = f[i]
        BY <1>2, <3>1, <3>4
      <4>2. SumFunction(g) = SumFunction(f) - f[k] + g[k]
        <5>. HIDE DEF f, g, k
        <5>. QED BY <4>1, TotalChange
      <4>3. f[k] = 0 /\ g[k] \in Int /\ SumFunction(f) \in Int
        BY <1>2, <1>3, <3>1, <3>4, SumsByName
      <4>4. SumFunction(g) = SumFunction(f) + g[k]
        <5>. HIDE DEF f, g, k
        <5>. QED BY <4>2, <4>3
      <4>. QED BY <4>4, SumsByName
    <3>7. SoldOf(p)'[k] \in Int
      BY <1>2, <3>1
    <3>. HIDE DEF k
    <3>. QED BY <1>1, <1>3, <2>3, <2>4, <3>1, <3>2, <3>5, <3>6, <3>7
  <2>. QED BY <2>5, <2>6
<1>. QED BY <1>5, <1>6, <1>7, StepCases

\* A run has its whole order in hand, whatever of it it has taken.
LEMMA OwingInHand ==
  ASSUME IsFiniteSet(Workers), IsFiniteSet(Jobs), OrderInv, NEW p \in Products
  PROVE  Owing(p) <= InHand(p) /\ Owing(p) \in Int /\ InHand(p) \in Int /\ Sold(p) \in Int
<1>1. /\ SoldOf(p) \in [Jobs -> Int] /\ OwedOf(p) \in [Workers -> Int]
      /\ HandOf(p) \in [Workers -> Int]
      /\ \A w \in Workers : OwedOf(p)[w] <= HandOf(p)[w]
  BY SummandTypes DEF OrderInv, RunsInv
<1>. QED BY <1>1, TotalInt, TotalAtMost, SumsByName

LEMMA UnitsStart ==
  ASSUME IsFiniteSet(Workers), IsFiniteSet(Jobs)
  PROVE  Init => UnitsAccounted
<1>. SUFFICES ASSUME Init, NEW p \in Products
              PROVE  stock[p] + Sold(p) + Owing(p) >= InitialStock[p]
  BY DEF UnitsAccounted
<1>1. stock[p] = InitialStock[p] /\ InitialStock[p] \in Nat
  BY CheckoutAssumption DEF Init
<1>2. SoldOf(p) = [j \in Jobs |-> 0]
  BY DEF Init, SoldOf
<1>3. OwedOf(p) = [w \in Workers |-> 0]
  BY IdleFacts, OwedFacts DEF Init, OwedOf
<1>. QED BY <1>1, <1>2, <1>3, TotalZero, SumsByName

\* Units do not vanish: what is on hand, sold, or with a run under way is at
\* least what there was.
THEOREM NoUnitIsLost ==
  ASSUME IsFiniteSet(Workers), IsFiniteSet(Jobs), LiveWork
  PROVE  Spec => []NothingLost
<1>1. Init => UnitsAccounted
  BY UnitsStart
<1>2. OrderInv /\ OrderInv' /\ UnitsAccounted /\ [Next]_vars => UnitsAccounted'
  <2>. SUFFICES ASSUME OrderInv, OrderInv', UnitsAccounted, [Next]_vars, NEW p \in Products
                PROVE  stock'[p] + Sold(p)' + Owing(p)' >= InitialStock[p]
    BY DEF UnitsAccounted
  <2>1. stock'[p] + Sold(p)' + Owing(p)' >= stock[p] + Sold(p) + Owing(p)
    BY UnitsStep
  <2>2. stock[p] + Sold(p) + Owing(p) >= InitialStock[p] /\ InitialStock[p] \in Int
    BY CheckoutAssumption DEF UnitsAccounted
  <2>3. /\ stock[p] \in Int /\ stock'[p] \in Int /\ Sold(p) \in Int /\ Owing(p) \in Int
        /\ Sold(p)' \in Int /\ Owing(p)' \in Int
    BY UnitTypes
  <2>. QED BY <2>1, <2>2, <2>3
<1>3. OrderInv /\ UnitsAccounted => NothingLost
  <2>. SUFFICES ASSUME OrderInv, UnitsAccounted, NEW p \in Products
                PROVE  stock[p] + Sold(p) + InHand(p) >= InitialStock[p]
    BY DEF NothingLost
  <2>1. Owing(p) <= InHand(p) /\ Owing(p) \in Int /\ InHand(p) \in Int /\ Sold(p) \in Int
    BY OwingInHand
  <2>2. /\ stock[p] \in Int /\ InitialStock[p] \in Nat
        /\ stock[p] + Sold(p) + Owing(p) >= InitialStock[p]
    BY CheckoutAssumption DEF OrderInv, RunsInv, QueueTyped, UnitsAccounted
  <2>. QED BY <2>1, <2>2
<1>. QED BY OrderInvariant, <1>1, <1>2, <1>3, PTL DEF Spec

-----------------------------------------------------------------------------
(***************************************************************************)
(* The catalogue's flag, under a sound lock: a run that took the last unit *)
(* is the only one that can touch the product until it has written the     *)
(* flag.  It must live until then, and the save must not fail.             *)
(***************************************************************************)
FlagIsWritten == Faults \cap {"crash", "mongo"} = {}

\* Who took the last unit is about to mark the product out of stock.
SoldOut ==
  \A p \in Products : InitialStock[p] > 0 /\ stock[p] = 0 /\ inStock[p] =>
    \E w \in Workers : wk[w].pc = "markout" /\ ItemOf(w) = p

\* From "markout" a run goes on by marking its product, and in no other way.
LEMMA AfterMarkout ==
  ASSUME FlagIsWritten, QueueTyped, NEW w \in Workers, Process(w) \/ Fault(w),
         wk[w].pc = "markout"
  PROVE  MarkOutOfStock(w)
BY DEF FlagIsWritten, Process, TakeLock, AcquireLock, LockBusy, LockTimeout, GivesUp, SkipLock,
       CheckStock, DecrementStock, ConfirmOrder, CompensateItem, FailOrder,
       ReleaseLock, FinishJob, Fault, RoundTripFails, SetReplyLost,
       WriteReplyLost, CompensationFails, GiveBackReplyLost, ReleaseFails, Crash

LEMMA FlagSteps ==
  ASSUME NEW w \in Workers, Process(w) \/ Fault(w)
  PROVE  inStock' = inStock \/ MarkOutOfStock(w) \/ WriteReplyLost(w)
BY DEF Process, TakeLock, AcquireLock, LockBusy, LockTimeout, SkipLock,
       CheckStock, DecrementStock, ConfirmOrder, CompensateItem, FailOrder,
       ReleaseLock, FinishJob, Fault, RoundTripFails, SetReplyLost,
       WriteReplyLost, CompensationFails, GiveBackReplyLost, ReleaseFails, Crash, Throw

LEMMA SoldOutStep ==
  ASSUME LockSound, LocksEnabled, FlagIsWritten, LockInv, LockInv', SoldOut, [Next]_vars
  PROVE  SoldOut'
<1>. SUFFICES ASSUME NEW p \in Products, InitialStock[p] > 0, stock'[p] = 0, inStock'[p]
              PROVE  \E w \in Workers : wk'[w].pc = "markout" /\ ItemOf(w)' = p
  BY DEF SoldOut
<1>1. /\ QueueTyped /\ wk \in [Workers -> Runner] /\ stock \in [Products -> Int]
      /\ inStock \in [Products -> BOOLEAN] /\ stock[p] >= 0
  BY DEF LockInv, QueueTyped, StockNonNegative
<1>2. CASE Quiet
  <2>1. UNCHANGED <<wk, stock, inStock>>
    BY <1>2, QuietFacts DEF Quiet, Stalled, ExpireLock, Sweep, vars
  <2>. QED BY <2>1 DEF SoldOut, ItemOf, CartOf
<1>3. ASSUME NEW v \in Workers, NEW j \in Jobs, StartJob(v, j)
      PROVE  \E w \in Workers : wk'[w].pc = "markout" /\ ItemOf(w)' = p
  <2>1. UNCHANGED <<stock, inStock>> /\ wk[v].pc = "idle"
        /\ \A w \in Workers \ {v} : wk'[w] = wk[w]
    BY <1>1, <1>3 DEF StartJob
  <2>2. PICK w \in Workers : wk[w].pc = "markout" /\ ItemOf(w) = p
    BY <2>1 DEF SoldOut
  <2>3. wk'[w] = wk[w]
    BY <2>1, <2>2
  <2>. QED BY <2>2, <2>3 DEF ItemOf, CartOf
<1>4. ASSUME NEW v \in Workers, Process(v) \/ Fault(v)
      PROVE  \E w \in Workers : wk'[w].pc = "markout" /\ ItemOf(w)' = p
  <2>1. Busy(v) /\ \A w \in Workers \ {v} : wk'[w] = wk[w]
    BY <1>1, <1>4, WorkerSteps DEF Moves
  <2>2. CASE stock[p] = 0 /\ inStock[p]
    <3>1. PICK w \in Workers : wk[w].pc = "markout" /\ ItemOf(w) = p
      BY <2>2 DEF SoldOut
    <3>2. CASE w = v
      <4>1. MarkOutOfStock(v)
        BY <1>1, <1>4, <3>1, <3>2, AfterMarkout
      <4>2. inStock'[p] = FALSE
        BY <1>1, <3>1, <3>2, <4>1 DEF MarkOutOfStock, OutOfStock
      <4>. QED BY <4>2
    <3>3. CASE w # v
      BY <2>1, <3>1, <3>3 DEF ItemOf, CartOf
    <3>. QED BY <3>2, <3>3
  <2>3. CASE ~(stock[p] = 0 /\ inStock[p])
    <3>1. inStock[p]
      BY <1>1, <1>4, FlagSteps DEF MarkOutOfStock, OutOfStock, WriteReplyLost
    <3>2. stock[p] > 0 /\ stock' # stock
      BY <1>1, <2>3, <3>1
    <3>5. ~WriteReplyLost(v)
      BY DEF FlagIsWritten, WriteReplyLost
    <3>3. CASE DecrementStock(v) /\ Decrements(v)
      <4>1. ItemOf(v) \in Products /\ QtyOf(v, ItemOf(v)) \in Nat
            /\ wk[v].i \in 1..Len(CartOf(v))
        BY <1>1, <2>1, BusyFacts
      <4>2. ItemOf(v) = p /\ stock[ItemOf(v)] - QtyOf(v, ItemOf(v)) = 0
        BY <1>1, <3>2, <3>3, <4>1 DEF Decrements
      <4>3. wk'[v] = Goto(v, "markout", wk[v].i)
        BY <1>1, <3>3, <4>1, <4>2 DEF DecrementStock
      <4>4. wk'[v].pc = "markout" /\ wk'[v].run = wk[v].run /\ wk'[v].i = wk[v].i
        BY <1>1, <2>1, <4>1, <4>3, GotoFacts, PcFacts
      <4>. QED BY <4>2, <4>4 DEF ItemOf, CartOf
    <3>4. CASE Compensates(v)
      <4>1. ItemOf(v) \in Products /\ QtyOf(v, ItemOf(v)) \in Nat
        BY <1>1, <2>1, BusyFacts
      <4>. QED BY <1>1, <3>2, <3>4, <4>1 DEF Compensates
    <3>. QED BY <1>4, <3>2, <3>3, <3>4, <3>5, StockSteps
  <2>. QED BY <2>2, <2>3
<1>. QED BY <1>2, <1>3, <1>4, StepCases

\* A product whose units ran out is out of stock in the catalogue, or held by the
\* run that is about to say so, whatever its flag was before the first order.
THEOREM SellOutsAreMarked ==
  ASSUME LockSound, LocksEnabled, FlagIsWritten PROVE Spec => []StockoutMarked
<1>1. Init => SoldOut
  BY CheckoutAssumption DEF Init, SoldOut
<1>2. LockInv /\ LockInv' /\ SoldOut /\ [Next]_vars => SoldOut'
  BY SoldOutStep
<1>3. LockInv /\ SoldOut => StockoutMarked
  BY HoldsItem DEF LockInv, SoldOut, StockoutMarked, LockedPhases
<1>. QED BY LockInvariant, <1>1, <1>2, <1>3, PTL DEF Spec

==============================================================================
