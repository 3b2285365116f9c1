-------------------------- MODULE CheckoutProperties --------------------------
(***************************************************************************)
(* What the checkout queue owes to the shop.  Each property is stated for  *)
(* every value of the constants; which classes of faults it survives is    *)
(* said with it, and which run checks it under which faults in README.md.  *)
(***************************************************************************)
EXTENDS CheckoutQueue, Integers, Functions

Settled(j) == job[j].state \in {"completed", "failed"}

\* Units of p in the orders whose job completed.
Sold(p) ==
  SumFunction([j \in Jobs |-> IF job[j].state = "completed" THEN Qty[j][p] ELSE 0])

\* Units of p that the runs under way may have taken.
InHand(p) ==
  SumFunction([w \in Workers |-> IF wk[w].pc = "idle" THEN 0 ELSE QtyOf(w, p)])

-----------------------------------------------------------------------------
\* What a worker can be: idle, or in a run with an item of its order at hand.
Runner ==
  {r \in [pc : Pcs, run : RunIds \cup {NoRun}, i : Nat \ {0},
          held : SUBSET Products, ok : BOOLEAN] :
     r.pc # "idle" => r.run \in RunIds /\ r.i \in DOMAIN Cart[r.run.job]}

\* Type invariant.
TypeOK ==
  /\ lock \in [Products -> RunIds \cup {NoLock}]
  /\ sweep \in [keys : SUBSET Products, dels : SUBSET Products]
  /\ stock \in [Products -> Int]
  /\ inStock \in [Products -> BOOLEAN]
  /\ order \in [Jobs -> [status : {"pending", "confirmed", "failed"},
                         payment : {"pending", "paid", "completed", "failed"}]]
  /\ job \in [Jobs -> [state : {"waiting", "active", "completed", "failed"},
                       attempts : Nat, stalls : Nat]]
  /\ runs \in [Jobs -> Nat]
  /\ wk \in [Workers -> Runner]

\* No interleaving of checks and decrements sells below zero, although the
\* decrement does not repeat the check (checkoutQueueService.ts:154-172).
\* Survives everything but an expiry under a live holder and the sweep.
StockNonNegative == \A p \in Products : stock[p] >= 0

\* A lock a run holds is taken from it by its own steps alone: no other run's
\* release, no expiry, no cleanup (stockLockService.ts:98-106).
\* Survives everything but an expiry under a live holder and the sweep.
OwnerKeepsLock ==
  [][\A w \in Workers, p \in Products :
       Holds(w, p) => Holds(w, p)' \/ wk'[w] # wk[w]]_vars

\* A release never frees the lock of another run, not even after the
\* releasing run's own lock expired and went to that other run
\* (the "já expirou?" branch, stockLockService.ts:115).  Survives every fault.
NoForeignRelease ==
  [][\A w, v \in Workers, p \in Products :
       Holds(w, p) /\ v # w /\ wk'[v] # wk[v] => Holds(w, p)']_vars

\* Units do not vanish: what is on hand, sold, or in the hands of a run under
\* way is at least what there was.  Needs processes and database to survive.
NothingLost ==
  \A p \in Products : stock[p] + Sold(p) + InHand(p) >= InitialStock[p]

\* A job Bull reports as completed has its order confirmed, one it gave up on
\* has its order failed, however many attempts and runs of other orders came
\* in between.
JobAndOrderAgree ==
  \A j \in Jobs :
    /\ job[j].state = "completed" => order[j].status = "confirmed"
    /\ job[j].state = "failed" => order[j].status = "failed"

\* A product that had units, has none left and that nobody is working on is out
\* of stock in the catalogue, whatever the flag said at first: its separate save
\* (checkoutQueueService.ts:179-182) is never overtaken.
StockoutMarked ==
  \A p \in Products :
    InitialStock[p] > 0 /\ stock[p] = 0 /\ inStock[p] =>
      \E w \in Workers : p \in wk[w].held

\* The retries of failed attempts and the restarts of stalled runs together
\* start the processor at most this often for one order.  Survives every fault.
RunsBounded == \A j \in Jobs : runs[j] <= Attempts + MaxStalled

\* Orders that lock the same products in opposite orders block each other, die
\* and retry, but each one ends, and no lock stays behind.
EventuallyQuiet ==
  <>[](/\ \A j \in Jobs : Settled(j)
       /\ \A p \in Products : lock[p] = NoLock
       /\ \A w \in Workers : wk[w].pc = "idle")

\* The completed orders never add up to more units than there were
\* (backend/test-race-condition.ts:12-15).
SoldWithinStock == \A p \in Products : Sold(p) <= InitialStock[p]

-----------------------------------------------------------------------------
(***************************************************************************)
(* The promise of the lock, as StockGuard states it: the workers inside    *)
(* for a product are those whose run holds it.                             *)
(***************************************************************************)
Guard == INSTANCE StockGuard WITH
           inside <- [p \in Products |-> {w \in Workers : p \in wk[w].held}],
           Amounts <- {Qty[j][p] : j \in Jobs, p \in Products}

\* Every behaviour of the queue under locks is one of StockGuard: units are
\* taken by the one worker inside, and only units that are there.
ImplementsGuard == Guard!Spec

=============================================================================
