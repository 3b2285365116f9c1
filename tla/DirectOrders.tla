----------------------------- MODULE DirectOrders -----------------------------
(***************************************************************************)
(* The second way to place an order: POST /account/orders                  *)
(* (backend/server/routes/account.ts:453-590) takes its units without      *)
(* queue and lock, beside the checkout queue and on the same products.     *)
(* Both ways also write the loyalty points of the customer, read when the  *)
(* request began (backend/server/routes/orders.ts:186, 375-378).           *)
(*                                                                         *)
(* Without Redis the request runs its job itself, in the one process there *)
(* is, and nobody waits for the promise that a failed job rejects:  Node   *)
(* ends the process, with everything that is under way in it.              *)
(*                                                                         *)
(* One customer stands for all: points of different users never meet.      *)
(* The order's own document is left out: nobody reads it here.             *)
(***************************************************************************)
EXTENDS CheckoutProperties, FiniteSetsExt

CONSTANTS
  Purchases,     \* direct orders
  Wants,         \* Wants[d][p]: the units of p that d asks for
  Uses,          \* Uses[d]: the points d pays with
  Earns,         \* Earns[x]: the points a purchase or a checkout earns
  InitialPoints

CashJobs == Jobs \ CardJobs

ASSUME DirectAssumption ==
  /\ Purchases \cap Jobs = {}
  /\ Wants \in [Purchases -> [Products -> Nat]]
  /\ Uses \in [Purchases -> Nat]
  /\ Earns \in [Purchases \cup CashJobs -> Nat]
  /\ InitialPoints \in Nat

VARIABLES
  points,     \* User.loyaltyPoints
  request,    \* request[x]: a purchase or a checkout: how far, what it has read,
              \* the products it could not save
  taken,      \* taken[d]: the products whose units d has taken
  overwritten,\* the products whose stock a purchase has set although it had
              \* changed since the purchase read it
  overlapped, \* two requests of the customer have been under way at once
  gone        \* jobs, purchases and workers that ended with the process

directVars == <<points, request, taken, overwritten, overlapped, gone>>
shopVars == <<vars, directVars>>

Customers == Purchases \cup CashJobs

NoUnits == [p \in Products |-> 0]
NewRequest == [pc |-> "new", points |-> 0, stock |-> NoUnits, missed |-> {}]

DirectInit ==
  /\ Init
  /\ points = InitialPoints
  /\ request = [x \in Customers |-> NewRequest]
  /\ taken = [d \in Purchases |-> {}]
  /\ overwritten = {}
  /\ overlapped = FALSE
  /\ gone = {}

-----------------------------------------------------------------------------
UnderWay(x) == x \notin gone /\ request[x].pc \in {"queued", "products", "saving"}
Go(x, pc) == request' = [request EXCEPT ![x].pc = pc]

\* User.findById: the points as they are now.
ReadUser(x, pc) ==
  /\ request[x].pc = "new"
  /\ request' = [request EXCEPT ![x].pc = pc, ![x].points = points]
  /\ overlapped' = (overlapped \/ \E y \in Customers \ {x} : UnderWay(y))

\* A checkout reads the user, and its order goes to the queue.
BeginCheckout(j) ==
  /\ ReadUser(j, "queued")
  /\ UNCHANGED <<vars, points, taken, overwritten, gone>>

\* A purchase that uses points the customer does not have is turned down.
BeginPurchase(d) ==
  /\ Uses[d] <= points
  /\ ReadUser(d, "products")
  /\ UNCHANGED <<vars, points, taken, overwritten, gone>>

Asked(d) == {p \in Products : Wants[d][p] > 0}

\* Product.find, the checks and the save of the order.
ReadProducts(d) ==
  /\ request[d].pc = "products"
  /\ request' = [request EXCEPT
       ![d].pc = IF \A p \in Asked(d) : inStock[p] /\ stock[p] >= Wants[d][p]
                 THEN "saving" ELSE "refused",
       ![d].stock = [p \in Products |-> IF p \in Asked(d) THEN stock[p] ELSE 0]]
  /\ UNCHANGED <<vars, points, taken, overwritten, overlapped, gone>>

\* The quantity computed from what was read, not from what is there.
Left(d, p) == request[d].stock[p] - Wants[d][p]

Unsettled(d) == Asked(d) \ (taken[d] \cup request[d].missed)

\* One product.save of the Promise.all, in any order; those that are under way
\* go on when another one fails.
TakeUnits(d, p) ==
  /\ request[d].pc \in {"saving", "ended"} /\ p \in Unsettled(d)
  /\ stock' = [stock EXCEPT ![p] = Left(d, p)]
  /\ inStock' = IF Left(d, p) = 0 THEN OutOfStock(p) ELSE inStock
  /\ taken' = [taken EXCEPT ![d] = @ \cup {p}]
  /\ overwritten' = IF stock[p] = request[d].stock[p] THEN overwritten
                                                      ELSE overwritten \cup {p}
  /\ UNCHANGED <<redis, order, bull, wk, points, request, overlapped, gone>>

\* A save fails: an error for an order that is there.
SaveFails(d, p) ==
  /\ request[d].pc \in {"saving", "ended"} /\ p \in Unsettled(d)
  /\ request' = [request EXCEPT ![d].pc = "ended", ![d].missed = @ \cup {p}]
  /\ UNCHANGED <<vars, points, taken, overwritten, overlapped, gone>>

\* A balance that does not fall below the points that are used.
NotBelowUsed(x, read, used) == Max({used, read - used}) + Earns[x]
Balance(x, read, used) == Max({0, read - used}) + Earns[x]

PayPurchase(d) ==
  /\ request[d].pc = "saving" /\ taken[d] = Asked(d)
  /\ points' = Balance(d, request[d].points, Uses[d])
  /\ Go(d, "paid")
  /\ UNCHANGED <<vars, taken, overwritten, overlapped, gone>>

\* A checkout earns its points when the queue has the job, or, without Redis,
\* when the job has ended, completed or failed.
EarnPoints(j) ==
  /\ request[j].pc = "queued"
  /\ LocksEnabled \/ Settled(j)
  /\ points' = Balance(j, request[j].points, 0)
  /\ Go(j, "paid")
  /\ UNCHANGED <<vars, taken, overwritten, overlapped, gone>>

-----------------------------------------------------------------------------
\* Jobs are those of requests that have begun; what has ended with a process
\* does not go on.
QueueStep ==
  /\ Next
  /\ \A j \in CashJobs : runs'[j] > 0 => request[j].pc # "new"
  /\ \A j \in Jobs \cap gone : runs'[j] = runs[j]
  /\ \A w \in Workers \cap gone : wk'[w] = wk[w]
  /\ UNCHANGED directVars

\* A job of the process has failed, and nobody waits for its promise.
Dying == ~LocksEnabled /\ \E j \in Jobs \ gone : job[j].state = "failed"

\* The process ends; another one is started, which knows nothing of all this.
ProcessEnds ==
  /\ Dying
  /\ gone' = gone \cup {j \in Jobs : job[j].state \in {"active", "failed"}}
                  \cup {x \in Customers : UnderWay(x)}
                  \cup {w \in Workers : wk[w].pc # "idle"}
  /\ UNCHANGED <<vars, points, request, taken, overwritten, overlapped>>

\* Before it ends, the request of the failed job may still send its save; the
\* saves of a purchase have all been sent and reach the database without it.
DirectNext ==
  \/ ProcessEnds
  \/ \E j \in CashJobs \ gone : (Dying => job[j].state = "failed") /\ EarnPoints(j)
  \/ /\ ~Dying
     /\ \/ QueueStep
        \/ \E j \in CashJobs : BeginCheckout(j)
        \/ \E d \in Purchases \ gone : BeginPurchase(d) \/ ReadProducts(d) \/ PayPurchase(d)
        \/ \E d \in Purchases, p \in Products : TakeUnits(d, p) \/ SaveFails(d, p)

DirectSpec == DirectInit /\ [][DirectNext]_shopVars

-----------------------------------------------------------------------------
\* Type invariant of what purchases add.
DirectTypeOK ==
  /\ points \in Nat
  /\ request \in [Customers ->
       [pc : {"new", "queued", "products", "saving", "refused", "ended", "paid"},
        points : Nat, stock : [Products -> Int], missed : SUBSET Products]]
  /\ taken \in [Purchases -> SUBSET Products]
  /\ overwritten \subseteq Products
  /\ overlapped \in BOOLEAN
  /\ gone \subseteq Jobs \cup Purchases \cup Workers

BoughtDirectly(p) ==
  SumFunction([d \in Purchases |-> IF p \in taken[d] THEN Wants[d][p] ELSE 0])

PointsUsed == SumFunction([d \in Purchases |-> IF request[d].pc = "paid" THEN Uses[d] ELSE 0])
PointsEarned ==
  SumFunction([x \in Customers |-> IF request[x].pc = "paid" THEN Earns[x] ELSE 0])

\* Units vanish only where a purchase has set a stock that changed after the
\* purchase had read it (account.ts:568): queue, compensation and purchases
\* together lose none.  A run that ended with its process has its units in hand.
LostOnlyByOverwriting ==
  \A p \in Products \ overwritten :
    stock[p] + Sold(p) + InHand(p) + BoughtDirectly(p) >= InitialStock[p]

\* A customer whose requests never overlapped has exactly the points they
\* earned and used, whatever became of their orders (orders.ts:376,
\* account.ts:576-578).
PointsAddUp ==
  ~overlapped => points + PointsUsed = InitialPoints + PointsEarned

=============================================================================
