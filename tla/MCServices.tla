------------------------------ MODULE MCServices ------------------------------
(***************************************************************************)
(* Small instances of the services that share no state with the checkout   *)
(* queue's guard or with each other: direct orders beside a queue without  *)
(* Redis, fulfilment, the ChatOps engine, a channel's history, a cart.     *)
(* A behaviour is one of a single service; nothing is lost by that, for no *)
(* step of one service reads what another one writes.  The catalogue's     *)
(* flags start in every way where orders are placed; no other service      *)
(* reads them.                                                             *)
(***************************************************************************)
EXTENDS DirectOrders, Fulfilment, ChatOpsEngine, ChatHistory, Carts, TLC

CONSTANTS j1, j2, p1, p2, p3

VARIABLE service  \* the service that the behaviour is of

serviceVars == <<shopVars, pickVars, engineVars, chatVars, cartVars, service>>

\* Two orders over the same two products in crossed order.
CrossedCarts == [j \in Jobs |-> IF j = j1 THEN <<p1, p2>> ELSE <<p2, p1>>]
CrossedQty == [j \in Jobs |-> IF j = j1 THEN (p1 :> 1 @@ p2 :> 1) ELSE (p1 :> 1 @@ p2 :> 2)]
CrossedStock == (p1 :> 2 @@ p2 :> 2)
OneOfEach == [d \in Purchases |-> (p1 :> 1 @@ p2 :> 1)]
TwoPoints == [d \in Purchases |-> 2]
OnePoint == [x \in Purchases \cup (Jobs \ CardJobs) |-> 1]

\* The first and the last item share a box, the second does not fit in.
BulkyItems == [o \in PickOrders |->
  << [product |-> p1, quantity |-> 2, volume |-> 20, weight |-> 4],
     [product |-> p2, quantity |-> 1, volume |-> 18, weight |-> 1],
     [product |-> p3, quantity |-> 3, volume |-> 1, weight |-> 1] >>]

TwoOfEach == [p \in Goods |-> 2]
Line(p, q) == [product |-> p, quantity |-> q]
OneLine == <<Line(p1, 1)>>
Request(kind, items) == [kind |-> kind, items |-> items, slug |-> FALSE]
CartEdits ==
  "add" :> Request("add", <<Line(p2, 1)>>) @@
  "slug" :> [Request("add", <<Line(p2, 2)>>) EXCEPT !.slug = TRUE] @@
  "update" :> Request("update", <<Line(p1, 2)>>) @@
  "remove" :> Request("remove", <<Line(p1, 1)>>) @@
  "merge" :> Request("merge", <<Line(p2, 1), Line(p2, 1)>>) @@
  "clear" :> Request("clear", <<>>)

ServicesInit ==
  /\ DirectInit /\ FulfilmentInit /\ EngineInit /\ HistoryInit /\ CartsInit
  /\ service \in {"orders", "fulfilment", "engine", "history", "carts"}
  /\ service # "fulfilment" => withRedis
  /\ service # "orders" => inStock = [p \in Products |-> TRUE]

ServicesNext ==
  /\ \/ /\ service = "orders" /\ DirectNext
        /\ UNCHANGED <<pickVars, engineVars, chatVars, cartVars>>
     \/ /\ service = "fulfilment" /\ FulfilmentNext
        /\ UNCHANGED <<shopVars, engineVars, chatVars, cartVars>>
     \/ /\ service = "engine" /\ EngineNext
        /\ UNCHANGED <<shopVars, pickVars, chatVars, cartVars>>
     \/ /\ service = "history" /\ HistoryNext
        /\ UNCHANGED <<shopVars, pickVars, engineVars, cartVars>>
     \/ /\ service = "carts" /\ CartsNext
        /\ UNCHANGED <<shopVars, pickVars, engineVars, chatVars>>
  /\ UNCHANGED service

ServicesSpec ==
  /\ ServicesInit /\ [][ServicesNext]_serviceVars
  /\ FulfilmentFairness /\ EngineFairness

\* Type invariant of every service.
ServicesTypeOK ==
  DirectTypeOK /\ FulfilmentTypeOK /\ EngineTypeOK /\ HistoryTypeOK /\ CartsTypeOK

=============================================================================
