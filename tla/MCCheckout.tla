------------------------------ MODULE MCCheckout ------------------------------
(***************************************************************************)
(* Small instances of the checkout queue: three orders over two products,  *)
(* two of which lock the products in opposite orders.                      *)
(***************************************************************************)
EXTENDS CheckoutProperties, TLC

CONSTANTS j1, j2, j3, a, b

CrossedCarts == [j \in Jobs |-> CASE j = j1 -> <<a, b>>
                                 [] j = j2 -> <<b, a>>
                                 [] j = j3 -> <<a>>]
CrossedQty == [j \in Jobs |-> CASE j = j1 -> (a :> 1 @@ b :> 1)
                               [] j = j2 -> (a :> 1 @@ b :> 2)
                               [] j = j3 -> (a :> 2 @@ b :> 0)]
OneProductCarts == [j \in Jobs |-> <<a>>]
OneProductQty == [j \in Jobs |-> (a :> 1)]
OneProductStock == (a :> 1)
PairQty == [j \in Jobs |-> (a :> 2)]
PairStock == (a :> 3)
SweepStock == (a :> 5)
CrossedStock == (a :> 2) @@ (b :> 2)

=============================================================================
