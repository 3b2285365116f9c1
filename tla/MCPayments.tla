------------------------------ MODULE MCPayments ------------------------------
(***************************************************************************)
(* Small instances of the payments: an order by card and one by bank, over *)
(* units that do not suffice for both.                                     *)
(***************************************************************************)
EXTENDS Payments, TLC

CONSTANT a

OneProductCarts == [j \in Jobs |-> <<a>>]
OneProductQty == [j \in Jobs |-> (a :> 1)]
OneProductStock == (a :> 1)

=============================================================================
