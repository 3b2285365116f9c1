------------------------------ MODULE StockGuard ------------------------------
(***************************************************************************)
(* What the stock lock promises to the checkout, stated without queues,    *)
(* keys or retries: units of a product are taken only by the one worker    *)
(* that is inside for that product, and only units that are there.         *)
(*                                                                         *)
(* stockLockService.ts:4-5 calls this linearisability of the stock         *)
(* operations.  Giving units back needs no lock: the compensation of a     *)
(* failed order increments every product of the order, locked or not.      *)
(***************************************************************************)
EXTENDS Naturals

CONSTANTS
  Products,
  Workers,
  InitialStock, \* [Products -> Nat]
  Amounts       \* the quantities orders ask for

VARIABLES
  stock,        \* units on hand
  inside        \* inside[p]: the workers inside for p

vars == <<stock, inside>>

Init ==
  /\ stock = InitialStock
  /\ inside = [p \in Products |-> {}]

\* A worker enters a product nobody is inside for.
Enter(w, p) ==
  /\ inside[p] = {}
  /\ inside' = [inside EXCEPT ![p] = {w}]
  /\ UNCHANGED stock

\* The one worker inside for p takes q units that are there.
Take(w, p, q) ==
  /\ inside[p] = {w}
  /\ stock[p] >= q
  /\ stock' = [stock EXCEPT ![p] = @ - q]
  /\ UNCHANGED inside

\* Anyone gives q units of p back.
GiveBack(p, q) ==
  /\ stock' = [stock EXCEPT ![p] = @ + q]
  /\ UNCHANGED inside

\* A worker leaves some products: one at a time when it releases its locks,
\* all of them when its process dies.
Leave(w, P) ==
  /\ inside' = [p \in Products |->
                  IF p \in P THEN inside[p] \ {w} ELSE inside[p]]
  /\ UNCHANGED stock

Next ==
  \/ \E w \in Workers, p \in Products :
       Enter(w, p) \/ \E q \in Amounts : Take(w, p, q)
  \/ \E p \in Products : \E q \in Amounts : GiveBack(p, q)
  \/ \E w \in Workers : \E P \in SUBSET Products : Leave(w, P)

Spec == Init /\ [][Next]_vars

=============================================================================
