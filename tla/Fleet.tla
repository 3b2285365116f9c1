--------------------------------- MODULE Fleet ---------------------------------
(***************************************************************************)
(* What the transports promise to a company, stated without requests,      *)
(* vehicles or statuses: a trip takes units from the depot, when it begins *)
(* or later, and what it carries is delivered once or comes back once, as  *)
(* a whole.                                                                *)
(*                                                                         *)
(* Nothing is promised about a product from the moment it is disputed, nor *)
(* that the depot has the units a trip takes.                              *)
(***************************************************************************)
EXTENDS Integers

CONSTANTS
  Trips,
  Products,
  InitialStock, \* [Products -> Nat]
  Loads         \* [Products -> Nat]: what can be put on a trip at once

VARIABLES
  depot,        \* depot[p]: units of p in stock
  aboard,       \* aboard[p][t]: units of p on trip t
  delivered,    \* delivered[p]: units of p that have arrived for good
  disputed      \* the products of which nothing is promised any more

vars == <<depot, aboard, delivered, disputed>>

Init ==
  /\ depot = InitialStock
  /\ aboard = [p \in Products |-> [t \in Trips |-> 0]]
  /\ delivered = [p \in Products |-> 0]
  /\ disputed = {}

Take(t, load, p) ==
  /\ depot'[p] = depot[p] - load[p]
  /\ aboard'[p] = [aboard[p] EXCEPT ![t] = @ + load[p]]
  /\ delivered'[p] = delivered[p]

Deliver(t, p) ==
  /\ delivered'[p] = delivered[p] + aboard[p][t]
  /\ aboard'[p] = [aboard[p] EXCEPT ![t] = 0]
  /\ depot'[p] = depot[p]

Return(t, p) ==
  /\ depot'[p] = depot[p] + aboard[p][t]
  /\ aboard'[p] = [aboard[p] EXCEPT ![t] = 0]
  /\ delivered'[p] = delivered[p]

Rest(p) ==
  /\ depot'[p] = depot[p] /\ aboard'[p] = aboard[p] /\ delivered'[p] = delivered[p]

\* One thing happens to all products that are not disputed.
Next ==
  LET Settled == Products \ disputed' IN
  /\ disputed \subseteq disputed'
  /\ \/ \E t \in Trips :
          \/ \E load \in Loads : \A p \in Settled : Take(t, load, p)
          \/ \A p \in Settled : Deliver(t, p)
          \/ \A p \in Settled : Return(t, p)
     \/ \A p \in Settled : Rest(p)

Spec == Init /\ [][Next]_vars

=============================================================================
