-------------------------------- MODULE Carts --------------------------------
(***************************************************************************)
(* The cart of a customer (backend/server/routes/cart.ts): one document,   *)
(* which every request reads, changes in memory and saves.  A business     *)
(* customer's cart also takes the items of uploaded lists, of cloned       *)
(* orders and of approved requests (routes/b2b.ts), the last on behalf of  *)
(* another user.                                                           *)
(*                                                                         *)
(* A save sends what changed, in the form that Mongoose gives it:          *)
(*  - an insert for a cart that was not there; the user is a unique key    *)
(*  - lines pushed at the end, whatever the stored array looks like        *)
(*  - a quantity at an index, if the stored version is the one read        *)
(*  - the whole array, if the stored version is the one read               *)
(* The second and the last raise the version; a quantity does not.         *)
(***************************************************************************)
EXTENDS Integers, Sequences, FiniteSets, FiniteSetsExt, SequencesExt

CONSTANTS
  Goods,       \* products
  OnHand,      \* OnHand[p]: the stock of p, which does not change meanwhile
  Edits,       \* requests that change the cart
  EditOf,      \* EditOf[r]: [kind, items, slug]: add, update, remove, clear or
               \* merge; the lines it is about; whether it names the product by
               \* its slug
  Basket,      \* the lines of the cart to begin with
  NoCart

LinesOf(goods) == [product : goods, quantity : Nat \ {0}]

ASSUME CartsAssumption ==
  /\ OnHand \in [Goods -> Nat]
  /\ EditOf \in [Edits -> [kind : {"add", "update", "remove", "clear", "merge"},
                           items : Seq(LinesOf(Goods)), slug : BOOLEAN]]
  /\ \A r \in Edits : EditOf[r].kind \in {"add", "update", "remove"} =>
       Len(EditOf[r].items) = 1
  /\ Basket \in Seq(LinesOf(Goods))
  /\ NoCart \notin [id : Nat, version : Nat, lines : Seq(LinesOf(Goods))]

VARIABLES
  cart,     \* the stored document: its id, its version and its lines
  edit,     \* edit[r]: where a request is, and the cart it has read
  carts,    \* the carts that were created
  doubled   \* products that got a second line

cartVars == <<cart, edit, carts, doubled>>

CartsInit ==
  /\ cart = [id |-> 1, version |-> 0, lines |-> Basket]
  /\ edit = [r \in Edits |-> [pc |-> "new", seen |-> NoCart]]
  /\ carts = 1
  /\ doubled = {}

-----------------------------------------------------------------------------
(***************************************************************************)
(* What a request makes of the lines it has read.                          *)
(***************************************************************************)
Lines(c) == IF c = NoCart THEN <<>> ELSE c.lines
Named(lines, p) == {i \in DOMAIN lines : lines[i].product = p}

\* A slug is compared with the products of the lines and equals none.
Found(lines, r, p) == IF EditOf[r].slug THEN {} ELSE Named(lines, p)

\* The first line of the product takes the quantity, or a new line does.
AddLine(lines, item, at) ==
  IF at = {} THEN Append(lines, item)
             ELSE [lines EXCEPT ![Min(at)].quantity = @ + item.quantity]

\* The lines when the first n items are merged; those kept of the first n lines.
Merged(lines, items) ==
  LET merged[n \in 0..Len(items)] ==
        IF n = 0 THEN lines
        ELSE AddLine(merged[n - 1], items[n], Named(merged[n - 1], items[n].product))
  IN  merged
Kept(lines, p) ==
  LET kept[n \in 0..Len(lines)] ==
        IF n = 0 THEN <<>>
        ELSE IF lines[n].product = p THEN kept[n - 1] ELSE Append(kept[n - 1], lines[n])
  IN  kept

Merge(lines, items) == Merged(lines, items)[Len(items)]
Without(lines, p) == Kept(lines, p)[Len(lines)]

\* The quantity asked for alone, not the one the line will have.
AskedWithin(lines, r, item) == item.quantity <= OnHand[item.product]
AddWithin(lines, r, item) ==
  LET at == Found(lines, r, item.product)
  IN  item.quantity + (IF at = {} THEN 0 ELSE lines[Min(at)].quantity)
        <= OnHand[item.product]

\* The checks of a request on the cart and the product as they were read.
Allowed(lines, r) ==
  LET e == EditOf[r]
      item == e.items[1]
  IN  CASE e.kind = "add" -> AddWithin(lines, r, item)
        [] e.kind = "update" -> /\ item.quantity <= OnHand[item.product]
                                /\ Found(lines, r, item.product) # {}
        [] e.kind = "remove" -> Found(lines, r, item.product) # {}
        [] OTHER -> TRUE

Edited(lines, r) ==
  LET e == EditOf[r]
      item == e.items[1]
      at == Found(lines, r, item.product)
  IN  CASE e.kind = "add" -> AddLine(lines, item, at)
        [] e.kind = "update" -> [lines EXCEPT ![Min(at)].quantity = item.quantity]
        [] e.kind = "remove" -> Without(lines, item.product)
        [] e.kind = "merge" -> Merge(lines, e.items)

-----------------------------------------------------------------------------
\* Cart.findOne, and the checks: the request is refused or goes on to save.
ReadCart(r) ==
  /\ edit[r].pc = "new" /\ EditOf[r].kind # "clear"
  /\ edit' = [edit EXCEPT ![r] =
       [pc |-> IF Allowed(Lines(cart), r) THEN "save" ELSE "refused", seen |-> cart]]
  /\ UNCHANGED <<cart, carts, doubled>>

Finish(r, pc) == edit' = [edit EXCEPT ![r].pc = pc]

InsertCart(r) ==
  /\ edit[r].pc = "save" /\ edit[r].seen = NoCart
  /\ IF cart = NoCart
     THEN /\ cart' = [id |-> carts + 1, version |-> 0, lines |-> Edited(<<>>, r)]
          /\ carts' = carts + 1
          /\ Finish(r, "saved")
     ELSE Finish(r, "failed") /\ UNCHANGED <<cart, carts>>
  /\ UNCHANGED doubled

\* A save is of the document that was read, and of its version.
Stands(r) == cart # NoCart /\ cart.id = edit[r].seen.id
StandsUnversioned(r) == Stands(r)
StandsUnmoved(r) == Stands(r) /\ cart.version = edit[r].seen.version

Before(r) == edit[r].seen.lines
After(r) == Edited(Before(r), r)
Added(r) == SubSeq(After(r), Len(Before(r)) + 1, Len(After(r)))

\* Every item became a line of its own. A line that was pushed and then changed,
\* by an item that names its product again, makes the save one of the whole array.
Pushes(r) ==
  /\ Len(After(r)) > Len(Before(r))
  /\ Len(After(r)) = Len(Before(r)) + Len(EditOf[r].items)
  /\ SubSeq(After(r), 1, Len(Before(r))) = Before(r)
SetsQuantities(r) == Len(After(r)) = Len(Before(r))

Changes(r) == After(r) # Before(r)
MaySave(r) == IF Pushes(r) THEN Stands(r) ELSE StandsUnmoved(r)

\* The document as a save leaves it.
SavedCart(r) ==
  IF Pushes(r)
  THEN [cart EXCEPT !.lines = @ \o Added(r), !.version = @ + 1]
  ELSE IF SetsQuantities(r)
  THEN [cart EXCEPT !.lines = [i \in DOMAIN @ |->
          IF i \in DOMAIN Before(r) /\ After(r)[i] # Before(r)[i]
          THEN [@[i] EXCEPT !.quantity = After(r)[i].quantity] ELSE @[i]]]
  ELSE [cart EXCEPT !.lines = After(r), !.version = @ + 1]

SaveCart(r) ==
  /\ edit[r].pc = "save" /\ edit[r].seen # NoCart
  /\ IF ~Changes(r) THEN Finish(r, "saved") /\ UNCHANGED <<cart, doubled>>
     ELSE IF MaySave(r)
     THEN /\ cart' = SavedCart(r)
          /\ doubled' = IF Pushes(r)
                        THEN doubled \cup {line.product : line \in
                               {l \in Range(Added(r)) : Named(cart.lines, l.product) # {}}}
                        ELSE doubled
          /\ Finish(r, "saved")
     ELSE Finish(r, "failed") /\ UNCHANGED <<cart, doubled>>
  /\ UNCHANGED carts

\* DELETE /cart/clear: Cart.deleteOne.
ClearCart(r) ==
  /\ edit[r].pc = "new" /\ EditOf[r].kind = "clear"
  /\ cart' = NoCart
  /\ Finish(r, "saved")
  /\ UNCHANGED <<carts, doubled>>

CartsNext == \E r \in Edits : ReadCart(r) \/ InsertCart(r) \/ SaveCart(r) \/ ClearCart(r)

-----------------------------------------------------------------------------
\* Type invariant.
CartDocs == [id : Nat, version : Nat, lines : Seq(LinesOf(Goods))]
CartsTypeOK ==
  /\ cart \in CartDocs \cup {NoCart}
  /\ edit \in [Edits -> [pc : {"new", "save", "saved", "failed", "refused"},
                         seen : CartDocs \cup {NoCart}]]
  /\ carts \in Nat
  /\ doubled \subseteq Goods

About(r) == {item.product : item \in Range(EditOf[r].items)}

\* Saving an edit neither adds nor removes a line of a product that the edit is
\* not about, whatever other requests did to the array since it read the cart:
\* an index never points to another line than the one meant, and a whole array
\* never comes back over lines that were pushed (cart.ts:166-167, 191-192).
OnlyOwnLines ==
  [][\A r \in Edits : edit[r].pc = "save" /\ edit'[r].pc = "saved" =>
       \A p \in Goods \ About(r) :
         Cardinality(Named(Lines(cart'), p)) = Cardinality(Named(Lines(cart), p))]_cartVars

Units(p) ==
  SumFunction([i \in Named(Lines(cart), p) |-> cart.lines[i].quantity])

\* The cart asks for more units than there are only of products that were
\* merged without a check, or that got a second line: added by their slug, or
\* by two requests of which neither saw the other (cart.ts:107-120).
WithinStock ==
  \A p \in Goods : Units(p) > OnHand[p] =>
    \/ p \in doubled
    \/ \E r \in Edits : EditOf[r].kind = "merge" /\ edit[r].pc = "saved" /\ p \in About(r)

=============================================================================
