--------------------------- MODULE ServicesProofs ----------------------------
(***************************************************************************)
(* Proofs about the services beside the queue's guard.                     *)
(*                                                                         *)
(* Part 1, direct orders beside the queue: the points add up as long as no *)
(* two saves of the customer overlap, and units are lost only where a save *)
(* overwrites a stock.                                                     *)
(*                                                                         *)
(* Part 2, the cart, for any number of products and requests. The          *)
(* inductive invariant relates what a request has read to what is stored:  *)
(* at the same version the same products are at the same places, because   *)
(* whatever moves a line raises the version. So a quantity goes to the     *)
(* line it was meant for, and a whole array replaces the one it was made   *)
(* of.                                                                     *)
(*                                                                         *)
(* Part 3, all services together: every one of them behaves as it does     *)
(* alone, so that what is proved of it alone holds of the whole.           *)
(***************************************************************************)
EXTENDS MCServices, CheckoutProofs, FulfilmentProofs, ChatOpsProofs

USE DEF redis, shop, bull

Requests == [pc : {"new", "queued", "products", "saving", "refused", "ended", "paid"},
             points : Nat, stock : [Products -> Int], missed : SUBSET Products]

LEMMA BalanceIs ==
  ASSUME NEW x \in Customers, NEW read \in Nat, NEW used \in Nat
  PROVE  /\ Balance(x, read, used) \in Nat
         /\ used <= read => Balance(x, read, used) = read - used + Earns[x]
<1> DEFINE S == {0, read - used}
<1>1. \E m \in S : \A y \in S : m >= y
  <2>1. CASE used <= read
    BY <2>1
  <2>2. CASE ~(used <= read)
    BY <2>2
  <2> QED BY <2>1, <2>2
<1>2. Max(S) \in S /\ \A y \in S : Max(S) >= y
  <2> HIDE DEF S
  <2> QED BY <1>1 DEF Max
<1>3. PICK m : m = Max(S)
  OBVIOUS
<1>4. m \in {0, read - used} /\ m >= 0 /\ m >= read - used
  BY <1>2, <1>3
<1>5. Earns[x] \in Nat
  BY DirectAssumption DEF Customers, CashJobs
<1>6. Balance(x, read, used) = m + Earns[x]
  BY <1>3 DEF Balance
<1>7. m \in Nat /\ (used <= read => m = read - used)
  BY <1>4
<1> QED BY <1>5, <1>6, <1>7

LEMMA DirectStarts == DirectInit => QueueTyped /\ DirectTypeOK
<1> SUFFICES ASSUME DirectInit PROVE QueueTyped /\ DirectTypeOK
  OBVIOUS
<1>1. QueueTyped
  BY TypeInit DEF DirectInit
<1>2. NewRequest \in Requests
  BY DEF NewRequest, Requests, NoUnits
<1>3. request \in [Customers -> Requests]
  BY <1>2 DEF DirectInit
<1>4. /\ points \in Nat /\ taken \in [Purchases -> SUBSET Products]
      /\ overwritten \subseteq Products /\ overlapped \in BOOLEAN
      /\ gone \subseteq Jobs \cup Purchases \cup Workers
  BY DirectAssumption DEF DirectInit
<1> QED BY <1>1, <1>3, <1>4 DEF DirectTypeOK, Requests

LEMMA MoveTyped ==
  ASSUME DirectTypeOK, NEW x \in Customers, NEW r \in Requests,
         request' = [request EXCEPT ![x] = r]
  PROVE  /\ request' \in [Customers -> Requests] /\ request'[x] = r
         /\ \A y \in Customers \ {x} : request'[y] = request[y]
BY DEF DirectTypeOK, Requests

\* What the steps of a customer's requests do to them: x goes from r to s.
Begins(x, s) ==
  /\ request[x].pc = "new" /\ s.points = points /\ points' = points
  /\ s.pc \in {"queued", "products"}
  /\ x \in Purchases => Uses[x] <= points
  /\ overlapped' = (overlapped \/ \E y \in Customers \ {x} : UnderWay(y))
GoesOn(x, s) ==
  /\ request[x].pc \in {"products", "saving", "ended"} /\ s.points = request[x].points
  /\ points' = points /\ overlapped' = overlapped
  /\ s.pc \in {"saving", "refused", "ended"}
  /\ s.pc = "saving" => x \notin gone /\ request[x].pc = "products"
Pays(x, s) ==
  /\ UnderWay(x) /\ s.points = request[x].points /\ s.pc = "paid"
  /\ points' = Balance(x, request[x].points, IF x \in Purchases THEN Uses[x] ELSE 0)
  /\ overlapped' = overlapped

RequestStep(x, s) == Begins(x, s) \/ GoesOn(x, s) \/ Pays(x, s)

RequestMoves ==
  \E x \in Customers : \E s \in Requests :
    request' = [request EXCEPT ![x] = s] /\ RequestStep(x, s)

LEMMA CustomersApart ==
  /\ \A j \in CashJobs : j \in Customers /\ j \notin Purchases
  /\ \A d \in Purchases : d \in Customers /\ Uses[d] \in Nat
BY DirectAssumption DEF Customers, CashJobs

\* A step that touches neither the queue nor the stock.
LEMMA RequestSteps ==
  ASSUME QueueTyped, DirectTypeOK,
         \/ \E j \in CashJobs : BeginCheckout(j)
         \/ \E j \in CashJobs \ gone : EarnPoints(j)
         \/ \E d \in Purchases \ gone : BeginPurchase(d) \/ ReadProducts(d) \/ PayPurchase(d)
         \/ \E d \in Purchases, p \in Products : SaveFails(d, p)
  PROVE  RequestMoves /\ UNCHANGED <<vars, taken, overwritten, gone>>
<1>1. request \in [Customers -> Requests] /\ points \in Nat
  BY DEF DirectTypeOK, Requests
<1>2. UNCHANGED <<vars, taken, overwritten, gone>>
  BY DEF BeginCheckout, EarnPoints, BeginPurchase, ReadProducts, PayPurchase, SaveFails
<1>3. ASSUME NEW x \in Customers, NEW pc \in {"queued", "products"}, ReadUser(x, pc),
             points' = points, x \in Purchases => Uses[x] <= points
      PROVE  RequestMoves
  <2> DEFINE s == [request[x] EXCEPT !.pc = pc, !.points = points]
  <2>1. s \in Requests /\ s.pc = pc /\ s.points = points
    BY <1>1 DEF Requests
  <2>2. request' = [request EXCEPT ![x] = s]
    BY <1>3 DEF ReadUser
  <2> HIDE DEF s
  <2>3. Begins(x, s)
    BY <1>3, <2>1 DEF Begins, ReadUser
  <2> QED BY <2>1, <2>2, <2>3 DEF RequestMoves, RequestStep
<1>4. ASSUME NEW j \in CashJobs, BeginCheckout(j) PROVE RequestMoves
  BY <1>3, <1>4, CustomersApart DEF BeginCheckout
<1>5. ASSUME NEW d \in Purchases, BeginPurchase(d) PROVE RequestMoves
  BY <1>3, <1>5, CustomersApart DEF BeginPurchase
<1>6. ASSUME NEW x \in Customers, UnderWay(x), Go(x, "paid"), overlapped' = overlapped,
             points' = Balance(x, request[x].points, IF x \in Purchases THEN Uses[x] ELSE 0)
      PROVE  RequestMoves
  <2> DEFINE s == [request[x] EXCEPT !.pc = "paid"]
  <2>1. s \in Requests /\ s.pc = "paid" /\ s.points = request[x].points
    BY <1>1 DEF Requests
  <2>2. request' = [request EXCEPT ![x] = s]
    BY <1>6 DEF Go
  <2> HIDE DEF s
  <2>3. Pays(x, s)
    BY <1>6, <2>1 DEF Pays
  <2> QED BY <2>1, <2>2, <2>3 DEF RequestMoves, RequestStep
<1>7. ASSUME NEW j \in CashJobs, j \notin gone, EarnPoints(j) PROVE RequestMoves
  BY <1>6, <1>7, CustomersApart DEF EarnPoints, UnderWay
<1>8. ASSUME NEW d \in Purchases, d \notin gone, PayPurchase(d) PROVE RequestMoves
  BY <1>6, <1>8, CustomersApart DEF PayPurchase, UnderWay
<1>9. ASSUME NEW d \in Purchases, d \notin gone, ReadProducts(d) PROVE RequestMoves
  <2> DEFINE read == [p \in Products |-> IF p \in Asked(d) THEN stock[p] ELSE 0]
  <2>1. PICK pc \in {"saving", "refused"} :
          request' = [request EXCEPT ![d] = [request[d] EXCEPT !.pc = pc, !.stock = read]]
    BY <1>9 DEF ReadProducts
  <2>2. read \in [Products -> Int]
    BY DEF QueueTyped
  <2> HIDE DEF read
  <2> DEFINE s == [request[d] EXCEPT !.pc = pc, !.stock = read]
  <2>3. s \in Requests /\ s.pc = pc /\ s.points = request[d].points
    BY <1>1, <2>2, CustomersApart DEF Requests
  <2> HIDE DEF s
  <2>4. GoesOn(d, s)
    BY <1>9, <2>3 DEF GoesOn, ReadProducts
  <2> QED BY <2>1, <2>3, <2>4, CustomersApart DEF RequestMoves, RequestStep, s
<1>10. ASSUME NEW d \in Purchases, NEW p \in Products, SaveFails(d, p) PROVE RequestMoves
  <2> DEFINE s == [request[d] EXCEPT !.pc = "ended", !.missed = @ \cup {p}]
  <2>1. s \in Requests /\ s.pc = "ended" /\ s.points = request[d].points
    BY <1>1, CustomersApart DEF Requests
  <2>2. request' = [request EXCEPT ![d] = s]
    BY <1>10 DEF SaveFails
  <2> HIDE DEF s
  <2>3. GoesOn(d, s)
    BY <1>10, <2>1 DEF GoesOn, SaveFails
  <2> QED BY <2>1, <2>2, <2>3, CustomersApart DEF RequestMoves, RequestStep
<1> QED BY <1>2, <1>4, <1>5, <1>7, <1>8, <1>9, <1>10

LEMMA DirectCases ==
  ASSUME QueueTyped, DirectTypeOK, [DirectNext]_shopVars
  PROVE  \/ UNCHANGED shopVars
         \/ QueueStep
         \/ ProcessEnds
         \/ RequestMoves /\ UNCHANGED <<vars, taken, overwritten, gone>>
         \/ \E d \in Purchases, p \in Products : TakeUnits(d, p)
BY RequestSteps DEF DirectNext

LEMMA DirectTypedStep ==
  ASSUME QueueTyped, DirectTypeOK, [DirectNext]_shopVars
  PROVE  QueueTyped' /\ DirectTypeOK'
<1>1. CASE UNCHANGED shopVars
  <2>1. UNCHANGED vars /\ UNCHANGED directVars
    BY <1>1 DEF shopVars
  <2> QED BY <2>1, QueueTypedStep DEF DirectTypeOK, directVars
<1>2. CASE QueueStep
  <2>1. [Next]_vars /\ UNCHANGED directVars
    BY <1>2 DEF QueueStep
  <2> QED BY <2>1, QueueTypedStep DEF DirectTypeOK, directVars
<1>3. CASE ProcessEnds
  <2>1. UNCHANGED vars /\ gone' \subseteq Jobs \cup Purchases \cup Workers
        /\ UNCHANGED <<points, request, taken, overwritten, overlapped>>
    BY <1>3 DEF ProcessEnds, DirectTypeOK, Customers, CashJobs
  <2> QED BY <2>1, QueueTypedStep DEF DirectTypeOK
<1>4. CASE RequestMoves /\ UNCHANGED <<vars, taken, overwritten, gone>>
  <2>1. PICK x \in Customers, s \in Requests :
          request' = [request EXCEPT ![x] = s] /\ RequestStep(x, s)
    BY <1>4 DEF RequestMoves
  <2>2. request' \in [Customers -> Requests]
    BY <2>1, MoveTyped
  <2>3. points' \in Nat /\ overlapped' \in BOOLEAN
    <3>1. request[x].points \in Nat /\ points \in Nat
      BY DEF DirectTypeOK
    <3>2. (IF x \in Purchases THEN Uses[x] ELSE 0) \in Nat
      BY CustomersApart
    <3>3. Balance(x, request[x].points, IF x \in Purchases THEN Uses[x] ELSE 0) \in Nat
      BY <3>1, <3>2, BalanceIs
    <3>4. points' \in Nat
      BY <2>1, <3>1, <3>3 DEF RequestStep, Begins, GoesOn, Pays
    <3>5. overlapped' \in BOOLEAN
      BY <2>1 DEF RequestStep, Begins, GoesOn, Pays, DirectTypeOK
    <3> QED BY <3>4, <3>5
  <2>4. QueueTyped'
    BY <1>4, QueueTypedStep
  <2> QED BY <1>4, <2>2, <2>3, <2>4 DEF DirectTypeOK, Requests
<1>5. ASSUME NEW d \in Purchases, NEW p \in Products, TakeUnits(d, p)
      PROVE  QueueTyped' /\ DirectTypeOK'
  <2>1. Left(d, p) \in Int
    <3>1. request[d].stock[p] \in Int /\ Wants[d][p] \in Nat
      BY DirectAssumption, CustomersApart DEF DirectTypeOK
    <3> QED BY <3>1 DEF Left
  <2>2. stock' \in [Products -> Int] /\ inStock' \in [Products -> BOOLEAN]
    BY <1>5, <2>1 DEF TakeUnits, QueueTyped, OutOfStock
  <2>3. UNCHANGED <<lock, sweep, job, runs, wk, points, request, overlapped, gone>>
    BY <1>5 DEF TakeUnits
  <2>4. taken' \in [Purchases -> SUBSET Products] /\ overwritten' \subseteq Products
    BY <1>5 DEF TakeUnits, DirectTypeOK
  <2>5. QueueTyped'
    BY <2>2, <2>3 DEF QueueTyped
  <2>6. DirectTypeOK'
    BY <2>3, <2>4 DEF DirectTypeOK
  <2> QED BY <2>5, <2>6
<1> QED BY <1>1, <1>2, <1>3, <1>4, <1>5, DirectCases

\* What the purchases add is always well typed.
THEOREM DirectTyped == DirectSpec => []DirectTypeOK
<1>1. QueueTyped /\ DirectTypeOK /\ [DirectNext]_shopVars => QueueTyped' /\ DirectTypeOK'
  BY DirectTypedStep
<1> QED BY DirectStarts, <1>1, PTL DEF DirectSpec

-----------------------------------------------------------------------------
(***************************************************************************)
(* The points.                                                             *)
(***************************************************************************)
UsedBy == [d \in Purchases |-> IF request[d].pc = "paid" THEN Uses[d] ELSE 0]
EarnedBy == [x \in Customers |-> IF request[x].pc = "paid" THEN Earns[x] ELSE 0]

\* One request at a time knows the points as they are, and may use them.
KnowsPoints(x) ==
  /\ request[x].points = points
  /\ x \in Purchases => Uses[x] <= points

PointsKnown ==
  /\ \A x, y \in Customers : UnderWay(x) /\ UnderWay(y) => x = y
  /\ \A x \in Customers : UnderWay(x) => KnowsPoints(x)
  /\ points + PointsUsed = InitialPoints + PointsEarned

PointsInv == ~overlapped => PointsKnown

LEMMA PointSums ==
  /\ PointsUsed = SumFunction(UsedBy) /\ PointsUsed' = SumFunction(UsedBy')
  /\ PointsEarned = SumFunction(EarnedBy) /\ PointsEarned' = SumFunction(EarnedBy')
  /\ UsedBy \in [Purchases -> Int] /\ UsedBy' \in [Purchases -> Int]
  /\ EarnedBy \in [Customers -> Int] /\ EarnedBy' \in [Customers -> Int]
<1>1. \A x \in Customers : Earns[x] \in Nat
  BY DirectAssumption DEF Customers, CashJobs
<1>2. \A d \in Purchases : Uses[d] \in Nat
  BY DirectAssumption
<1> QED BY <1>1, <1>2 DEF PointsUsed, PointsEarned, UsedBy, EarnedBy

LEMMA CustomersFinite ==
  ASSUME IsFiniteSet(Purchases), IsFiniteSet(Jobs)
  PROVE  IsFiniteSet(Customers)
<1>1. IsFiniteSet(CashJobs)
  BY FS_Subset DEF CashJobs
<1> QED BY <1>1, FS_Union DEF Customers

LEMMA PointsStart ==
  ASSUME IsFiniteSet(Purchases), IsFiniteSet(Jobs)
  PROVE  DirectInit => PointsInv
<1> SUFFICES ASSUME DirectInit PROVE PointsKnown
  BY DEF PointsInv
<1>1. points = InitialPoints /\ InitialPoints \in Nat
  BY DirectAssumption DEF DirectInit
<1>2. \A x \in Customers : request[x].pc = "new"
  BY DEF DirectInit, NewRequest
<1>3. UsedBy = [d \in Purchases |-> 0] /\ EarnedBy = [x \in Customers |-> 0]
  BY <1>2, CustomersApart DEF UsedBy, EarnedBy
<1>4. PointsUsed = 0 /\ PointsEarned = 0
  BY <1>3, PointSums, TotalZero, CustomersFinite
<1> QED BY <1>1, <1>2, <1>4 DEF PointsKnown, UnderWay

\* Steps that leave the points and the requests alone.
LEMMA PointsRest ==
  ASSUME PointsInv, UNCHANGED <<points, request, overlapped>>, gone \subseteq gone'
  PROVE  PointsInv'
<1>1. UsedBy' = UsedBy /\ EarnedBy' = EarnedBy
  BY DEF UsedBy, EarnedBy
<1>2. PointsUsed' = PointsUsed /\ PointsEarned' = PointsEarned
  BY <1>1, PointSums
<1>3. \A x \in Customers : UnderWay(x)' => UnderWay(x)
  BY DEF UnderWay
<1> QED BY <1>2, <1>3 DEF PointsInv, PointsKnown, KnowsPoints

LEMMA PointsMove ==
  ASSUME IsFiniteSet(Purchases), IsFiniteSet(Jobs), DirectTypeOK, PointsInv,
         RequestMoves, gone' = gone
  PROVE  PointsInv'
<1> SUFFICES ASSUME ~overlapped' PROVE PointsKnown'
  BY DEF PointsInv
<1>1. PICK x \in Customers, s \in Requests :
        request' = [request EXCEPT ![x] = s] /\ RequestStep(x, s)
  BY DEF RequestMoves
<1>2. request'[x] = s /\ \A y \in Customers \ {x} : request'[y] = request[y]
  BY <1>1, MoveTyped
<1>3. ~overlapped /\ PointsKnown
  <2>1. overlapped => overlapped'
    <3>1. CASE Begins(x, s)
      BY <3>1, Zenon DEF Begins
    <3>2. CASE GoesOn(x, s) \/ Pays(x, s)
      BY <3>2, Zenon DEF GoesOn, Pays
    <3> QED BY <1>1, <3>1, <3>2 DEF RequestStep
  <2> QED BY <2>1, Zenon DEF PointsInv
<1>4. \A y \in Customers \ {x} : UnderWay(y)' <=> UnderWay(y)
  BY <1>2 DEF UnderWay
<1>5. points \in Nat /\ request[x].points \in Nat
  BY DEF DirectTypeOK
<1>6. /\ \A d \in Purchases \ {x} : UsedBy'[d] = UsedBy[d]
      /\ \A y \in Customers \ {x} : EarnedBy'[y] = EarnedBy[y]
  BY <1>2, CustomersApart DEF UsedBy, EarnedBy
<1>7. request[x].pc # "paid"
  BY <1>1 DEF RequestStep, Begins, GoesOn, Pays, UnderWay
<1>8. CASE ~Pays(x, s)
  <2>1. Begins(x, s) \/ GoesOn(x, s)
    BY <1>1, <1>8 DEF RequestStep
  <2>2. s.pc # "paid" /\ points' = points
    BY <2>1 DEF Begins, GoesOn
  <2>3. UsedBy' = UsedBy /\ EarnedBy' = EarnedBy
    BY <1>2, <1>7, <2>2, CustomersApart DEF UsedBy, EarnedBy
  <2>4. PointsUsed' = PointsUsed /\ PointsEarned' = PointsEarned
    BY <2>3, PointSums
  <2>5. CASE Begins(x, s)
    <3>1. \A y \in Customers \ {x} : ~UnderWay(y)
      BY <2>5 DEF Begins
    <3>2. KnowsPoints(x)'
      BY <1>2, <2>2, <2>5 DEF Begins, KnowsPoints
    <3> QED BY <1>3, <1>4, <2>2, <2>4, <3>1, <3>2 DEF PointsKnown
  <2>6. CASE GoesOn(x, s)
    <3>1. UnderWay(x)' => UnderWay(x)
      BY <1>2, <2>6 DEF GoesOn, UnderWay
    <3>2. \A y \in Customers : UnderWay(y)' => UnderWay(y)
      BY <1>4, <3>1
    <3>3. ASSUME NEW y \in Customers, UnderWay(y) PROVE KnowsPoints(y)'
      <4>1. KnowsPoints(y)
        BY <1>3, <3>3 DEF PointsKnown
      <4>2. request'[y].points = request[y].points
        BY <1>2, <2>6 DEF GoesOn
      <4> QED BY <2>2, <4>1, <4>2 DEF KnowsPoints
    <3> QED BY <1>3, <2>2, <2>4, <3>2, <3>3 DEF PointsKnown
  <2> QED BY <2>1, <2>5, <2>6
<1>9. CASE Pays(x, s)
  <2> DEFINE used == IF x \in Purchases THEN Uses[x] ELSE 0
  <2>1. /\ UnderWay(x) /\ s.pc = "paid" /\ KnowsPoints(x)
        /\ points' = Balance(x, request[x].points, used)
    BY <1>3, <1>9 DEF Pays, PointsKnown
  <2>2. used \in Nat /\ used <= points /\ request[x].points = points
    BY <1>5, <2>1, CustomersApart DEF KnowsPoints
  <2>3. points' = points - used + Earns[x]
    <3> HIDE DEF used
    <3> QED BY <1>5, <2>1, <2>2, BalanceIs
  <2>4. \A y \in Customers : ~UnderWay(y)'
    <3>1. \A y \in Customers \ {x} : ~UnderWay(y)
      BY <1>3, <2>1 DEF PointsKnown
    <3>2. ~UnderWay(x)'
      BY <1>2, <2>1 DEF UnderWay
    <3> QED BY <1>4, <3>1, <3>2
  <2>5. PointsUsed' = PointsUsed + used
    <3>1. CASE x \in Purchases
      <4>1. UsedBy[x] = 0 /\ UsedBy'[x] = used
        BY <1>2, <1>7, <2>1, <3>1 DEF UsedBy
      <4>2. SumFunction(UsedBy') = SumFunction(UsedBy) - UsedBy[x] + UsedBy'[x]
        BY <1>6, <3>1, PointSums, TotalChange
      <4>3. SumFunction(UsedBy) \in Int
        BY PointSums, TotalInt
      <4> HIDE DEF used
      <4> QED BY <2>2, <4>1, <4>2, <4>3, PointSums
    <3>2. CASE x \notin Purchases
      <4>1. UsedBy' = UsedBy
        BY <1>6, <3>2, CustomersApart DEF UsedBy
      <4>2. SumFunction(UsedBy) \in Int
        BY PointSums, TotalInt
      <4> QED BY <3>2, <4>1, <4>2, PointSums
    <3> QED BY <3>1, <3>2
  <2>6. PointsEarned' = PointsEarned + Earns[x]
    <3>1. EarnedBy[x] = 0 /\ EarnedBy'[x] = Earns[x]
      BY <1>2, <1>7, <2>1 DEF EarnedBy
    <3>2. IsFiniteSet(Customers)
      BY CustomersFinite
    <3>3. SumFunction(EarnedBy') = SumFunction(EarnedBy) - EarnedBy[x] + EarnedBy'[x]
      BY <1>6, <3>2, PointSums, TotalChange
    <3>4. SumFunction(EarnedBy) \in Int /\ EarnedBy'[x] \in Int
      BY <3>2, PointSums, TotalInt
    <3> QED BY <3>1, <3>3, <3>4, PointSums
  <2>7. /\ PointsUsed \in Int /\ PointsEarned \in Int
        /\ Earns[x] \in Nat /\ InitialPoints \in Nat
    BY PointSums, TotalInt, CustomersFinite, DirectAssumption DEF Customers
  <2>8. points' + PointsUsed' = InitialPoints + PointsEarned'
    <3>1. points + PointsUsed = InitialPoints + PointsEarned
      BY <1>3 DEF PointsKnown
    <3>2. PICK a, b, e : a = PointsUsed /\ b = PointsEarned /\ e = Earns[x]
      OBVIOUS
    <3>3. PICK u : u = used
      OBVIOUS
    <3>4. /\ a \in Int /\ b \in Int /\ e \in Nat /\ u \in Nat /\ points \in Nat
          /\ InitialPoints \in Nat /\ points + a = InitialPoints + b
      BY <1>5, <2>2, <2>7, <3>1, <3>2, <3>3
    <3>5. points' = points - u + e /\ PointsUsed' = a + u /\ PointsEarned' = b + e
      BY <2>3, <2>5, <2>6, <3>2, <3>3
    <3>6. (points - u + e) + (a + u) = InitialPoints + (b + e)
      BY <3>4
    <3> QED BY <3>5, <3>6
  <2> QED BY <2>4, <2>8 DEF PointsKnown
<1> QED BY <1>8, <1>9

\* A customer whose requests never overlapped has exactly the points they earned
\* and used, whatever became of their orders and of the process
\* (orders.ts:376, account.ts:576-578).
THEOREM PointsOfOneByOne ==
  ASSUME IsFiniteSet(Purchases), IsFiniteSet(Jobs)
  PROVE  DirectSpec => []PointsAddUp
<1> DEFINE Inv == QueueTyped /\ DirectTypeOK /\ PointsInv
<1>1. DirectInit => Inv
  BY DirectStarts, PointsStart
<1>2. Inv /\ [DirectNext]_shopVars => Inv'
  <2> SUFFICES ASSUME Inv, [DirectNext]_shopVars PROVE PointsInv'
    BY DirectTypedStep
  <2>1. CASE UNCHANGED shopVars \/ QueueStep \/ ProcessEnds
    <3>1. UNCHANGED <<points, request, overlapped>> /\ gone \subseteq gone'
      BY <2>1 DEF shopVars, directVars, QueueStep, ProcessEnds
    <3> QED BY <3>1, PointsRest
  <2>2. ASSUME NEW d \in Purchases, NEW p \in Products, TakeUnits(d, p) PROVE PointsInv'
    <3>1. UNCHANGED <<points, request, overlapped, gone>>
      BY <2>2 DEF TakeUnits
    <3> QED BY <3>1, PointsRest
  <2>3. CASE RequestMoves /\ UNCHANGED <<vars, taken, overwritten, gone>>
    BY <2>3, PointsMove
  <2> QED BY <2>1, <2>2, <2>3, DirectCases
<1>3. Inv => PointsAddUp
  BY DEF PointsInv, PointsKnown, PointsAddUp
<1> HIDE DEF Inv
<1> QED BY <1>1, <1>2, <1>3, PTL DEF DirectSpec

-----------------------------------------------------------------------------
(***************************************************************************)
(* The units.                                                              *)
(***************************************************************************)
BoughtOf(p) == [d \in Purchases |-> IF p \in taken[d] THEN Wants[d][p] ELSE 0]

\* The account of the queue, and what the purchases took beside it.
UnitsThere ==
  \A p \in Products \ overwritten :
    stock[p] + Sold(p) + Owing(p) + BoughtDirectly(p) >= InitialStock[p]

LEMMA BoughtSums ==
  ASSUME NEW p \in Products
  PROVE  /\ BoughtDirectly(p) = SumFunction(BoughtOf(p))
         /\ BoughtDirectly(p)' = SumFunction(BoughtOf(p)')
         /\ BoughtOf(p) \in [Purchases -> Int] /\ BoughtOf(p)' \in [Purchases -> Int]
         /\ IsFiniteSet(Purchases) =>
              BoughtDirectly(p) \in Int /\ BoughtDirectly(p)' \in Int
<1>1. \A d \in Purchases : Wants[d][p] \in Nat
  BY DirectAssumption
<1>2. /\ BoughtDirectly(p) = SumFunction(BoughtOf(p))
      /\ BoughtDirectly(p)' = SumFunction(BoughtOf(p)')
      /\ BoughtOf(p) \in [Purchases -> Int] /\ BoughtOf(p)' \in [Purchases -> Int]
  BY <1>1 DEF BoughtDirectly, BoughtOf
<1> QED BY <1>2, TotalInt

\* A step of the queue, or one that leaves queue and shelf alone.
LEMMA UnitsOfQueue ==
  ASSUME IsFiniteSet(Workers), IsFiniteSet(Jobs), IsFiniteSet(Purchases), LiveWork,
         OrderInv, UnitsThere, [Next]_vars, UNCHANGED <<taken, overwritten>>
  PROVE  OrderInv' /\ UnitsThere'
<1>1. OrderInv'
  BY OrderInvStep
<1>2. SUFFICES ASSUME NEW p \in Products \ overwritten
               PROVE  stock'[p] + Sold(p)' + Owing(p)' + BoughtDirectly(p)' >= InitialStock[p]
  BY <1>1 DEF UnitsThere
<1>3. stock'[p] + Sold(p)' + Owing(p)' >= stock[p] + Sold(p) + Owing(p)
  BY <1>1, UnitsStep
<1>4. BoughtDirectly(p)' = BoughtDirectly(p)
  BY DEF BoughtDirectly
<1>5. /\ stock[p] \in Int /\ stock'[p] \in Int /\ Sold(p) \in Int /\ Owing(p) \in Int
      /\ Sold(p)' \in Int /\ Owing(p)' \in Int
  BY <1>1, UnitTypes
<1>6. BoughtDirectly(p) \in Int /\ InitialStock[p] \in Int
  BY BoughtSums, CheckoutAssumption
<1>7. stock[p] + Sold(p) + Owing(p) + BoughtDirectly(p) >= InitialStock[p]
  BY DEF UnitsThere
<1> QED BY <1>3, <1>4, <1>5, <1>6, <1>7

LEMMA TypeOfStock == OrderInv => stock \in [Products -> Int]
BY DEF OrderInv, RunsInv, QueueTyped

\* A purchase changes neither jobs nor runs nor the orders of the queue.
LEMMA JobsOfPurchase ==
  ASSUME OrderInv, QueueTyped', NEW d \in Purchases, NEW p \in Products, TakeUnits(d, p)
  PROVE  OrderInv'
<1>1. UNCHANGED <<lock, sweep, order, job, runs, wk>>
  BY DEF TakeUnits
<1> QED BY <1>1 DEF OrderInv, RunsInv, RunsDistinct, RunsOwnJobs, OutcomeWritten,
                    JobAndOrderAgree, Busy, Owns

\* What a step of the whole is for the queue and for the units.
LEMMA PurchaseOrQueue ==
  ASSUME QueueTyped, DirectTypeOK, [DirectNext]_shopVars
  PROVE  \/ [Next]_vars /\ UNCHANGED <<taken, overwritten>>
         \/ \E d \in Purchases, p \in Products : TakeUnits(d, p)
BY DirectCases DEF shopVars, directVars, QueueStep, ProcessEnds

\* A completed job is a confirmed order, and a failed one a failed order, beside
\* purchases, checkouts that earn points and the end of the process
\* (checkoutQueueService.ts:176-232, account.ts:566-569).
THEOREM OrdersFollowJobsBeside ==
  ASSUME LiveWork PROVE DirectSpec => []JobAndOrderAgree
<1> DEFINE Inv == OrderInv /\ DirectTypeOK
<1>1. DirectInit => Inv
  BY OrderInvStarts, DirectStarts DEF DirectInit
<1>2. ASSUME Inv, [DirectNext]_shopVars PROVE Inv'
  <2>1. QueueTyped /\ QueueTyped' /\ DirectTypeOK'
    BY <1>2, DirectTypedStep DEF OrderInv, RunsInv
  <2>2. OrderInv'
    BY <1>2, <2>1, PurchaseOrQueue, OrderInvStep, JobsOfPurchase
  <2> QED BY <2>1, <2>2
<1>3. Inv => JobAndOrderAgree
  BY DEF OrderInv
<1> HIDE DEF Inv
<1> QED BY <1>1, <1>2, <1>3, PTL DEF DirectSpec

\* A purchase takes what it wants, unless the stock moved since it was read.
LEMMA UnitsOfPurchase ==
  ASSUME IsFiniteSet(Workers), IsFiniteSet(Jobs), IsFiniteSet(Purchases),
         OrderInv, DirectTypeOK, UnitsThere, QueueTyped',
         NEW d \in Purchases, NEW p \in Products, TakeUnits(d, p)
  PROVE  OrderInv' /\ UnitsThere'
<1>1. /\ UNCHANGED <<lock, sweep, order, job, runs, wk>>
      /\ stock' = [stock EXCEPT ![p] = Left(d, p)]
      /\ taken' = [taken EXCEPT ![d] = @ \cup {p}]
      /\ overwritten \subseteq overwritten'
      /\ p \notin overwritten' => stock[p] = request[d].stock[p]
      /\ p \notin taken[d]
  BY DEF TakeUnits, Unsettled
<1>2. OrderInv'
  BY JobsOfPurchase
<1>3. SUFFICES ASSUME NEW q \in Products \ overwritten'
               PROVE  stock'[q] + Sold(q)' + Owing(q)' + BoughtDirectly(q)' >= InitialStock[q]
  BY <1>2 DEF UnitsThere
<1>4. Sold(q)' = Sold(q) /\ Owing(q)' = Owing(q)
  BY <1>1 DEF Sold, Owing
<1>5. /\ stock[q] \in Int /\ Sold(q) \in Int /\ Owing(q) \in Int
      /\ BoughtDirectly(q) \in Int /\ InitialStock[q] \in Int /\ Wants[d][p] \in Nat
  BY <1>2, UnitTypes, BoughtSums, CheckoutAssumption, DirectAssumption
<1>6. stock[q] + Sold(q) + Owing(q) + BoughtDirectly(q) >= InitialStock[q]
  BY <1>1 DEF UnitsThere
<1>7. CASE q # p
  <2>1. stock'[q] = stock[q]
    BY <1>1, <1>7, TypeOfStock
  <2>2. BoughtOf(q)' = BoughtOf(q)
    BY <1>1, <1>7 DEF BoughtOf, DirectTypeOK
  <2>3. BoughtDirectly(q)' = BoughtDirectly(q)
    BY <2>2, BoughtSums
  <2> QED BY <1>4, <1>6, <2>1, <2>3
<1>8. CASE q = p
  <2>1. stock'[p] = stock[p] - Wants[d][p]
    BY <1>1, <1>8, TypeOfStock DEF Left
  <2>2. /\ BoughtOf(p)[d] = 0 /\ BoughtOf(p)'[d] = Wants[d][p]
        /\ \A e \in Purchases \ {d} : BoughtOf(p)'[e] = BoughtOf(p)[e]
    BY <1>1 DEF BoughtOf, DirectTypeOK
  <2>3. SumFunction(BoughtOf(p)') = SumFunction(BoughtOf(p)) - BoughtOf(p)[d] + BoughtOf(p)'[d]
    BY <2>2, BoughtSums, TotalChange
  <2>4. BoughtDirectly(p)' = BoughtDirectly(p) + Wants[d][p]
    BY <1>5, <1>8, <2>2, <2>3, BoughtSums
  <2> QED BY <1>4, <1>5, <1>6, <1>8, <2>1, <2>4
<1> QED BY <1>7, <1>8

\* Units vanish only where a purchase has set a stock that changed after it was
\* read (account.ts:568): queue, compensation and purchases together lose none,
\* not even over the end of the process.
THEOREM OnlyOverwritingLoses ==
  ASSUME IsFiniteSet(Workers), IsFiniteSet(Jobs), IsFiniteSet(Purchases), LiveWork
  PROVE  DirectSpec => []LostOnlyByOverwriting
<1> DEFINE Inv == OrderInv /\ DirectTypeOK /\ UnitsThere
<1>1. ASSUME DirectInit PROVE Inv
  <2>1. OrderInv /\ DirectTypeOK /\ UnitsAccounted
    BY <1>1, OrderInvStarts, DirectStarts, UnitsStart DEF DirectInit
  <2>2. ASSUME NEW p \in Products PROVE BoughtDirectly(p) = 0
    <3>1. BoughtOf(p) = [d \in Purchases |-> 0]
      BY <1>1 DEF DirectInit, BoughtOf
    <3> QED BY <3>1, BoughtSums, TotalZero
  <2>3. \A p \in Products : stock[p] \in Int /\ Sold(p) \in Int /\ Owing(p) \in Int
    BY <2>1, OwingInHand DEF OrderInv, RunsInv, QueueTyped
  <2>4. \A p \in Products : InitialStock[p] \in Int
    BY CheckoutAssumption
  <2>5. UnitsThere
    BY <2>1, <2>2, <2>3, <2>4 DEF UnitsThere, UnitsAccounted
  <2> QED BY <2>1, <2>5
<1>2. ASSUME Inv, [DirectNext]_shopVars PROVE Inv'
  <2>1. QueueTyped /\ QueueTyped' /\ DirectTypeOK'
    BY <1>2, DirectTypedStep DEF OrderInv, RunsInv
  <2>2. CASE [Next]_vars /\ UNCHANGED <<taken, overwritten>>
    BY <1>2, <2>1, <2>2, UnitsOfQueue
  <2>3. ASSUME NEW d \in Purchases, NEW p \in Products, TakeUnits(d, p) PROVE Inv'
    BY <1>2, <2>1, <2>3, UnitsOfPurchase
  <2>4. \/ [Next]_vars /\ UNCHANGED <<taken, overwritten>>
        \/ \E d \in Purchases, p \in Products : TakeUnits(d, p)
    BY <1>2, <2>1, PurchaseOrQueue
  <2> QED BY <2>2, <2>3, <2>4
<1>3. ASSUME Inv PROVE LostOnlyByOverwriting
  <2> SUFFICES ASSUME NEW p \in Products \ overwritten
               PROVE  stock[p] + Sold(p) + InHand(p) + BoughtDirectly(p) >= InitialStock[p]
    BY DEF LostOnlyByOverwriting
  <2>1. Owing(p) <= InHand(p) /\ Owing(p) \in Int /\ InHand(p) \in Int /\ Sold(p) \in Int
    BY <1>3, OwingInHand
  <2>2. stock[p] \in Int /\ BoughtDirectly(p) \in Int /\ InitialStock[p] \in Int
    BY <1>3, BoughtSums, CheckoutAssumption DEF OrderInv, RunsInv, QueueTyped
  <2>3. stock[p] + Sold(p) + Owing(p) + BoughtDirectly(p) >= InitialStock[p]
    BY <1>3 DEF UnitsThere
  <2> QED BY <2>1, <2>2, <2>3
<1> HIDE DEF Inv
<1> QED BY <1>1, <1>2, <1>3, PTL DEF DirectSpec

-----------------------------------------------------------------------------
(***************************************************************************)
(* Part 2: the cart.                                                       *)
(***************************************************************************)
CartLine == LinesOf(Goods)
CartLines == Seq(CartLine)

\* A line at the end, and the lines of a product then.
LEMMA AppendedLine ==
  ASSUME NEW S, NEW s \in Seq(S), NEW e \in S
  PROVE  /\ Append(s, e) \in Seq(S) /\ Len(Append(s, e)) = Len(s) + 1
         /\ DOMAIN Append(s, e) = 1..Len(s) + 1 /\ DOMAIN s = 1..Len(s) /\ Len(s) \in Nat
         /\ \A n \in 1..Len(s) : Append(s, e)[n] = s[n]
         /\ Append(s, e)[Len(s) + 1] = e
OBVIOUS

LEMMA NamedFinite ==
  ASSUME NEW lines \in CartLines, NEW p
  PROVE  /\ Named(lines, p) \subseteq 1..Len(lines) /\ DOMAIN lines = 1..Len(lines)
         /\ Len(lines) \in Nat
         /\ IsFiniteSet(Named(lines, p)) /\ Cardinality(Named(lines, p)) \in Nat
<1>1. /\ Named(lines, p) \subseteq 1..Len(lines) /\ DOMAIN lines = 1..Len(lines)
      /\ Len(lines) \in Nat
  BY DEF Named, CartLines
<1>2. IsFiniteSet(1..Len(lines))
  BY <1>1, FS_Interval
<1> QED BY <1>1, <1>2, FS_Subset, FS_CardinalityType

LEMMA LineTypes ==
  ASSUME NEW lines \in CartLines, NEW i \in DOMAIN lines
  PROVE  lines[i] \in CartLine /\ lines[i].product \in Goods /\ lines[i].quantity \in Nat \ {0}
<1>1. lines[i] \in CartLine
  BY DEF CartLines
<1> QED BY <1>1 DEF CartLine, LinesOf

-----------------------------------------------------------------------------
(***************************************************************************)
(* What an edit that removes nothing makes of the lines: those there stay  *)
(* at their index, and only lines of what it is about change or are new.   *)
(***************************************************************************)
Extends(lines, after, about) ==
  /\ Len(lines) <= Len(after)
  /\ \A i \in DOMAIN lines : /\ after[i].product = lines[i].product
                             /\ lines[i].product \notin about => after[i] = lines[i]
  /\ \A i \in DOMAIN after \ DOMAIN lines : after[i].product \in about

\* The new line, or the line whose quantity grew.
AddsLine(new, lines, item, at) ==
  /\ new \in CartLines
  /\ Extends(lines, new, {item.product})
  /\ Len(new) <= Len(lines) + 1
  /\ at = {} => /\ Len(new) = Len(lines) + 1
                /\ new[Len(lines) + 1] = item
                /\ \A i \in DOMAIN lines : new[i] = lines[i]
  /\ at # {} => /\ Min(at) \in at
                /\ Len(new) = Len(lines)
                /\ \A i \in DOMAIN lines \ {Min(at)} : new[i] = lines[i]
                /\ new[Min(at)].quantity = lines[Min(at)].quantity + item.quantity

LEMMA AddLineExtends ==
  ASSUME NEW lines \in CartLines, NEW item \in CartLine, NEW at,
         at \subseteq Named(lines, item.product)
  PROVE  AddsLine(AddLine(lines, item, at), lines, item, at)
<1>1. Len(lines) \in Nat /\ DOMAIN lines = 1..Len(lines) /\ lines \in Seq(CartLine)
  BY DEF CartLines
<1>2. item.quantity \in Nat \ {0} /\ item.product \in Goods
  BY DEF CartLine, LinesOf
<1> DEFINE new == AddLine(lines, item, at)
<1>3. CASE at = {}
  <2>1. new = Append(lines, item)
    BY <1>3 DEF AddLine
  <2>2. /\ new \in Seq(CartLine) /\ Len(new) = Len(lines) + 1
        /\ DOMAIN new = 1..Len(lines) + 1
        /\ \A n \in 1..Len(lines) : new[n] = lines[n]
        /\ new[Len(lines) + 1] = item
    BY <1>1, <2>1, AppendedLine
  <2> HIDE DEF new
  <2>3. \A i \in DOMAIN new \ DOMAIN lines : i = Len(lines) + 1
    BY <1>1, <2>2
  <2>4. Extends(lines, new, {item.product})
    BY <1>1, <2>2, <2>3 DEF Extends
  <2>5. new \in CartLines /\ Len(new) <= Len(lines) + 1
    BY <1>1, <2>2 DEF CartLines
  <2>6. Len(new) = Len(lines) + 1 /\ new[Len(lines) + 1] = item
        /\ \A i \in DOMAIN lines : new[i] = lines[i]
    BY <1>1, <2>2
  <2>7. AddsLine(new, lines, item, at)
    BY <1>3, <2>4, <2>5, <2>6 DEF AddsLine
  <2> QED BY <2>7 DEF new
<1>4. CASE at # {}
  <2>1. Min(at) \in at
    <3>1. at \subseteq Nat
      BY <1>1 DEF Named
    <3> QED BY <1>4, <3>1, MinOfNumbers
  <2>2. PICK m \in DOMAIN lines : m = Min(at) /\ lines[m].product = item.product
    BY <2>1 DEF Named
  <2> DEFINE q == lines[m].quantity + item.quantity
             line == [lines[m] EXCEPT !.quantity = q]
  <2>3. lines[m] \in CartLine
    BY <1>1
  <2>4. q \in Nat \ {0}
    <3>1. lines[m].quantity \in Nat \ {0}
      BY <2>3 DEF CartLine, LinesOf
    <3> QED BY <1>2, <3>1
  <2>5. new = [lines EXCEPT ![m] = line]
    BY <1>4, <2>2 DEF AddLine
  <2> HIDE DEF q, new
  <2>6. line \in CartLine /\ line.product = item.product /\ line.quantity = q
    BY <2>2, <2>3, <2>4 DEF CartLine, LinesOf
  <2> HIDE DEF line
  <2>7. /\ new \in Seq(CartLine) /\ Len(new) = Len(lines) /\ DOMAIN new = DOMAIN lines
        /\ new[m] = line /\ \A i \in DOMAIN lines \ {m} : new[i] = lines[i]
    BY <1>1, <2>5, <2>6
  <2>8. Extends(lines, new, {item.product})
    BY <1>1, <2>2, <2>6, <2>7 DEF Extends
  <2>9. new \in CartLines /\ Len(new) <= Len(lines) + 1
    BY <1>1, <2>7 DEF CartLines
  <2>10. new[m].quantity = lines[m].quantity + item.quantity
    BY <2>6, <2>7 DEF q
  <2>11. AddsLine(new, lines, item, at)
    BY <1>4, <2>1, <2>2, <2>7, <2>8, <2>9, <2>10 DEF AddsLine
  <2> QED BY <2>11 DEF new
<1> QED BY <1>3, <1>4

LEMMA ExtendsTwice ==
  ASSUME NEW a \in CartLines, NEW b \in CartLines, NEW c \in CartLines,
         NEW G, NEW H, Extends(a, b, G), Extends(b, c, H)
  PROVE  Extends(a, c, G \cup H)
<1>1. /\ DOMAIN a = 1..Len(a) /\ DOMAIN b = 1..Len(b) /\ DOMAIN c = 1..Len(c)
      /\ Len(a) \in Nat /\ Len(b) \in Nat /\ Len(c) \in Nat
  BY DEF CartLines
<1>2. Len(a) <= Len(b) /\ Len(b) <= Len(c)
  BY DEF Extends
<1>3. DOMAIN a \subseteq DOMAIN b /\ DOMAIN b \subseteq DOMAIN c /\ Len(a) <= Len(c)
  BY <1>1, <1>2
<1>4. ASSUME NEW i \in DOMAIN a
      PROVE  /\ c[i].product = a[i].product
             /\ a[i].product \notin G \cup H => c[i] = a[i]
  BY <1>3 DEF Extends
<1>5. ASSUME NEW i \in DOMAIN c \ DOMAIN a PROVE c[i].product \in G \cup H
  BY <1>3 DEF Extends
<1> QED BY <1>3, <1>4, <1>5 DEF Extends

LEMMA ExtendsMore ==
  ASSUME NEW a, NEW b, NEW G, NEW H, Extends(a, b, G), G \subseteq H
  PROVE  Extends(a, b, H)
BY DEF Extends

\* The lines of what the edit is not about are where they were.
LEMMA ExtendsKeepsNamed ==
  ASSUME NEW a \in CartLines, NEW b \in CartLines, NEW G, Extends(a, b, G), NEW p, p \notin G
  PROVE  Named(b, p) = Named(a, p) /\ \A i \in Named(a, p) : b[i] = a[i]
<1>1. /\ DOMAIN a = 1..Len(a) /\ DOMAIN b = 1..Len(b)
      /\ Len(a) \in Nat /\ Len(b) \in Nat /\ Len(a) <= Len(b)
  BY DEF CartLines, Extends
<1>2. DOMAIN a \subseteq DOMAIN b
  BY <1>1
<1> QED BY <1>2 DEF Extends, Named
-----------------------------------------------------------------------------
(***************************************************************************)
(* The recursions of Merged and of Kept have solutions, so they are ones.  *)
(***************************************************************************)
MergesUpTo(f, lines, items, k) ==
  f = [n \in 0..k |-> IF n = 0 THEN lines ELSE AddLine(f[n - 1], items[n], Named(f[n - 1], items[n].product))]

LEMMA MergedMore ==
  ASSUME NEW lines, NEW items, NEW k \in Nat, k # 0, NEW f, MergesUpTo(f, lines, items, k - 1)
  PROVE  \E g : MergesUpTo(g, lines, items, k)
<1> DEFINE g == [n \in 0..k |-> IF n = k THEN AddLine(f[k - 1], items[k], Named(f[k - 1], items[k].product)) ELSE f[n]]
<1>1. \A n \in 0..k - 1 : g[n] = f[n]
  OBVIOUS
<1>2. g[k] = AddLine(f[k - 1], items[k], Named(f[k - 1], items[k].product))
  OBVIOUS
<1>3. g = [n \in 0..k |-> g[n]]
  OBVIOUS
<1> HIDE DEF g
<1>4. ASSUME NEW n \in 0..k
      PROVE  g[n] = IF n = 0 THEN lines ELSE AddLine(g[n - 1], items[n], Named(g[n - 1], items[n].product))
  <2>1. CASE n = k
    <3>1. k - 1 \in 0..k - 1
      OBVIOUS
    <3>2. g[k - 1] = f[k - 1]
      BY <1>1, <3>1
    <3> QED BY <1>2, <2>1, <3>2
  <2>2. CASE n # k
    <3>1. n \in 0..k - 1
      BY <2>2
    <3>2. f[n] = IF n = 0 THEN lines ELSE AddLine(f[n - 1], items[n], Named(f[n - 1], items[n].product))
      BY <3>1 DEF MergesUpTo
    <3>3. n # 0 => n - 1 \in 0..k - 1
      BY <3>1
    <3> QED BY <1>1, <3>1, <3>2, <3>3
  <2> QED BY <2>1, <2>2
<1>5. MergesUpTo(g, lines, items, k)
  BY <1>3, <1>4 DEF MergesUpTo
<1> QED BY <1>5

LEMMA MergedUnfolds ==
  ASSUME NEW lines, NEW items, Len(items) \in Nat
  PROVE  /\ Merged(lines, items)[0] = lines
         /\ \A n \in 1..Len(items) :
              Merged(lines, items)[n] = AddLine(Merged(lines, items)[n - 1], items[n], Named(Merged(lines, items)[n - 1], items[n].product))
<1> DEFINE N == Len(items)
           G == {k \in 0..N : \E f : MergesUpTo(f, lines, items, k)}
<1>1. N \in Nat
  OBVIOUS
<1>2. 0 \in G
  <2>1. MergesUpTo([n \in 0..0 |-> lines], lines, items, 0)
    BY DEF MergesUpTo
  <2> QED BY <1>1, <2>1
<1>3. ASSUME NEW n \in 0..N, n # 0, n - 1 \in G PROVE n \in G
  <2>1. PICK f : MergesUpTo(f, lines, items, n - 1)
    BY <1>3
  <2>2. n \in Nat
    BY <1>1
  <2>3. \E g : MergesUpTo(g, lines, items, n)
    BY <1>3, <2>1, <2>2, MergedMore
  <2> QED BY <2>3
<1>4. N \in G
  <2> HIDE DEF G, N
  <2> QED BY <1>1, <1>2, <1>3, NumbersUpTo
<1>5. \E f : MergesUpTo(f, lines, items, N)
  BY <1>4
<1>6. Merged(lines, items) = CHOOSE f : MergesUpTo(f, lines, items, N)
  BY DEF Merged, MergesUpTo
<1>7. PICK f : f = Merged(lines, items) /\ MergesUpTo(f, lines, items, N)
  <2> HIDE DEF N
  <2> QED BY <1>5, <1>6
<1>8. \A n \in 0..N : f[n] = IF n = 0 THEN lines ELSE AddLine(f[n - 1], items[n], Named(f[n - 1], items[n].product))
  <2> HIDE DEF N
  <2> QED BY <1>7 DEF MergesUpTo
<1>9. 0 \in 0..N /\ \A n \in 1..N : n \in 0..N /\ n # 0
  BY <1>1
<1> QED BY <1>7, <1>8, <1>9

KeepsUpTo(f, lines, p, k) ==
  f = [n \in 0..k |-> IF n = 0 THEN <<>> ELSE (IF lines[n].product = p THEN f[n - 1] ELSE Append(f[n - 1], lines[n]))]

LEMMA KeptMore ==
  ASSUME NEW lines, NEW p, NEW k \in Nat, k # 0, NEW f, KeepsUpTo(f, lines, p, k - 1)
  PROVE  \E g : KeepsUpTo(g, lines, p, k)
<1> DEFINE g == [n \in 0..k |-> IF n = k THEN (IF lines[k].product = p THEN f[k - 1] ELSE Append(f[k - 1], lines[k])) ELSE f[n]]
<1>1. \A n \in 0..k - 1 : g[n] = f[n]
  OBVIOUS
<1>2. g[k] = (IF lines[k].product = p THEN f[k - 1] ELSE Append(f[k - 1], lines[k]))
  OBVIOUS
<1>3. g = [n \in 0..k |-> g[n]]
  OBVIOUS
<1> HIDE DEF g
<1>4. ASSUME NEW n \in 0..k
      PROVE  g[n] = IF n = 0 THEN <<>> ELSE (IF lines[n].product = p THEN g[n - 1] ELSE Append(g[n - 1], lines[n]))
  <2>1. CASE n = k
    <3>1. k - 1 \in 0..k - 1
      OBVIOUS
    <3>2. g[k - 1] = f[k - 1]
      BY <1>1, <3>1
    <3> QED BY <1>2, <2>1, <3>2
  <2>2. CASE n # k
    <3>1. n \in 0..k - 1
      BY <2>2
    <3>2. f[n] = IF n = 0 THEN <<>> ELSE (IF lines[n].product = p THEN f[n - 1] ELSE Append(f[n - 1], lines[n]))
      BY <3>1 DEF KeepsUpTo
    <3>3. n # 0 => n - 1 \in 0..k - 1
      BY <3>1
    <3> QED BY <1>1, <3>1, <3>2, <3>3
  <2> QED BY <2>1, <2>2
<1>5. KeepsUpTo(g, lines, p, k)
  BY <1>3, <1>4 DEF KeepsUpTo
<1> QED BY <1>5

LEMMA KeptUnfolds ==
  ASSUME NEW lines, NEW p, Len(lines) \in Nat
  PROVE  /\ Kept(lines, p)[0] = <<>>
         /\ \A n \in 1..Len(lines) :
              Kept(lines, p)[n] = (IF lines[n].product = p THEN Kept(lines, p)[n - 1] ELSE Append(Kept(lines, p)[n - 1], lines[n]))
<1> DEFINE N == Len(lines)
           G == {k \in 0..N : \E f : KeepsUpTo(f, lines, p, k)}
<1>1. N \in Nat
  OBVIOUS
<1>2. 0 \in G
  <2>1. KeepsUpTo([n \in 0..0 |-> <<>>], lines, p, 0)
    BY DEF KeepsUpTo
  <2> QED BY <1>1, <2>1
<1>3. ASSUME NEW n \in 0..N, n # 0, n - 1 \in G PROVE n \in G
  <2>1. PICK f : KeepsUpTo(f, lines, p, n - 1)
    BY <1>3
  <2>2. n \in Nat
    BY <1>1
  <2>3. \E g : KeepsUpTo(g, lines, p, n)
    BY <1>3, <2>1, <2>2, KeptMore
  <2> QED BY <2>3
<1>4. N \in G
  <2> HIDE DEF G, N
  <2> QED BY <1>1, <1>2, <1>3, NumbersUpTo
<1>5. \E f : KeepsUpTo(f, lines, p, N)
  BY <1>4
<1>6. Kept(lines, p) = CHOOSE f : KeepsUpTo(f, lines, p, N)
  BY DEF Kept, KeepsUpTo
<1>7. PICK f : f = Kept(lines, p) /\ KeepsUpTo(f, lines, p, N)
  <2> HIDE DEF N
  <2> QED BY <1>5, <1>6
<1>8. \A n \in 0..N : f[n] = IF n = 0 THEN <<>> ELSE (IF lines[n].product = p THEN f[n - 1] ELSE Append(f[n - 1], lines[n]))
  <2> HIDE DEF N
  <2> QED BY <1>7 DEF KeepsUpTo
<1>9. 0 \in 0..N /\ \A n \in 1..N : n \in 0..N /\ n # 0
  BY <1>1
<1> QED BY <1>7, <1>8, <1>9

-----------------------------------------------------------------------------
\* Merging only adds to the lines of the merged products.
LEMMA MergeExtends ==
  ASSUME NEW lines \in CartLines, NEW items \in CartLines
  PROVE  /\ Merge(lines, items) \in CartLines
         /\ Extends(lines, Merge(lines, items), {item.product : item \in Range(items)})
<1> DEFINE N == Len(items)
           about == {item.product : item \in Range(items)}
           Well(m) == m \in CartLines /\ Extends(lines, m, about)
           G == {n \in 0..N : Well(Merged(lines, items)[n])}
<1>1. N \in Nat /\ DOMAIN items = 1..N /\ DOMAIN lines = 1..Len(lines) /\ Len(lines) \in Nat
  BY DEF CartLines
<1>2. 0 \in G
  <2>1. Merged(lines, items)[0] = lines
    BY <1>1, MergedUnfolds
  <2>2. Extends(lines, lines, about)
    BY <1>1 DEF Extends
  <2> QED BY <1>1, <2>1, <2>2
<1>3. ASSUME NEW n \in 0..N, n # 0, n - 1 \in G PROVE n \in G
  <2>1. PICK m : m = Merged(lines, items)[n - 1]
    OBVIOUS
  <2>2. PICK item : item = items[n]
    OBVIOUS
  <2>3. n \in 1..N
    BY <1>1, <1>3
  <2>4. Merged(lines, items)[n] = AddLine(m, item, Named(m, item.product))
    BY <1>1, <2>1, <2>2, <2>3, MergedUnfolds
  <2>5. Well(m)
    BY <1>3, <2>1
  <2>6. item \in CartLine /\ item.product \in about
    <3>1. item \in CartLine
      BY <1>1, <2>2, <2>3 DEF CartLines
    <3>2. item \in Range(items)
      BY <1>1, <2>2, <2>3 DEF Range
    <3> QED BY <3>1, <3>2
  <2>7. PICK new : new = AddLine(m, item, Named(m, item.product))
    OBVIOUS
  <2>8. new \in CartLines /\ Extends(m, new, {item.product})
    <3>1. Named(m, item.product) \subseteq Named(m, item.product)
      OBVIOUS
    <3>2. AddsLine(AddLine(m, item, Named(m, item.product)), m, item, Named(m, item.product))
      BY <2>5, <2>6, <3>1, AddLineExtends
    <3> QED BY <2>7, <3>2 DEF AddsLine
  <2> HIDE DEF about
  <2>9. Extends(m, new, about)
    BY <2>6, <2>8, ExtendsMore
  <2>10. Extends(lines, new, about \cup about)
    BY <2>5, <2>8, <2>9, ExtendsTwice
  <2>11. about \cup about = about
    OBVIOUS
  <2>12. Well(new)
    BY <2>8, <2>10, <2>11
  <2> QED BY <2>4, <2>7, <2>12
<1>4. N \in G
  <2> HIDE DEF G, N
  <2> QED BY <1>1, <1>2, <1>3, NumbersUpTo
<1> QED BY <1>4 DEF Merge

-----------------------------------------------------------------------------
\* The lines of a product among the first n.
FirstNamed(lines, q, n) == {m \in 1..n : lines[m].product = q}

\* What is kept of the first n lines when those of a product go.
KeptWell(kept, lines, p, n) ==
  /\ kept \in CartLines
  /\ Range(kept) \subseteq Range(lines)
  /\ Len(kept) <= n
  /\ FirstNamed(lines, p, n) # {} => Len(kept) < n
  /\ Named(kept, p) = {}
  /\ \A q : q # p => Cardinality(Named(kept, q)) = Cardinality(FirstNamed(lines, q, n))

LEMMA FirstNamedGrows ==
  ASSUME NEW lines, NEW q, NEW n \in Nat \ {0}
  PROVE  /\ lines[n].product = q =>
              FirstNamed(lines, q, n) = FirstNamed(lines, q, n - 1) \cup {n}
         /\ lines[n].product # q => FirstNamed(lines, q, n) = FirstNamed(lines, q, n - 1)
         /\ n \notin FirstNamed(lines, q, n - 1)
         /\ IsFiniteSet(FirstNamed(lines, q, n - 1))
<1>1. \A m \in 1..n : m \in 1..n - 1 \/ m = n
  OBVIOUS
<1>2. 1..n - 1 \subseteq 1..n /\ n \in 1..n /\ n \notin 1..n - 1
  OBVIOUS
<1>3. IsFiniteSet(1..n - 1)
  BY FS_Interval
<1>4. FirstNamed(lines, q, n - 1) \subseteq 1..n - 1
  BY DEF FirstNamed
<1> QED BY <1>1, <1>2, <1>3, <1>4, FS_Subset DEF FirstNamed

LEMMA KeepOne ==
  ASSUME NEW lines \in CartLines, NEW p, NEW n \in 1..Len(lines), NEW kept,
         KeptWell(kept, lines, p, n - 1)
  PROVE  KeptWell(IF lines[n].product = p THEN kept ELSE Append(kept, lines[n]), lines, p, n)
<1>1. /\ n \in Nat \ {0} /\ n \in DOMAIN lines /\ lines[n] \in CartLine
      /\ kept \in Seq(CartLine) /\ Len(kept) \in Nat /\ lines[n] \in Range(lines)
  BY DEF CartLines, KeptWell, Range
<1>2. CASE lines[n].product = p
  <2>1. Len(kept) <= n /\ Len(kept) < n
    BY <1>1 DEF KeptWell
  <2>2. \A q : q # p => FirstNamed(lines, q, n) = FirstNamed(lines, q, n - 1)
    BY <1>1, <1>2, FirstNamedGrows
  <2>3. KeptWell(kept, lines, p, n)
    BY <2>1, <2>2 DEF KeptWell
  <2> QED BY <1>2, <2>3
<1>3. CASE lines[n].product # p
  <2>1. PICK line : line = lines[n]
    OBVIOUS
  <2>2. PICK new : new = Append(kept, line)
    OBVIOUS
  <2>3. /\ new \in Seq(CartLine) /\ Len(new) = Len(kept) + 1
        /\ DOMAIN new = 1..Len(kept) + 1 /\ DOMAIN kept = 1..Len(kept)
        /\ \A m \in 1..Len(kept) : new[m] = kept[m]
        /\ new[Len(kept) + 1] = line
    BY <1>1, <2>1, <2>2, AppendedLine
  <2>4. /\ \A m \in DOMAIN new : m \in DOMAIN kept \/ m = Len(kept) + 1
        /\ DOMAIN kept \subseteq DOMAIN new
        /\ Len(kept) + 1 \in DOMAIN new /\ Len(kept) + 1 \notin DOMAIN kept
    BY <1>1, <2>3
  <2>5. Range(new) \subseteq Range(lines)
    <3>1. ASSUME NEW m \in DOMAIN new PROVE new[m] \in Range(lines)
      <4>1. CASE m \in DOMAIN kept
        <5>1. kept[m] \in Range(kept) /\ new[m] = kept[m]
          BY <2>3, <4>1 DEF Range
        <5> QED BY <5>1 DEF KeptWell
      <4>2. CASE m = Len(kept) + 1
        BY <1>1, <2>1, <2>3, <4>2
      <4> QED BY <2>4, <4>1, <4>2
    <3> QED BY <3>1 DEF Range
  <2>6. FirstNamed(lines, p, n) = FirstNamed(lines, p, n - 1)
    BY <1>1, <1>3, FirstNamedGrows
  <2>7. Len(new) <= n /\ (FirstNamed(lines, p, n) # {} => Len(new) < n)
    BY <1>1, <2>3, <2>6 DEF KeptWell
  <2>8. \A q : Named(new, q) = Named(kept, q)
                \cup (IF line.product = q THEN {Len(kept) + 1} ELSE {})
    BY <2>3, <2>4 DEF Named
  <2>9. Named(new, p) = {}
    BY <1>3, <2>1, <2>8 DEF KeptWell
  <2>10. ASSUME NEW q, q # p
         PROVE  Cardinality(Named(new, q)) = Cardinality(FirstNamed(lines, q, n))
    <3>1. Cardinality(Named(kept, q)) = Cardinality(FirstNamed(lines, q, n - 1))
      BY <2>10 DEF KeptWell
    <3>2. CASE line.product # q
      <4>1. Named(new, q) = Named(kept, q)
        BY <2>8, <3>2
      <4>2. FirstNamed(lines, q, n) = FirstNamed(lines, q, n - 1)
        BY <1>1, <2>1, <3>2, FirstNamedGrows
      <4> QED BY <3>1, <4>1, <4>2
    <3>3. CASE line.product = q
      <4>1. Named(new, q) = Named(kept, q) \cup {Len(kept) + 1}
        BY <2>8, <3>3
      <4>2. /\ FirstNamed(lines, q, n) = FirstNamed(lines, q, n - 1) \cup {n}
            /\ n \notin FirstNamed(lines, q, n - 1)
            /\ IsFiniteSet(FirstNamed(lines, q, n - 1))
        BY <1>1, <2>1, <3>3, FirstNamedGrows
      <4>3. IsFiniteSet(Named(kept, q)) /\ Len(kept) + 1 \notin Named(kept, q)
        <5>1. kept \in CartLines
          BY DEF KeptWell
        <5> QED BY <5>1, <2>4, NamedFinite DEF Named
      <4>4. Cardinality(Named(new, q)) = Cardinality(Named(kept, q)) + 1
        BY <4>1, <4>3, FS_AddElement
      <4>5. Cardinality(FirstNamed(lines, q, n)) = Cardinality(FirstNamed(lines, q, n - 1)) + 1
        BY <4>2, FS_AddElement
      <4> QED BY <3>1, <4>4, <4>5
    <3> QED BY <3>2, <3>3
  <2>11. KeptWell(new, lines, p, n)
    BY <2>3, <2>5, <2>7, <2>9, <2>10 DEF KeptWell, CartLines
  <2> QED BY <1>3, <2>1, <2>2, <2>11
<1> QED BY <1>2, <1>3

\* Removing a product removes its lines and no other line.
LEMMA WithoutKeepsOthers ==
  ASSUME NEW lines \in CartLines, NEW p
  PROVE  /\ Without(lines, p) \in CartLines
         /\ Range(Without(lines, p)) \subseteq Range(lines)
         /\ Named(lines, p) # {} => Len(Without(lines, p)) < Len(lines)
         /\ Named(Without(lines, p), p) = {}
         /\ \A q : q # p =>
              Cardinality(Named(Without(lines, p), q)) = Cardinality(Named(lines, q))
<1> DEFINE N == Len(lines)
           G == {n \in 0..N : KeptWell(Kept(lines, p)[n], lines, p, n)}
<1>1. N \in Nat /\ DOMAIN lines = 1..N
  BY DEF CartLines
<1>2. 0 \in G
  <2>1. Kept(lines, p)[0] = <<>>
    BY <1>1, KeptUnfolds
  <2>2. <<>> \in CartLines /\ Range(<<>>) \subseteq Range(lines) /\ Len(<<>>) <= 0
    BY DEF CartLines, Range
  <2>3. \A q : Named(<<>>, q) = {} /\ FirstNamed(lines, q, 0) = {}
    BY DEF Named, FirstNamed
  <2>4. KeptWell(<<>>, lines, p, 0)
    BY <2>2, <2>3 DEF KeptWell
  <2> QED BY <1>1, <2>1, <2>4
<1>3. ASSUME NEW n \in 0..N, n # 0, n - 1 \in G PROVE n \in G
  <2>1. PICK kept : kept = Kept(lines, p)[n - 1]
    OBVIOUS
  <2>2. n \in 1..N
    BY <1>1, <1>3
  <2>3. Kept(lines, p)[n] = IF lines[n].product = p THEN kept ELSE Append(kept, lines[n])
    BY <1>1, <2>1, <2>2, KeptUnfolds
  <2>4. KeptWell(kept, lines, p, n - 1)
    BY <1>3, <2>1
  <2>5. KeptWell(IF lines[n].product = p THEN kept ELSE Append(kept, lines[n]), lines, p, n)
    BY <2>2, <2>4, KeepOne
  <2> QED BY <2>3, <2>5
<1>4. N \in G
  <2> HIDE DEF G, N
  <2> QED BY <1>1, <1>2, <1>3, NumbersUpTo
<1>5. KeptWell(Without(lines, p), lines, p, N)
  BY <1>4 DEF Without
<1>6. \A q : FirstNamed(lines, q, N) = Named(lines, q)
  BY <1>1 DEF FirstNamed, Named
<1> HIDE DEF N
<1> QED BY <1>1, <1>5, <1>6 DEF KeptWell, N

-----------------------------------------------------------------------------
(***************************************************************************)
(* What a permitted edit makes of the lines it has read.                   *)
(***************************************************************************)
LEMMA EditTypes ==
  ASSUME NEW r \in Edits
  PROVE  /\ EditOf[r].kind \in {"add", "update", "remove", "clear", "merge"}
         /\ EditOf[r].items \in CartLines
         /\ EditOf[r].kind \in {"add", "update", "remove"} =>
              /\ EditOf[r].items[1] \in CartLine
              /\ About(r) = {EditOf[r].items[1].product}
<1>1. /\ EditOf[r].kind \in {"add", "update", "remove", "clear", "merge"}
      /\ EditOf[r].items \in CartLines
  BY CartsAssumption DEF CartLines, CartLine
<1>2. ASSUME EditOf[r].kind \in {"add", "update", "remove"}
      PROVE  /\ EditOf[r].items[1] \in CartLine
             /\ About(r) = {EditOf[r].items[1].product}
  <2>1. PICK items : items = EditOf[r].items
    OBVIOUS
  <2>2. items \in Seq(CartLine) /\ Len(items) = 1
    BY <1>1, <1>2, <2>1, CartsAssumption DEF CartLines
  <2>3. DOMAIN items = {1} /\ items[1] \in CartLine
    BY <2>2
  <2>4. Range(items) = {items[1]}
    BY <2>3 DEF Range
  <2> QED BY <2>1, <2>3, <2>4 DEF About
<1> QED BY <1>1, <1>2

\* A line that an add or an update writes is within the stock.
Modest(lines, after) ==
  /\ Len(after) <= Len(lines) + 1
  /\ \A i \in DOMAIN after :
       \/ i \in DOMAIN lines /\ after[i] = lines[i]
       \/ after[i].quantity <= OnHand[after[i].product]
  /\ Len(after) > Len(lines) => SubSeq(after, 1, Len(lines)) = lines

LEMMA SameBeginning ==
  ASSUME NEW S, NEW s \in Seq(S), NEW t \in Seq(S), Len(s) <= Len(t),
         \A i \in DOMAIN s : t[i] = s[i]
  PROVE  SubSeq(t, 1, Len(s)) = s
OBVIOUS

Grown(lines, after, r) ==
  /\ after \in CartLines
  /\ Extends(lines, after, About(r))
  /\ EditOf[r].kind # "merge" => Modest(lines, after)

LEMMA AddGrows ==
  ASSUME NEW r \in Edits, EditOf[r].kind = "add", NEW lines \in CartLines, Allowed(lines, r)
  PROVE  Grown(lines, Edited(lines, r), r)
<1>1. PICK item : item = EditOf[r].items[1]
  OBVIOUS
<1>2. item \in CartLine /\ About(r) = {item.product}
  BY <1>1, EditTypes
<1>3. PICK at : at = Found(lines, r, item.product)
  OBVIOUS
<1>4. at \subseteq Named(lines, item.product)
  BY <1>3 DEF Found
<1>5. PICK new : new = AddLine(lines, item, at)
  OBVIOUS
<1>6. Edited(lines, r) = new
  BY <1>1, <1>3, <1>5 DEF Edited
<1>7. item.quantity + (IF at = {} THEN 0 ELSE lines[Min(at)].quantity) <= OnHand[item.product]
  BY <1>1, <1>3 DEF Allowed, AddWithin
<1>8. /\ new \in CartLines
      /\ Extends(lines, new, {item.product})
      /\ Len(new) <= Len(lines) + 1
      /\ at = {} => /\ Len(new) = Len(lines) + 1
                    /\ new[Len(lines) + 1] = item
                    /\ \A i \in DOMAIN lines : new[i] = lines[i]
      /\ at # {} => /\ Min(at) \in at
                    /\ Len(new) = Len(lines)
                    /\ \A i \in DOMAIN lines \ {Min(at)} : new[i] = lines[i]
                    /\ new[Min(at)].quantity = lines[Min(at)].quantity + item.quantity
  <2>1. AddsLine(AddLine(lines, item, at), lines, item, at)
    BY <1>2, <1>4, AddLineExtends
  <2>2. AddsLine(new, lines, item, at)
    BY <1>5, <2>1
  <2> QED BY <2>2 DEF AddsLine
<1>9. /\ Len(lines) \in Nat /\ DOMAIN lines = 1..Len(lines) /\ DOMAIN new = 1..Len(new)
      /\ item.quantity \in Nat /\ Len(new) \in Nat
  BY <1>2, <1>8 DEF CartLines, CartLine, LinesOf
<1>10. ASSUME NEW i \in DOMAIN new
       PROVE  \/ i \in DOMAIN lines /\ new[i] = lines[i]
              \/ new[i].quantity <= OnHand[new[i].product]
  <2>1. CASE at = {}
    <3>1. i \in DOMAIN lines \/ i = Len(lines) + 1
      BY <1>8, <1>9, <2>1
    <3>2. item.quantity <= OnHand[item.product]
      BY <1>7, <1>9, <2>1
    <3> QED BY <1>8, <2>1, <3>1, <3>2
  <2>2. CASE at # {}
    <3>1. i \in DOMAIN lines
      BY <1>8, <1>9, <2>2
    <3>2. CASE i = Min(at)
      <4>1. i \in at /\ lines[i].product = item.product
        BY <1>4, <1>8, <2>2, <3>2 DEF Named
      <4>2. new[i].product = item.product
        BY <1>8, <3>1, <4>1 DEF Extends
      <4>3. lines[i].quantity \in Nat
        BY <3>1, LineTypes
      <4>4. new[i].quantity = lines[i].quantity + item.quantity
        BY <1>8, <2>2, <3>2
      <4>5. item.quantity + lines[i].quantity <= OnHand[item.product]
        BY <1>7, <2>2, <3>2
      <4>6. new[i].quantity <= OnHand[new[i].product]
        BY <1>9, <4>2, <4>3, <4>4, <4>5
      <4> QED BY <4>6
    <3>3. CASE i # Min(at)
      BY <1>8, <2>2, <3>1, <3>3
    <3> QED BY <3>2, <3>3
  <2> QED BY <2>1, <2>2
<1>11. Len(new) > Len(lines) => SubSeq(new, 1, Len(lines)) = lines
  <2>1. SUFFICES ASSUME Len(new) > Len(lines) PROVE SubSeq(new, 1, Len(lines)) = lines
    OBVIOUS
  <2>2. at = {} /\ Len(lines) <= Len(new)
    <3>1. at # {} => Len(new) = Len(lines)
      BY <1>8
    <3>2. PICK n \in Nat : n = Len(new)
      BY <1>9
    <3>3. PICK m \in Nat : m = Len(lines)
      BY <1>9
    <3>4. n > m /\ (at # {} => n = m)
      BY <2>1, <3>1, <3>2, <3>3
    <3> QED BY <3>2, <3>3, <3>4
  <2>3. new \in Seq(CartLine) /\ lines \in Seq(CartLine) /\ \A i \in DOMAIN lines : new[i] = lines[i]
    BY <1>8, <2>2 DEF CartLines
  <2> QED BY <2>2, <2>3, SameBeginning
<1> QED BY <1>2, <1>6, <1>8, <1>10, <1>11 DEF Grown, Modest

LEMMA UpdateGrows ==
  ASSUME NEW r \in Edits, EditOf[r].kind = "update", NEW lines \in CartLines, Allowed(lines, r)
  PROVE  Grown(lines, Edited(lines, r), r) /\ Len(Edited(lines, r)) = Len(lines)
<1>1. PICK item : item = EditOf[r].items[1]
  OBVIOUS
<1>2. item \in CartLine /\ About(r) = {item.product}
  BY <1>1, EditTypes
<1>3. PICK at : at = Found(lines, r, item.product)
  OBVIOUS
<1>4. at # {} /\ item.quantity <= OnHand[item.product]
  BY <1>1, <1>3 DEF Allowed
<1>5. Min(at) \in at
  <2>1. at \subseteq Nat
    BY <1>3 DEF Found, Named, CartLines
  <2> QED BY <1>4, <2>1, MinOfNumbers
<1>6. PICK m \in DOMAIN lines : m = Min(at) /\ lines[m].product = item.product
  BY <1>3, <1>5 DEF Found, Named
<1> DEFINE new == [lines EXCEPT ![m].quantity = item.quantity]
<1>7. Edited(lines, r) = new
  BY <1>1, <1>3, <1>6 DEF Edited
<1>8. lines[m] \in CartLine /\ item.quantity \in Nat \ {0} /\ item.product \in Goods
  BY <1>2, <1>6, LineTypes DEF CartLine, LinesOf
<1> DEFINE line == [lines[m] EXCEPT !.quantity = item.quantity]
<1>9. line \in CartLine /\ line.product = item.product /\ line.quantity = item.quantity
  BY <1>6, <1>8 DEF CartLine, LinesOf
<1>10. new = [lines EXCEPT ![m] = line]
  OBVIOUS
<1> HIDE DEF new, line
<1>11. /\ new \in CartLines /\ Len(new) = Len(lines) /\ DOMAIN new = DOMAIN lines
       /\ new[m] = line /\ \A i \in DOMAIN lines \ {m} : new[i] = lines[i]
       /\ Len(lines) \in Nat
  BY <1>9, <1>10 DEF CartLines
<1>12. Extends(lines, new, About(r))
  BY <1>2, <1>6, <1>9, <1>11 DEF Extends
<1>13. Modest(lines, new)
  BY <1>4, <1>9, <1>11 DEF Modest
<1> QED BY <1>7, <1>11, <1>12, <1>13 DEF Grown

LEMMA MergeGrows ==
  ASSUME NEW r \in Edits, EditOf[r].kind = "merge", NEW lines \in CartLines
  PROVE  Grown(lines, Edited(lines, r), r)
<1>1. Edited(lines, r) = Merge(lines, EditOf[r].items)
  BY DEF Edited
<1>2. EditOf[r].items \in CartLines
  BY EditTypes
<1> QED BY <1>1, <1>2, MergeExtends DEF Grown, About

\* An edit that is no removal adds to the lines; a removal leaves fewer.
LEMMA EditGrows ==
  ASSUME NEW r \in Edits, NEW lines \in CartLines, Allowed(lines, r),
         EditOf[r].kind \notin {"remove", "clear"}
  PROVE  Grown(lines, Edited(lines, r), r)
BY EditTypes, AddGrows, UpdateGrows, MergeGrows

LEMMA RemoveShrinks ==
  ASSUME NEW r \in Edits, NEW lines \in CartLines, Allowed(lines, r), EditOf[r].kind = "remove"
  PROVE  /\ Edited(lines, r) \in CartLines
         /\ Range(Edited(lines, r)) \subseteq Range(lines)
         /\ Len(Edited(lines, r)) < Len(lines)
         /\ \A p \in About(r) : Named(Edited(lines, r), p) = {}
         /\ \A q : q \notin About(r) =>
              Cardinality(Named(Edited(lines, r), q)) = Cardinality(Named(lines, q))
<1>1. PICK item : item = EditOf[r].items[1]
  OBVIOUS
<1>2. item \in CartLine /\ About(r) = {item.product}
  BY <1>1, EditTypes
<1>3. Found(lines, r, item.product) # {}
  BY <1>1 DEF Allowed
<1>4. Named(lines, item.product) # {}
  BY <1>3 DEF Found
<1>5. Edited(lines, r) = Without(lines, item.product)
  BY <1>1 DEF Edited
<1> QED BY <1>2, <1>4, <1>5, WithoutKeepsOthers

-----------------------------------------------------------------------------
(***************************************************************************)
(* The inductive invariant: what a request has read is no later than what  *)
(* is stored and, at the same version, has the same products at the same   *)
(* places; a request that is to save was allowed on what it has read.      *)
(***************************************************************************)
SameShape(a, b) == Len(a) = Len(b) /\ \A i \in DOMAIN a : b[i].product = a[i].product

ReadBefore(seen) ==
  seen # NoCart /\ cart # NoCart /\ seen.id = cart.id =>
    /\ seen.version <= cart.version
    /\ seen.version = cart.version => SameShape(seen.lines, cart.lines)

EditWell(r) ==
  /\ edit[r].seen # NoCart => edit[r].seen.id <= carts
  /\ ReadBefore(edit[r].seen)
  /\ edit[r].pc = "save" => /\ EditOf[r].kind # "clear"
                            /\ Allowed(Lines(edit[r].seen), r)

CartsInv ==
  /\ CartsTypeOK
  /\ cart # NoCart => cart.id <= carts
  /\ \A r \in Edits : EditWell(r)

LEMMA DocTypes ==
  ASSUME NEW doc \in CartDocs
  PROVE  /\ doc.id \in Nat /\ doc.version \in Nat /\ doc.lines \in CartLines
         /\ doc # NoCart /\ Lines(doc) = doc.lines
<1>1. doc.id \in Nat /\ doc.version \in Nat /\ doc.lines \in CartLines
  BY DEF CartDocs, CartLines, CartLine
<1>2. doc # NoCart
  BY CartsAssumption DEF CartDocs
<1> QED BY <1>1, <1>2 DEF Lines

LEMMA ConcatLines ==
  ASSUME NEW S, NEW s \in Seq(S), NEW t \in Seq(S)
  PROVE  /\ s \o t \in Seq(S) /\ Len(s \o t) = Len(s) + Len(t)
         /\ DOMAIN (s \o t) = 1..Len(s) + Len(t) /\ DOMAIN s = 1..Len(s)
         /\ DOMAIN t = 1..Len(t) /\ Len(s) \in Nat /\ Len(t) \in Nat
         /\ \A i \in 1..Len(s) : (s \o t)[i] = s[i]
         /\ \A i \in 1..Len(t) : (s \o t)[Len(s) + i] = t[i]
OBVIOUS

\* The end of a sequence, from an element on.
LEMMA TailLines ==
  ASSUME NEW S, NEW s \in Seq(S), NEW n \in Nat, n <= Len(s)
  PROVE  /\ SubSeq(s, n + 1, Len(s)) \in Seq(S)
         /\ Len(SubSeq(s, n + 1, Len(s))) = Len(s) - n
         /\ \A i \in 1..Len(s) - n : SubSeq(s, n + 1, Len(s))[i] = s[n + i]
OBVIOUS

\* A request that is to save.
Saving(r) ==
  /\ r \in Edits /\ edit[r].pc = "save" /\ edit[r].seen # NoCart

LEMMA SavingTypes ==
  ASSUME CartsInv, NEW r \in Edits, Saving(r)
  PROVE  /\ edit[r].seen \in CartDocs
         /\ Before(r) \in CartLines /\ After(r) \in CartLines
         /\ Allowed(Before(r), r) /\ EditOf[r].kind # "clear"
         /\ EditOf[r].kind # "remove" => Grown(Before(r), After(r), r)
         /\ EditOf[r].kind = "remove" => Len(After(r)) < Len(Before(r))
<1>1. edit[r].seen \in CartDocs
  BY DEF CartsInv, CartsTypeOK, Saving
<1>2. Before(r) \in CartLines /\ Lines(edit[r].seen) = Before(r)
  BY <1>1, DocTypes DEF Before
<1>3. Allowed(Before(r), r) /\ EditOf[r].kind # "clear"
  BY <1>2 DEF CartsInv, EditWell, Saving
<1>4. EditOf[r].kind # "remove" => Grown(Before(r), After(r), r)
  BY <1>2, <1>3, EditGrows DEF After
<1>5. EditOf[r].kind = "remove" => /\ After(r) \in CartLines
                                  /\ Len(After(r)) < Len(Before(r))
  BY <1>2, <1>3, RemoveShrinks DEF After
<1>6. After(r) \in CartLines
  BY <1>4, <1>5 DEF Grown
<1> QED BY <1>1, <1>2, <1>3, <1>4, <1>5, <1>6

\* A save that pushes puts the new lines behind those stored.
LEMMA PushedLines ==
  ASSUME CartsInv, NEW r \in Edits, Saving(r), Pushes(r), Stands(r)
  PROVE  /\ cart \in CartDocs /\ SavedCart(r) \in CartDocs
         /\ SavedCart(r).id = cart.id /\ SavedCart(r).version = cart.version + 1
         /\ SavedCart(r).lines = cart.lines \o Added(r)
         /\ Grown(Before(r), After(r), r)
         /\ Added(r) \in CartLines
         /\ Len(Added(r)) = Len(After(r)) - Len(Before(r))
         /\ \A k \in DOMAIN Added(r) : /\ Added(r)[k] = After(r)[Len(Before(r)) + k]
                                      /\ Len(Before(r)) + k \in DOMAIN After(r) \ DOMAIN Before(r)
<1>1. cart \in CartDocs
  BY DEF CartsInv, CartsTypeOK, Stands
<1>2. cart.id \in Nat /\ cart.version \in Nat /\ cart.lines \in CartLines
  BY <1>1, DocTypes
<1>3. PICK before : before = Before(r)
  OBVIOUS
<1>4. PICK after : after = After(r)
  OBVIOUS
<1>5. /\ before \in CartLines /\ after \in CartLines /\ Len(before) < Len(after)
      /\ EditOf[r].kind # "remove" /\ Grown(before, after, r)
  <2>1. /\ Before(r) \in CartLines /\ After(r) \in CartLines
        /\ EditOf[r].kind # "remove" => Grown(Before(r), After(r), r)
        /\ EditOf[r].kind = "remove" => Len(After(r)) < Len(Before(r))
    BY SavingTypes
  <2>2. Len(before) < Len(after)
    BY <1>3, <1>4 DEF Pushes
  <2>3. Len(before) \in Nat /\ Len(after) \in Nat
    BY <1>3, <1>4, <2>1 DEF CartLines
  <2> QED BY <1>3, <1>4, <2>1, <2>2, <2>3
<1>6. PICK added : added = SubSeq(after, Len(before) + 1, Len(after))
  OBVIOUS
<1>7. /\ Len(before) \in Nat /\ Len(after) \in Nat /\ after \in Seq(CartLine)
      /\ DOMAIN before = 1..Len(before) /\ DOMAIN after = 1..Len(after)
  BY <1>5 DEF CartLines
<1>8. /\ added \in CartLines /\ Len(added) = Len(after) - Len(before)
      /\ \A k \in 1..Len(after) - Len(before) : added[k] = after[Len(before) + k]
  <2>1. Len(before) <= Len(after)
    BY <1>5, <1>7
  <2>2. /\ SubSeq(after, Len(before) + 1, Len(after)) \in Seq(CartLine)
        /\ Len(SubSeq(after, Len(before) + 1, Len(after))) = Len(after) - Len(before)
        /\ \A k \in 1..Len(after) - Len(before) :
             SubSeq(after, Len(before) + 1, Len(after))[k] = after[Len(before) + k]
    BY <1>7, <2>1, TailLines
  <2> QED BY <1>6, <2>2 DEF CartLines
<1>9. DOMAIN added = 1..Len(after) - Len(before)
  BY <1>7, <1>8 DEF CartLines
<1>10. \A k \in DOMAIN added : /\ added[k] = after[Len(before) + k]
                              /\ Len(before) + k \in DOMAIN after \ DOMAIN before
  BY <1>7, <1>8, <1>9
<1>11. Added(r) = added
  BY <1>3, <1>4, <1>6 DEF Added
<1> DEFINE lines == cart.lines \o added
           version == cart.version + 1
<1>12. lines \in CartLines
  BY <1>2, <1>8, ConcatLines DEF CartLines
<1>13. version \in Nat
  BY <1>2
<1> HIDE DEF lines, version
<1>14. SavedCart(r) = [cart EXCEPT !.lines = lines, !.version = version]
  BY <1>11 DEF SavedCart, lines, version
<1>15. PICK saved : saved = [cart EXCEPT !.lines = lines, !.version = version]
  OBVIOUS
<1>16. saved \in CartDocs /\ saved.id = cart.id /\ saved.version = version /\ saved.lines = lines
  BY <1>1, <1>12, <1>13, <1>15 DEF CartDocs, CartLines, CartLine
<1> QED
  BY <1>1, <1>3, <1>4, <1>5, <1>8, <1>10, <1>11, <1>14, <1>15, <1>16 DEF lines, version

\* What the version guards: the lines are at the places the request has read.
LEMMA UnmovedShape ==
  ASSUME CartsInv, NEW r \in Edits, Saving(r), StandsUnmoved(r)
  PROVE  cart \in CartDocs /\ SameShape(Before(r), cart.lines)
<1>1. cart \in CartDocs /\ cart # NoCart /\ cart.id = edit[r].seen.id
      /\ cart.version = edit[r].seen.version
  BY DEF CartsInv, CartsTypeOK, StandsUnmoved, Stands
<1>2. ReadBefore(edit[r].seen)
  BY DEF CartsInv, EditWell
<1>3. edit[r].seen # NoCart
  BY DEF Saving
<1> QED BY <1>1, <1>2, <1>3 DEF ReadBefore, Before

\* A save of quantities writes them to the lines they were meant for.
LEMMA SetLines ==
  ASSUME CartsInv, NEW r \in Edits, Saving(r), ~Pushes(r), SetsQuantities(r), StandsUnmoved(r)
  PROVE  /\ cart \in CartDocs /\ SavedCart(r) \in CartDocs
         /\ SavedCart(r).id = cart.id /\ SavedCart(r).version = cart.version
         /\ SameShape(cart.lines, SavedCart(r).lines)
         /\ Grown(Before(r), After(r), r)
         /\ \A i \in DOMAIN cart.lines :
              \/ SavedCart(r).lines[i] = cart.lines[i]
              \/ /\ i \in DOMAIN Before(r) /\ i \in DOMAIN After(r) /\ After(r)[i] # Before(r)[i]
                 /\ After(r)[i].product = cart.lines[i].product
                 /\ SavedCart(r).lines[i].quantity = After(r)[i].quantity
<1>1. cart \in CartDocs /\ SameShape(Before(r), cart.lines)
  BY UnmovedShape
<1>2. cart.id \in Nat /\ cart.version \in Nat /\ cart.lines \in CartLines
  BY <1>1, DocTypes
<1>3. PICK before : before = Before(r)
  OBVIOUS
<1>4. PICK after : after = After(r)
  OBVIOUS
<1>5. /\ before \in CartLines /\ after \in CartLines /\ Len(after) = Len(before)
      /\ EditOf[r].kind # "remove" /\ Grown(before, after, r)
  <2>1. /\ Before(r) \in CartLines /\ After(r) \in CartLines
        /\ EditOf[r].kind # "remove" => Grown(Before(r), After(r), r)
        /\ EditOf[r].kind = "remove" => Len(After(r)) < Len(Before(r))
    BY SavingTypes
  <2>2. Len(after) = Len(before)
    BY <1>3, <1>4 DEF SetsQuantities
  <2>3. Len(before) \in Nat /\ Len(after) \in Nat
    BY <1>3, <1>4, <2>1 DEF CartLines
  <2> QED BY <1>3, <1>4, <2>1, <2>2, <2>3
<1>6. PICK old : old = cart.lines
  OBVIOUS
<1>7. /\ old \in CartLines /\ DOMAIN old = DOMAIN before /\ DOMAIN after = DOMAIN before
      /\ \A i \in DOMAIN old : after[i].product = old[i].product
  <2>1. DOMAIN old = DOMAIN before /\ DOMAIN after = DOMAIN before
    BY <1>1, <1>2, <1>3, <1>5, <1>6 DEF SameShape, CartLines
  <2>2. \A i \in DOMAIN before : after[i].product = before[i].product
    BY <1>5 DEF Grown, Extends
  <2>3. \A i \in DOMAIN before : old[i].product = before[i].product
    BY <1>1, <1>3, <1>6 DEF SameShape
  <2> QED BY <1>2, <1>6, <2>1, <2>2, <2>3
<1> DEFINE set(i) == i \in DOMAIN before /\ after[i] # before[i]
           lines == [i \in DOMAIN old |->
             IF set(i) THEN [old[i] EXCEPT !.quantity = after[i].quantity] ELSE old[i]]
<1>8. ASSUME NEW i \in DOMAIN old
      PROVE  /\ lines[i] \in CartLine /\ lines[i].product = old[i].product
             /\ \/ lines[i] = old[i]
                \/ set(i) /\ lines[i].quantity = after[i].quantity
  <2>1. old[i] \in CartLine
    BY <1>7, LineTypes
  <2>2. CASE set(i)
    <3>1. after[i].quantity \in Nat \ {0}
      BY <1>5, <1>7, LineTypes
    <3>2. PICK q : q = after[i].quantity
      OBVIOUS
    <3>3. lines[i] = [old[i] EXCEPT !.quantity = q]
      BY <2>2, <3>2
    <3>4. /\ [old[i] EXCEPT !.quantity = q] \in CartLine
          /\ [old[i] EXCEPT !.quantity = q].product = old[i].product
          /\ [old[i] EXCEPT !.quantity = q].quantity = q
      BY <2>1, <3>1, <3>2 DEF CartLine, LinesOf
    <3> QED BY <2>2, <3>2, <3>3, <3>4
  <2>3. CASE ~set(i)
    <3>1. lines[i] = old[i]
      BY <2>3
    <3> QED BY <2>1, <3>1
  <2> QED BY <2>2, <2>3
<1>9. DOMAIN lines = DOMAIN old
  OBVIOUS
<1>10. SavedCart(r) = [cart EXCEPT !.lines = lines]
  BY <1>3, <1>4, <1>6 DEF SavedCart
<1> HIDE DEF lines
<1>11. lines \in CartLines /\ Len(lines) = Len(old)
  <2>1. DOMAIN lines = 1..Len(old) /\ Len(old) \in Nat
    BY <1>7, <1>9 DEF CartLines
  <2>2. lines = [i \in 1..Len(old) |-> lines[i]]
    BY <2>1 DEF lines
  <2>3. lines \in [1..Len(old) -> CartLine]
    BY <1>8, <1>9, <2>1, <2>2
  <2> QED BY <2>1, <2>3 DEF CartLines
<1>12. PICK saved : saved = [cart EXCEPT !.lines = lines]
  OBVIOUS
<1>13. /\ saved \in CartDocs /\ saved.id = cart.id /\ saved.version = cart.version
       /\ saved.lines = lines
  BY <1>1, <1>11, <1>12 DEF CartDocs, CartLines, CartLine
<1>14. SameShape(old, lines)
  BY <1>8, <1>11 DEF SameShape
<1>15. \A i \in DOMAIN old :
         \/ lines[i] = old[i]
         \/ /\ i \in DOMAIN before /\ i \in DOMAIN after /\ after[i] # before[i]
            /\ after[i].product = old[i].product
            /\ lines[i].quantity = after[i].quantity
  BY <1>7, <1>8
<1>16. SavedCart(r) = saved /\ saved.lines = lines
  BY <1>10, <1>12, <1>13
<1> HIDE DEF set
<1> QED BY <1>1, <1>3, <1>4, <1>5, <1>6, <1>13, <1>14, <1>15, <1>16

\* A save of the whole array.
LEMMA WholeLines ==
  ASSUME CartsInv, NEW r \in Edits, Saving(r), ~Pushes(r), ~SetsQuantities(r),
         StandsUnmoved(r)
  PROVE  /\ cart \in CartDocs /\ SavedCart(r) \in CartDocs
         /\ SavedCart(r).id = cart.id /\ SavedCart(r).version = cart.version + 1
         /\ SavedCart(r).lines = After(r)
<1>1. cart \in CartDocs
  BY UnmovedShape
<1>2. cart.version \in Nat
  BY <1>1, DocTypes
<1>3. PICK after : after = After(r)
  OBVIOUS
<1>4. after \in CartLines
  BY <1>3, SavingTypes
<1>5. PICK version : version = cart.version + 1
  OBVIOUS
<1>9. version \in Nat
  BY <1>2, <1>5
<1>6. SavedCart(r) = [cart EXCEPT !.lines = after, !.version = version]
  BY <1>3, <1>5 DEF SavedCart
<1>7. PICK saved : saved = [cart EXCEPT !.lines = after, !.version = version]
  OBVIOUS
<1>8. /\ saved \in CartDocs /\ saved.id = cart.id /\ saved.version = version
      /\ saved.lines = after
  BY <1>1, <1>4, <1>7, <1>9 DEF CartDocs, CartLines, CartLine
<1> QED BY <1>1, <1>3, <1>5, <1>6, <1>7, <1>8

-----------------------------------------------------------------------------
(***************************************************************************)
(* The steps keep the invariant.                                           *)
(***************************************************************************)
\* How a step may change the document.
CartMoves ==
  \/ cart' = cart
  \/ cart' = NoCart
  \/ cart' # NoCart /\ cart'.id = carts + 1
  \/ /\ cart # NoCart /\ cart' # NoCart /\ cart'.id = cart.id
     /\ \/ cart'.version = cart.version + 1
        \/ /\ cart'.version = cart.version
           /\ SameShape(cart.lines, cart'.lines)

LEMMA ReadStaysBefore ==
  ASSUME CartsTypeOK, cart' \in CartDocs \cup {NoCart}, CartMoves,
         NEW s \in CartDocs \cup {NoCart}, s # NoCart => s.id <= carts, ReadBefore(s)
  PROVE  s # NoCart /\ cart' # NoCart /\ s.id = cart'.id =>
           /\ s.version <= cart'.version
           /\ s.version = cart'.version => SameShape(s.lines, cart'.lines)
<1>1. SUFFICES ASSUME s # NoCart, cart' # NoCart, s.id = cart'.id
               PROVE  /\ s.version <= cart'.version
                      /\ s.version = cart'.version => SameShape(s.lines, cart'.lines)
  OBVIOUS
<1>2. s \in CartDocs /\ cart' \in CartDocs /\ carts \in Nat /\ cart \in CartDocs \cup {NoCart}
  BY <1>1 DEF CartsTypeOK
<1>3. s.id \in Nat /\ s.version \in Nat /\ s.lines \in CartLines
  BY <1>2, DocTypes
<1>4. CASE cart' = cart
  BY <1>1, <1>4 DEF ReadBefore
<1>5. CASE cart' # NoCart /\ cart'.id = carts + 1
  BY <1>1, <1>2, <1>3, <1>5
<1>6. CASE /\ cart # NoCart /\ cart'.id = cart.id
           /\ \/ cart'.version = cart.version + 1
              \/ /\ cart'.version = cart.version
                 /\ SameShape(cart.lines, cart'.lines)
  <2>1. cart \in CartDocs /\ cart.version \in Nat /\ cart.lines \in CartLines
    BY <1>2, <1>6, DocTypes
  <2>2. /\ s.version <= cart.version
        /\ s.version = cart.version => SameShape(s.lines, cart.lines)
    BY <1>1, <1>6 DEF ReadBefore
  <2>3. CASE cart'.version = cart.version + 1
    BY <1>3, <2>1, <2>2, <2>3
  <2>4. CASE cart'.version = cart.version /\ SameShape(cart.lines, cart'.lines)
    <3>1. SameShape(s.lines, cart.lines) => SameShape(s.lines, cart'.lines)
      <4>1. PICK a : a = s.lines
        OBVIOUS
      <4>2. PICK b : b = cart.lines
        OBVIOUS
      <4>3. PICK c : c = cart'.lines
        OBVIOUS
      <4>4. a \in CartLines /\ b \in CartLines
        BY <1>3, <2>1, <4>1, <4>2
      <4>5. DOMAIN a = 1..Len(a) /\ DOMAIN b = 1..Len(b)
        BY <4>4 DEF CartLines
      <4>6. SameShape(b, c)
        BY <2>4, <4>2, <4>3
      <4>7. SameShape(a, b) => SameShape(a, c)
        BY <4>5, <4>6 DEF SameShape
      <4> QED BY <4>1, <4>2, <4>3, <4>7
    <3> QED BY <2>2, <2>4, <3>1
  <2> QED BY <1>6, <2>3, <2>4
<1> QED BY <1>1, <1>4, <1>5, <1>6 DEF CartMoves

\* A step in which a request ends.
LEMMA EndKeeps ==
  ASSUME CartsInv, NEW r \in Edits, NEW pc \in {"saved", "failed"}, Finish(r, pc),
         cart' \in CartDocs \cup {NoCart}, CartMoves, carts' \in Nat, carts <= carts',
         cart' # NoCart => cart'.id <= carts', doubled' \in SUBSET Goods
  PROVE  CartsInv'
<1>1. CartsTypeOK /\ \A q \in Edits : EditWell(q)
  BY DEF CartsInv
<1>2. /\ edit' \in [Edits -> [pc : {"new", "save", "saved", "failed", "refused"},
                             seen : CartDocs \cup {NoCart}]]
      /\ \A q \in Edits : /\ edit'[q].seen = edit[q].seen
                          /\ edit'[q].pc = "save" => edit[q].pc = "save"
  <2>1. edit \in [Edits -> [pc : {"new", "save", "saved", "failed", "refused"},
                            seen : CartDocs \cup {NoCart}]]
    BY <1>1 DEF CartsTypeOK
  <2>2. edit' = [edit EXCEPT ![r] = [edit[r] EXCEPT !.pc = pc]]
    BY DEF Finish
  <2> QED BY <2>1, <2>2
<1>3. CartsTypeOK'
  BY <1>2 DEF CartsTypeOK, CartDocs
<1>4. ASSUME NEW q \in Edits PROVE EditWell(q)'
  <2>1. PICK s : s = edit[q].seen
    OBVIOUS
  <2>2. s \in CartDocs \cup {NoCart} /\ edit'[q].seen = s
    BY <1>1, <1>2, <2>1 DEF CartsTypeOK
  <2>3. (s # NoCart => s.id <= carts) /\ ReadBefore(s)
    BY <1>1, <2>1 DEF EditWell
  <2>4. s # NoCart => s.id <= carts'
    <3>1. s # NoCart => s.id \in Nat
      BY <2>2, DocTypes
    <3>2. carts \in Nat
      BY <1>1 DEF CartsTypeOK
    <3> QED BY <2>3, <3>1, <3>2
  <2>5. s # NoCart /\ cart' # NoCart /\ s.id = cart'.id =>
           /\ s.version <= cart'.version
           /\ s.version = cart'.version => SameShape(s.lines, cart'.lines)
    BY <1>1, <2>2, <2>3, ReadStaysBefore
  <2>6. edit'[q].pc = "save" => EditOf[q].kind # "clear" /\ Allowed(Lines(s), q)
    BY <1>1, <1>2, <2>1 DEF EditWell
  <2> QED BY <2>2, <2>4, <2>5, <2>6 DEF EditWell, ReadBefore
<1> QED BY <1>3, <1>4 DEF CartsInv

LEMMA ReadKeeps ==
  ASSUME CartsInv, NEW r \in Edits, ReadCart(r)
  PROVE  CartsInv'
<1>1. /\ CartsTypeOK /\ \A q \in Edits : EditWell(q)
      /\ cart # NoCart => cart.id <= carts
  BY DEF CartsInv
<1>2. PICK pc \in {"save", "refused"} :
        /\ edit' = [edit EXCEPT ![r] = [pc |-> pc, seen |-> cart]]
        /\ pc = "save" => Allowed(Lines(cart), r)
  BY DEF ReadCart
<1>3. EditOf[r].kind # "clear" /\ cart' = cart /\ carts' = carts /\ doubled' = doubled
  BY DEF ReadCart
<1>4. /\ edit' \in [Edits -> [pc : {"new", "save", "saved", "failed", "refused"},
                             seen : CartDocs \cup {NoCart}]]
      /\ edit'[r] = [pc |-> pc, seen |-> cart]
      /\ \A q \in Edits \ {r} : edit'[q] = edit[q]
  BY <1>1, <1>2 DEF CartsTypeOK
<1>5. CartsTypeOK'
  BY <1>1, <1>3, <1>4 DEF CartsTypeOK, CartDocs
<1>6. ASSUME NEW q \in Edits \ {r} PROVE EditWell(q)'
  BY <1>1, <1>3, <1>4 DEF EditWell, ReadBefore
<1>7. EditWell(r)'
  <2>1. edit'[r].pc = pc /\ edit'[r].seen = cart
    BY <1>4
  <2>2. cart # NoCart => /\ cart.version <= cart.version
                         /\ SameShape(cart.lines, cart.lines)
    <3>1. cart # NoCart => cart.version \in Nat
      BY <1>1, DocTypes DEF CartsTypeOK
    <3> QED BY <3>1 DEF SameShape
  <2> QED BY <1>1, <1>2, <1>3, <2>1, <2>2 DEF EditWell, ReadBefore
<1> QED BY <1>1, <1>3, <1>5, <1>6, <1>7 DEF CartsInv

\* A cart that was not there takes the lines of an add or of a merge.
LEMMA InsertedLines ==
  ASSUME CartsInv, NEW r \in Edits, edit[r].pc = "save", edit[r].seen = NoCart
  PROVE  /\ Grown(<<>>, Edited(<<>>, r), r)
         /\ <<>> \in CartLines
<1>1. <<>> \in CartLines
  BY DEF CartLines
<1>2. EditOf[r].kind # "clear" /\ Allowed(<<>>, r)
  BY DEF CartsInv, EditWell, Lines
<1>3. EditOf[r].kind # "remove"
  <2>1. \A p : Found(<<>>, r, p) = {}
    BY DEF Found, Named
  <2> QED BY <1>2, <2>1 DEF Allowed
<1> QED BY <1>1, <1>2, <1>3, EditGrows

LEMMA InsertKeeps ==
  ASSUME CartsInv, NEW r \in Edits, InsertCart(r)
  PROVE  CartsInv'
<1>1. /\ CartsTypeOK /\ carts \in Nat /\ doubled' \in SUBSET Goods
      /\ cart # NoCart => cart.id <= carts
      /\ edit[r].pc = "save" /\ edit[r].seen = NoCart
  BY DEF CartsInv, CartsTypeOK, InsertCart
<1>2. CASE cart = NoCart
  <2>1. PICK lines : lines = Edited(<<>>, r)
    OBVIOUS
  <2>2. lines \in CartLines
    BY <1>1, <2>1, InsertedLines DEF Grown
  <2>3. /\ cart' = [id |-> carts + 1, version |-> 0, lines |-> lines]
        /\ carts' = carts + 1 /\ Finish(r, "saved")
    BY <1>2, <2>1 DEF InsertCart
  <2>4. cart' \in CartDocs /\ cart'.id = carts + 1
    BY <1>1, <2>2, <2>3 DEF CartDocs, CartLines, CartLine
  <2>5. cart' # NoCart
    BY <2>4, DocTypes
  <2>6. CartMoves /\ carts' \in Nat /\ carts <= carts' /\ cart'.id <= carts'
    BY <1>1, <2>3, <2>4, <2>5 DEF CartMoves
  <2> QED BY <1>1, <2>3, <2>4, <2>6, EndKeeps
<1>3. CASE cart # NoCart
  <2>1. Finish(r, "failed") /\ cart' = cart /\ carts' = carts
    BY <1>3 DEF InsertCart
  <2>2. CartMoves /\ cart' \in CartDocs \cup {NoCart}
    BY <1>1, <2>1 DEF CartMoves, CartsTypeOK
  <2> QED BY <1>1, <2>1, <2>2, EndKeeps
<1> QED BY <1>2, <1>3

LEMMA SavedMoves ==
  ASSUME CartsInv, NEW r \in Edits, Saving(r), MaySave(r)
  PROVE  /\ cart \in CartDocs /\ SavedCart(r) \in CartDocs /\ SavedCart(r).id = cart.id
         /\ \/ SavedCart(r).version = cart.version + 1
            \/ /\ SavedCart(r).version = cart.version
               /\ SameShape(cart.lines, SavedCart(r).lines)
<1>1. CASE Pushes(r)
  BY <1>1, PushedLines DEF MaySave
<1>2. CASE ~Pushes(r) /\ SetsQuantities(r)
  BY <1>2, SetLines DEF MaySave
<1>3. CASE ~Pushes(r) /\ ~SetsQuantities(r)
  BY <1>3, WholeLines DEF MaySave
<1> QED BY <1>1, <1>2, <1>3

LEMMA SaveKeeps ==
  ASSUME CartsInv, NEW r \in Edits, SaveCart(r)
  PROVE  CartsInv'
<1>1. /\ CartsTypeOK /\ carts \in Nat /\ carts' = carts /\ carts <= carts
      /\ cart # NoCart => cart.id <= carts
      /\ Saving(r)
  BY DEF CartsInv, CartsTypeOK, SaveCart, Saving
<1>2. CASE Changes(r) /\ MaySave(r)
  <2>1. cart' = SavedCart(r) /\ Finish(r, "saved")
    BY <1>2 DEF SaveCart
  <2>2. /\ cart \in CartDocs /\ cart' \in CartDocs /\ cart'.id = cart.id
        /\ \/ cart'.version = cart.version + 1
           \/ /\ cart'.version = cart.version
              /\ SameShape(cart.lines, cart'.lines)
    BY <1>1, <1>2, <2>1, SavedMoves
  <2>3. cart # NoCart /\ cart' # NoCart
    BY <2>2, DocTypes
  <2>4. CartMoves /\ cart'.id <= carts
    BY <1>1, <2>2, <2>3 DEF CartMoves
  <2>5. doubled' \in SUBSET Goods
    <3>1. doubled \in SUBSET Goods
      BY <1>1 DEF CartsTypeOK
    <3>2. CASE ~Pushes(r)
      BY <1>2, <3>1, <3>2 DEF SaveCart
    <3>3. CASE Pushes(r)
      <4>1. doubled' = doubled \cup {line.product : line \in
                               {l \in Range(Added(r)) : Named(cart.lines, l.product) # {}}}
        BY <1>2, <3>3 DEF SaveCart
      <4>2. Added(r) \in CartLines
        BY <1>1, <1>2, <3>3, PushedLines DEF MaySave
      <4>3. \A l \in Range(Added(r)) : l.product \in Goods
        BY <4>2, LineTypes DEF Range
      <4> QED BY <3>1, <4>1, <4>3
    <3> QED BY <3>2, <3>3
  <2> QED BY <1>1, <2>1, <2>2, <2>4, <2>5, EndKeeps
<1>3. CASE ~(Changes(r) /\ MaySave(r))
  <2>1. /\ cart' = cart /\ doubled' = doubled
        /\ Finish(r, "saved") \/ Finish(r, "failed")
    BY <1>3 DEF SaveCart
  <2>2. CartMoves /\ cart' \in CartDocs \cup {NoCart} /\ doubled' \in SUBSET Goods
    BY <1>1, <2>1 DEF CartMoves, CartsTypeOK
  <2> QED BY <1>1, <2>1, <2>2, EndKeeps
<1> QED BY <1>2, <1>3

LEMMA ClearKeeps ==
  ASSUME CartsInv, NEW r \in Edits, ClearCart(r)
  PROVE  CartsInv'
<1>1. /\ carts \in Nat /\ carts' = carts /\ carts <= carts /\ doubled' \in SUBSET Goods
      /\ cart' = NoCart /\ CartMoves /\ Finish(r, "saved")
  BY DEF CartsInv, CartsTypeOK, ClearCart, CartMoves
<1> QED BY <1>1, EndKeeps

LEMMA CartsStep == CartsInv /\ [CartsNext]_cartVars => CartsInv'
<1> SUFFICES ASSUME CartsInv, [CartsNext]_cartVars PROVE CartsInv'
  OBVIOUS
<1>1. CASE UNCHANGED cartVars
  BY <1>1 DEF cartVars, CartsInv, CartsTypeOK, CartDocs, EditWell, ReadBefore
<1>2. ASSUME NEW r \in Edits, ReadCart(r) \/ InsertCart(r) \/ SaveCart(r) \/ ClearCart(r)
      PROVE  CartsInv'
  BY <1>2, ReadKeeps, InsertKeeps, SaveKeeps, ClearKeeps
<1> QED BY <1>1, <1>2 DEF CartsNext

LEMMA CartsStart == CartsInit => CartsInv
<1> SUFFICES ASSUME CartsInit PROVE CartsInv
  OBVIOUS
<1>1. cart \in CartDocs /\ cart.id = 1
  BY CartsAssumption DEF CartsInit, CartDocs
<1>2. edit \in [Edits -> [pc : {"new", "save", "saved", "failed", "refused"},
                          seen : CartDocs \cup {NoCart}]]
      /\ \A r \in Edits : edit[r].pc = "new" /\ edit[r].seen = NoCart
  BY DEF CartsInit
<1>3. carts = 1 /\ doubled = {}
  BY DEF CartsInit
<1> QED BY <1>1, <1>2, <1>3 DEF CartsInv, CartsTypeOK, EditWell, ReadBefore

\* The documents, the requests and the counts have their types, and what a
\* request has read stays no later than what is stored.
THEOREM CartsTyped == CartsInit /\ [][CartsNext]_cartVars => []CartsTypeOK
<1>1. CartsInv => CartsTypeOK
  BY DEF CartsInv
<1> QED BY <1>1, CartsStart, CartsStep, PTL

-----------------------------------------------------------------------------
(***************************************************************************)
(* What a save does to the lines of what it is not about.                  *)
(***************************************************************************)
LEMMA SameShapeNamed ==
  ASSUME NEW a \in CartLines, NEW b \in CartLines, SameShape(a, b), NEW p
  PROVE  Named(b, p) = Named(a, p)
<1>1. DOMAIN a = 1..Len(a) /\ DOMAIN b = 1..Len(b) /\ Len(a) = Len(b)
  BY DEF SameShape, CartLines
<1> QED BY <1>1 DEF SameShape, Named

LEMMA PushNamed ==
  ASSUME NEW a \in CartLines, NEW t \in CartLines, NEW p,
         \A k \in DOMAIN t : t[k].product # p
  PROVE  Named(a \o t, p) = Named(a, p) /\ \A i \in Named(a, p) : (a \o t)[i] = a[i]
<1>1. PICK c : c = a \o t
  OBVIOUS
<1>2. /\ DOMAIN c = 1..Len(a) + Len(t) /\ DOMAIN a = 1..Len(a)
      /\ DOMAIN t = 1..Len(t) /\ Len(a) \in Nat /\ Len(t) \in Nat
      /\ \A i \in 1..Len(a) : c[i] = a[i]
      /\ \A i \in 1..Len(t) : c[Len(a) + i] = t[i]
  BY <1>1, ConcatLines DEF CartLines
<1>3. ASSUME NEW i \in DOMAIN c, i \notin DOMAIN a PROVE c[i].product # p
  <2>1. i - Len(a) \in 1..Len(t) /\ Len(a) + (i - Len(a)) = i
    BY <1>2, <1>3
  <2>2. c[i] = t[i - Len(a)]
    BY <1>2, <2>1
  <2> QED BY <1>2, <2>1, <2>2
<1>4. DOMAIN a \subseteq DOMAIN c
  BY <1>2
<1> QED BY <1>1, <1>2, <1>3, <1>4 DEF Named

LEMMA SavedKeepsOthers ==
  ASSUME CartsInv, NEW r \in Edits, Saving(r), MaySave(r), NEW p \in Goods, p \notin About(r)
  PROVE  Cardinality(Named(SavedCart(r).lines, p)) = Cardinality(Named(cart.lines, p))
<1>1. CASE Pushes(r)
  <2>1. /\ cart \in CartDocs
        /\ SavedCart(r).lines = cart.lines \o Added(r)
        /\ Grown(Before(r), After(r), r)
        /\ Added(r) \in CartLines
        /\ \A k \in DOMAIN Added(r) : /\ Added(r)[k] = After(r)[Len(Before(r)) + k]
                                     /\ Len(Before(r)) + k \in DOMAIN After(r) \ DOMAIN Before(r)
    BY <1>1, PushedLines DEF MaySave
  <2>2. cart.lines \in CartLines
    BY <2>1, DocTypes
  <2>3. \A k \in DOMAIN Added(r) : Added(r)[k].product # p
    BY <2>1 DEF Grown, Extends
  <2> QED BY <2>1, <2>2, <2>3, PushNamed
<1>2. CASE ~Pushes(r)
  <2>1. cart \in CartDocs /\ SameShape(Before(r), cart.lines)
    BY <1>2, UnmovedShape DEF MaySave
  <2>2. cart.lines \in CartLines /\ Before(r) \in CartLines
    BY <2>1, DocTypes, SavingTypes
  <2>3. CASE SetsQuantities(r)
    <3>1. SameShape(cart.lines, SavedCart(r).lines) /\ SavedCart(r) \in CartDocs
      BY <1>2, <2>3, SetLines DEF MaySave
    <3>2. SavedCart(r).lines \in CartLines
      BY <3>1, DocTypes
    <3> QED BY <2>2, <3>1, <3>2, SameShapeNamed
  <2>4. CASE ~SetsQuantities(r)
    <3>1. SavedCart(r).lines = After(r)
      BY <1>2, <2>4, WholeLines DEF MaySave
    <3>2. Named(cart.lines, p) = Named(Before(r), p)
      BY <2>1, <2>2, SameShapeNamed
    <3>3. CASE EditOf[r].kind = "remove"
      <4>1. Allowed(Before(r), r)
        BY SavingTypes
      <4>2. Cardinality(Named(After(r), p)) = Cardinality(Named(Before(r), p))
        BY <2>2, <3>3, <4>1, RemoveShrinks DEF After
      <4> QED BY <3>1, <3>2, <4>2
    <3>4. CASE EditOf[r].kind # "remove"
      <4>1. After(r) \in CartLines /\ Extends(Before(r), After(r), About(r))
        BY <3>4, SavingTypes DEF Grown
      <4>2. Named(After(r), p) = Named(Before(r), p)
        BY <2>2, <4>1, ExtendsKeepsNamed
      <4> QED BY <3>1, <3>2, <4>2
    <3> QED BY <3>3, <3>4
  <2> QED BY <2>3, <2>4
<1> QED BY <1>1, <1>2

LEMMA InsertedOwn ==
  ASSUME CartsInv, NEW r \in Edits, InsertCart(r), cart = NoCart, NEW p, p \notin About(r)
  PROVE  Named(Lines(cart'), p) = {} /\ Named(Lines(cart), p) = {}
<1>1. PICK lines : lines = Edited(<<>>, r)
  OBVIOUS
<1>2. Grown(<<>>, lines, r) /\ lines \in CartLines /\ <<>> \in CartLines
  BY <1>1, InsertedLines DEF Grown, InsertCart
<1>3. cart' = [id |-> carts + 1, version |-> 0, lines |-> lines]
  BY <1>1 DEF InsertCart
<1>4. cart' \in CartDocs
  BY <1>2, <1>3 DEF CartsInv, CartsTypeOK, CartDocs, CartLines, CartLine
<1>5. Lines(cart') = lines /\ Lines(cart) = <<>>
  BY <1>3, <1>4, DocTypes DEF Lines
<1>6. Named(<<>>, p) = {}
  BY DEF Named
<1>7. Named(lines, p) = Named(<<>>, p)
  BY <1>2, ExtendsKeepsNamed DEF Grown
<1> QED BY <1>5, <1>6, <1>7

\* The step of a save, for each request and each product it is not about.
OwnLinesOnly ==
  \A r \in Edits : edit[r].pc = "save" /\ edit'[r].pc = "saved" =>
    \A p \in Goods \ About(r) :
      Cardinality(Named(Lines(cart'), p)) = Cardinality(Named(Lines(cart), p))

LEMMA FinishOwn ==
  ASSUME CartsInv, NEW r \in Edits, NEW pc, Finish(r, pc), NEW q \in Edits,
         edit[q].pc = "save", edit'[q].pc = "saved"
  PROVE  q = r
BY DEF CartsInv, CartsTypeOK, Finish

LEMMA OwnLinesStep == CartsInv /\ [CartsNext]_cartVars => [OwnLinesOnly]_cartVars
<1> SUFFICES ASSUME CartsInv, CartsNext PROVE OwnLinesOnly
  OBVIOUS
<1> SUFFICES ASSUME NEW q \in Edits, edit[q].pc = "save", edit'[q].pc = "saved",
                    NEW p \in Goods \ About(q)
             PROVE  Cardinality(Named(Lines(cart'), p)) = Cardinality(Named(Lines(cart), p))
  BY DEF OwnLinesOnly
<1>1. ASSUME NEW r \in Edits, ReadCart(r) PROVE FALSE
  BY <1>1 DEF ReadCart, CartsInv, CartsTypeOK
<1>2. ASSUME NEW r \in Edits, InsertCart(r)
      PROVE  Cardinality(Named(Lines(cart'), p)) = Cardinality(Named(Lines(cart), p))
  <2>1. CASE cart = NoCart
    <3>1. q = r
      BY <1>2, <2>1, FinishOwn DEF InsertCart
    <3>2. Named(Lines(cart'), p) = Named(Lines(cart), p)
      BY <1>2, <2>1, <3>1, InsertedOwn
    <3> QED BY <3>2
  <2>2. CASE cart # NoCart
    BY <1>2, <2>2 DEF InsertCart
  <2> QED BY <2>1, <2>2
<1>3. ASSUME NEW r \in Edits, SaveCart(r)
      PROVE  Cardinality(Named(Lines(cart'), p)) = Cardinality(Named(Lines(cart), p))
  <2>1. Saving(r)
    BY <1>3 DEF SaveCart, Saving
  <2>2. CASE Changes(r) /\ MaySave(r)
    <3>1. cart' = SavedCart(r) /\ Finish(r, "saved")
      BY <1>3, <2>2 DEF SaveCart
    <3>2. q = r
      BY <3>1, FinishOwn
    <3>3. cart \in CartDocs /\ cart' \in CartDocs
      BY <2>1, <2>2, <3>1, SavedMoves
    <3>4. Lines(cart') = SavedCart(r).lines /\ Lines(cart) = cart.lines
      BY <3>1, <3>3, DocTypes DEF Lines
    <3> QED BY <2>1, <2>2, <3>2, <3>4, SavedKeepsOthers
  <2>3. CASE ~(Changes(r) /\ MaySave(r))
    <3>1. cart' = cart
      BY <1>3, <2>3 DEF SaveCart
    <3> QED BY <3>1
  <2> QED BY <2>2, <2>3
<1>4. ASSUME NEW r \in Edits, ClearCart(r) PROVE FALSE
  <2>1. edit[r].pc = "new" /\ Finish(r, "saved")
    BY <1>4 DEF ClearCart
  <2>2. q = r
    BY <2>1, FinishOwn
  <2> QED BY <2>1, <2>2
<1> QED BY <1>1, <1>2, <1>3, <1>4 DEF CartsNext

\* OnlyOwnLines: no save adds or removes a line of a product that the request is
\* not about.
THEOREM SavesOwnLines == CartsInit /\ [][CartsNext]_cartVars => OnlyOwnLines
BY CartsStart, CartsStep, OwnLinesStep, PTL DEF OnlyOwnLines, OwnLinesOnly

-----------------------------------------------------------------------------
(***************************************************************************)
(* The stock: as long as a product is not excused, it has one line at most *)
(* and that line is within the stock, in the stored cart and in the carts  *)
(* that requests have read.                                                *)
(***************************************************************************)
Fits(lines, p) ==
  \A i \in Named(lines, p) : /\ lines[i].quantity <= OnHand[p]
                            /\ \A j \in Named(lines, p) : i = j

MergedIn(p) ==
  \E r \in Edits : EditOf[r].kind = "merge" /\ edit[r].pc = "saved" /\ p \in About(r)

CartsFit ==
  \A p \in Goods : p \in doubled \/ MergedIn(p) \/
    (Fits(Lines(cart), p) /\ \A r \in Edits : Fits(Lines(edit[r].seen), p))

\* The cart to begin with has one line of a product at most, within the stock.
BasketFits == \A p \in Goods : Fits(Basket, p)

LEMMA FitsEmpty == \A p : Fits(<<>>, p)
  BY DEF Fits, Named

LEMMA FitsSame ==
  ASSUME NEW a, NEW b, NEW p, Fits(a, p), Named(b, p) = Named(a, p),
         \A i \in Named(a, p) : b[i].quantity <= OnHand[p]
  PROVE  Fits(b, p)
BY DEF Fits

LEMMA FitsShrinks ==
  ASSUME NEW a \in CartLines, NEW b \in CartLines, NEW p, Fits(a, p),
         Range(b) \subseteq Range(a), Cardinality(Named(b, p)) = Cardinality(Named(a, p))
  PROVE  Fits(b, p)
<1>1. ASSUME NEW i \in Named(b, p)
      PROVE  \E j \in Named(a, p) : a[j] = b[i]
  <2>1. b[i] \in Range(a) /\ b[i].product = p
    BY DEF Named, Range
  <2> QED BY <2>1 DEF Range, Named
<1>2. ASSUME NEW i \in Named(b, p), NEW k \in Named(b, p), i # k PROVE FALSE
  <2>1. PICK j \in Named(a, p) : a[j] = b[i]
    BY <1>1
  <2>2. Named(a, p) = {j}
    BY <2>1 DEF Fits
  <2>3. Cardinality(Named(b, p)) = 1
    BY <2>2, FS_Singleton
  <2>4. IsFiniteSet(Named(b, p))
    BY NamedFinite
  <2>5. \E x : Named(b, p) = {x}
    BY <2>3, <2>4, FS_Singleton
  <2> QED BY <1>2, <2>5
<1>3. ASSUME NEW i \in Named(b, p) PROVE b[i].quantity <= OnHand[p]
  <2>1. PICK j \in Named(a, p) : a[j] = b[i]
    BY <1>1
  <2>2. a[j].quantity <= OnHand[p]
    BY DEF Fits
  <2> QED BY <2>1, <2>2
<1> QED BY <1>2, <1>3 DEF Fits

LEMMA PushFits ==
  ASSUME CartsInv, NEW r \in Edits, Saving(r), Pushes(r), Stands(r), NEW p \in Goods,
         Fits(cart.lines, p), EditOf[r].kind = "merge" => p \notin About(r),
         \A l \in Range(Added(r)) : l.product = p => Named(cart.lines, p) = {}
  PROVE  Fits(SavedCart(r).lines, p)
<1>1. PICK t : t = Added(r)
  OBVIOUS
<1>2. PICK after : after = After(r)
  OBVIOUS
<1>3. PICK before : before = Before(r)
  OBVIOUS
<1>4. PICK old : old = cart.lines
  OBVIOUS
<1>5. /\ old \in CartLines /\ t \in CartLines /\ SavedCart(r).lines = old \o t
      /\ Grown(before, after, r) /\ before \in CartLines
      /\ Len(t) = Len(after) - Len(before)
      /\ \A k \in DOMAIN t : /\ t[k] = after[Len(before) + k]
                            /\ Len(before) + k \in DOMAIN after \ DOMAIN before
  BY <1>1, <1>2, <1>3, <1>4, PushedLines, SavingTypes, DocTypes
<1>6. CASE \A k \in DOMAIN t : t[k].product # p
  <2>1. Named(old \o t, p) = Named(old, p) /\ \A i \in Named(old, p) : (old \o t)[i] = old[i]
    BY <1>5, <1>6, PushNamed
  <2>2. Fits(old, p)
    BY <1>4
  <2>3. \A i \in Named(old, p) : (old \o t)[i].quantity <= OnHand[p]
    BY <2>1, <2>2 DEF Fits
  <2> QED BY <1>5, <2>1, <2>2, <2>3, FitsSame
<1>7. ASSUME NEW k \in DOMAIN t, t[k].product = p PROVE Fits(old \o t, p)
  <2>1. Named(old, p) = {}
    BY <1>1, <1>4, <1>7 DEF Range
  <2>2. p \in About(r)
    BY <1>5, <1>7 DEF Grown, Extends
  <2>3. Modest(before, after)
    BY <1>5, <2>2 DEF Grown
  <2>4. Len(t) <= 1
    <3>1. Len(before) \in Nat /\ Len(after) \in Nat
      BY <1>5 DEF CartLines, Grown
    <3>2. Len(after) <= Len(before) + 1
      BY <2>3 DEF Modest
    <3> QED BY <1>5, <3>1, <3>2
  <2>5. DOMAIN t = 1..Len(t) /\ Len(t) \in Nat
    BY <1>5 DEF CartLines
  <2>6. \A m \in DOMAIN t : m = 1
    BY <2>4, <2>5
  <2>7. t[k].quantity <= OnHand[p]
    <3>1. PICK n : n = Len(before) + k
      OBVIOUS
    <3>2. t[k] = after[n] /\ n \in DOMAIN after /\ n \notin DOMAIN before
      BY <1>5, <3>1
    <3>3. after[n].quantity <= OnHand[after[n].product]
      BY <2>3, <3>2 DEF Modest
    <3> QED BY <1>7, <3>2, <3>3
  <2>8. PICK c : c = old \o t
    OBVIOUS
  <2>9. /\ DOMAIN c = 1..Len(old) + Len(t) /\ DOMAIN old = 1..Len(old) /\ Len(old) \in Nat
        /\ \A i \in 1..Len(old) : c[i] = old[i]
        /\ \A i \in 1..Len(t) : c[Len(old) + i] = t[i]
    <3>2. old \in Seq(CartLine) /\ t \in Seq(CartLine)
      BY <1>5 DEF CartLines
    <3>1. /\ DOMAIN (old \o t) = 1..Len(old) + Len(t) /\ DOMAIN old = 1..Len(old)
          /\ Len(old) \in Nat
          /\ \A i \in 1..Len(old) : (old \o t)[i] = old[i]
          /\ \A i \in 1..Len(t) : (old \o t)[Len(old) + i] = t[i]
      BY <3>2, ConcatLines
    <3> QED BY <2>8, <3>1
  <2>10. ASSUME NEW i \in Named(c, p) PROVE i = Len(old) + 1 /\ c[i] = t[k]
    <3>1. i \in 1..Len(old) + Len(t) /\ c[i].product = p
      BY <2>9 DEF Named
    <3>2. i \notin 1..Len(old)
      BY <2>1, <2>9, <3>1 DEF Named
    <3>3. i = Len(old) + 1 /\ k = 1 /\ 1 \in 1..Len(t)
      BY <2>4, <2>5, <2>6, <2>9, <3>1, <3>2
    <3> QED BY <2>9, <3>3
  <2> QED BY <2>7, <2>8, <2>10 DEF Fits
<1> QED BY <1>5, <1>6, <1>7

LEMMA SetFits ==
  ASSUME CartsInv, NEW r \in Edits, Saving(r), ~Pushes(r), SetsQuantities(r),
         StandsUnmoved(r), NEW p \in Goods, Fits(cart.lines, p),
         EditOf[r].kind = "merge" => p \notin About(r)
  PROVE  Fits(SavedCart(r).lines, p)
<1>1. PICK new : new = SavedCart(r).lines
  OBVIOUS
<1>2. PICK after : after = After(r)
  OBVIOUS
<1>3. PICK before : before = Before(r)
  OBVIOUS
<1>4. PICK old : old = cart.lines
  OBVIOUS
<1>5. /\ old \in CartLines /\ new \in CartLines /\ SameShape(old, new)
      /\ Grown(before, after, r) /\ before \in CartLines
      /\ \A i \in DOMAIN old :
           \/ new[i] = old[i]
           \/ /\ i \in DOMAIN before /\ i \in DOMAIN after /\ after[i] # before[i]
              /\ after[i].product = old[i].product
              /\ new[i].quantity = after[i].quantity
  BY <1>1, <1>2, <1>3, <1>4, SetLines, SavingTypes, DocTypes
<1>6. Fits(old, p)
  BY <1>4
<1>7. Named(new, p) = Named(old, p)
  BY <1>5, SameShapeNamed
<1>8. ASSUME NEW i \in Named(old, p) PROVE new[i].quantity <= OnHand[p]
  <2>1. i \in DOMAIN old /\ old[i].product = p /\ old[i].quantity <= OnHand[p]
    BY <1>6 DEF Named, Fits
  <2>2. CASE /\ i \in DOMAIN before /\ i \in DOMAIN after /\ after[i] # before[i]
             /\ after[i].product = p
             /\ new[i].quantity = after[i].quantity
    <3>1. p \in About(r)
      BY <1>5, <2>2 DEF Grown, Extends
    <3>2. Modest(before, after)
      BY <1>5, <3>1 DEF Grown
    <3>3. after[i].quantity <= OnHand[after[i].product]
      BY <2>2, <3>2 DEF Modest
    <3> QED BY <2>2, <3>3
  <2>3. CASE new[i] = old[i]
    BY <2>1, <2>3
  <2> QED BY <1>5, <2>1, <2>2, <2>3
<1> QED BY <1>1, <1>6, <1>7, <1>8, FitsSame

LEMMA WholeFits ==
  ASSUME CartsInv, NEW r \in Edits, Saving(r), ~Pushes(r), ~SetsQuantities(r),
         StandsUnmoved(r), NEW p \in Goods, Fits(Before(r), p),
         EditOf[r].kind = "merge" => p \notin About(r)
  PROVE  Fits(SavedCart(r).lines, p)
<1>1. PICK after : after = After(r)
  OBVIOUS
<1>2. PICK before : before = Before(r)
  OBVIOUS
<1>3. /\ before \in CartLines /\ after \in CartLines /\ SavedCart(r).lines = after
      /\ Allowed(before, r) /\ after = Edited(before, r)
      /\ EditOf[r].kind # "remove" => Grown(before, after, r)
  BY <1>1, <1>2, SavingTypes, WholeLines DEF After
<1>4. CASE EditOf[r].kind = "remove"
  <2>1. /\ Range(after) \subseteq Range(before)
        /\ \A q \in About(r) : Named(after, q) = {}
        /\ \A q : q \notin About(r) =>
             Cardinality(Named(after, q)) = Cardinality(Named(before, q))
    BY <1>3, <1>4, RemoveShrinks
  <2>2. CASE p \in About(r)
    BY <1>3, <2>1, <2>2 DEF Fits
  <2>3. CASE p \notin About(r)
    <3>1. Fits(before, p) /\ Cardinality(Named(after, p)) = Cardinality(Named(before, p))
      BY <1>2, <2>1, <2>3
    <3> QED BY <1>3, <2>1, <3>1, FitsShrinks
  <2> QED BY <2>2, <2>3
<1>5. CASE EditOf[r].kind = "merge"
  <2>1. Named(after, p) = Named(before, p) /\ \A i \in Named(before, p) : after[i] = before[i]
    BY <1>3, <1>5, ExtendsKeepsNamed DEF Grown
  <2>2. Fits(before, p)
    BY <1>2
  <2>3. \A i \in Named(before, p) : after[i].quantity <= OnHand[p]
    BY <2>1, <2>2 DEF Fits
  <2> QED BY <1>3, <2>1, <2>2, <2>3, FitsSame
<1>6. CASE EditOf[r].kind \notin {"remove", "merge"}
  <2>1. Len(before) \in Nat /\ Len(after) \in Nat /\ Len(before) <= Len(after)
    BY <1>3, <1>6 DEF CartLines, Grown, Extends
  <2>2. Len(after) # Len(before)
    BY <1>1, <1>2 DEF SetsQuantities
  <2>3. Len(after) > Len(before)
    BY <2>1, <2>2
  <2>4. SubSeq(after, 1, Len(before)) = before /\ Len(after) <= Len(before) + 1
    BY <1>3, <1>6, <2>3 DEF Grown, Modest
  <2>5. Len(EditOf[r].items) = 1
    BY <1>6, CartsAssumption, SavingTypes
  <2>6. Len(after) = Len(before) + 1
    BY <2>1, <2>3, <2>4
  <2> QED BY <1>1, <1>2, <2>3, <2>4, <2>5, <2>6 DEF Pushes
<1> QED BY <1>4, <1>5, <1>6

LEMMA SavedFits ==
  ASSUME CartsInv, NEW r \in Edits, Saving(r), MaySave(r), NEW p \in Goods,
         Fits(cart.lines, p), Fits(Before(r), p),
         EditOf[r].kind = "merge" => p \notin About(r),
         Pushes(r) => \A l \in Range(Added(r)) : l.product = p => Named(cart.lines, p) = {}
  PROVE  Fits(SavedCart(r).lines, p)
<1>1. CASE Pushes(r)
  BY <1>1, PushFits DEF MaySave
<1>2. CASE ~Pushes(r) /\ SetsQuantities(r)
  BY <1>2, SetFits DEF MaySave
<1>3. CASE ~Pushes(r) /\ ~SetsQuantities(r)
  BY <1>3, WholeFits DEF MaySave
<1> QED BY <1>1, <1>2, <1>3

LEMMA InsertedFits ==
  ASSUME CartsInv, NEW r \in Edits, InsertCart(r), cart = NoCart, NEW p \in Goods,
         EditOf[r].kind = "merge" => p \notin About(r)
  PROVE  Fits(Lines(cart'), p)
<1>1. CASE p \notin About(r)
  <2>1. Named(Lines(cart'), p) = {}
    BY <1>1, InsertedOwn
  <2> QED BY <2>1 DEF Fits
<1>2. CASE p \in About(r)
  <2>1. PICK lines : lines = Edited(<<>>, r)
    OBVIOUS
  <2>2. Grown(<<>>, lines, r) /\ lines \in CartLines
    BY <2>1, InsertedLines DEF Grown, InsertCart
  <2>3. cart' = [id |-> carts + 1, version |-> 0, lines |-> lines]
    BY <2>1 DEF InsertCart
  <2>4. cart' \in CartDocs
    BY <2>2, <2>3 DEF CartsInv, CartsTypeOK, CartDocs, CartLines, CartLine
  <2>5. Lines(cart') = lines
    BY <2>3, <2>4, DocTypes DEF Lines
  <2>6. Modest(<<>>, lines)
    BY <1>2, <2>2 DEF Grown
  <2>7. Len(lines) <= 1 /\ DOMAIN lines = 1..Len(lines) /\ Len(lines) \in Nat
    BY <2>2, <2>6 DEF Modest, CartLines
  <2>8. \A i \in DOMAIN lines : i = 1
    BY <2>7
  <2>9. \A i \in DOMAIN lines : lines[i].quantity <= OnHand[lines[i].product]
    BY <2>6 DEF Modest
  <2> QED BY <2>5, <2>8, <2>9 DEF Fits, Named
<1> QED BY <1>1, <1>2

\* A product that is not excused after a step was not before it.
LEMMA ExcusesStay ==
  ASSUME CartsInv, CartsNext, NEW p
  PROVE  /\ p \in doubled => p \in doubled'
         /\ MergedIn(p) => MergedIn(p)'
<1>1. ASSUME NEW r \in Edits, ReadCart(r) \/ InsertCart(r) \/ SaveCart(r) \/ ClearCart(r)
      PROVE  /\ doubled \subseteq doubled'
             /\ edit[r].pc # "saved"
             /\ \A q \in Edits \ {r} : edit'[q] = edit[q]
  <2>1. CASE ReadCart(r)
    BY <2>1 DEF ReadCart, CartsInv, CartsTypeOK
  <2>2. CASE InsertCart(r)
    BY <2>2 DEF InsertCart, CartsInv, CartsTypeOK, Finish
  <2>3. CASE SaveCart(r)
    BY <2>3 DEF SaveCart, CartsInv, CartsTypeOK, Finish
  <2>4. CASE ClearCart(r)
    BY <2>4 DEF ClearCart, CartsInv, CartsTypeOK, Finish
  <2> QED BY <1>1, <2>1, <2>2, <2>3, <2>4
<1>2. PICK r \in Edits : /\ doubled \subseteq doubled'
                        /\ edit[r].pc # "saved"
                        /\ \A q \in Edits \ {r} : edit'[q] = edit[q]
  BY <1>1 DEF CartsNext
<1>3. ASSUME MergedIn(p) PROVE MergedIn(p)'
  <2>1. PICK q \in Edits : EditOf[q].kind = "merge" /\ edit[q].pc = "saved" /\ p \in About(q)
    BY <1>3 DEF MergedIn
  <2>2. edit'[q] = edit[q]
    BY <1>2, <2>1
  <2> QED BY <2>1, <2>2 DEF MergedIn, About
<1> QED BY <1>2, <1>3

LEMMA FinishSeen ==
  ASSUME CartsInv, NEW r \in Edits, NEW pc, Finish(r, pc)
  PROVE  edit'[r].pc = pc /\ \A q \in Edits : edit'[q].seen = edit[q].seen
BY DEF CartsInv, CartsTypeOK, Finish

LEMMA FitStep ==
  ASSUME CartsInv, CartsNext, NEW p \in Goods, Fits(Lines(cart), p),
         \A q \in Edits : Fits(Lines(edit[q].seen), p), p \notin doubled', ~MergedIn(p)'
  PROVE  /\ Fits(Lines(cart'), p)
         /\ \A q \in Edits : Fits(Lines(edit'[q].seen), p)
<1>1. ASSUME NEW r \in Edits, ReadCart(r)
      PROVE  /\ cart' = cart
             /\ \A q \in Edits : edit'[q].seen = edit[q].seen \/ edit'[q].seen = cart
  BY <1>1 DEF ReadCart, CartsInv, CartsTypeOK
<1>2. ASSUME NEW r \in Edits, InsertCart(r)
      PROVE  /\ Fits(Lines(cart'), p)
             /\ \A q \in Edits : edit'[q].seen = edit[q].seen
  <2>1. CASE cart = NoCart
    <3>1. Finish(r, "saved")
      BY <1>2, <2>1 DEF InsertCart
    <3>2. edit'[r].pc = "saved" /\ \A q \in Edits : edit'[q].seen = edit[q].seen
      BY <3>1, FinishSeen
    <3>3. EditOf[r].kind = "merge" => p \notin About(r)
      BY <3>2 DEF MergedIn, About
    <3> QED BY <1>2, <2>1, <3>2, <3>3, InsertedFits
  <2>2. CASE cart # NoCart
    <3>1. Finish(r, "failed") /\ cart' = cart
      BY <1>2, <2>2 DEF InsertCart
    <3> QED BY <3>1, FinishSeen
  <2> QED BY <2>1, <2>2
<1>3. ASSUME NEW r \in Edits, SaveCart(r)
      PROVE  /\ Fits(Lines(cart'), p)
             /\ \A q \in Edits : edit'[q].seen = edit[q].seen
  <2>1. Saving(r)
    BY <1>3 DEF SaveCart, Saving
  <2>2. CASE Changes(r) /\ MaySave(r)
    <3>1. cart' = SavedCart(r) /\ Finish(r, "saved")
      BY <1>3, <2>2 DEF SaveCart
    <3>2. edit'[r].pc = "saved" /\ \A q \in Edits : edit'[q].seen = edit[q].seen
      BY <3>1, FinishSeen
    <3>3. EditOf[r].kind = "merge" => p \notin About(r)
      BY <3>2 DEF MergedIn, About
    <3>4. cart \in CartDocs /\ SavedCart(r) \in CartDocs /\ edit[r].seen \in CartDocs
      BY <2>1, <2>2, SavedMoves, SavingTypes
    <3>5. /\ Lines(cart) = cart.lines /\ Lines(cart') = SavedCart(r).lines
          /\ Lines(edit[r].seen) = Before(r)
      BY <3>1, <3>4, DocTypes DEF Before
    <3>6. Fits(cart.lines, p) /\ Fits(Before(r), p)
      BY <3>5
    <3>7. ASSUME Pushes(r), NEW l \in Range(Added(r)), l.product = p
          PROVE  Named(cart.lines, p) = {}
      <4>1. doubled' = doubled \cup {line.product : line \in
                               {x \in Range(Added(r)) : Named(cart.lines, x.product) # {}}}
        BY <1>3, <2>2, <3>7 DEF SaveCart
      <4> QED BY <3>7, <4>1
    <3>8. Fits(SavedCart(r).lines, p)
      BY <2>1, <2>2, <3>3, <3>6, <3>7, SavedFits
    <3> QED BY <3>2, <3>5, <3>8
  <2>3. CASE ~(Changes(r) /\ MaySave(r))
    <3>1. cart' = cart /\ (Finish(r, "saved") \/ Finish(r, "failed"))
      BY <1>3, <2>3 DEF SaveCart
    <3> QED BY <3>1, FinishSeen
  <2> QED BY <2>2, <2>3
<1>4. ASSUME NEW r \in Edits, ClearCart(r)
      PROVE  /\ Fits(Lines(cart'), p)
             /\ \A q \in Edits : edit'[q].seen = edit[q].seen
  <2>1. cart' = NoCart /\ Finish(r, "saved")
    BY <1>4 DEF ClearCart
  <2>2. Lines(cart') = <<>>
    BY <2>1 DEF Lines
  <2> QED BY <2>1, <2>2, FitsEmpty, FinishSeen
<1>5. ASSUME NEW r \in Edits, ReadCart(r)
      PROVE  /\ Fits(Lines(cart'), p)
             /\ \A q \in Edits : Fits(Lines(edit'[q].seen), p)
  <2>1. ASSUME NEW q \in Edits PROVE Fits(Lines(edit'[q].seen), p)
    <3>1. CASE edit'[q].seen = cart
      BY <3>1
    <3>2. CASE edit'[q].seen = edit[q].seen
      BY <3>2
    <3> QED BY <1>1, <1>5, <3>1, <3>2
  <2> QED BY <1>1, <1>5, <2>1
<1>6. ASSUME \A q \in Edits : edit'[q].seen = edit[q].seen
      PROVE  \A q \in Edits : Fits(Lines(edit'[q].seen), p)
  BY <1>6
<1> QED BY <1>2, <1>3, <1>4, <1>5, <1>6 DEF CartsNext

LEMMA CartsFitStep == CartsInv /\ CartsFit /\ [CartsNext]_cartVars => CartsFit'
<1> SUFFICES ASSUME CartsInv, CartsFit, [CartsNext]_cartVars PROVE CartsFit'
  OBVIOUS
<1>1. CASE UNCHANGED cartVars
  BY <1>1 DEF cartVars, CartsFit, MergedIn, About, Lines, Fits, Named
<1>2. CASE CartsNext
  <2>1. ASSUME NEW p \in Goods, p \notin doubled', ~MergedIn(p)'
        PROVE  (Fits(Lines(cart), p) /\ \A r \in Edits : Fits(Lines(edit[r].seen), p))'
    <3>1. p \notin doubled /\ ~MergedIn(p)
      BY <1>2, <2>1, ExcusesStay
    <3>2. Fits(Lines(cart), p) /\ \A q \in Edits : Fits(Lines(edit[q].seen), p)
      BY <3>1 DEF CartsFit
    <3>3. Fits(Lines(cart'), p) /\ \A q \in Edits : Fits(Lines(edit'[q].seen), p)
      BY <1>2, <2>1, <3>2, FitStep
    <3> QED BY <3>3
  <2> QED BY <2>1 DEF CartsFit
<1> QED BY <1>1, <1>2

LEMMA CartsFitStart == ASSUME BasketFits PROVE CartsInit => CartsFit
<1> SUFFICES ASSUME CartsInit PROVE CartsFit
  OBVIOUS
<1>1. cart \in CartDocs /\ cart.lines = Basket
  BY CartsAssumption DEF CartsInit, CartDocs
<1>2. Lines(cart) = Basket
  BY <1>1, DocTypes
<1>3. \A r \in Edits : Lines(edit[r].seen) = <<>>
  BY DEF CartsInit, Lines
<1> QED BY <1>2, <1>3, FitsEmpty DEF CartsFit, BasketFits

\* A product of which each line fits adds up to no more than the stock.
LEMMA FitsUnits ==
  ASSUME CartsInv, NEW p \in Goods, Fits(Lines(cart), p)
  PROVE  Units(p) <= OnHand[p] /\ Units(p) \in Int
<1>1. PICK lines : lines = Lines(cart)
  OBVIOUS
<1>2. lines \in CartLines
  <2>1. cart \in CartDocs \cup {NoCart}
    BY DEF CartsInv, CartsTypeOK
  <2>2. CASE cart = NoCart
    BY <1>1, <2>2 DEF Lines, CartLines
  <2>3. CASE cart # NoCart
    BY <1>1, <2>1, <2>3, DocTypes
  <2> QED BY <2>2, <2>3
<1> DEFINE S == Named(lines, p)
           f == [i \in S |-> cart.lines[i].quantity]
<1>3. Units(p) = SumFunctionOnSet(f, S)
  BY <1>1 DEF Units, SumFunction
<1>4. IsFiniteSet(S)
  BY <1>2, NamedFinite
<1>5. OnHand[p] \in Nat
  BY CartsAssumption
<1>6. CASE S = {}
  <2>1. SumFunctionOnSet(f, S) = 0
    <3> HIDE DEF f
    <3> QED BY <1>6, SumEmpty
  <2> QED BY <1>3, <1>5, <2>1
<1>7. CASE S # {}
  <2>1. PICK i \in S : TRUE
    BY <1>7
  <2>2. S = {i} /\ lines[i].quantity <= OnHand[p] /\ i \in DOMAIN lines
    BY <1>1, <2>1 DEF Fits, Named
  <2>3. lines[i].quantity \in Nat
    BY <1>2, <2>2, LineTypes
  <2>4. cart # NoCart
    <3>1. lines # <<>>
      BY <2>2
    <3> QED BY <1>1, <3>1 DEF Lines
  <2>5. f[i] = lines[i].quantity
    BY <1>1, <2>1, <2>4 DEF Lines
  <2> HIDE DEF f, S
  <2>6. \A x \in S : f[x] \in Int
    BY <2>2, <2>3, <2>5
  <2>7. SumFunctionOnSet(f, S) = f[i] + SumFunctionOnSet(f, S \ {i})
    BY <1>4, <2>1, <2>6, SumRemove
  <2>8. SumFunctionOnSet(f, S \ {i}) = 0
    <3>1. S \ {i} = {}
      BY <2>2
    <3> QED BY <3>1, SumEmpty
  <2> QED BY <1>3, <2>2, <2>3, <2>5, <2>7, <2>8
<1> QED BY <1>6, <1>7

\* WithinStock: a cart that began within the stock asks for more than there is
\* only of products that were merged unchecked or got a second line.
THEOREM CartsWithinStock ==
  ASSUME BasketFits
  PROVE  CartsInit /\ [][CartsNext]_cartVars => []WithinStock
<1>1. CartsInv /\ CartsFit => WithinStock
  <2> SUFFICES ASSUME CartsInv, CartsFit, NEW p \in Goods, Units(p) > OnHand[p],
                      p \notin doubled
               PROVE  MergedIn(p)
    BY DEF WithinStock, MergedIn
  <2>1. ASSUME ~MergedIn(p) PROVE FALSE
    <3>1. Fits(Lines(cart), p)
      BY <2>1 DEF CartsFit
    <3>2. Units(p) <= OnHand[p] /\ Units(p) \in Int /\ OnHand[p] \in Nat
      BY <3>1, FitsUnits, CartsAssumption
    <3> QED BY <3>2
  <2> QED BY <2>1
<1> QED BY <1>1, CartsStart, CartsFitStart, CartsStep, CartsFitStep, PTL

-----------------------------------------------------------------------------
(***************************************************************************)
(* Part 3: the services together.                                          *)
(***************************************************************************)
\* A step of the whole is a step of each service, or leaves it alone.
LEMMA StepsOfServices ==
  ASSUME [ServicesNext]_serviceVars
  PROVE  /\ [DirectNext]_shopVars /\ [FulfilmentNext]_pickVars
         /\ [EngineNext]_engineVars /\ [HistoryNext]_chatVars /\ [CartsNext]_cartVars
<1>1. CASE UNCHANGED serviceVars
  BY <1>1 DEF serviceVars
<1>2. CASE ServicesNext
  BY <1>2 DEF ServicesNext
<1> QED BY <1>1, <1>2

\* No step of one service disturbs another one: each implements its own
\* specification (the services share no variable).
LEMMA ServicesApart ==
  ServicesSpec => /\ DirectSpec
                  /\ FulfilmentInit /\ [][FulfilmentNext]_pickVars
                  /\ EngineInit /\ [][EngineNext]_engineVars
                  /\ HistoryInit /\ [][HistoryNext]_chatVars
                  /\ CartsInit /\ [][CartsNext]_cartVars
<1>1. ServicesInit => DirectInit /\ FulfilmentInit /\ EngineInit /\ HistoryInit /\ CartsInit
  BY DEF ServicesInit
<1>2. [ServicesNext]_serviceVars
        => /\ [DirectNext]_shopVars /\ [FulfilmentNext]_pickVars
           /\ [EngineNext]_engineVars /\ [HistoryNext]_chatVars /\ [CartsNext]_cartVars
  BY StepsOfServices
<1> QED BY <1>1, <1>2, PTL DEF ServicesSpec, DirectSpec

\* Every service keeps its types, for any number of orders, pickers, commands,
\* messages and requests.
THEOREM ServicesTyped ==
  ASSUME PickersFinite
  PROVE  ServicesSpec => []ServicesTypeOK
<1>1. /\ DirectTypeOK /\ FulfilmentTypeOK /\ EngineTypeOK /\ HistoryTypeOK /\ CartsTypeOK
        => ServicesTypeOK
  BY DEF ServicesTypeOK
<1>2. /\ FulfilmentInit /\ [][FulfilmentNext]_pickVars => []FulfilmentTypeOK
      /\ EngineInit /\ [][EngineNext]_engineVars => []EngineTypeOK
  BY FulfilmentTyped, EngineTypesHold
<1>3. /\ HistoryInit /\ [][HistoryNext]_chatVars => []HistoryTypeOK
      /\ CartsInit /\ [][CartsNext]_cartVars => []CartsTypeOK
  BY HistoryTyped, CartsTyped
<1> QED BY <1>1, <1>2, <1>3, DirectTyped, ServicesApart, PTL

=============================================================================
