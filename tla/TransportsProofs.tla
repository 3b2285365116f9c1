--------------------------- MODULE TransportsProofs ---------------------------
(***************************************************************************)
(* Proofs about the transports, for every number of companies, vehicles,   *)
(* products, requests and rows.                                            *)
(*                                                                         *)
(* Nothing is assumed of the operators: any request may overlap any other  *)
(* and the nightly job.  What a property does not promise is said in the   *)
(* property, by the history variables.                                     *)
(***************************************************************************)
EXTENDS Transports, SumProofs

Busy(c) == call[c] # None
VehicleOf(c) == call[c].row.vehicle

\* Requests that will need a row.
Creating == {c \in Callers : call[c] # None /\ call[c].op = "create"}
Room == created + Cardinality(Creating) <= MaxTransports

-----------------------------------------------------------------------------
\* A finite set of numbers that has one has a greatest one.
LEMMA GreatestIn ==
  ASSUME NEW S, IsFiniteSet(S), S \subseteq Int, S # {}
  PROVE  \E x \in S : \A y \in S : x >= y
<1>. DEFINE Greatest(U, x) == x \in U /\ \A y \in U : x >= y
            G == {U \in SUBSET S : U = {} \/ \E x \in U : Greatest(U, x)}
<1>1. ASSUME NEW U \in SUBSET S, \A V \in SUBSET U : V # U => V \in G
      PROVE  U \in G
  <2>. SUFFICES ASSUME U # {} PROVE \E x \in U : Greatest(U, x)
    OBVIOUS
  <2>1. PICK z \in U : TRUE
    OBVIOUS
  <2>2. U \ {z} \in G
    BY <1>1, <2>1
  <2>3. CASE U \ {z} = {}
    BY <2>1, <2>3
  <2>4. CASE U \ {z} # {}
    <3>1. PICK x \in U \ {z} : Greatest(U \ {z}, x)
      BY <2>2, <2>4
    <3>2. Greatest(U, IF x >= z THEN x ELSE z)
      BY <2>1, <3>1
    <3>. QED BY <2>1, <3>1, <3>2
  <2>. QED BY <2>3, <2>4
<1>2. S \in G
  <2>. HIDE DEF G
  <2>. QED BY <1>1, SubsetInduction
<1>. QED BY <1>2

\* The newest of a company's rows is one of them.
LEMMA NewestIn ==
  ASSUME NEW S, S \subseteq Ids, S # {}
  PROVE  Max(S) \in S
<1>1. IsFiniteSet(S) /\ S \subseteq Int
  <2>1. IsFiniteSet(1..MaxTransports) /\ 1..MaxTransports \subseteq Int
    BY FS_Interval, TransportsAssumption
  <2>. QED BY <2>1, FS_Subset DEF Ids
<1>. QED BY <1>1, GreatestIn DEF Max

LEMMA LastCodeNat ==
  ASSUME TypeOK, NEW k PROVE LastCode(k) \in Nat
<1>. DEFINE own == {t \in Ids : Live(t) /\ transport[t].company = k}
<1>1. CASE own = {}
  BY <1>1 DEF LastCode
<1>2. CASE own # {}
  <2>1. Max(own) \in own
    <3>1. own \subseteq Ids
      OBVIOUS
    <3>. HIDE DEF own
    <3>. QED BY <1>2, <3>1, NewestIn
  <2>2. transport[Max(own)].code \in Nat
    <3>1. Max(own) \in Ids /\ Live(Max(own))
      BY <2>1
    <3>. HIDE DEF own
    <3>. QED BY <3>1 DEF TypeOK, Live, Rows
  <2>. QED BY <1>2, <2>2 DEF LastCode
<1>. QED BY <1>1, <1>2

LEMMA CreatingFinite == IsFiniteSet(Creating) /\ Cardinality(Creating) \in Nat
BY FS_Subset, FS_CardinalityType, TransportsAssumption DEF Creating

-----------------------------------------------------------------------------
(***************************************************************************)
(* What each step makes of the requests: one of them begins, goes on or    *)
(* ends.                                                                   *)
(***************************************************************************)
LEMMA BeginCreateFacts ==
  ASSUME TypeOK, NEW c \in Callers, NEW v \in Vehicles, NEW load \in Loads, NEW s \in Starts,
         BeginCreate(c, v, load, s)
  PROVE  \E x \in Requests :
           /\ Begin(c, x) /\ x.op = "create" /\ x.t = 0
           /\ x.row.vehicle = v /\ x.row.status = s /\ x.row.load = load
<1>. DEFINE row == [company |-> Owner[v], code |-> 0, vehicle |-> v, status |-> s, load |-> load]
            x == [Request("create", 0, row) EXCEPT !.ask = load, !.left = Positive(load)]
<1>1. row \in Rows /\ load \in [Products -> Nat]
  BY TransportsAssumption DEF Rows
<1>2. x \in Requests
  BY <1>1 DEF Requests, Request, Positive, Rows
<1>3. /\ x.op = "create" /\ x.t = 0
      /\ x.row.vehicle = v /\ x.row.status = s /\ x.row.load = load
  BY DEF Request
<1>4. Begin(c, x)
  BY DEF BeginCreate
<1>. QED BY <1>2, <1>3, <1>4

UnitLoads == {[p \in Products |-> IF p = q THEN 1 ELSE 0] : q \in Products}

LEMMA BeginAddFacts ==
  ASSUME TypeOK, NEW c \in Callers, NEW t \in Ids, NEW p \in Products, BeginAdd(c, t, p, 1)
  PROVE  \E x \in Requests :
           /\ Begin(c, x) /\ x.op = "add" /\ x.t = t
           /\ Live(t) /\ x.row = transport[t]
           /\ x.row.status = "PENDING" /\ x.ask \in UnitLoads
<1>. DEFINE x == [Request("add", t, transport[t]) EXCEPT !.ask[p] = 1, !.left = {p}]
<1>1. Live(t) /\ transport[t] \in Rows /\ transport[t].status = "PENDING"
  BY DEF BeginAdd, Live, Pending, TypeOK
<1>2. x.ask = [q \in Products |-> IF q = p THEN 1 ELSE 0]
  BY DEF Request
<1>3. x \in Requests
  BY <1>1 DEF Requests, Request, Rows
<1>4. /\ x.op = "add" /\ x.t = t /\ x.row = transport[t]
  BY DEF Request
<1>5. Begin(c, x)
  BY DEF BeginAdd
<1>6. x.ask \in UnitLoads
  BY <1>2 DEF UnitLoads
<1>. QED BY <1>1, <1>3, <1>4, <1>5, <1>6

LEMMA BeginUpdateFacts ==
  ASSUME TypeOK, NEW c \in Callers, NEW t \in Ids, NEW to \in Statuses \cup {"keep"},
         NEW v \in Vehicles \cup {None}, BeginUpdate(c, t, to, v)
  PROVE  \E x \in Requests :
           /\ Begin(c, x) /\ x.op = "update" /\ x.t = t /\ x.to = to
           /\ Live(t) /\ x.row = transport[t]
           /\ to = "DELIVERED" => x.row.status \in {"ARRIVED", "DELIVERED"}
<1>. DEFINE x == [Request("update", t, transport[t]) EXCEPT !.to = to, !.on = v]
<1>1. Live(t) /\ transport[t] \in Rows
  BY DEF BeginUpdate, Live, TypeOK
<1>2. x \in Requests
  BY <1>1 DEF Requests, Request, Rows
<1>3. x.op = "update" /\ x.t = t /\ x.to = to /\ x.row = transport[t]
  BY DEF Request
<1>4. Begin(c, x) /\ (to = "DELIVERED" => transport[t].status \in {"ARRIVED", "DELIVERED"})
  BY DEF BeginUpdate
<1>. QED BY <1>1, <1>2, <1>3, <1>4

LEMMA BeginRemoveFacts ==
  ASSUME TypeOK, NEW c \in Callers, NEW t \in Ids, BeginRemove(c, t)
  PROVE  \E x \in Requests :
           /\ Begin(c, x) /\ x.op = "remove" /\ x.t = t
           /\ Live(t) /\ x.row = transport[t]
           /\ x.row.status \in {"PENDING", "CANCELED"}
<1>. DEFINE x == Request("remove", t, transport[t])
<1>1. Live(t) /\ transport[t] \in Rows /\ transport[t].status \in {"PENDING", "CANCELED"}
  BY DEF BeginRemove, Live, TypeOK
<1>2. x \in Requests
  BY <1>1 DEF Requests, Request, Rows
<1>3. x.op = "remove" /\ x.t = t /\ x.row = transport[t]
  BY DEF Request
<1>4. Begin(c, x)
  BY DEF BeginRemove
<1>. QED BY <1>1, <1>2, <1>3, <1>4

\* What a check of a product or the reading of the number leaves of a request.
SameRequest(x, y) ==
  /\ x.op = y.op /\ x.t = y.t /\ x.ask = y.ask /\ x.to = y.to /\ x.on = y.on
  /\ x.row.vehicle = y.row.vehicle /\ x.row.status = y.row.status
  /\ x.row.load = y.row.load
  /\ x.op # "create" => x.row = y.row

GoesOn(c, x) ==
  /\ call' = [call EXCEPT ![c] = x] /\ UNCHANGED <<tables, begun, night, history>>
  /\ Busy(c) /\ SameRequest(x, call[c])

LEMMA CheckProductFacts ==
  ASSUME TypeOK, NEW c \in Callers, CheckProduct(c)
  PROVE  \E x \in Requests : GoesOn(c, x)
<1>1. call[c] \in Requests /\ Busy(c)
  BY DEF CheckProduct, TypeOK, Busy
<1>2. PICK p \in call[c].left : call' = [call EXCEPT ![c].left = @ \ {p}]
  BY DEF CheckProduct
<1>. DEFINE x == [call[c] EXCEPT !.left = @ \ {p}]
<1>3. x \in Requests /\ SameRequest(x, call[c])
  BY <1>1 DEF Requests, SameRequest
<1>4. call' = [call EXCEPT ![c] = x]
  BY <1>2
<1>. QED BY <1>1, <1>3, <1>4 DEF CheckProduct, GoesOn

LEMMA ReadCodeFacts ==
  ASSUME TypeOK, NEW c \in Callers, ReadCode(c)
  PROVE  \E x \in Requests : GoesOn(c, x)
<1>1. call[c] \in Requests /\ Busy(c) /\ call[c].op = "create"
  BY DEF ReadCode, TypeOK, Busy
<1>. DEFINE n == LastCode(call[c].row.company) + 1
            x == [call[c] EXCEPT !.row.code = n]
<1>2. n \in Nat
  BY LastCodeNat
<1>3. x \in Requests /\ SameRequest(x, call[c])
  <2>. HIDE DEF n
  <2>. QED BY <1>1, <1>2 DEF Requests, Rows, SameRequest
<1>4. call' = [call EXCEPT ![c] = x]
  BY DEF ReadCode
<1>. QED BY <1>1, <1>3, <1>4 DEF ReadCode, GoesOn

-----------------------------------------------------------------------------
(***************************************************************************)
(* The types, with room for the rows of the creations under way.           *)
(***************************************************************************)
Typed == TypeOK /\ Room

HistoryTyped ==
  /\ crowded \subseteq Vehicles /\ misled \subseteq Vehicles
  /\ disputed \in [Endings -> SUBSET Products]

LEMMA HistoryStaysTyped ==
  ASSUME TypeOK, Remember \/ UNCHANGED history PROVE HistoryTyped'
<1>1. CASE Remember
  <2>1. ASSUME NEW e, NEW c PROVE Misread(c, e) \cup Miscounted(c) \subseteq Products
    BY DEF Misread, Miscounted, Positive
  <2>2. ASSUME NEW e, NEW t PROVE Reopened(t, e) \subseteq Products
    BY DEF Reopened, Positive
  <2>. DEFINE P(e) == UNION {Misread(c, e) \cup Miscounted(c) : c \in {d \in Callers : Ends(d)}}
              Q(e) == UNION {Reopened(t, e) : t \in Ids}
              D(e) == disputed[e] \cup P(e) \cup Q(e)
  <2>3. ASSUME NEW e \in Endings PROVE D(e) \subseteq Products
    <3>1. P(e) \subseteq Products
      BY <2>1, Zenon
    <3>2. Q(e) \subseteq Products
      BY <2>2, Zenon
    <3>3. disputed[e] \subseteq Products
      BY DEF TypeOK
    <3>. HIDE DEF P, Q
    <3>. QED BY <3>1, <3>2, <3>3
  <2>4. disputed' = [e \in Endings |-> D(e)]
    BY <1>1 DEF Remember
  <2>5. crowded' \subseteq Vehicles /\ misled' \subseteq Vehicles
    BY <1>1 DEF Remember, TypeOK
  <2>. HIDE DEF D
  <2>. QED BY <2>3, <2>4, <2>5 DEF HistoryTyped
<1>2. CASE UNCHANGED history
  BY <1>2 DEF history, HistoryTyped, TypeOK
<1>. QED BY <1>1, <1>2

LEMMA TypedInit == Init => Typed
<1>. SUFFICES ASSUME Init PROVE Typed
  OBVIOUS
<1>1. TypeOK
  BY TransportsAssumption DEF Init, TypeOK, VehicleStatuses
<1>2. Creating = {}
  BY DEF Init, Creating
<1>. QED BY <1>1, <1>2, FS_EmptySet, TransportsAssumption DEF Init, Room, Typed

LEMMA CreatingGrows ==
  ASSUME NEW c \in Callers, call[c] = None, call \in [Callers -> Requests \cup {None}],
         NEW x \in Requests, call' = [call EXCEPT ![c] = x]
  PROVE  /\ x.op # "create" => Creating' = Creating
         /\ x.op = "create" => Cardinality(Creating') = Cardinality(Creating) + 1
<1>1. x # None
  BY RowAssumption
<1>2. c \notin Creating
  BY DEF Creating
<1>3. ASSUME x.op # "create" PROVE Creating' = Creating
  BY <1>1, <1>2, <1>3 DEF Creating
<1>4. ASSUME x.op = "create" PROVE Cardinality(Creating') = Cardinality(Creating) + 1
  <2>1. Creating' = Creating \cup {c}
    BY <1>1, <1>2, <1>4 DEF Creating
  <2>. QED BY <1>2, <2>1, CreatingFinite, FS_AddElement
<1>. QED BY <1>3, <1>4

LEMMA CreatingGoesOn ==
  ASSUME TypeOK, NEW c \in Callers, NEW x \in Requests, GoesOn(c, x)
  PROVE  Creating' = Creating
BY RowAssumption DEF TypeOK, GoesOn, SameRequest, Busy, Creating

LEMMA CreatingEnds ==
  ASSUME TypeOK, NEW c \in Callers, Busy(c), Answered(c)
  PROVE  /\ Cardinality(Creating') <= Cardinality(Creating)
         /\ Cardinality(Creating') \in Nat
         /\ call[c].op = "create" => Cardinality(Creating') = Cardinality(Creating) - 1
<1>1. Creating' = Creating \ {c}
  BY DEF TypeOK, Answered, Creating
<1>2. call[c].op = "create" => c \in Creating
  BY DEF Busy, Creating
<1>3. IsFiniteSet(Creating \ {c}) /\ Cardinality(Creating \ {c}) \in Nat
  BY CreatingFinite, FS_Subset, FS_CardinalityType
<1>4. Cardinality(Creating \ {c}) = IF c \in Creating THEN Cardinality(Creating) - 1
                                                     ELSE Cardinality(Creating)
  BY CreatingFinite, FS_RemoveElement
<1>. QED BY <1>1, <1>2, <1>3, <1>4, CreatingFinite

\* A row keeps its type through every write.
LEMMA WrittenTyped ==
  ASSUME TypeOK, NEW c \in Callers, Busy(c), NEW t \in Ids, Live(t), WriteRow(c, t)
  PROVE  transport' \in [Ids -> Rows \cup {None}]
<1>. DEFINE r == [transport[t] EXCEPT
                   !.status = IF call[c].to = "keep" THEN @ ELSE call[c].to,
                   !.vehicle = IF call[c].on = None THEN @ ELSE call[c].on]
<1>1. /\ transport[t] \in Rows /\ call[c].to \in Statuses \cup {"keep"}
      /\ call[c].on \in Vehicles \cup {None}
  BY DEF TypeOK, Live, Busy, Requests
<1>2. r \in Rows
  BY <1>1 DEF Rows
<1>3. transport' = [transport EXCEPT ![t] = r]
  BY DEF WriteRow
<1>. HIDE DEF r
<1>. QED BY <1>2, <1>3 DEF TypeOK

LEMMA FreedTyped ==
  ASSUME TypeOK, NEW c \in Callers, Busy(c)
  PROVE  /\ Freed(call[c].row.vehicle) \in [Vehicles -> VehicleStatuses]
         /\ [vehicle EXCEPT ![call[c].row.vehicle] = "in_use"] \in [Vehicles -> VehicleStatuses]
BY DEF TypeOK, Freed, VehicleStatuses

LEMMA AccountTyped ==
  ASSUME TypeOK, NEW load \in [Products -> Nat]
  PROVE  Reserved(load) \in [Products -> Int] /\ Returned(load) \in [Products -> Int]
BY DEF TypeOK, Reserved, Returned

LEMMA RequestTyped ==
  ASSUME TypeOK, NEW c \in Callers, Busy(c)
  PROVE  /\ call[c] \in Requests /\ call[c].row \in Rows /\ VehicleOf(c) \in Vehicles
         /\ call[c].row.load \in [Products -> Nat] /\ call[c].ask \in [Products -> Nat]
BY DEF TypeOK, Busy, VehicleOf, Requests, Rows

LEMMA BegunTyped ==
  ASSUME Typed, NEW c \in Callers, NEW x \in Requests, Begin(c, x),
         x.op = "create" => created + Cardinality(Creating) < MaxTransports
  PROVE  Typed'
<1>1. TypeOK'
  <2>1. HistoryTyped'
    BY HistoryStaysTyped DEF Typed, Begin
  <2>2. begun' \in 0..MaxRequests
    BY TransportsAssumption DEF Typed, TypeOK, Begin
  <2>. QED BY <2>1, <2>2 DEF Typed, TypeOK, Begin, tables, HistoryTyped
<1>2. Room'
  <2>1. /\ created' = created /\ created \in Nat /\ MaxTransports \in Nat
        /\ call[c] = None /\ call' = [call EXCEPT ![c] = x]
        /\ call \in [Callers -> Requests \cup {None}]
    BY TransportsAssumption DEF Typed, TypeOK, Begin, tables
  <2>2. CASE x.op # "create"
    BY <2>1, <2>2, CreatingGrows DEF Typed, Room
  <2>3. CASE x.op = "create"
    <3>1. Cardinality(Creating') = Cardinality(Creating) + 1
      BY <2>1, <2>3, CreatingGrows
    <3>2. created + Cardinality(Creating) < MaxTransports
      BY <2>3
    <3>. QED BY <2>1, <3>1, <3>2, CreatingFinite DEF Room
  <2>. QED BY <2>2, <2>3
<1>. QED BY <1>1, <1>2 DEF Typed

LEMMA GoneOnTyped ==
  ASSUME Typed, NEW c \in Callers, NEW x \in Requests, GoesOn(c, x)
  PROVE  Typed'
<1>1. TypeOK'
  BY DEF Typed, TypeOK, GoesOn, tables, history
<1>2. Room'
  BY CreatingGoesOn DEF Typed, Room, GoesOn, tables
<1>. QED BY <1>1, <1>2 DEF Typed

\* A request that ends and creates no row.
LEMMA EndedTyped ==
  ASSUME Typed, NEW c \in Callers, Busy(c), Answered(c), UNCHANGED <<created, begun, night>>,
         Remember \/ UNCHANGED history,
         transport' \in [Ids -> Rows \cup {None}],
         vehicle' \in [Vehicles -> VehicleStatuses], stock' \in [Products -> Int]
  PROVE  Typed'
<1>1. call' \in [Callers -> Requests \cup {None}]
  BY DEF Typed, TypeOK, Answered
<1>2. TypeOK'
  BY <1>1, HistoryStaysTyped DEF Typed, TypeOK, HistoryTyped
<1>3. Room'
  <2>1. Cardinality(Creating') <= Cardinality(Creating) /\ Cardinality(Creating') \in Nat
    BY CreatingEnds DEF Typed
  <2>2. created \in Nat /\ MaxTransports \in Nat
    BY TransportsAssumption DEF Typed, TypeOK
  <2>. QED BY <2>1, <2>2, CreatingFinite DEF Typed, Room
<1>. QED BY <1>2, <1>3 DEF Typed

LEMMA CreatedTyped ==
  ASSUME Typed, NEW c \in Callers, CommitCreate(c) PROVE Typed'
<1>1. Busy(c) /\ Answered(c) /\ call[c].op = "create"
  BY DEF CommitCreate, Busy
<1>2. call[c].row \in Rows /\ call[c].row.load \in [Products -> Nat]
  BY <1>1, RequestTyped DEF Typed
<1>3. /\ Cardinality(Creating') = Cardinality(Creating) - 1
      /\ Cardinality(Creating) \in Nat /\ Cardinality(Creating') \in Nat
  BY <1>1, CreatingEnds, CreatingFinite DEF Typed
<1>4. created' = created + 1 /\ created \in Nat /\ MaxTransports \in Nat
  BY TransportsAssumption DEF Typed, TypeOK, CommitCreate
<1>5. Room' /\ created' \in 0..MaxTransports
  BY <1>3, <1>4 DEF Typed, Room
<1>6. TypeOK'
  <2>1. call' \in [Callers -> Requests \cup {None}]
    BY <1>1 DEF Typed, TypeOK, Answered
  <2>2. transport' \in [Ids -> Rows \cup {None}]
    BY <1>2 DEF Typed, TypeOK, CommitCreate
  <2>3. vehicle' \in [Vehicles -> VehicleStatuses] /\ stock' \in [Products -> Int]
    BY <1>1, <1>2, FreedTyped, AccountTyped DEF Typed, CommitCreate
  <2>4. night' \subseteq Ids /\ begun' \in 0..MaxRequests
    BY DEF Typed, TypeOK, CommitCreate
  <2>5. HistoryTyped'
    BY HistoryStaysTyped DEF Typed, CommitCreate
  <2>. QED BY <1>5, <2>1, <2>2, <2>3, <2>4, <2>5 DEF TypeOK, HistoryTyped
<1>. QED BY <1>5, <1>6 DEF Typed

LEMMA UpdatedTyped ==
  ASSUME Typed, NEW c \in Callers, NEW t \in Ids, Deliver(c, t) \/ Cancel(c, t) \/ Edit(c, t)
  PROVE  Typed'
<1>1. /\ Busy(c) /\ Live(t) /\ WriteRow(c, t) /\ Answered(c)
      /\ UNCHANGED <<created, begun, night>> /\ Remember
      /\ stock' \in {stock, Returned(transport[t].load)}
      /\ vehicle' \in {vehicle, Freed(call[c].row.vehicle)}
  BY DEF Deliver, Cancel, Edit, Updating, Busy
<1>2. transport[t].load \in [Products -> Nat]
  BY <1>1 DEF Typed, TypeOK, Live, Rows
<1>3. stock' \in [Products -> Int]
  BY <1>1, <1>2, AccountTyped DEF Typed, TypeOK
<1>4. vehicle' \in [Vehicles -> VehicleStatuses]
  BY <1>1, FreedTyped DEF Typed, TypeOK
<1>5. transport' \in [Ids -> Rows \cup {None}]
  BY <1>1, WrittenTyped DEF Typed
<1>. QED BY <1>1, <1>3, <1>4, <1>5, EndedTyped

LEMMA AddedTyped ==
  ASSUME Typed, NEW c \in Callers, CommitAdd(c) PROVE Typed'
<1>. DEFINE t == call[c].t
            ask == call[c].ask
            r == [transport[t] EXCEPT !.load = [p \in Products |-> @[p] + ask[p]]]
<1>1. /\ Busy(c) /\ Live(t) /\ Answered(c) /\ UNCHANGED <<created, begun, night>> /\ Remember
      /\ transport' = [transport EXCEPT ![t] = r]
      /\ stock' = Reserved(ask) /\ vehicle' = [vehicle EXCEPT ![call[c].row.vehicle] = "in_use"]
  BY DEF CommitAdd, Busy
<1>2. ask \in [Products -> Nat]
  BY <1>1, RequestTyped DEF Typed
<1>3. ASSUME t \in Ids PROVE r \in Rows
  <2>1. transport[t] \in Rows
    BY <1>1, <1>3 DEF Typed, TypeOK, Live
  <2>. HIDE DEF t, ask
  <2>. QED BY <1>2, <2>1 DEF Rows
<1>4. transport' \in [Ids -> Rows \cup {None}]
  <2>. HIDE DEF t, r
  <2>. QED BY <1>1, <1>3 DEF Typed, TypeOK
<1>5. stock' \in [Products -> Int] /\ vehicle' \in [Vehicles -> VehicleStatuses]
  <2>. HIDE DEF ask
  <2>. QED BY <1>1, <1>2, AccountTyped, FreedTyped DEF Typed
<1>. QED BY <1>1, <1>4, <1>5, EndedTyped

LEMMA RemovedTyped ==
  ASSUME Typed, NEW c \in Callers, NEW t \in Ids, Remove(c, t) PROVE Typed'
<1>1. /\ Busy(c) /\ Answered(c) /\ UNCHANGED <<created, begun, night>> /\ Remember
      /\ transport' = [transport EXCEPT ![t] = None]
      /\ stock' \in {stock, Returned(call[c].row.load)}
      /\ vehicle' \in {vehicle, Freed(call[c].row.vehicle)}
  BY DEF Remove, Busy
<1>2. call[c].row.load \in [Products -> Nat]
  BY <1>1, RequestTyped DEF Typed
<1>3. stock' \in [Products -> Int] /\ vehicle' \in [Vehicles -> VehicleStatuses]
  BY <1>1, <1>2, AccountTyped, FreedTyped DEF Typed, TypeOK
<1>4. transport' \in [Ids -> Rows \cup {None}]
  BY <1>1 DEF Typed, TypeOK
<1>. QED BY <1>1, <1>3, <1>4, EndedTyped

LEMMA OthersTyped ==
  ASSUME Typed,
         \/ NightBegins
         \/ \E t \in Ids : NightArrival(t) \/ NightFails(t)
         \/ \E v \in Vehicles, s \in VehicleStatuses : SetVehicle(v, s)
         \/ UNCHANGED vars
  PROVE  Typed'
<1>1. call' = call /\ created' = created /\ stock' = stock
  BY DEF NightBegins, NightArrival, NightFails, SetVehicle, vars, tables
<1>2. Room'
  BY <1>1 DEF Typed, Room, Creating
<1>3. night' \subseteq Ids
  BY DEF Typed, TypeOK, NightBegins, NightArrival, NightFails, SetVehicle, vars
<1>4. vehicle' \in [Vehicles -> VehicleStatuses]
  BY DEF Typed, TypeOK, NightBegins, NightArrival, NightFails, SetVehicle, vars, tables
<1>5. transport' \in [Ids -> Rows \cup {None}]
  <2>1. CASE transport' = transport
    BY <2>1 DEF Typed, TypeOK
  <2>2. ASSUME NEW t \in Ids, NightArrival(t) PROVE transport' \in [Ids -> Rows \cup {None}]
    <3>1. transport[t] \in Rows
      BY <2>2 DEF Typed, TypeOK, NightArrival, Live
    <3>2. [transport[t] EXCEPT !.status = "ARRIVED"] \in Rows
      BY <3>1 DEF Rows, Statuses
    <3>. QED BY <2>2, <3>2 DEF Typed, TypeOK, NightArrival
  <2>. QED
    BY <2>1, <2>2 DEF NightBegins, NightFails, SetVehicle, vars, tables
<1>6. HistoryTyped' /\ begun' = begun
  <2>1. Remember \/ UNCHANGED history
    BY DEF NightBegins, NightArrival, NightFails, SetVehicle, vars, history
  <2>2. begun' = begun
    BY DEF NightBegins, NightArrival, NightFails, SetVehicle, vars
  <2>. QED BY <2>1, <2>2, HistoryStaysTyped DEF Typed
<1>. QED BY <1>1, <1>2, <1>3, <1>4, <1>5, <1>6 DEF Typed, TypeOK, HistoryTyped

LEMMA TypedNext == Typed /\ [Next]_vars => Typed'
<1>. SUFFICES ASSUME Typed, [Next]_vars PROVE Typed'
  OBVIOUS
<1>0. TypeOK
  BY DEF Typed
<1>1. ASSUME NEW c \in Callers, NEW v \in Vehicles, NEW load \in Loads, NEW s \in Starts,
             BeginCreate(c, v, load, s)
      PROVE  Typed'
  <2>1. created + Cardinality(Creating) < MaxTransports
    BY <1>1 DEF BeginCreate, Creating
  <2>. QED BY <1>0, <1>1, <2>1, BeginCreateFacts, BegunTyped
<1>2. ASSUME NEW c \in Callers, CheckProduct(c) \/ ReadCode(c) PROVE Typed'
  BY <1>0, <1>2, CheckProductFacts, ReadCodeFacts, GoneOnTyped
<1>3. ASSUME NEW c \in Callers, NEW t \in Ids, NEW p \in Products, BeginAdd(c, t, p, 1)
      PROVE  Typed'
  BY <1>0, <1>3, BeginAddFacts, BegunTyped
<1>4. ASSUME NEW c \in Callers, NEW t \in Ids, NEW u \in Updates, BeginUpdate(c, t, u[1], u[2])
      PROVE  Typed'
  <2>1. u[1] \in Statuses \cup {"keep"} /\ u[2] \in Vehicles \cup {None}
    BY TransportsAssumption
  <2>. QED BY <1>0, <1>4, <2>1, BeginUpdateFacts, BegunTyped
<1>5. ASSUME NEW c \in Callers, NEW t \in Ids, BeginRemove(c, t) PROVE Typed'
  BY <1>0, <1>5, BeginRemoveFacts, BegunTyped
<1>6. ASSUME NEW c \in Callers, Refuse(c) PROVE Typed'
  BY <1>6, EndedTyped DEF Typed, TypeOK, Refuse, Busy, tables, history
<1>. QED
  <2>1. Settable \subseteq VehicleStatuses
    BY TransportsAssumption
  <2>. QED
    BY <1>1, <1>2, <1>3, <1>4, <1>5, <1>6, <2>1, CreatedTyped, AddedTyped, UpdatedTyped,
       RemovedTyped, OthersTyped DEF Next

\* The tables keep their types, and the table of transports its room, through
\* every interleaving of requests and nightly arrivals.
THEOREM TransportsTyped == Spec => []TypeOK
<1>1. Typed => TypeOK
  BY DEF Typed
<1>. QED BY <1>1, TypedInit, TypedNext, PTL DEF Spec

-----------------------------------------------------------------------------
(***************************************************************************)
(* The kinds of step.  A request begins with the row as it is, or with a   *)
(* vehicle that is free.                                                   *)
(***************************************************************************)
RequestHolds(x) ==
  /\ x.op = "create" => x.row.load \in Loads
  /\ x.op = "add" => x.row.status = "PENDING" /\ x.ask \in UnitLoads
  /\ x.op = "update" /\ x.to = "DELIVERED" => x.row.status \in {"ARRIVED", "DELIVERED"}
  /\ x.op = "remove" => x.row.status \in {"PENDING", "CANCELED"}
  /\ x.op # "create" => x.t \in Ids

Fresh(x) ==
  /\ RequestHolds(x)
  /\ x.op = "create" => Carrying(x.row.vehicle) = {}
  /\ x.op # "create" => Live(x.t) /\ x.row = transport[x.t]

Idle == UNCHANGED <<tables, call, history>>

StepKinds ==
  \/ \E c \in Callers, x \in Requests : Begin(c, x) /\ Fresh(x)
  \/ \E c \in Callers, x \in Requests : GoesOn(c, x)
  \/ \E c \in Callers : Refuse(c) \/ CommitCreate(c) \/ CommitAdd(c)
  \/ \E c \in Callers, t \in Ids :
       Deliver(c, t) \/ Cancel(c, t) \/ Edit(c, t) \/ Remove(c, t)
  \/ \E t \in Ids : NightArrival(t)
  \/ \E v \in Vehicles, s \in VehicleStatuses : SetVehicle(v, s)
  \/ Idle

LEMMA StepIsKind ==
  ASSUME TypeOK, [Next]_vars PROVE StepKinds
<1>1. ASSUME NEW c \in Callers, NEW v \in Vehicles, NEW load \in Loads, NEW s \in Starts,
             BeginCreate(c, v, load, s)
      PROVE  \E x \in Requests : Begin(c, x) /\ Fresh(x)
  <2>1. Carrying(v) = {}
    BY <1>1 DEF BeginCreate, Available
  <2>. QED BY <1>1, <2>1, BeginCreateFacts DEF Fresh, RequestHolds
<1>2. ASSUME NEW c \in Callers, CheckProduct(c) \/ ReadCode(c)
      PROVE  \E x \in Requests : GoesOn(c, x)
  BY <1>2, CheckProductFacts, ReadCodeFacts
<1>3. ASSUME NEW c \in Callers, NEW t \in Ids, NEW p \in Products, BeginAdd(c, t, p, 1)
      PROVE  \E x \in Requests : Begin(c, x) /\ Fresh(x)
  BY <1>3, BeginAddFacts DEF Fresh, RequestHolds
<1>4. ASSUME NEW c \in Callers, NEW t \in Ids, NEW u \in Updates, BeginUpdate(c, t, u[1], u[2])
      PROVE  \E x \in Requests : Begin(c, x) /\ Fresh(x)
  <2>1. u[1] \in Statuses \cup {"keep"} /\ u[2] \in Vehicles \cup {None}
    BY TransportsAssumption
  <2>2. PICK x \in Requests :
           /\ Begin(c, x) /\ x.op = "update" /\ x.t = t /\ x.to = u[1]
           /\ Live(t) /\ x.row = transport[t]
           /\ u[1] = "DELIVERED" => x.row.status \in {"ARRIVED", "DELIVERED"}
    BY <1>4, <2>1, BeginUpdateFacts
  <2>. QED BY <2>2 DEF Fresh, RequestHolds
<1>5. ASSUME NEW c \in Callers, NEW t \in Ids, BeginRemove(c, t)
      PROVE  \E x \in Requests : Begin(c, x) /\ Fresh(x)
  BY <1>5, BeginRemoveFacts DEF Fresh, RequestHolds
<1>6. ASSUME NightBegins \/ UNCHANGED vars \/ \E t \in Ids : NightFails(t) PROVE Idle
  BY <1>6 DEF NightBegins, NightFails, vars, tables, history, Idle
<1>7. Settable \subseteq VehicleStatuses
  BY TransportsAssumption
<1>. QED BY <1>1, <1>2, <1>3, <1>4, <1>5, <1>6, <1>7 DEF Next, StepKinds

-----------------------------------------------------------------------------
(***************************************************************************)
(* What a step leaves of a row, of a request and of what is remembered.    *)
(***************************************************************************)
Quiet == UNCHANGED <<transport, vehicle, stock, created, history>>

\* The requests of a step that nothing is remembered of: none begins.
Continues(c) == Busy(c)' => Busy(c) /\ SameRequest(call'[c], call[c])

Begins(c) == \E x \in Requests : Begin(c, x) /\ Fresh(x)

LEMMA RequestFate ==
  ASSUME TypeOK, StepKinds, NEW c \in Callers
  PROVE  Begins(c) \/ Continues(c)
<1>. SUFFICES ASSUME Busy(c)', ~Begins(c) PROVE Busy(c) /\ SameRequest(call'[c], call[c])
  BY DEF Continues
<1>1. call \in [Callers -> Requests \cup {None}]
  BY DEF TypeOK
<1>2. ASSUME NEW d \in Callers, NEW x \in Requests, Begin(d, x) /\ Fresh(x)
      PROVE  Busy(c) /\ call'[c] = call[c]
  BY <1>1, <1>2 DEF Begin, Begins, Busy
<1>3. ASSUME NEW d \in Callers, NEW x \in Requests, GoesOn(d, x)
      PROVE  Busy(c) /\ SameRequest(call'[c], call[c])
  BY <1>1, <1>3 DEF GoesOn, Busy, SameRequest
<1>4. ASSUME NEW d \in Callers, Answered(d) PROVE Busy(c) /\ call'[c] = call[c]
  BY <1>1, <1>4 DEF Answered, Busy
<1>5. ASSUME NEW d \in Callers, Refuse(d) \/ CommitCreate(d) \/ CommitAdd(d)
      PROVE  Busy(c) /\ call'[c] = call[c]
  BY <1>4, <1>5 DEF Refuse, CommitCreate, CommitAdd
<1>6. ASSUME NEW d \in Callers, NEW t \in Ids,
             Deliver(d, t) \/ Cancel(d, t) \/ Edit(d, t) \/ Remove(d, t)
      PROVE  Busy(c) /\ call'[c] = call[c]
  BY <1>4, <1>6 DEF Deliver, Cancel, Edit, Remove
<1>7. ASSUME (\E t \in Ids : NightArrival(t))
               \/ (\E v \in Vehicles, s \in VehicleStatuses : SetVehicle(v, s)) \/ Idle
      PROVE  Busy(c) /\ call'[c] = call[c]
  BY <1>7 DEF NightArrival, SetVehicle, Idle, Busy
<1>8. SameRequest(call[c], call[c])
  BY DEF SameRequest
<1>. QED BY <1>2, <1>3, <1>5, <1>6, <1>7, <1>8 DEF StepKinds

\* Every step that changes the tables, and every one that begins a request, is
\* remembered.
LEMMA StepRemembered ==
  ASSUME StepKinds
  PROVE  Remember \/ (Quiet /\ \A c \in Callers : ~Begins(c))
<1>1. ASSUME NEW c \in Callers, NEW x \in Requests, Begin(c, x) PROVE Remember
  BY <1>1 DEF Begin
<1>2. ASSUME \E c \in Callers : CommitCreate(c) \/ CommitAdd(c) PROVE Remember
  BY <1>2 DEF CommitCreate, CommitAdd
<1>3. ASSUME \E c \in Callers, t \in Ids :
               Deliver(c, t) \/ Cancel(c, t) \/ Edit(c, t) \/ Remove(c, t)
      PROVE  Remember
  BY <1>3 DEF Deliver, Cancel, Edit, Remove
<1>4. ASSUME (\E t \in Ids : NightArrival(t))
               \/ (\E v \in Vehicles, s \in VehicleStatuses : SetVehicle(v, s))
      PROVE  Remember
  BY <1>4 DEF NightArrival, SetVehicle
<1>5. ASSUME Idle \/ (\E c \in Callers, x \in Requests : GoesOn(c, x))
               \/ (\E c \in Callers : Refuse(c))
      PROVE  Quiet
  BY <1>5 DEF Idle, GoesOn, Refuse, tables, history, Quiet
<1>6. \A c \in Callers : Begins(c) => Remember
  BY <1>1 DEF Begins
<1>. QED BY <1>1, <1>2, <1>3, <1>4, <1>5, <1>6 DEF StepKinds

LEMMA HistoryGrows ==
  ASSUME TypeOK, StepKinds
  PROVE  crowded \subseteq crowded' /\ misled \subseteq misled'
         /\ \A e \in Endings : disputed[e] \subseteq disputed'[e]
<1>1. Remember \/ UNCHANGED history
  BY StepRemembered DEF Quiet
<1>2. CASE UNCHANGED history
  BY <1>2 DEF history
<1>3. CASE Remember
  <2>1. crowded \subseteq crowded' /\ misled \subseteq misled'
    BY <1>3 DEF Remember
  <2>. DEFINE P(e) == UNION {Misread(c, e) \cup Miscounted(c) : c \in {d \in Callers : Ends(d)}}
              Q(e) == UNION {Reopened(t, e) : t \in Ids}
  <2>2. disputed' = [e \in Endings |-> disputed[e] \cup P(e) \cup Q(e)]
    BY <1>3 DEF Remember
  <2>. HIDE DEF P, Q
  <2>. QED BY <2>1, <2>2
<1>. QED BY <1>1, <1>2, <1>3

\* A vehicle that is not crowded: no second creation for it, and no transport
\* came to it but the one created for it.
LEMMA NotCrowded ==
  ASSUME StepKinds, NEW v \in Vehicles, v \notin crowded'
  PROVE  /\ \A t \in Ids : ~(Live(t) /\ t \notin Carrying(v) /\ t \in Carrying(v)')
         /\ Quiet \/ \A c, d \in Callers : Creates(c, v)' /\ Creates(d, v)' => c = d
<1>1. CASE Remember
  <2>1. ~TwoCreate(v) /\ \A t \in Ids : ~ComesTo(t, v)
    BY <1>1 DEF Remember
  <2>. QED BY <2>1 DEF TwoCreate, ComesTo
<1>2. CASE Quiet
  BY <1>2 DEF Quiet, Carrying, Live
<1>. QED BY <1>1, <1>2, StepRemembered

\* A vehicle that is not misled.
LEMMA NotMisled ==
  ASSUME StepKinds, NEW v \in Vehicles, v \notin misled'
  PROVE  /\ \A t \in Ids : t \in Carrying(v) /\ Live(t)' => transport'[t].vehicle = v
         /\ (InUse(v) <=> InUse(v)') \/ \E c \in Callers : Ends(c) /\ ActsFor(c, v)
<1>1. CASE Remember
  <2>1. ~WrittenByStranger(v) /\ \A t \in Ids : ~TakenOff(t, v)
    BY <1>1 DEF Remember
  <2>2. \A t \in Ids : t \in Carrying(v) /\ Live(t)' => transport'[t].vehicle = v
    BY <2>1 DEF TakenOff
  <2>3. (InUse(v) # InUse(v)') => \E c \in Callers : Ends(c) /\ ActsFor(c, v)
    BY <2>1 DEF WrittenByStranger
  <2>. QED BY <2>2, <2>3, Zenon DEF InUse
<1>2. CASE Quiet
  BY <1>2 DEF Quiet, Carrying, Live, InUse
<1>. QED BY <1>1, <1>2, StepRemembered

-----------------------------------------------------------------------------
(***************************************************************************)
(* The vehicles.                                                           *)
(***************************************************************************)
RequestsHold ==
  \A c \in Callers : Busy(c) =>
    RequestHolds(call[c]) /\ (call[c].op # "create" => call[c].t <= created)

RowsInOrder == \A t \in Ids : Live(t) => t <= created

\* Two creations for a vehicle under way at once are remembered.
TwoMarked ==
  \A v \in Vehicles, c, d \in Callers :
    Creates(c, v) /\ Creates(d, v) => c = d \/ v \in crowded

\* A vehicle with a creation under way is still free.
BookedFree ==
  \A v \in Vehicles, c \in Callers : Creates(c, v) => Carrying(v) = {} \/ v \in crowded

OneCarrier ==
  \A v \in Vehicles \ crowded : \A s, t \in Carrying(v) : s = t

\* A request about the transport of a vehicle has read it there, and on its way.
StaleMarked ==
  \A v \in Vehicles \ crowded, c \in Callers :
    Busy(c) /\ call[c].op # "create" /\ call[c].t \in Carrying(v)
      => VehicleOf(c) = v /\ call[c].row.status \in Active

FlowInv ==
  Typed /\ RequestsHold /\ RowsInOrder /\ TwoMarked /\ BookedFree /\ OneCarrier /\ StaleMarked

\* The row of a creation that ends.
LEMMA NextId ==
  ASSUME Typed, NEW c \in Callers, CommitCreate(c)
  PROVE  created + 1 \in Ids /\ created \in Nat
<1>1. c \in Creating /\ IsFiniteSet(Creating) /\ Cardinality(Creating) \in Nat
  BY CreatingFinite DEF CommitCreate, Creating
<1>2. Cardinality(Creating \ {c}) = Cardinality(Creating) - 1
  BY <1>1, FS_RemoveElement
<1>3. Cardinality(Creating \ {c}) \in Nat
  BY <1>1, FS_Subset, FS_CardinalityType
<1>4. created \in Nat /\ MaxTransports \in Nat
  BY TransportsAssumption DEF Typed, TypeOK
<1>. QED BY <1>1, <1>2, <1>3, <1>4 DEF Typed, Room, Ids

LEMMA RowWritten ==
  ASSUME TypeOK, NEW t \in Ids, NEW r, transport' = [transport EXCEPT ![t] = r]
  PROVE  /\ transport'[t] = r /\ \A s \in Ids \ {t} : transport'[s] = transport[s]
         /\ \A v : \A s \in Ids : s # t => (s \in Carrying(v) <=> s \in Carrying(v)')
         /\ \A v : t \in Carrying(v)' <=> r # None /\ r.vehicle = v /\ r.status \in Active
BY DEF TypeOK, Carrying, Live

LEMMA NewRow ==
  ASSUME Typed, StepKinds, NEW t \in Ids, ~Live(t), Live(t)'
  PROVE  \E c \in Callers : CommitCreate(c) /\ t = created + 1
<1>1. transport \in [Ids -> Rows \cup {None}]
  BY DEF Typed, TypeOK
<1>2. ASSUME NEW c \in Callers, CommitCreate(c) PROVE t = created + 1
  <2>1. created + 1 \in Ids
    BY <1>2, NextId
  <2>. QED BY <1>1, <1>2, <2>1 DEF CommitCreate, Live
<1>3. ASSUME NEW c \in Callers, CommitAdd(c) PROVE FALSE
  BY <1>1, <1>3 DEF CommitAdd, Live
<1>4. ASSUME NEW c \in Callers, NEW s \in Ids, Deliver(c, s) \/ Cancel(c, s) \/ Edit(c, s)
      PROVE  FALSE
  BY <1>1, <1>4 DEF Deliver, Cancel, Edit, Updating, WriteRow, Live
<1>5. ASSUME NEW c \in Callers, NEW s \in Ids, Remove(c, s) PROVE FALSE
  BY <1>1, <1>5 DEF Remove, Live
<1>6. ASSUME NEW s \in Ids, NightArrival(s) PROVE FALSE
  BY <1>1, <1>6 DEF NightArrival, Live
<1>7. transport' # transport
  BY DEF Live
<1>. QED
  BY <1>2, <1>3, <1>4, <1>5, <1>6, <1>7
  DEF StepKinds, Begin, GoesOn, Refuse, SetVehicle, Idle, tables

\* The transports that are created, and the rows there are, grow together.
LEMMA CreatedGrows ==
  ASSUME Typed, StepKinds
  PROVE  \/ \E c \in Callers : CommitCreate(c) /\ created' = created + 1
         \/ created' = created
BY DEF StepKinds, Begin, GoesOn, Refuse, SetVehicle, Idle, tables, CommitCreate, CommitAdd,
       Deliver, Cancel, Edit, Remove, NightArrival

\* Where the transport of a vehicle that is not crowded comes from.
LEMMA CarriedBefore ==
  ASSUME Typed, StepKinds, NEW v \in Vehicles, v \notin crowded', NEW t \in Carrying(v)'
  PROVE  \/ t \in Carrying(v)
         \/ /\ ~Live(t) /\ t = created + 1
            /\ \E c \in Callers : CommitCreate(c) /\ Creates(c, v)
<1>1. t \in Ids /\ Live(t)'
  BY DEF Carrying
<1>2. CASE Live(t)
  BY <1>1, <1>2, NotCrowded
<1>3. CASE ~Live(t)
  <2>1. PICK c \in Callers : CommitCreate(c) /\ t = created + 1
    BY <1>1, <1>3, NewRow
  <2>2. transport' = [transport EXCEPT ![t] = call[c].row]
    BY <2>1 DEF CommitCreate
  <2>3. call[c].row.vehicle = v
    BY <1>1, <2>2, RowWritten DEF Typed
  <2>4. Creates(c, v)
    BY <2>1, <2>3 DEF CommitCreate, Creates
  <2>. QED BY <1>3, <2>1, <2>4
<1>. QED BY <1>2, <1>3

LEMMA FlowInit == Init => FlowInv
<1>. SUFFICES ASSUME Init PROVE FlowInv
  OBVIOUS
<1>1. Typed
  BY TypedInit
<1>2. \A v : Carrying(v) = {}
  BY DEF Init, Carrying, Live
<1>3. \A c \in Callers : ~Busy(c) /\ \A v : ~Creates(c, v)
  BY DEF Init, Busy, Creates
<1>4. \A t \in Ids : ~Live(t)
  BY DEF Init, Live
<1>. QED
  BY <1>1, <1>2, <1>3, <1>4
  DEF FlowInv, RequestsHold, RowsInOrder, TwoMarked, BookedFree, OneCarrier, StaleMarked

LEMMA RequestsHoldNext ==
  ASSUME FlowInv, StepKinds, Typed' PROVE RequestsHold'
<1>. SUFFICES ASSUME NEW c \in Callers, Busy(c)'
              PROVE  /\ RequestHolds(call'[c])
                     /\ call'[c].op # "create" => call'[c].t <= created'
  BY DEF RequestsHold, RequestHolds
<1>1. created \in Nat /\ created' \in Nat /\ created <= created'
  BY CreatedGrows DEF FlowInv, Typed, TypeOK
<1>2. CASE Continues(c)
  <2>1. Busy(c) /\ SameRequest(call'[c], call[c])
    BY <1>2 DEF Continues
  <2>2. RequestHolds(call[c]) /\ (call[c].op # "create" => call[c].t <= created)
    BY <2>1 DEF FlowInv, RequestsHold
  <2>3. RequestHolds(call'[c])
    BY <2>1, <2>2 DEF RequestHolds, SameRequest
  <2>4. call[c].op # "create" => call[c].t \in Int
    BY <2>2 DEF RequestHolds, Ids
  <2>. QED BY <1>1, <2>1, <2>2, <2>3, <2>4 DEF SameRequest
<1>3. CASE Begins(c)
  <2>1. PICK x \in Requests : Begin(c, x) /\ Fresh(x)
    BY <1>3 DEF Begins
  <2>2. call'[c] = x /\ created' = created
    BY <2>1 DEF Begin, tables, FlowInv, Typed, TypeOK
  <2>3. x.op # "create" => x.t <= created
    BY <2>1 DEF Fresh, RequestHolds, FlowInv, RowsInOrder
  <2>. QED BY <2>1, <2>2, <2>3 DEF Fresh
<1>. QED BY <1>2, <1>3, RequestFate DEF FlowInv, Typed

LEMMA RowsInOrderNext ==
  ASSUME FlowInv, StepKinds, Typed' PROVE RowsInOrder'
<1>. SUFFICES ASSUME NEW t \in Ids, Live(t)' PROVE t <= created'
  BY DEF RowsInOrder
<1>1. created \in Nat /\ created' \in Nat /\ created <= created' /\ t \in Int
  BY CreatedGrows DEF FlowInv, Typed, TypeOK, Ids
<1>2. CASE Live(t)
  BY <1>1, <1>2 DEF FlowInv, RowsInOrder
<1>3. CASE ~Live(t)
  BY <1>1, <1>3, NewRow DEF FlowInv, CommitCreate
<1>. QED BY <1>2, <1>3

\* A creation that is under way went on, or began for a vehicle that is free.
LEMMA CreatesBefore ==
  ASSUME FlowInv, StepKinds, NEW c \in Callers, NEW v, Creates(c, v)'
  PROVE  Creates(c, v) \/ (Carrying(v) = {} /\ transport' = transport)
<1>1. CASE Continues(c)
  BY <1>1 DEF Continues, Creates, Busy, SameRequest
<1>2. CASE Begins(c)
  BY <1>2 DEF Begins, Begin, Fresh, Creates, tables, FlowInv, Typed, TypeOK
<1>. QED BY <1>1, <1>2, RequestFate DEF FlowInv, Typed

LEMMA TwoMarkedNext ==
  ASSUME FlowInv, StepKinds PROVE TwoMarked'
<1>. SUFFICES ASSUME NEW v \in Vehicles, NEW c \in Callers, NEW d \in Callers,
                     Creates(c, v)', Creates(d, v)', v \notin crowded'
              PROVE  c = d
  BY DEF TwoMarked
<1>1. v \notin crowded
  BY HistoryGrows DEF FlowInv, Typed
<1>2. CASE \A a, b \in Callers : Creates(a, v)' /\ Creates(b, v)' => a = b
  BY <1>2
<1>3. CASE Remember
  BY <1>3 DEF Remember, TwoCreate
<1>4. CASE Quiet /\ \A a \in Callers : ~Begins(a)
  <2>1. Continues(c) /\ Continues(d)
    BY <1>4, RequestFate DEF FlowInv, Typed
  <2>2. Creates(c, v) /\ Creates(d, v)
    BY <2>1 DEF Continues, Creates, Busy, SameRequest
  <2>. QED BY <1>1, <2>2 DEF FlowInv, TwoMarked
<1>. QED BY <1>3, <1>4, StepRemembered

LEMMA BookedFreeNext ==
  ASSUME FlowInv, StepKinds PROVE BookedFree'
<1>. SUFFICES ASSUME NEW v \in Vehicles, NEW c \in Callers, Creates(c, v)', v \notin crowded',
                     NEW t \in Carrying(v)'
              PROVE  FALSE
  BY DEF BookedFree
<1>1. v \notin crowded
  BY HistoryGrows DEF FlowInv, Typed
<1>2. CASE Creates(c, v)
  <2>1. Carrying(v) = {}
    BY <1>1, <1>2 DEF FlowInv, BookedFree
  <2>2. PICK d \in Callers : CommitCreate(d) /\ Creates(d, v)
    BY <2>1, CarriedBefore DEF FlowInv
  <2>3. d = c
    BY <1>1, <1>2, <2>2 DEF FlowInv, TwoMarked
  <2>. QED
    BY <2>2, <2>3 DEF CommitCreate, Answered, Creates, FlowInv, Typed, TypeOK
<1>3. CASE Carrying(v) = {} /\ transport' = transport
  BY <1>3 DEF Carrying, Live
<1>. QED BY <1>2, <1>3, CreatesBefore

LEMMA OneCarrierNext ==
  ASSUME FlowInv, StepKinds PROVE OneCarrier'
<1>. SUFFICES ASSUME NEW v \in Vehicles, v \notin crowded',
                     NEW s \in Carrying(v)', NEW t \in Carrying(v)'
              PROVE  s = t
  BY DEF OneCarrier
<1>1. v \notin crowded
  BY HistoryGrows DEF FlowInv, Typed
<1>2. CASE s \in Carrying(v) /\ t \in Carrying(v)
  BY <1>1, <1>2 DEF FlowInv, OneCarrier
<1>3. ASSUME NEW c \in Callers, Creates(c, v) PROVE Carrying(v) = {}
  BY <1>1, <1>3 DEF FlowInv, BookedFree
<1>. QED BY <1>2, <1>3, CarriedBefore DEF FlowInv

LEMMA StaleMarkedNext ==
  ASSUME FlowInv, StepKinds PROVE StaleMarked'
<1>. SUFFICES ASSUME NEW v \in Vehicles, v \notin crowded', NEW c \in Callers, Busy(c)',
                     call'[c].op # "create", call'[c].t \in Carrying(v)'
              PROVE  call'[c].row.vehicle = v /\ call'[c].row.status \in Active
  BY DEF StaleMarked, VehicleOf
<1>1. v \notin crowded
  BY HistoryGrows DEF FlowInv, Typed
<1>2. CASE Continues(c)
  <2>1. Busy(c) /\ SameRequest(call'[c], call[c])
    BY <1>2 DEF Continues
  <2>2. call[c].op # "create" /\ call[c].t = call'[c].t /\ call'[c].row = call[c].row
    BY <2>1 DEF SameRequest
  <2>3. call[c].t <= created /\ created \in Nat
    BY <2>1, <2>2 DEF FlowInv, RequestsHold, Typed, TypeOK
  <2>4. call[c].t \in Carrying(v)
    BY <2>2, <2>3, CarriedBefore DEF FlowInv
  <2>. QED BY <1>1, <2>1, <2>2, <2>4 DEF FlowInv, StaleMarked, VehicleOf
<1>3. CASE Begins(c)
  <2>1. PICK x \in Requests : Begin(c, x) /\ Fresh(x)
    BY <1>3 DEF Begins
  <2>2. call'[c] = x /\ transport' = transport
    BY <2>1 DEF Begin, tables, FlowInv, Typed, TypeOK
  <2>3. x.t \in Carrying(v) /\ x.row = transport[x.t]
    BY <2>1, <2>2 DEF Fresh, Carrying, Live
  <2>. QED BY <2>2, <2>3 DEF Carrying
<1>. QED BY <1>2, <1>3, RequestFate DEF FlowInv, Typed

LEMMA FlowNext == FlowInv /\ [Next]_vars => FlowInv'
<1>. SUFFICES ASSUME FlowInv, [Next]_vars PROVE FlowInv'
  OBVIOUS
<1>1. Typed'
  BY TypedNext DEF FlowInv
<1>2. StepKinds
  BY StepIsKind DEF FlowInv, Typed
<1>. QED
  BY <1>1, <1>2, RequestsHoldNext, RowsInOrderNext, TwoMarkedNext, BookedFreeNext,
     OneCarrierNext, StaleMarkedNext
  DEF FlowInv

LEMMA FlowHolds == Spec => []FlowInv
BY FlowInit, FlowNext, PTL DEF Spec

\* Only a vehicle for which two creations were under way at once, or to which
\* an update or the nightly job brought a transport, is ever with two: no other
\* overlap of requests gets past the check a creation makes before it writes.
THEOREM VehiclesCarryOne == Spec => []OnlyCrowdedCarryMore
<1>1. FlowInv => OnlyCrowdedCarryMore
  <2>. SUFFICES ASSUME FlowInv, NEW v \in Vehicles \ crowded PROVE Cardinality(Carrying(v)) <= 1
    BY DEF OnlyCrowdedCarryMore
  <2>1. CASE Carrying(v) = {}
    BY <2>1, FS_EmptySet
  <2>2. ASSUME NEW t \in Carrying(v) PROVE Cardinality(Carrying(v)) <= 1
    <3>1. Carrying(v) = {t}
      BY <2>2 DEF FlowInv, OneCarrier
    <3>2. Cardinality({t}) = 1
      BY FS_Singleton
    <3>. QED BY <3>1, <3>2
  <2>. QED BY <2>1, <2>2
<1>. QED BY <1>1, FlowHolds, PTL

-----------------------------------------------------------------------------
(***************************************************************************)
(* The status of a vehicle.                                                *)
(***************************************************************************)
LEMMA AnsweredEnds ==
  ASSUME TypeOK, NEW c \in Callers, Busy(c), Answered(c)
  PROVE  Ends(c) /\ \A d \in Callers : Ends(d) => d = c
BY DEF TypeOK, Answered, Ends, Busy

\* What an update writes.
LEMMA UpdateWritten ==
  ASSUME TypeOK, NEW c \in Callers, NEW t \in Ids, Updating(c, t), WriteRow(c, t)
  PROVE  \E r \in Rows :
           /\ transport' = [transport EXCEPT ![t] = r] /\ r.load = transport[t].load
           /\ r.status = IF call[c].to = "keep" THEN transport[t].status ELSE call[c].to
<1>. DEFINE r == [transport[t] EXCEPT
                   !.status = IF call[c].to = "keep" THEN @ ELSE call[c].to,
                   !.vehicle = IF call[c].on = None THEN @ ELSE call[c].on]
<1>1. /\ transport[t] \in Rows /\ call[c].to \in Statuses \cup {"keep"}
      /\ call[c].on \in Vehicles \cup {None}
  BY DEF TypeOK, Live, Updating, Requests
<1>2. r \in Rows
  BY <1>1 DEF Rows
<1>3. transport' = [transport EXCEPT ![t] = r]
  BY DEF WriteRow
<1>4. r.load = transport[t].load
      /\ r.status = IF call[c].to = "keep" THEN transport[t].status ELSE call[c].to
  BY <1>1 DEF Rows
<1>. HIDE DEF r
<1>. QED BY <1>2, <1>3, <1>4

\* The vehicle keeps its status, and is carried for or not as before.
Undisturbed(v) == (InUse(v) <=> InUse(v)') /\ Carrying(v)' = Carrying(v)

\* The vehicle is in use, and carried for.
TakenUp(v) == InUse(v)' /\ Carrying(v)' # {}

\* The one transport of the vehicle ends, and the vehicle is free.
LetGo(v) == ~InUse(v)' /\ Carrying(v)' = {}

\* A request changes the status of a vehicle of its own only.
LEMMA OwnVehicle ==
  ASSUME FlowInv, StepKinds, NEW v \in Vehicles, v \notin misled',
         NEW c \in Callers, Busy(c), Answered(c), ~ActsFor(c, v)
  PROVE  InUse(v) <=> InUse(v)'
<1>1. \A d \in Callers : Ends(d) => d = c
  BY AnsweredEnds DEF FlowInv, Typed
<1>. QED BY <1>1, NotMisled DEF InUse

LEMMA CreateShows ==
  ASSUME FlowInv, StepKinds, NEW v \in Vehicles, v \notin crowded', v \notin misled',
         NEW c \in Callers, CommitCreate(c)
  PROVE  Undisturbed(v) \/ TakenUp(v)
<1>. DEFINE t == created + 1
            row == call[c].row
<1>1. /\ Busy(c) /\ Answered(c) /\ call[c].op = "create" /\ t \in Ids
      /\ transport' = [transport EXCEPT ![t] = row]
      /\ vehicle' = [vehicle EXCEPT ![row.vehicle] = "in_use"]
  BY NextId DEF CommitCreate, Busy, FlowInv
<1>2. row \in Rows /\ row # None
  BY <1>1, RequestTyped, RowAssumption DEF FlowInv, Typed
<1>3. t \notin Carrying(v)
  <2>1. created \in Nat
    BY DEF FlowInv, Typed, TypeOK
  <2>. QED BY <1>1, <2>1 DEF FlowInv, RowsInOrder, Carrying
<1>. HIDE DEF t
<1>4. CASE row.vehicle = v /\ row.status \in Active
  <2>1. t \in Carrying(v)'
    BY <1>1, <1>2, <1>4 DEF Carrying, Live, FlowInv, Typed, TypeOK
  <2>2. InUse(v)'
    BY <1>1, <1>4 DEF InUse, FlowInv, Typed, TypeOK
  <2>. QED BY <2>1, <2>2 DEF TakenUp
<1>5. CASE ~(row.vehicle = v /\ row.status \in Active)
  <2>1. Carrying(v)' = Carrying(v)
    BY <1>1, <1>3, <1>5 DEF Carrying, Live, FlowInv, Typed, TypeOK
  <2>2. InUse(v) <=> InUse(v)'
    <3>1. CASE row.vehicle = v
      BY <1>1, <1>5, <3>1, OwnVehicle DEF ActsFor, Creates, Busy
    <3>2. CASE row.vehicle # v
      BY <1>1, <3>2 DEF InUse, FlowInv, Typed, TypeOK
    <3>. QED BY <3>1, <3>2
  <2>. QED BY <2>1, <2>2 DEF Undisturbed
<1>. QED BY <1>4, <1>5

LEMMA AddShows ==
  ASSUME FlowInv, StepKinds, NEW v \in Vehicles, v \notin crowded', v \notin misled',
         NEW c \in Callers, CommitAdd(c)
  PROVE  Undisturbed(v) \/ TakenUp(v)
<1>1. /\ Busy(c) /\ Answered(c) /\ call[c].op = "add" /\ Live(call[c].t)
      /\ vehicle' = [vehicle EXCEPT ![VehicleOf(c)] = "in_use"]
      /\ VehicleOf(c) \in Vehicles
  BY RequestTyped DEF CommitAdd, Busy, VehicleOf, FlowInv, Typed
<1>2. Carrying(v)' = Carrying(v)
  <2>1. call[c].t \in Ids
    BY <1>1 DEF FlowInv, RequestsHold, RequestHolds
  <2>2. transport[call[c].t] \in Rows
    BY <1>1, <2>1 DEF FlowInv, Typed, TypeOK, Live
  <2>. DEFINE r == [transport[call[c].t] EXCEPT !.load = [p \in Products |-> @[p] + call[c].ask[p]]]
  <2>3. r.vehicle = transport[call[c].t].vehicle /\ r.status = transport[call[c].t].status
    BY <2>2 DEF Rows
  <2>4. transport' = [transport EXCEPT ![call[c].t] = r]
    BY DEF CommitAdd
  <2>5. r # None
    <3>1. call[c].ask \in [Products -> Nat]
      BY <1>1, RequestTyped DEF FlowInv, Typed
    <3>2. r \in Rows
      BY <2>2, <3>1 DEF Rows
    <3>. QED BY <3>2, RowAssumption
  <2>. HIDE DEF r
  <2>. QED BY <1>1, <2>1, <2>3, <2>4, <2>5 DEF Carrying, Live, FlowInv, Typed, TypeOK
<1>3. CASE VehicleOf(c) # v
  BY <1>1, <1>2, <1>3 DEF Undisturbed, InUse, FlowInv, Typed, TypeOK
<1>4. CASE VehicleOf(c) = v /\ ~ActsFor(c, v)
  BY <1>1, <1>2, <1>4, OwnVehicle DEF Undisturbed
<1>5. CASE VehicleOf(c) = v /\ ActsFor(c, v)
  <2>1. Carrying(v) # {}
    BY <1>1, <1>5 DEF ActsFor, Creates
  <2>2. InUse(v)'
    BY <1>1, <1>5 DEF InUse, FlowInv, Typed, TypeOK
  <2>. QED BY <1>2, <2>1, <2>2 DEF TakenUp
<1>. QED BY <1>3, <1>4, <1>5

\* A write that leaves row t off the vehicle, with the vehicle of the request free.
LEMMA EndShows ==
  ASSUME FlowInv, StepKinds, NEW v \in Vehicles, v \notin crowded', v \notin misled',
         NEW c \in Callers, Busy(c), Answered(c), NEW t \in Ids, call[c].t = t,
         call[c].op # "create",
         NEW r, transport' = [transport EXCEPT ![t] = r], r = None \/ r.status \notin Active,
         vehicle' = vehicle \/ vehicle' = Freed(VehicleOf(c)),
         call[c].row.status \in Active => vehicle' = Freed(VehicleOf(c))
  PROVE  Undisturbed(v) \/ LetGo(v)
<1>1. \A s \in Ids : s \in Carrying(v)' <=> s # t /\ s \in Carrying(v)
  BY DEF Carrying, Live, FlowInv, Typed, TypeOK
<1>2. VehicleOf(c) \in Vehicles
  BY RequestTyped DEF FlowInv, Typed
<1>3. v \notin crowded
  BY HistoryGrows DEF FlowInv, Typed
<1>4. CASE t \in Carrying(v)
  <2>1. VehicleOf(c) = v /\ call[c].row.status \in Active
    BY <1>3, <1>4 DEF FlowInv, StaleMarked
  <2>2. ~InUse(v)'
    BY <2>1 DEF Freed, InUse, FlowInv, Typed, TypeOK
  <2>3. Carrying(v)' = {}
    BY <1>1, <1>3, <1>4 DEF FlowInv, OneCarrier, Carrying
  <2>. QED BY <2>2, <2>3 DEF LetGo
<1>5. CASE t \notin Carrying(v)
  <2>1. Carrying(v)' = Carrying(v)
    BY <1>1, <1>5 DEF Carrying
  <2>2. ~ActsFor(c, v)
    BY <1>5 DEF ActsFor, Creates
  <2>3. InUse(v) <=> InUse(v)'
    BY <2>2, OwnVehicle
  <2>. QED BY <2>1, <2>3 DEF Undisturbed
<1>. QED BY <1>4, <1>5

\* A write that leaves the vehicles as they are and row t where it was, or takes
\* it to another vehicle.
LEMMA KeepShows ==
  ASSUME FlowInv, StepKinds, NEW v \in Vehicles, v \notin crowded', v \notin misled',
         vehicle' = vehicle,
         NEW t \in Ids, Live(t), NEW r \in Rows, transport' = [transport EXCEPT ![t] = r],
         t \in Carrying(v) => r.status \in Active
  PROVE  Undisturbed(v)
<1>1. transport'[t] = r /\ Live(t)' /\ \A s \in Ids \ {t} : transport'[s] = transport[s]
  BY RowAssumption DEF FlowInv, Typed, TypeOK, Live
<1>2. t \in Carrying(v)' => t \in Carrying(v)
  BY NotCrowded
<1>3. t \in Carrying(v) => t \in Carrying(v)'
  BY <1>1, NotMisled DEF Carrying
<1>4. Carrying(v)' = Carrying(v)
  BY <1>1, <1>2, <1>3 DEF Carrying, Live
<1>. QED BY <1>4 DEF Undisturbed, InUse

LEMMA UpdateShows ==
  ASSUME FlowInv, StepKinds, NEW v \in Vehicles, v \notin crowded', v \notin misled',
         NEW c \in Callers, NEW t \in Ids, Deliver(c, t) \/ Cancel(c, t) \/ Edit(c, t)
  PROVE  Undisturbed(v) \/ LetGo(v)
<1>1. /\ Busy(c) /\ Answered(c) /\ call[c].op # "create" /\ call[c].t = t /\ Live(t)
      /\ Updating(c, t) /\ WriteRow(c, t)
  BY DEF Deliver, Cancel, Edit, Updating, Busy
<1>2. PICK r \in Rows :
        /\ transport' = [transport EXCEPT ![t] = r] /\ r.load = transport[t].load
        /\ r.status = IF call[c].to = "keep" THEN transport[t].status ELSE call[c].to
  BY <1>1, UpdateWritten DEF FlowInv, Typed
<1>3. CASE Deliver(c, t) \/ Cancel(c, t)
  <2>1. r.status \notin Active /\ vehicle' = Freed(VehicleOf(c))
    BY <1>2, <1>3 DEF Deliver, Delivers, Cancel, Cancels, Active, VehicleOf
  <2>. QED BY <1>1, <1>2, <2>1, EndShows
<1>4. CASE Edit(c, t)
  <2>1. v \notin crowded
    BY HistoryGrows DEF FlowInv, Typed
  <2>2. t \in Carrying(v) => call[c].row.status \in Active
    BY <1>1, <2>1 DEF FlowInv, StaleMarked
  <2>3. call[c].to \in Statuses \cup {"keep"}
    BY <1>1, RequestTyped DEF FlowInv, Typed, Requests
  <2>4. t \in Carrying(v) => r.status \in Active
    BY <1>2, <1>4, <2>2, <2>3
    DEF Edit, Delivers, Cancels, Active, Statuses, Carrying
  <2>. QED BY <1>1, <1>2, <1>4, <2>4, KeepShows DEF Edit
<1>. QED BY <1>3, <1>4

LEMMA RemoveShows ==
  ASSUME FlowInv, StepKinds, NEW v \in Vehicles, v \notin crowded', v \notin misled',
         NEW c \in Callers, NEW t \in Ids, Remove(c, t)
  PROVE  Undisturbed(v) \/ LetGo(v)
<1>1. /\ Busy(c) /\ Answered(c) /\ call[c].op = "remove" /\ call[c].t = t
      /\ transport' = [transport EXCEPT ![t] = None]
      /\ vehicle' = IF call[c].row.status = "PENDING" THEN Freed(VehicleOf(c)) ELSE vehicle
  BY DEF Remove, Busy, VehicleOf
<1>2. call[c].row.status \in {"PENDING", "CANCELED"}
  BY <1>1 DEF FlowInv, RequestsHold, RequestHolds
<1>3. call[c].row.status \in Active => vehicle' = Freed(VehicleOf(c))
  BY <1>1, <1>2 DEF Active
<1>. QED BY <1>1, <1>3, EndShows

LEMMA ArrivalShows ==
  ASSUME FlowInv, StepKinds, NEW v \in Vehicles, v \notin crowded', v \notin misled',
         NEW t \in Ids, NightArrival(t)
  PROVE  Undisturbed(v)
<1>. DEFINE r == [transport[t] EXCEPT !.status = "ARRIVED"]
<1>1. Live(t) /\ transport[t] \in Rows /\ vehicle' = vehicle
  BY DEF NightArrival, Live, FlowInv, Typed, TypeOK
<1>2. r \in Rows /\ r.status \in Active
  BY <1>1 DEF Rows, Statuses, Active
<1>3. transport' = [transport EXCEPT ![t] = r]
  BY DEF NightArrival
<1>. HIDE DEF r
<1>. QED BY <1>1, <1>2, <1>3, KeepShows

LEMMA StepShows ==
  ASSUME FlowInv, StepKinds, NEW v \in Vehicles, v \notin crowded', v \notin misled'
  PROVE  Undisturbed(v) \/ TakenUp(v) \/ LetGo(v)
<1>1. ASSUME NEW u \in Vehicles, NEW s \in VehicleStatuses, SetVehicle(u, s)
      PROVE  Undisturbed(v)
  <2>1. \A c \in Callers : ~Ends(c)
    BY <1>1 DEF SetVehicle, Ends
  <2>2. InUse(v) <=> InUse(v)'
    BY <2>1, NotMisled
  <2>. QED BY <1>1, <2>2 DEF SetVehicle, Undisturbed, Carrying, Live
<1>2. ASSUME NEW c \in Callers, NEW x \in Requests, Begin(c, x) \/ GoesOn(c, x)
      PROVE  Undisturbed(v)
  BY <1>2 DEF Begin, GoesOn, tables, Undisturbed, InUse, Carrying, Live
<1>3. ASSUME Idle \/ \E c \in Callers : Refuse(c) PROVE Undisturbed(v)
  BY <1>3 DEF Idle, Refuse, tables, Undisturbed, InUse, Carrying, Live
<1>. QED
  BY <1>1, <1>2, <1>3, CreateShows, AddShows, UpdateShows, RemoveShows, ArrivalShows
  DEF StepKinds

\* A vehicle that is neither crowded nor misled shows whether it is with a
\* transport, through every overlap of requests and nightly arrivals.
THEOREM VehiclesShown == Spec => []VehicleShown
<1>1. Init => VehicleShown
  BY DEF Init, VehicleShown, InUse, Carrying, Live
<1>2. FlowInv /\ VehicleShown /\ [Next]_vars => VehicleShown'
  <2>. SUFFICES ASSUME FlowInv, VehicleShown, [Next]_vars,
                       NEW v \in Vehicles, v \notin crowded', v \notin misled'
                PROVE  InUse(v)' <=> Carrying(v)' # {}
    BY DEF VehicleShown
  <2>1. StepKinds
    BY StepIsKind DEF FlowInv, Typed
  <2>2. v \notin crowded /\ v \notin misled
    BY <2>1, HistoryGrows DEF FlowInv, Typed
  <2>3. InUse(v) <=> Carrying(v) # {}
    BY <2>2 DEF VehicleShown
  <2>4. Undisturbed(v) \/ TakenUp(v) \/ LetGo(v)
    BY <2>1, StepShows
  <2>. QED BY <2>3, <2>4 DEF Undisturbed, TakenUp, LetGo
<1>. QED BY <1>1, <1>2, FlowHolds, PTL DEF Spec

-----------------------------------------------------------------------------
(***************************************************************************)
(* The units of a product, in stock and on the transports.                 *)
(***************************************************************************)
Ended(r, e) == r # None /\ r.status = e

\* p is not disputed because of rows that ended in e.
Agreed(p, e) == p \in Products /\ e \in Endings /\ p \notin disputed'[e]

LEMMA AgreedFacts ==
  ASSUME TypeOK, Remember, NEW p, NEW e, Agreed(p, e)
  PROVE  /\ \A c \in Callers : Ends(c) => p \notin Misread(c, e) /\ p \notin Miscounted(c)
         /\ \A t \in Ids : p \notin Reopened(t, e)
<1>. DEFINE P(x) == UNION {Misread(c, x) \cup Miscounted(c) : c \in {d \in Callers : Ends(d)}}
            Q(x) == UNION {Reopened(t, x) : t \in Ids}
<1>1. disputed' = [x \in Endings |-> disputed[x] \cup P(x) \cup Q(x)]
  BY DEF Remember
<1>2. p \notin P(e) /\ p \notin Q(e)
  <2>. HIDE DEF P, Q
  <2>. QED BY <1>1 DEF Agreed
<1>3. ASSUME NEW c \in Callers, Ends(c) PROVE p \notin Misread(c, e) /\ p \notin Miscounted(c)
  BY <1>2, <1>3, Zenon
<1>4. ASSUME NEW t \in Ids PROVE p \notin Reopened(t, e)
  BY <1>2, Zenon
<1>. QED BY <1>3, <1>4

\* Units go from the stock onto a transport.
Loading(t, r, load) ==
  /\ load \in [Products -> Nat] /\ r \in Rows
  /\ stock' = Reserved(load)
  /\ transport[t] = None \/ r.status = transport[t].status
  /\ \A p \in Products :
       r.load[p] = IF transport[t] = None THEN load[p] ELSE transport[t].load[p] + load[p]
  /\ \A p, e : Agreed(p, e) /\ Ended(r, e) => load[p] = 0

\* A transport is delivered.
Delivering(t, r) ==
  /\ Live(t) /\ r \in Rows /\ r.status = "DELIVERED" /\ r.load = transport[t].load
  /\ stock' = stock
  /\ \A p, e : Agreed(p, e) /\ Ended(transport[t], e) => transport[t].load[p] = 0

\* The units of a transport come back.
Returning(t, r) ==
  /\ Live(t)
  /\ \/ r = None
     \/ r \in Rows /\ r.status = "CANCELED" /\ r.load = transport[t].load
  /\ \A p, e : Agreed(p, e) => stock'[p] = stock[p] + transport[t].load[p]
  /\ \A p, e : Agreed(p, e) /\ Ended(transport[t], e) => transport[t].load[p] = 0

\* A row is written and no units move.
Passing(t, r) ==
  /\ Live(t) /\ stock' = stock
  /\ \/ r = None
     \/ r \in Rows /\ r.load = transport[t].load
  /\ r # None => \A p, e :
       Agreed(p, e) /\ ~(Ended(transport[t], e) <=> Ended(r, e)) => transport[t].load[p] = 0
  /\ r = None => \A p, e :
       Agreed(p, e) /\ ~(Ended(transport[t], e) <=> e = "CANCELED") => transport[t].load[p] = 0

UnitLoad(load) == load \in Loads \cup UnitLoads

Written(t, r) == transport' = [transport EXCEPT ![t] = r]

LEMMA RowTyped ==
  ASSUME TypeOK, NEW t \in Ids, Live(t)
  PROVE  /\ transport[t] \in Rows /\ transport[t].load \in [Products -> Nat]
         /\ transport[t] # None
BY DEF TypeOK, Live, Rows

LEMMA CreateLoads ==
  ASSUME FlowInv, NEW c \in Callers, CommitCreate(c)
  PROVE  \E t \in Ids : \E r, load : Written(t, r) /\ Loading(t, r, load) /\ UnitLoad(load)
<1>. DEFINE t == created + 1
            r == call[c].row
<1>1. /\ Busy(c) /\ Answered(c) /\ call[c].op = "create" /\ Remember
      /\ Written(t, r) /\ stock' = Reserved(r.load)
  BY DEF CommitCreate, Busy, Written
<1>2. /\ t \in Ids /\ transport[t] = None
  <2>1. t \in Ids /\ created \in Nat
    BY NextId DEF FlowInv
  <2>. QED BY <2>1 DEF FlowInv, RowsInOrder, Live
<1>3. r \in Rows /\ r.load \in [Products -> Nat]
  BY <1>1, RequestTyped DEF FlowInv, Typed
<1>4. UnitLoad(r.load)
  BY <1>1 DEF FlowInv, RequestsHold, RequestHolds, UnitLoad
<1>5. Ends(c)
  BY <1>1, AnsweredEnds DEF FlowInv, Typed
<1>6. ASSUME NEW p, NEW e, Agreed(p, e), Ended(r, e) PROVE r.load[p] = 0
  <2>1. p \notin Misread(c, e) /\ p \in Products
    BY <1>1, <1>5, <1>6, AgreedFacts DEF FlowInv, Typed, Agreed
  <2>. QED BY <1>1, <1>3, <1>6, <2>1 DEF Misread, Ended, Positive
<1>. HIDE DEF t, r
<1>7. Loading(t, r, r.load)
  BY <1>1, <1>2, <1>3, <1>6 DEF Loading
<1>. QED BY <1>1, <1>2, <1>4, <1>7

LEMMA AddLoads ==
  ASSUME FlowInv, NEW c \in Callers, CommitAdd(c)
  PROVE  \E t \in Ids : \E r, load : Written(t, r) /\ Loading(t, r, load) /\ UnitLoad(load)
<1>. DEFINE t == call[c].t
            ask == call[c].ask
            r == [transport[t] EXCEPT !.load = [p \in Products |-> @[p] + ask[p]]]
<1>1. /\ Busy(c) /\ Answered(c) /\ call[c].op = "add" /\ Remember /\ Live(t)
      /\ Written(t, r) /\ stock' = Reserved(ask)
  BY DEF CommitAdd, Busy, Written
<1>2. t \in Ids /\ call[c].row.status = "PENDING" /\ ask \in UnitLoads
  BY <1>1 DEF FlowInv, RequestsHold, RequestHolds
<1>3. /\ transport[t] \in Rows /\ transport[t].load \in [Products -> Nat]
      /\ transport[t] # None
  BY <1>1, <1>2, RowTyped DEF FlowInv, Typed
<1>4. ask \in [Products -> Nat]
  BY <1>1, RequestTyped DEF FlowInv, Typed
<1>5. r \in Rows /\ r.status = transport[t].status
      /\ \A p \in Products : r.load[p] = transport[t].load[p] + ask[p]
  <2>. HIDE DEF t, ask
  <2>. QED BY <1>3, <1>4 DEF Rows
<1>6. Ends(c)
  BY <1>1, AnsweredEnds DEF FlowInv, Typed
<1>7. ASSUME NEW p, NEW e, Agreed(p, e), Ended(transport[t], e) PROVE ask[p] = 0
  <2>1. p \notin Misread(c, e) /\ p \in Products /\ e \in Endings
    BY <1>1, <1>6, <1>7, AgreedFacts DEF FlowInv, Typed, Agreed
  <2>2. call[c].row.status # e
    BY <1>2, <2>1 DEF Endings
  <2>3. p \notin Positive(ask)
    BY <1>1, <1>7, <2>1, <2>2 DEF Misread, Ended
  <2>. QED BY <1>4, <2>1, <2>3 DEF Positive
<1>. HIDE DEF t, ask, r
<1>8. \A p, e : Agreed(p, e) /\ Ended(r, e) => ask[p] = 0
  BY <1>3, <1>5, <1>7 DEF Ended
<1>9. Loading(t, r, ask)
  BY <1>1, <1>3, <1>4, <1>5, <1>8 DEF Loading
<1>. QED BY <1>1, <1>2, <1>9 DEF UnitLoad

\* What a request that ends says of the row it writes, for an agreed product.
LEMMA AgreedOnRow ==
  ASSUME FlowInv, NEW c \in Callers, Busy(c), Answered(c), Remember, call[c].op # "create",
         NEW t \in Ids, call[c].t = t, Live(t), NEW p, NEW e, Agreed(p, e)
  PROVE  /\ (call[c].row.status = e <=> transport[t].status = e)
              \/ (transport[t].load[p] = 0 /\ call[c].row.load[p] = 0)
         /\ call[c].op = "remove" => call[c].row.load[p] = transport[t].load[p]
         /\ Live(t)' /\ transport[t].status = e /\ transport'[t].status # e
              => transport[t].load[p] = 0
<1>1. /\ p \notin Misread(c, e) /\ p \notin Miscounted(c) /\ p \notin Reopened(t, e)
      /\ p \in Products
  BY AnsweredEnds, AgreedFacts DEF FlowInv, Typed, Agreed
<1>2. /\ transport[t].load \in [Products -> Nat] /\ call[c].row.load \in [Products -> Nat]
  BY RowTyped, RequestTyped DEF FlowInv, Typed
<1>3. (call[c].row.status = e <=> transport[t].status = e)
        \/ (transport[t].load[p] = 0 /\ call[c].row.load[p] = 0)
  BY <1>1, <1>2 DEF Misread, Positive
<1>4. call[c].op = "remove" => call[c].row.load[p] = transport[t].load[p]
  BY <1>1 DEF Miscounted
<1>5. Live(t)' /\ transport[t].status = e /\ transport'[t].status # e => transport[t].load[p] = 0
  BY <1>1, <1>2 DEF Reopened, Positive
<1>. QED BY <1>3, <1>4, <1>5

LEMMA UpdateMoves ==
  ASSUME FlowInv, NEW c \in Callers, NEW t \in Ids, Deliver(c, t) \/ Cancel(c, t) \/ Edit(c, t)
  PROVE  \E r : Written(t, r) /\ (Delivering(t, r) \/ Returning(t, r) \/ Passing(t, r))
<1>1. /\ Busy(c) /\ Answered(c) /\ call[c].op # "create" /\ call[c].t = t /\ Live(t)
      /\ Updating(c, t) /\ WriteRow(c, t) /\ Remember
  BY DEF Deliver, Cancel, Edit, Updating, Busy
<1>2. PICK r \in Rows :
        /\ transport' = [transport EXCEPT ![t] = r] /\ r.load = transport[t].load
        /\ r.status = IF call[c].to = "keep" THEN transport[t].status ELSE call[c].to
  BY <1>1, UpdateWritten DEF FlowInv, Typed
<1>3. Written(t, r) /\ transport'[t] = r /\ Live(t)' /\ r # None
  BY <1>2, RowAssumption DEF Written, FlowInv, Typed, TypeOK, Live
<1>4. transport[t].load \in [Products -> Nat] /\ transport[t] # None
  BY <1>1, RowTyped DEF FlowInv, Typed
<1>5. ASSUME NEW p, NEW e, Agreed(p, e)
      PROVE  /\ (call[c].row.status = e <=> transport[t].status = e) \/ transport[t].load[p] = 0
             /\ transport[t].status = e /\ r.status # e => transport[t].load[p] = 0
             /\ e \in {"DELIVERED", "CANCELED"}
  BY <1>1, <1>3, <1>5, AgreedOnRow DEF Agreed, Endings
<1>6. CASE Deliver(c, t)
  <2>1. r.status = "DELIVERED" /\ call[c].row.status # "DELIVERED" /\ stock' = stock
    BY <1>2, <1>6 DEF Deliver, Delivers
  <2>2. \A p, e : Agreed(p, e) /\ Ended(transport[t], e) => transport[t].load[p] = 0
    BY <1>5, <2>1 DEF Ended
  <2>3. Delivering(t, r)
    BY <1>1, <1>2, <2>1, <2>2 DEF Delivering
  <2>. QED BY <1>3, <2>3
<1>7. CASE Cancel(c, t)
  <2>1. /\ r.status = "CANCELED" /\ call[c].row.status # "CANCELED"
        /\ stock' = Returned(transport[t].load)
    BY <1>2, <1>7 DEF Cancel, Cancels
  <2>2. \A p, e : Agreed(p, e) /\ Ended(transport[t], e) => transport[t].load[p] = 0
    BY <1>5, <2>1 DEF Ended
  <2>3. \A p, e : Agreed(p, e) => stock'[p] = stock[p] + transport[t].load[p]
    BY <2>1 DEF Returned, Agreed
  <2>4. Returning(t, r)
    BY <1>1, <1>2, <2>1, <2>2, <2>3 DEF Returning
  <2>. QED BY <1>3, <2>4
<1>8. CASE Edit(c, t)
  <2>1. /\ stock' = stock
        /\ ~(call[c].to = "DELIVERED" /\ call[c].row.status # "DELIVERED")
        /\ ~(call[c].to = "CANCELED" /\ call[c].row.status # "CANCELED")
    BY <1>8 DEF Edit, Delivers, Cancels
  <2>2. ASSUME NEW p, NEW e, Agreed(p, e), ~(Ended(transport[t], e) <=> Ended(r, e))
        PROVE  transport[t].load[p] = 0
    <3>1. CASE transport[t].status = e
      BY <1>3, <1>4, <1>5, <2>2, <3>1 DEF Ended
    <3>2. CASE transport[t].status # e
      <4>1. r.status = e
        BY <1>3, <1>4, <2>2, <3>2 DEF Ended
      <4>2. call[c].row.status = e
        BY <1>2, <1>5, <2>1, <2>2, <3>2, <4>1
      <4>. QED BY <1>5, <2>2, <3>2, <4>2
    <3>. QED BY <3>1, <3>2
  <2>3. Passing(t, r)
    BY <1>1, <1>2, <1>3, <2>1, <2>2 DEF Passing
  <2>. QED BY <1>3, <2>3
<1>. QED BY <1>6, <1>7, <1>8

LEMMA RemoveMoves ==
  ASSUME FlowInv, NEW c \in Callers, NEW t \in Ids, Remove(c, t)
  PROVE  Written(t, None) /\ (Returning(t, None) \/ Passing(t, None))
<1>1. /\ Busy(c) /\ Answered(c) /\ call[c].op = "remove" /\ call[c].t = t /\ Live(t)
      /\ Written(t, None) /\ Remember
      /\ stock' = IF call[c].row.status = "PENDING" THEN Returned(call[c].row.load) ELSE stock
  BY DEF Remove, Busy, Written, ReturnsLoad
<1>2. call[c].row.status \in {"PENDING", "CANCELED"}
  BY <1>1 DEF FlowInv, RequestsHold, RequestHolds
<1>3. transport[t].load \in [Products -> Nat] /\ transport[t] # None
  BY <1>1, RowTyped DEF FlowInv, Typed
<1>4. ASSUME NEW p, NEW e, Agreed(p, e)
      PROVE  /\ (call[c].row.status = e <=> transport[t].status = e) \/ transport[t].load[p] = 0
             /\ call[c].row.load[p] = transport[t].load[p]
             /\ e \in {"DELIVERED", "CANCELED"} /\ p \in Products
  BY <1>1, <1>4, AgreedOnRow DEF Agreed, Endings
<1>5. CASE call[c].row.status = "PENDING"
  <2>1. \A p, e : Agreed(p, e) => stock'[p] = stock[p] + transport[t].load[p]
    BY <1>1, <1>4, <1>5 DEF Returned
  <2>2. \A p, e : Agreed(p, e) /\ Ended(transport[t], e) => transport[t].load[p] = 0
    BY <1>4, <1>5 DEF Ended
  <2>. QED BY <1>1, <2>1, <2>2 DEF Returning
<1>6. CASE call[c].row.status = "CANCELED"
  <2>1. stock' = stock
    BY <1>1, <1>6
  <2>2. \A p, e : Agreed(p, e) /\ ~(Ended(transport[t], e) <=> e = "CANCELED")
                    => transport[t].load[p] = 0
    BY <1>3, <1>4, <1>6 DEF Ended
  <2>. QED BY <1>1, <2>1, <2>2 DEF Passing
<1>. QED BY <1>2, <1>5, <1>6

LEMMA ArrivalMoves ==
  ASSUME FlowInv, NEW t \in Ids, NightArrival(t)
  PROVE  \E r : Written(t, r) /\ Passing(t, r)
<1>. DEFINE r == [transport[t] EXCEPT !.status = "ARRIVED"]
<1>1. Live(t) /\ stock' = stock /\ Remember /\ Written(t, r)
  BY DEF NightArrival, Written
<1>2. /\ transport[t] \in Rows /\ transport[t].load \in [Products -> Nat]
      /\ transport[t] # None
  BY <1>1, RowTyped DEF FlowInv, Typed
<1>3. r \in Rows /\ r.status = "ARRIVED" /\ r.load = transport[t].load
  BY <1>2 DEF Rows, Statuses
<1>. HIDE DEF r
<1>4. transport'[t] = r /\ r # None /\ Live(t)'
  BY <1>1, <1>3, RowAssumption DEF Written, FlowInv, Typed, TypeOK, Live
<1>5. ASSUME NEW p, NEW e, Agreed(p, e), ~(Ended(transport[t], e) <=> Ended(r, e))
      PROVE  transport[t].load[p] = 0
  <2>1. p \notin Reopened(t, e) /\ p \in Products /\ e \in {"DELIVERED", "CANCELED"}
    BY <1>1, <1>5, AgreedFacts DEF FlowInv, Typed, Agreed, Endings
  <2>2. transport[t].status = e /\ transport'[t].status # e
    BY <1>3, <1>4, <1>5, <2>1 DEF Ended
  <2>3. p \notin Positive(transport[t].load)
    BY <1>1, <1>4, <2>1, <2>2 DEF Reopened
  <2>. QED BY <1>2, <2>1, <2>3 DEF Positive
<1>6. Passing(t, r)
  BY <1>1, <1>3, <1>4, <1>5 DEF Passing
<1>. QED BY <1>1, <1>6

\* Every step that writes rows or stock is one of these.
UnitMoves ==
  \/ UNCHANGED <<transport, stock>>
  \/ \E t \in Ids : \E r :
       /\ Written(t, r)
       /\ \/ \E load : Loading(t, r, load) /\ UnitLoad(load)
          \/ Delivering(t, r) \/ Returning(t, r) \/ Passing(t, r)

LEMMA StepMoves ==
  ASSUME FlowInv, StepKinds PROVE UnitMoves
<1>1. ASSUME \/ \E c \in Callers, x \in Requests : Begin(c, x) \/ GoesOn(c, x)
             \/ \E c \in Callers : Refuse(c)
             \/ \E v \in Vehicles, s \in VehicleStatuses : SetVehicle(v, s)
             \/ Idle
      PROVE  UNCHANGED <<transport, stock>>
  BY <1>1 DEF Begin, GoesOn, Refuse, SetVehicle, Idle, tables
<1>. QED
  BY <1>1, CreateLoads, AddLoads, UpdateMoves, RemoveMoves, ArrivalMoves
  DEF StepKinds, UnitMoves

-----------------------------------------------------------------------------
(***************************************************************************)
(* The sums over the transports.                                           *)
(***************************************************************************)
OnTransports(p) == [t \in Ids |-> UnitsOf(t, p)]
Brought(p) == [t \in Ids |-> DeliveredBy(t, p)]

LEMMA IdsFinite == IsFiniteSet(Ids)
<1>1. IsFiniteSet(1..MaxTransports)
  BY FS_Interval, TransportsAssumption
<1>. QED BY <1>1 DEF Ids

LEMMA UnitsTyped ==
  ASSUME TypeOK, NEW p \in Products
  PROVE  OnTransports(p) \in [Ids -> Int] /\ Brought(p) \in [Ids -> Int]
<1>1. ASSUME NEW t \in Ids PROVE UnitsOf(t, p) \in Int /\ DeliveredBy(t, p) \in Int
  BY DEF TypeOK, UnitsOf, DeliveredBy, Live, Rows
<1>. QED BY <1>1 DEF OnTransports, Brought

\* The units r holds, those that are aboard, and those it has brought.
Held(r, p) == IF r # None /\ r.status # "CANCELED" THEN r.load[p] ELSE 0
OnWay(r, p) == IF r # None /\ r.status \in Active THEN r.load[p] ELSE 0
Given(r, p) == IF r # None /\ r.status = "DELIVERED" THEN r.load[p] ELSE 0

\* A write to row t changes the units on transports by what the row holds.
LEMMA UnitsWritten ==
  ASSUME TypeOK, TypeOK', NEW t \in Ids, NEW r, Written(t, r), NEW p \in Products
  PROVE  /\ SumFunction(OnTransports(p))'
               = SumFunction(OnTransports(p)) - Held(transport[t], p) + Held(r, p)
         /\ SumFunction(Brought(p))'
               = SumFunction(Brought(p)) - Given(transport[t], p) + Given(r, p)
         /\ Aboard(p, t)' = OnWay(r, p) /\ Aboard(p, t) = OnWay(transport[t], p)
         /\ \A s \in Ids \ {t} : Aboard(p, s)' = Aboard(p, s)
<1>1. transport'[t] = r /\ \A s \in Ids \ {t} : transport'[s] = transport[s]
  BY DEF TypeOK, Written
<1>2. /\ OnTransports(p) \in [Ids -> Int] /\ Brought(p) \in [Ids -> Int]
      /\ OnTransports(p)' \in [Ids -> Int] /\ Brought(p)' \in [Ids -> Int]
  <2>1. /\ OnTransports(p) \in [Ids -> Int]
        /\ Brought(p) \in [Ids -> Int]
    BY UnitsTyped
  <2>2. ASSUME NEW s \in Ids PROVE UnitsOf(s, p)' \in Int /\ DeliveredBy(s, p)' \in Int
    BY DEF TypeOK, UnitsOf, DeliveredBy, Live, Rows
  <2>3. OnTransports(p)' \in [Ids -> Int] /\ Brought(p)' \in [Ids -> Int]
    BY <2>2 DEF OnTransports, Brought
  <2>. QED BY <2>1, <2>3
<1>3. /\ OnTransports(p)[t] = Held(transport[t], p) /\ OnTransports(p)'[t] = Held(r, p)
      /\ Brought(p)[t] = Given(transport[t], p) /\ Brought(p)'[t] = Given(r, p)
  BY <1>1 DEF OnTransports, Brought, UnitsOf, DeliveredBy, Live, Held, Given
<1>4. \A s \in Ids \ {t} : /\ OnTransports(p)'[s] = OnTransports(p)[s]
                          /\ Brought(p)'[s] = Brought(p)[s]
  BY <1>1 DEF OnTransports, Brought, UnitsOf, DeliveredBy, Live
<1>5. PICK f, g, h, k : f = OnTransports(p) /\ g = OnTransports(p)' /\ h = Brought(p) /\ k = Brought(p)'
  OBVIOUS
<1>6. /\ SumFunction(g) = SumFunction(f) - f[t] + g[t]
      /\ SumFunction(k) = SumFunction(h) - h[t] + k[t]
  BY <1>2, <1>4, <1>5, IdsFinite, TotalChange
<1>7. /\ Aboard(p, t)' = OnWay(r, p) /\ Aboard(p, t) = OnWay(transport[t], p)
      /\ \A s \in Ids \ {t} : Aboard(p, s)' = Aboard(p, s)
  BY <1>1 DEF Aboard, OnWay, Live
<1>. QED BY <1>3, <1>5, <1>6, <1>7

\* What stock and row t hold together of an agreed product is what they held.
LEMMA MoveBalanced ==
  ASSUME FlowInv, NEW t \in Ids, NEW r,
         \/ \E load : Loading(t, r, load)
         \/ Delivering(t, r) \/ Returning(t, r) \/ Passing(t, r),
         NEW p, Agreed(p, "CANCELED")
  PROVE  /\ stock'[p] + Held(r, p) = stock[p] + Held(transport[t], p)
         /\ Held(r, p) \in Int /\ Held(transport[t], p) \in Int
<1>1. p \in Products /\ stock[p] \in Int
  BY DEF Agreed, FlowInv, Typed, TypeOK
<1>2. transport[t] # None => transport[t] \in Rows /\ transport[t].load[p] \in Int
  BY <1>1 DEF FlowInv, Typed, TypeOK, Rows
<1>3. r \in Rows => r # None /\ r.load[p] \in Int
  BY <1>1, RowAssumption DEF Rows
<1>4. ASSUME NEW load, Loading(t, r, load)
      PROVE  /\ stock'[p] + Held(r, p) = stock[p] + Held(transport[t], p)
             /\ Held(r, p) \in Int /\ Held(transport[t], p) \in Int
  <2>1. /\ load[p] \in Int /\ r \in Rows
        /\ stock'[p] = stock[p] - load[p]
        /\ transport[t] = None \/ r.status = transport[t].status
        /\ r.load[p] = IF transport[t] = None THEN load[p] ELSE transport[t].load[p] + load[p]
        /\ Ended(r, "CANCELED") => load[p] = 0
    BY <1>1, <1>4 DEF Loading, Reserved
  <2>. QED BY <1>1, <1>2, <1>3, <2>1 DEF Held, Ended
<1>5. CASE Delivering(t, r)
  BY <1>1, <1>2, <1>3, <1>5 DEF Delivering, Held, Ended, Live
<1>6. CASE Returning(t, r)
  <2>1. /\ stock'[p] = stock[p] + transport[t].load[p]
        /\ Ended(transport[t], "CANCELED") => transport[t].load[p] = 0
    BY <1>6 DEF Returning
  <2>2. Held(r, p) = 0 /\ transport[t] # None
    BY <1>6 DEF Returning, Held, Live
  <2>. QED BY <1>1, <1>2, <2>1, <2>2 DEF Held, Ended
<1>7. CASE Passing(t, r)
  <2>1. stock' = stock /\ transport[t] # None
    BY <1>7 DEF Passing, Live
  <2>2. CASE r = None
    <3>1. ~Ended(transport[t], "CANCELED") => transport[t].load[p] = 0
      BY <1>7, <2>2 DEF Passing
    <3>. QED BY <1>1, <1>2, <2>1, <2>2, <3>1 DEF Held, Ended
  <2>3. CASE r # None
    <3>1. /\ r \in Rows /\ r.load = transport[t].load
          /\ ~(Ended(transport[t], "CANCELED") <=> Ended(r, "CANCELED")) => transport[t].load[p] = 0
      BY <1>7, <2>3 DEF Passing
    <3>. QED BY <1>1, <1>2, <1>3, <2>1, <3>1 DEF Held, Ended
  <2>. QED BY <2>2, <2>3
<1>. QED BY <1>4, <1>5, <1>6, <1>7

\* The units of a product that is not disputed are in stock or on one transport
\* that was not cancelled, whichever requests take and return them at once.
THEOREM UnitsStayInOnePlace == Spec => []UnitsInOnePlace
<1>1. Init => UnitsInOnePlace
  <2>. SUFFICES ASSUME Init, NEW p \in Products
                PROVE  stock[p] + SumFunction(OnTransports(p)) = InitialStock[p]
    BY DEF UnitsInOnePlace, OnTransports
  <2>1. \A t \in Ids : UnitsOf(t, p) = 0
    BY DEF Init, UnitsOf, Live
  <2>2. OnTransports(p) = [t \in Ids |-> 0]
    BY <2>1 DEF OnTransports
  <2>3. SumFunction(OnTransports(p)) = 0
    BY <2>2, IdsFinite, TotalZero
  <2>. QED BY <2>3, TransportsAssumption DEF Init
<1>2. FlowInv /\ Typed' /\ UnitsInOnePlace /\ [Next]_vars => UnitsInOnePlace'
  <2>. SUFFICES ASSUME FlowInv, Typed', UnitsInOnePlace, [Next]_vars,
                       NEW p \in Products, p \notin disputed'["CANCELED"]
                PROVE  stock'[p] + SumFunction(OnTransports(p))' = InitialStock[p]
    BY DEF UnitsInOnePlace, OnTransports
  <2>0. StepKinds /\ Agreed(p, "CANCELED")
    BY StepIsKind DEF FlowInv, Typed, Agreed, Endings
  <2>1. stock[p] + SumFunction(OnTransports(p)) = InitialStock[p]
    <3>1. p \notin disputed["CANCELED"]
      BY <2>0, HistoryGrows DEF FlowInv, Typed, Endings
    <3>. QED BY <3>1 DEF UnitsInOnePlace, OnTransports
  <2>2. CASE UNCHANGED <<transport, stock>>
    BY <2>1, <2>2 DEF OnTransports, UnitsOf, Live
  <2>3. ASSUME NEW t \in Ids, NEW r, Written(t, r),
               \/ \E load : Loading(t, r, load)
               \/ Delivering(t, r) \/ Returning(t, r) \/ Passing(t, r)
        PROVE  stock'[p] + SumFunction(OnTransports(p))' = InitialStock[p]
    <3>1. SumFunction(OnTransports(p))'
            = SumFunction(OnTransports(p)) - Held(transport[t], p) + Held(r, p)
      BY <2>3, UnitsWritten DEF FlowInv, Typed
    <3>2. /\ stock[p] \in Int /\ stock'[p] \in Int
      BY DEF FlowInv, Typed, TypeOK
    <3>3. SumFunction(OnTransports(p)) \in Int
      BY UnitsTyped, IdsFinite, TotalInt DEF FlowInv, Typed
    <3>4. /\ stock'[p] + Held(r, p) = stock[p] + Held(transport[t], p)
          /\ Held(r, p) \in Int /\ Held(transport[t], p) \in Int
      BY <2>0, <2>3, MoveBalanced
    <3>. QED BY <2>1, <3>1, <3>2, <3>3, <3>4
  <2>. QED BY <2>0, <2>2, <2>3, StepMoves DEF UnitMoves
<1>3. Typed /\ [Next]_vars => Typed'
  BY TypedNext
<1>4. FlowInv => Typed
  BY DEF FlowInv
<1>. QED BY <1>1, <1>2, <1>3, <1>4, FlowHolds, PTL DEF Spec

-----------------------------------------------------------------------------
(***************************************************************************)
(* The service implements Fleet: a creation and an added product are Take, *)
(* a delivery is Deliver; a cancellation, and the removal of a pending     *)
(* transport, are Return; everything else is Rest.                         *)
(***************************************************************************)
AboardOf == [p \in Products |-> [t \in Ids |-> Aboard(p, t)]]
Totals == [p \in Products |-> SumFunction(Brought(p))]
Disputes == UNION {disputed[e] : e \in Endings}

LEMMA SettledAgreed ==
  ASSUME TypeOK, TypeOK', NEW p \in Products \ Disputes'
  PROVE  Agreed(p, "CANCELED") /\ Agreed(p, "DELIVERED")
BY DEF Disputes, Agreed, Endings

LEMMA DisputesGrow ==
  ASSUME TypeOK, StepKinds PROVE Disputes \subseteq Disputes'
BY HistoryGrows, Zenon DEF Disputes

\* What a write to row t makes of the units of one product, for Fleet.
LEMMA FleetWritten ==
  ASSUME FlowInv, TypeOK', NEW t \in Ids, NEW r, Written(t, r), NEW p \in Products
  PROVE  /\ AboardOf'[p] = [AboardOf[p] EXCEPT ![t] = OnWay(r, p)]
         /\ AboardOf[p][t] = OnWay(transport[t], p)
         /\ AboardOf[p] \in [Ids -> Int]
         /\ Totals'[p] = Totals[p] - Given(transport[t], p) + Given(r, p)
         /\ Totals[p] \in Int /\ stock[p] \in Int
<1>1. /\ SumFunction(Brought(p))' = SumFunction(Brought(p)) - Given(transport[t], p) + Given(r, p)
      /\ Aboard(p, t)' = OnWay(r, p) /\ Aboard(p, t) = OnWay(transport[t], p)
      /\ \A s \in Ids \ {t} : Aboard(p, s)' = Aboard(p, s)
  BY UnitsWritten DEF FlowInv, Typed
<1>2. SumFunction(Brought(p)) \in Int
  BY UnitsTyped, IdsFinite, TotalInt DEF FlowInv, Typed
<1>3. \A s \in Ids : Aboard(p, s) \in Int
  BY DEF Aboard, Live, FlowInv, Typed, TypeOK, Rows
<1>4. AboardOf[p] = [s \in Ids |-> Aboard(p, s)] /\ AboardOf'[p] = [s \in Ids |-> Aboard(p, s)']
  BY DEF AboardOf
<1>5. stock[p] \in Int /\ Totals[p] = SumFunction(Brought(p))
      /\ Totals'[p] = SumFunction(Brought(p))'
  BY DEF FlowInv, Typed, TypeOK, Totals
<1>. QED BY <1>1, <1>2, <1>3, <1>4, <1>5

\* The step of Fleet for one product.
Takes(t, load, p) ==
  /\ stock'[p] = stock[p] - load[p]
  /\ AboardOf'[p] = [AboardOf[p] EXCEPT ![t] = @ + load[p]] /\ Totals'[p] = Totals[p]
DeliveredOf(t, p) ==
  /\ Totals'[p] = Totals[p] + AboardOf[p][t]
  /\ AboardOf'[p] = [AboardOf[p] EXCEPT ![t] = 0] /\ stock'[p] = stock[p]
ReturnedOf(t, p) ==
  /\ stock'[p] = stock[p] + AboardOf[p][t]
  /\ AboardOf'[p] = [AboardOf[p] EXCEPT ![t] = 0] /\ Totals'[p] = Totals[p]
Rests(p) == stock'[p] = stock[p] /\ AboardOf'[p] = AboardOf[p] /\ Totals'[p] = Totals[p]

LEMMA MoveOfProduct ==
  ASSUME FlowInv, TypeOK', NEW t \in Ids, NEW r, Written(t, r),
         NEW p \in Products \ Disputes'
  PROVE  /\ \A load : Loading(t, r, load) => Takes(t, load, p)
         /\ Delivering(t, r) => DeliveredOf(t, p)
         /\ Returning(t, r) => ReturnedOf(t, p)
         /\ Passing(t, r) => Rests(p)
<1>1. Agreed(p, "CANCELED") /\ Agreed(p, "DELIVERED") /\ p \in Products
  BY SettledAgreed DEF FlowInv, Typed
<1>2. transport[t] # None =>
        /\ transport[t] \in Rows /\ transport[t].load[p] \in Int
        /\ transport[t].status \in Statuses
  BY <1>1 DEF FlowInv, Typed, TypeOK, Rows
<1>3. r \in Rows => r # None /\ r.load[p] \in Int /\ r.status \in Statuses
  BY <1>1, RowAssumption DEF Rows
<1>4. PICK A, B, a, b, z, y :
        /\ A = AboardOf[p] /\ B = AboardOf'[p] /\ a = OnWay(transport[t], p) /\ b = OnWay(r, p)
        /\ z = Given(transport[t], p) /\ y = Given(r, p)
  OBVIOUS
<1>5. /\ B = [A EXCEPT ![t] = b] /\ A[t] = a /\ A \in [Ids -> Int]
      /\ Totals'[p] = Totals[p] - z + y /\ Totals[p] \in Int /\ stock[p] \in Int
  BY <1>1, <1>4, FleetWritten
<1>6. ASSUME NEW load, Loading(t, r, load) PROVE Takes(t, load, p)
  <2>1. /\ load[p] \in Int /\ r \in Rows
        /\ stock'[p] = stock[p] - load[p]
        /\ transport[t] = None \/ r.status = transport[t].status
        /\ r.load[p] = IF transport[t] = None THEN load[p] ELSE transport[t].load[p] + load[p]
        /\ Ended(r, "CANCELED") => load[p] = 0
        /\ Ended(r, "DELIVERED") => load[p] = 0
    BY <1>1, <1>5, <1>6 DEF Loading, Reserved
  <2>2. b = a + load[p] /\ z = y /\ z \in Int
    BY <1>2, <1>3, <1>4, <2>1 DEF OnWay, Given, Ended, Statuses, Active
  <2>. QED BY <1>4, <1>5, <2>1, <2>2 DEF Takes
<1>7. ASSUME Delivering(t, r) PROVE DeliveredOf(t, p)
  <2>1. /\ r \in Rows /\ r.status = "DELIVERED" /\ r.load = transport[t].load
        /\ transport[t] # None /\ stock' = stock
        /\ Ended(transport[t], "CANCELED") => transport[t].load[p] = 0
        /\ Ended(transport[t], "DELIVERED") => transport[t].load[p] = 0
    BY <1>1, <1>7 DEF Delivering, Live
  <2>2. b = 0 /\ y = z + a /\ z \in Int /\ a \in Int
    BY <1>2, <1>3, <1>4, <2>1 DEF OnWay, Given, Ended, Statuses, Active
  <2>. QED BY <1>4, <1>5, <2>1, <2>2 DEF DeliveredOf
<1>8. ASSUME Returning(t, r) PROVE ReturnedOf(t, p)
  <2>1. /\ transport[t] # None /\ stock'[p] = stock[p] + transport[t].load[p]
        /\ Ended(transport[t], "CANCELED") => transport[t].load[p] = 0
        /\ Ended(transport[t], "DELIVERED") => transport[t].load[p] = 0
        /\ r = None \/ r.status = "CANCELED"
    BY <1>1, <1>8 DEF Returning, Live
  <2>2. b = 0 /\ y = 0 /\ z = 0 /\ a = transport[t].load[p]
    BY <1>2, <1>4, <2>1 DEF OnWay, Given, Ended, Statuses, Active
  <2>. QED BY <1>4, <1>5, <2>1, <2>2 DEF ReturnedOf
<1>9. ASSUME Passing(t, r) PROVE Rests(p)
  <2>1. stock' = stock /\ transport[t] # None
    BY <1>9 DEF Passing, Live
  <2>2. b = a /\ y = z /\ z \in Int
    <3>1. CASE r = None
      <4>1. /\ ~Ended(transport[t], "CANCELED") => transport[t].load[p] = 0
            /\ Ended(transport[t], "DELIVERED") => transport[t].load[p] = 0
        BY <1>1, <1>9, <3>1 DEF Passing
      <4>. QED BY <1>2, <1>4, <2>1, <3>1, <4>1 DEF OnWay, Given, Ended, Active
    <3>2. CASE r # None
      <4>1. /\ r \in Rows /\ r.load = transport[t].load
            /\ ~(Ended(transport[t], "CANCELED") <=> Ended(r, "CANCELED")) => transport[t].load[p] = 0
            /\ ~(Ended(transport[t], "DELIVERED") <=> Ended(r, "DELIVERED")) => transport[t].load[p] = 0
        BY <1>1, <1>9, <3>2 DEF Passing
      <4>. QED BY <1>2, <1>3, <1>4, <2>1, <3>2, <4>1 DEF OnWay, Given, Ended, Statuses, Active
    <3>. QED BY <3>1, <3>2
  <2>. QED BY <1>4, <1>5, <2>1, <2>2 DEF Rests
<1>. QED BY <1>6, <1>7, <1>8, <1>9

\* Every behaviour of the service is one that Fleet allows.
THEOREM FleetImplemented == Spec => ImplementsFleet
<1>1. Init => FleetOf!Init
  <2>. SUFFICES ASSUME Init PROVE FleetOf!Init
    OBVIOUS
  <2>1. \A t \in Ids : ~Live(t)
    BY DEF Init, Live
  <2>2. \A p \in Products, t \in Ids : Aboard(p, t) = 0
    BY <2>1 DEF Aboard
  <2>3. ASSUME NEW p \in Products PROVE SumFunction([t \in Ids |-> DeliveredBy(t, p)]) = 0
    <3>1. [t \in Ids |-> DeliveredBy(t, p)] = [t \in Ids |-> 0]
      BY <2>1 DEF DeliveredBy
    <3>. QED BY <3>1, IdsFinite, TotalZero
  <2>4. UNION {disputed[e] : e \in Endings} = {}
    BY DEF Init
  <2>. QED BY <2>2, <2>3, <2>4 DEF Init, FleetOf!Init
<1>2. FlowInv /\ Typed' /\ [Next]_vars => [FleetOf!Next]_(FleetOf!vars)
  <2>. SUFFICES ASSUME FlowInv, Typed', [Next]_vars PROVE FleetOf!Next
    OBVIOUS
  <2>0. StepKinds /\ TypeOK'
    BY StepIsKind DEF FlowInv, Typed
  <2>. DEFINE Settled == Products \ Disputes'
  <2>1. Disputes \subseteq Disputes'
    BY <2>0, DisputesGrow DEF FlowInv, Typed
  <2>2. ASSUME \A p \in Settled : Rests(p) PROVE FleetOf!Next
    <3>1. \A p \in Settled : FleetOf!Rest(p)
      BY <2>2 DEF Rests, AboardOf, Totals, Brought, FleetOf!Rest
    <3>. QED BY <2>1, <3>1 DEF FleetOf!Next, Disputes
  <2>3. ASSUME NEW t \in Ids, NEW load, UnitLoad(load), \A p \in Settled : Takes(t, load, p)
        PROVE  FleetOf!Next
    <3>1. \A p \in Settled : FleetOf!Take(t, load, p)
      BY <2>3 DEF Takes, AboardOf, Totals, Brought, FleetOf!Take
    <3>. QED BY <2>1, <2>3, <3>1 DEF FleetOf!Next, Disputes, UnitLoad, UnitLoads
  <2>4. ASSUME NEW t \in Ids, \A p \in Settled : DeliveredOf(t, p) PROVE FleetOf!Next
    <3>1. \A p \in Settled : FleetOf!Deliver(t, p)
      BY <2>4 DEF DeliveredOf, AboardOf, Totals, Brought, FleetOf!Deliver
    <3>. QED BY <2>1, <3>1 DEF FleetOf!Next, Disputes
  <2>5. ASSUME NEW t \in Ids, \A p \in Settled : ReturnedOf(t, p) PROVE FleetOf!Next
    <3>1. \A p \in Settled : FleetOf!Return(t, p)
      BY <2>5 DEF ReturnedOf, AboardOf, Totals, Brought, FleetOf!Return
    <3>. QED BY <2>1, <3>1 DEF FleetOf!Next, Disputes
  <2>6. CASE UNCHANGED <<transport, stock>>
    BY <2>2, <2>6 DEF Rests, AboardOf, Totals, Brought, Aboard, DeliveredBy, Live
  <2>7. ASSUME NEW t \in Ids, NEW r, Written(t, r),
               \/ \E load : Loading(t, r, load) /\ UnitLoad(load)
               \/ Delivering(t, r) \/ Returning(t, r) \/ Passing(t, r)
        PROVE  FleetOf!Next
    BY <2>0, <2>2, <2>3, <2>4, <2>5, <2>7, MoveOfProduct
  <2>. QED BY <2>0, <2>6, <2>7, StepMoves DEF UnitMoves
<1>3. Typed /\ [Next]_vars => Typed'
  BY TypedNext
<1>4. FlowInv => Typed
  BY DEF FlowInv
<1>. QED BY <1>1, <1>2, <1>3, <1>4, FlowHolds, PTL DEF Spec, ImplementsFleet, FleetOf!Spec

=============================================================================
