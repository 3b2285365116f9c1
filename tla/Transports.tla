------------------------------ MODULE Transports ------------------------------
(***************************************************************************)
(* The transports of the logistics service                                 *)
(* (backend-nest/src/modules/transports/transports.service.ts) with the    *)
(* vehicles they occupy and the stock they carry.                          *)
(*                                                                         *)
(* A handler reads and checks in queries of their own and then writes in   *)
(* one transaction; each query and each transaction is a step.  What the   *)
(* handler does not look at again inside the transaction may have changed. *)
(* The two queries of checkVehicleAvailability are one step.  A request    *)
(* that fails before its transaction is one that was never made.           *)
(*                                                                         *)
(* Left out: addresses and dates, weights (a refusal for weight is a       *)
(* request that is not made), product.status and the movement log, which   *)
(* no handler of this service reads.                                       *)
(***************************************************************************)
EXTENDS Integers, FiniteSets, FiniteSetsExt, Functions

CONSTANTS
  Companies,     \* tenants
  Vehicles,
  Products,
  Owner,         \* the company of each vehicle and each product
  MaxTransports, \* bound: transports created in a behaviour
  Callers,       \* requests that can be under way at once
  Loads,         \* what a creation may ask for: units of each product
  Starts,        \* the statuses a creation may ask for
  InitialStock,
  MaxRequests,   \* bound: requests begun in a behaviour
  Updates,       \* <<to, on>>: what an update may write ("keep", None: nothing)
  Settable,      \* the statuses operators give to vehicles
  None           \* no row, no request, no vehicle

Statuses == {"PENDING", "IN_TRANSIT", "ARRIVED", "DELIVERED", "CANCELED"}
VehicleStatuses == {"available", "in_use", "in_maintenance", "retired"}
Ids == 1..MaxTransports
Endings == {"DELIVERED", "CANCELED"}

ASSUME TransportsAssumption ==
  /\ Owner \in [Vehicles \cup Products -> Companies]
  /\ MaxTransports \in Nat
  /\ IsFiniteSet(Callers)
  /\ Loads \subseteq [Products -> Nat]
  /\ InitialStock \in [Products -> Nat]
  /\ Starts \subseteq Statuses
  /\ MaxRequests \in Nat
  /\ Updates \subseteq (Statuses \cup {"keep"}) \X (Vehicles \cup {None})
  /\ Settable \subseteq VehicleStatuses
  /\ None \notin Vehicles

VARIABLES
  vehicle,    \* vehicle[v]: Vehicle.status
  transport,  \* transport[t]: the t-th row created, or None
  created,    \* rows created so far: createdAt orders them like Ids
  stock,      \* Product.quantity
  call,       \* call[c]: the request c is at, or None
  begun,      \* requests so far, for the bound
  night,      \* the rows autoArriveTransports has read and not yet updated
  crowded,    \* history: the vehicles a transport came to unchecked
  misled,     \* history: the vehicles whose status strangers wrote
  disputed    \* history: the products whose units requests disagreed about

tables == <<vehicle, transport, created, stock>>
history == <<crowded, misled, disputed>>
vars == <<vehicle, transport, created, stock, call, begun, night, crowded, misled, disputed>>

Rows == [company : Companies, code : Nat, vehicle : Vehicles, status : Statuses,
         load : [Products -> Nat]]

(***************************************************************************)
(* A request: `row` is the transport as it was read, or the one to create  *)
(* (with code 0 until it is numbered); `ask` the units to take, `left` the *)
(* products still to be checked; `to` and `on` the status and the vehicle  *)
(* an update writes ("keep" and None: it writes none).                     *)
(***************************************************************************)
Request(op, t, row) ==
  [op |-> op, t |-> t, row |-> row, ask |-> [p \in Products |-> 0], left |-> {},
   to |-> "keep", on |-> None]

Requests ==
  [op : {"create", "add", "update", "remove"}, t : Ids \cup {0}, row : Rows,
   ask : [Products -> Nat], left : SUBSET Products,
   to : Statuses \cup {"keep"}, on : Vehicles \cup {None}]

ASSUME RowAssumption ==
  None \notin Rows /\ None \notin Requests /\ None \notin [Products -> Nat]

Live(t) == transport[t] # None

\* The statuses in which a transport occupies its vehicle.
Active == {"PENDING", "IN_TRANSIT", "ARRIVED"}
Carrying(v) ==
  {t \in Ids : Live(t) /\ transport[t].vehicle = v /\ transport[t].status \in Active}

Init ==
  /\ vehicle = [v \in Vehicles |-> "available"]
  /\ transport = [t \in Ids |-> None]
  /\ created = 0
  /\ stock = InitialStock
  /\ call = [c \in Callers |-> None]
  /\ begun = 0
  /\ night = {}
  /\ crowded = {} /\ misled = {}
  /\ disputed = [e \in Endings |-> {}]

-----------------------------------------------------------------------------
(***************************************************************************)
(* What happened to a vehicle or a product that the service does not guard *)
(* against, so that the properties can say what it does guard.  No action  *)
(* looks at it.                                                            *)
(***************************************************************************)
Ends(c) == call[c] # None /\ call'[c] = None
Creates(c, v) == call[c] # None /\ call[c].op = "create" /\ call[c].row.vehicle = v
InUse(v) == vehicle[v] = "in_use"

\* A second creation for v begins, or t becomes a transport of v after its creation.
TwoCreate(v) == \E c, d \in Callers : c # d /\ Creates(c, v)' /\ Creates(d, v)'
ComesTo(t, v) == Live(t) /\ t \notin Carrying(v) /\ t \in Carrying(v)'

\* t is taken off v, or a request that is not about an active transport of v
\* puts v into use or out of it.
TakenOff(t, v) == t \in Carrying(v) /\ Live(t)' /\ transport'[t].vehicle # v
ActsFor(c, v) ==
  IF Creates(c, v) THEN call[c].row.status \in Active
                   ELSE call[c].row.vehicle = v /\ call[c].t \in Carrying(v)
WrittenByStranger(v) ==
  /\ InUse(v) # InUse(v)'
  /\ ~ \E c \in Callers : Ends(c) /\ ActsFor(c, v)

Positive(load) == {p \in Products : load[p] > 0}

\* The products of a transport that ended in e when it was created, or for one
\* of c, the request that writes it, and the row, but not for the other.
Misread(c, e) ==
  LET x == call[c] IN
  IF x.op = "create"
    THEN IF x.row.status = e THEN Positive(x.row.load) ELSE {}
    ELSE IF Live(x.t) /\ (x.row.status = e) # (transport[x.t].status = e)
           THEN Positive(x.row.load) \cup Positive(x.ask) \cup Positive(transport[x.t].load)
           ELSE {}

\* The products a removal gives back otherwise than they are on the transport.
Miscounted(c) ==
  LET x == call[c] IN
  {p \in Products : x.op = "remove" /\ Live(x.t) /\ x.row.load[p] # transport[x.t].load[p]}

\* The products of a transport that goes on after it ended in e.
Reopened(t, e) ==
  IF Live(t) /\ Live(t)' /\ transport[t].status = e /\ transport'[t].status # e
    THEN Positive(transport[t].load) ELSE {}

Remember ==
  /\ crowded' = crowded \cup
       {v \in Vehicles : TwoCreate(v) \/ \E t \in Ids : ComesTo(t, v)}
  /\ misled' = misled \cup
       {v \in Vehicles : WrittenByStranger(v) \/ \E t \in Ids : TakenOff(t, v)}
  /\ disputed' = [e \in Endings |-> disputed[e]
       \cup (UNION {Misread(c, e) \cup Miscounted(c) : c \in {d \in Callers : Ends(d)}})
       \cup (UNION {Reopened(t, e) : t \in Ids})]

-----------------------------------------------------------------------------
Begin(c, request) ==
  /\ call[c] = None
  /\ begun < MaxRequests
  /\ call' = [call EXCEPT ![c] = request]
  /\ begun' = begun + 1
  /\ UNCHANGED <<tables, night>>
  /\ Remember

Answered(c) == call' = [call EXCEPT ![c] = None]

\* An arrival that counts as the end of a transport.
FreeOnceArrived(v) == \A t \in Carrying(v) : transport[t].status = "ARRIVED"
Available(v) == Carrying(v) = {}

\* create: the vehicle belongs to the company, is in service and carries no
\* active transport.  The status is the one asked for.
BeginCreate(c, v, load, s) ==
  LET row == [company |-> Owner[v], code |-> 0, vehicle |-> v,
              status |-> s, load |-> load]
  IN
  /\ created + Cardinality({d \in Callers : call[d] # None /\ call[d].op = "create"})
       < MaxTransports
  /\ vehicle[v] \notin {"in_maintenance", "retired"}
  /\ Available(v)
  /\ \A p \in Positive(load) : Owner[p] = Owner[v]
  /\ Begin(c, [Request("create", 0, row) EXCEPT !.ask = load, !.left = Positive(load)])

\* A product can be added to any transport that was not cancelled.
NotCancelled(t) == transport[t].status # "CANCELED"
Pending(t) == transport[t].status = "PENDING"

\* addProduct.
BeginAdd(c, t, p, q) ==
  /\ Live(t) /\ Pending(t)
  /\ Owner[p] = transport[t].company
  /\ Begin(c, [Request("add", t, transport[t]) EXCEPT !.ask[p] = q, !.left = {p}])

\* One product is read: it has the units.
CheckProduct(c) ==
  /\ call[c] # None
  /\ \E p \in call[c].left :
       /\ stock[p] >= call[c].ask[p]
       /\ call' = [call EXCEPT ![c].left = @ \ {p}]
  /\ UNCHANGED <<tables, begun, night, history>>

\* The number of the company's newest transport, by createdAt.
LastCode(company) ==
  LET own == {t \in Ids : Live(t) /\ transport[t].company = company}
  IN  IF own = {} THEN 0 ELSE transport[Max(own)].code

ReadCode(c) ==
  /\ call[c] # None /\ call[c].op = "create"
  /\ call[c].left = {} /\ call[c].row.code = 0
  /\ call' = [call EXCEPT ![c].row.code = LastCode(call[c].row.company) + 1]
  /\ UNCHANGED <<tables, begun, night, history>>

-----------------------------------------------------------------------------
(***************************************************************************)
(* The transactions.                                                       *)
(***************************************************************************)
Reserved(load) == [p \in Products |-> stock[p] - load[p]]
Returned(load) == [p \in Products |-> stock[p] + load[p]]

\* internalCode is unique in the table, whatever the company.
CodeTaken(code) == \E t \in Ids : Live(t) /\ transport[t].code = code

CommitCreate(c) ==
  LET row == call[c].row IN
  /\ call[c] # None /\ call[c].op = "create"
  /\ row.code > 0 /\ ~CodeTaken(row.code)
  /\ created' = created + 1
  /\ transport' = [transport EXCEPT ![created + 1] = row]
  /\ stock' = Reserved(row.load)
  /\ vehicle' = [vehicle EXCEPT ![row.vehicle] = "in_use"]
  /\ Answered(c)
  /\ UNCHANGED <<begun, night>>
  /\ Remember

\* A product can be on a transport once: the pair is unique.
CommitAdd(c) ==
  LET t == call[c].t  ask == call[c].ask IN
  /\ call[c] # None /\ call[c].op = "add" /\ call[c].left = {}
  /\ Live(t) /\ \A p \in Positive(ask) : transport[t].load[p] = 0
  /\ transport' = [transport EXCEPT ![t].load = [p \in Products |-> @[p] + ask[p]]]
  /\ stock' = Reserved(ask)
  /\ vehicle' = [vehicle EXCEPT ![call[c].row.vehicle] = "in_use"]
  /\ Answered(c)
  /\ UNCHANGED <<created, begun, night>>
  /\ Remember

\* update: any status, with the delivery checked against the one that was read;
\* any vehicle, whatever its company and its transports.
BeginUpdate(c, t, to, v) ==
  /\ Live(t)
  /\ to = "DELIVERED" => transport[t].status \in {"ARRIVED", "DELIVERED"}
  /\ Begin(c, [Request("update", t, transport[t]) EXCEPT !.to = to, !.on = v])

Updating(c, t) == call[c] # None /\ call[c].op = "update" /\ call[c].t = t /\ Live(t)

Delivers(c) == call[c].to = "DELIVERED" /\ call[c].row.status # "DELIVERED"
Cancels(c) == call[c].to = "CANCELED" /\ call[c].row.status # "CANCELED"

\* A status change that keeps the vehicle.
StillInUse(v) == vehicle
\* A status no vehicle has.
SetFree(v) == [vehicle EXCEPT ![v] = "free"]
Freed(v) == [vehicle EXCEPT ![v] = "available"]

WriteRow(c, t) ==
  transport' = [transport EXCEPT
    ![t].status = IF call[c].to = "keep" THEN @ ELSE call[c].to,
    ![t].vehicle = IF call[c].on = None THEN @ ELSE call[c].on]

Deliver(c, t) ==
  /\ Updating(c, t) /\ Delivers(c)
  /\ WriteRow(c, t)
  /\ vehicle' = Freed(call[c].row.vehicle)
  /\ Answered(c)
  /\ UNCHANGED <<created, stock, begun, night>>
  /\ Remember

\* The products are those of the row now, the vehicle is the one that was read.
Cancel(c, t) ==
  /\ Updating(c, t) /\ Cancels(c)
  /\ WriteRow(c, t)
  /\ stock' = Returned(transport[t].load)
  /\ vehicle' = Freed(call[c].row.vehicle)
  /\ Answered(c)
  /\ UNCHANGED <<created, begun, night>>
  /\ Remember

Edit(c, t) ==
  /\ Updating(c, t) /\ ~Delivers(c) /\ ~Cancels(c)
  /\ WriteRow(c, t)
  /\ Answered(c)
  /\ UNCHANGED <<vehicle, created, stock, begun, night>>
  /\ Remember

\* remove, with force or without: a transport in any other status makes it throw.
BeginRemove(c, t) ==
  /\ Live(t) /\ transport[t].status \in {"PENDING", "CANCELED"}
  /\ Begin(c, Request("remove", t, transport[t]))

\* A removal that gives back what a cancellation returned before.
ReturnsAlways(c) == call[c].row.status \in {"PENDING", "CANCELED"}
ReturnsLoad(c) == call[c].row.status = "PENDING"

\* What was read is what is given back.
Remove(c, t) ==
  /\ call[c] # None /\ call[c].op = "remove" /\ call[c].t = t /\ Live(t)
  /\ transport' = [transport EXCEPT ![t] = None]
  /\ stock' = IF ReturnsLoad(c) THEN Returned(call[c].row.load) ELSE stock
  /\ vehicle' = IF call[c].row.status = "PENDING" THEN Freed(call[c].row.vehicle)
                                                  ELSE vehicle
  /\ Answered(c)
  /\ UNCHANGED <<created, begun, night>>
  /\ Remember

\* A product is short, the code or the product is there already, the row is gone:
\* the handler throws and its transaction leaves nothing behind.
Refuse(c) ==
  LET x == call[c] IN
  /\ x # None
  /\ \/ \E p \in x.left : stock[p] < x.ask[p]
     \/ x.op = "create" /\ x.row.code > 0 /\ CodeTaken(x.row.code)
     \/ x.op = "add" /\ x.left = {} /\ Live(x.t)
          /\ \E p \in Positive(x.ask) : transport[x.t].load[p] > 0
     \/ x.op # "create" /\ x.left = {} /\ ~Live(x.t)
  /\ Answered(c)
  /\ UNCHANGED <<tables, begun, night, history>>

-----------------------------------------------------------------------------
\* autoArriveTransports: the transports in transit whose day has come are read
\* at once and updated one by one.
NightBegins ==
  /\ night = {}
  /\ night' \in SUBSET {t \in Ids : Live(t) /\ transport[t].status = "IN_TRANSIT"}
  /\ UNCHANGED <<tables, call, begun, history>>

NightArrival(t) ==
  /\ t \in night /\ Live(t)
  /\ night' = night \ {t}
  /\ transport' = [transport EXCEPT ![t].status = "ARRIVED"]
  /\ UNCHANGED <<vehicle, created, stock, call, begun>>
  /\ Remember

\* An update that fails is logged, and the next transport follows.
NightFails(t) ==
  /\ t \in night
  /\ night' = night \ {t}
  /\ UNCHANGED <<tables, call, begun, history>>

\* vehicles.service updateStatus: nothing is asked of the transports.
SetVehicle(v, s) ==
  /\ vehicle' = [vehicle EXCEPT ![v] = s]
  /\ UNCHANGED <<transport, created, stock, call, begun, night>>
  /\ Remember

Next ==
  \/ \E c \in Callers :
       \/ \E v \in Vehicles, load \in Loads, s \in Starts : BeginCreate(c, v, load, s)
       \/ CheckProduct(c) \/ ReadCode(c) \/ CommitCreate(c)
       \/ CommitAdd(c) \/ Refuse(c)
       \/ \E t \in Ids :
            \/ \E p \in Products : BeginAdd(c, t, p, 1)
            \/ \E u \in Updates : BeginUpdate(c, t, u[1], u[2])
            \/ Deliver(c, t) \/ Cancel(c, t) \/ Edit(c, t)
            \/ BeginRemove(c, t) \/ Remove(c, t)
  \/ NightBegins \/ \E t \in Ids : NightArrival(t) \/ NightFails(t)
  \/ \E v \in Vehicles, s \in Settable : SetVehicle(v, s)

Spec == Init /\ [][Next]_vars

-----------------------------------------------------------------------------
\* Type invariant.
TypeOK ==
  /\ vehicle \in [Vehicles -> VehicleStatuses]
  /\ transport \in [Ids -> Rows \cup {None}]
  /\ created \in 0..MaxTransports
  /\ stock \in [Products -> Int]
  /\ call \in [Callers -> Requests \cup {None}]
  /\ begun \in 0..MaxRequests
  /\ night \subseteq Ids
  /\ crowded \subseteq Vehicles /\ misled \subseteq Vehicles
  /\ disputed \in [Endings -> SUBSET Products]

\* A vehicle is with one transport that is not delivered or cancelled
\* (transports.service.ts:105-107).
VehicleCarriesOne == \A v \in Vehicles : Cardinality(Carrying(v)) <= 1

\* The check of a creation (transports.service.ts:270) keeps every second
\* transport off a vehicle, whatever else operators and the nightly job do to
\* it, but for two ways: two creations for the vehicle that were under way at
\* once, and a transport of another vehicle, or one that had ended, that was
\* put on it by an update or by the nightly job.
OnlyCrowdedCarryMore == \A v \in Vehicles \ crowded : Cardinality(Carrying(v)) <= 1

\* The status of a vehicle shows whether it is with a transport, through every
\* overlap of creations, added products, updates, removals and nightly
\* arrivals, until an operator sets it, a transport is taken off the vehicle,
\* or a request sets it for a transport that has ended, moved or gone since the
\* request read it.
VehicleShown ==
  \A v \in Vehicles \ (crowded \cup misled) : InUse(v) <=> Carrying(v) # {}

\* The units of p a transport holds until it is cancelled.
UnitsOf(t, p) ==
  IF Live(t) /\ transport[t].status # "CANCELED" THEN transport[t].load[p] ELSE 0

\* A unit is in stock or on one transport that was not cancelled, however the
\* requests overlap, until one of them writes the unit's transport having read
\* it on the other side of a cancellation or with another load, or a cancelled
\* transport is put on its way again.
UnitsInOnePlace ==
  \A p \in Products \ disputed["CANCELED"] :
    stock[p] + SumFunction([t \in Ids |-> UnitsOf(t, p)]) = InitialStock[p]

-----------------------------------------------------------------------------
(***************************************************************************)
(* The promise to the company, as Fleet states it: a trip is a transport   *)
(* that is not delivered or cancelled.                                     *)
(***************************************************************************)
Aboard(p, t) ==
  IF Live(t) /\ transport[t].status \in Active THEN transport[t].load[p] ELSE 0

\* The units of p a transport has brought.
DeliveredBy(t, p) ==
  IF Live(t) /\ transport[t].status = "DELIVERED" THEN transport[t].load[p] ELSE 0

FleetOf == INSTANCE Fleet WITH
  Trips <- Ids,
  Loads <- Loads \cup {[p \in Products |-> IF p = q THEN 1 ELSE 0] : q \in Products},
  depot <- stock,
  aboard <- [p \in Products |-> [t \in Ids |-> Aboard(p, t)]],
  delivered <- [p \in Products |-> SumFunction([t \in Ids |-> DeliveredBy(t, p)])],
  disputed <- UNION {disputed[e] : e \in Endings}

\* Every behaviour of the service is one of Fleet: a trip is delivered or comes
\* back once, as a whole, and a removal does not give back what a cancellation
\* returned (transports.service.ts:361-369, 574-626, 681-846, 944-1043).  No
\* coordination of the operators is assumed: the products about which requests
\* disagree are those Fleet promises nothing of.
ImplementsFleet == FleetOf!Spec

-----------------------------------------------------------------------------
\* A creation never meets its transport's code in another company
\* (README.md:59 of the service: tenants are isolated).
CodesAreOwn ==
  \A c \in Callers, t \in Ids :
    /\ call[c] # None /\ call[c].op = "create" /\ Live(t)
    /\ call[c].row.code = transport[t].code
    => call[c].row.company = transport[t].company

=============================================================================
