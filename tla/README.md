# Formal model of the Tranzor commerce platform

TLA+ specifications of the parts of this repository in which the order of
things decides whether the result is right: stock that several processes
decrement, locks that expire, jobs that are retried, requests that are sent
twice. TLC checks them on small instances; TLAPS proves the most important
properties for every instance.

Paths are relative to the repository; `services/`, `routes/` and `utils/`
without a prefix are those of `backend/server/`.

## 1. The system

Three services share a Redis server and little else.

| service | code | stack |
|---|---|---|
| Commerce | `backend/` | Express, Mongoose (MongoDB), Bull, ioredis, Stripe |
| Logistics | `logistica-multi-tenant-clean/backend-nest/src/` | NestJS, Prisma (PostgreSQL), cron jobs |
| ChatOps | `Chatops/backend/src/` | Fastify, WebSockets, Prisma, Redis publish/subscribe |

### 1.1 Commerce

**Stock lock** (`services/stockLockService.ts`). State: one Redis key per
product. Operations: `acquireStockLock` (SET NX EX 30, polled every 100 ms for
10 s), `releaseStockLock` (a script that compares and deletes),
`cleanupExpiredLocks` every five minutes. Used by the checkout queue alone.
Hard: the TTL runs while the holder works; several round trips make one
operation. Correct when a held lock stays held and no one frees another's.

**Checkout queue** (`services/checkoutQueueService.ts`). State: Bull's jobs (or
an in-process `MemoryQueue` without Redis), `Product.stockQuantity` and
`inStock`, the order's `status` and `paymentStatus`. The processor takes the
locks of all items, then checks and decrements item by item, confirms the
order, and releases; on an error it gives every item back, fails the order,
releases, and Bull tries again. Hard: everything between two awaits interleaves
with the other processes; attempts, stalled jobs and crashes start the
processor again on an order that is half done. Correct when the stock is never
sold twice, nothing vanishes, job and order agree, and every order ends.

**Checkout requests** (`routes/orders.ts` POST /checkout, `utils/idempotency.ts`,
`utils/cache.ts`, `services/checkoutIntegrationService.ts`). State: the record
of each `X-Idempotency-Key`, in a Map per process and in Redis; the order that
is created. The route looks the key up, claims it, validates, saves the order,
makes a payment intent, enqueues, sends a mail, and stores the answer. Hard:
lookup and claim are separate awaits; each step may fail; the cache has two
levels. Correct when a key stands for one order and a refusal has a cause.

**Payments** (`routes/orders.ts` webhook, `services/payments/`,
`services/stripeReconciliation.ts`). State: Stripe's payment intents and events,
the order's two status fields, the picking jobs. A success confirms the order,
sends a mail and creates a picking job; a failure sets the order back to
pending; an operator (`routes/admin.ts`) sets any status. The queue confirms a
card order before anybody has paid. Hard: events are repeated and reordered, and
queue and operators write the same fields. Correct when what counts as revenue
was charged (`admin.ts:34` adds up what is "paid"), odd states have a known
writer, and what is charged reaches the warehouse.

**Direct orders** (`routes/account.ts`). A second way to place an order, without
queue and lock, that writes the quantity it computed from a read. It uses and
earns loyalty points, which the checkouts of the same user write too. Correct
when nothing but those overwrites loses units, and points add up.

**Picking, packing, WMS** (`services/pickingQueueService.ts`,
`services/packingService.ts`, `routes/wms.ts`). A job per order packs it into
boxes and saves a picking per box. Hard: the boxes are separate saves in a job
that is retried from the start. **Event store** (`services/eventSourcing.ts`): a
version per order, read and inserted in two steps. Correct when every item is
picked and the log ends as the job did. The warehouse's own routes cannot be
used: `wms.ts:92` reads `req.params.pickingId` on a path that names it `:id`,
answers 404 to every start, and nothing else moves a picking on.

**Cart** (`routes/cart.ts`, `routes/b2b.ts`). One document per user that every
request reads, changes and saves. Hard: two requests change the same array.
Correct when a save hits only its own lines and the checked quantity holds.

**Saga** (`services/sagaOrchestrator.ts`): not imported anywhere. **Pricing**,
**accounts, catalogue, administration**, mail, outgoing webhooks, tax export:
calculations and single-document requests.

### 1.2 Logistics

**Transports** (`modules/transports/transports.service.ts`): creation with
vehicle and stock checks outside the transaction, status changes, removal, and a
nightly job that marks arrivals. **Vehicles** and **products**
(`modules/vehicles`, `modules/products`) share the tables. Hard: what is checked
is not what is written. Correct when a vehicle carries one transport and
products are on stock or on one transport. **Redis subscription**
(`integration/redis-subscriber.ts`): three attempts with timeouts.

### 1.3 ChatOps

**Engine** (`chatOpsEngine.ts`). `/stock` asks logistics with a timeout and three
attempts through one circuit breaker that all commands share. Hard: commands end
after the breaker has changed its state. Correct when it opens for a streak of
failures only and closes again. **Channels** (`server.ts`): a list of messages in
memory before the database. Hard: awaits between test and set, restarts. Correct
when memory shows what is stored. Presence and publication through Redis carry
notices.

`PROJECT.json` lists all components with their status, and under `hazards` what
can go wrong at which line, with the properties that would notice. Where the code
leaves a hazard open and no document promises otherwise, the step is in the model, a
property names it as its exception, and the hazard's note says that it is not caught.

## 2. Modules

| module | models | lines of code it stands for |
|---|---|---|
| `StockLock` | keys, SET NX, compare-and-delete, TTL, cleanup | `services/stockLockService.ts` |
| `StockGuard` | abstract: what the lock promises | - |
| `CheckoutQueue` | jobs, workers, stock, orders; extends `StockLock` | `services/checkoutQueueService.ts` |
| `CheckoutProperties` | the properties, the refinement to `StockGuard` | - |
| `CheckoutProofs` | theorems of the queue: types, lock, guard, orders and units | - |
| `SumProofs` | theorems about sums over finite sets, and about numbers | - |
| `MCCheckout` | carts, quantities and stocks for TLC | - |
| `CheckoutRequests` | POST /checkout for one key, two cache levels | `routes/orders.ts:144-422`, `utils/` |
| `CheckoutRequestsProofs` | theorems | - |
| `Payments` | intents, events, the webhook, operators; extends `CheckoutProperties` | `routes/orders.ts:43-142`, `routes/admin.ts:573-608` |
| `DirectOrders` | direct orders, points, the queue without Redis; extends `CheckoutProperties` | `routes/account.ts:453-592`, `routes/orders.ts:354-380` |
| `Fulfilment` | packing, picking jobs, event versions | `services/pickingQueueService.ts`, `packingService.ts`, `eventSourcing.ts` |
| `Carts` | requests that change one cart | `routes/cart.ts`, `routes/b2b.ts` |
| `ChatOpsEngine` | `/stock`, the circuit breaker | `chatOpsEngine.ts` |
| `ChatHistory` | a channel's messages | `server.ts:137-197, 541-592` |
| `PaymentsProofs`, `FulfilmentProofs`, `ChatOpsProofs` | theorems | - |
| `ServicesProofs` | theorems of `DirectOrders`, `Carts` and of `MCServices` | - |
| `MCPayments`, `MCServices` | instances for TLC | - |
| `Transports` | transports, their vehicles and load | `transports.service.ts`, `vehicles.service.ts:339-357` |
| `Fleet` | abstract: what a company is promised | - |
| `TransportsProofs` | theorems | - |
| `MCTransports` | instances of `Transports` for TLC | - |

### 2.1 StockLock and CheckoutQueue

*State.* `lock[p]` is the id under the key of product p. Ids are unique to an
acquisition in the code (time and a random number); a run of the processor takes
each product once, so the run, `[job, n]`, stands for its ids. `sweep` is where
the cleanup is. `stock` and `inStock` are the product's fields, `order` the
order's two status fields. `job` is Bull's record: its state, the failed
attempts, how often it stalled; `runs` counts starts. `wk[w]` is the processor
running in server process w: program counter, item index, held locks (the
`locks` map), whether it returned.

*Actions.* One per round trip of the processor, in the code's order: `StartJob`,
`AcquireLock` or `LockBusy`/`LockTimeout` (or `SkipLock` without Redis; `TakeLock` chooses),
`CheckStock`, `DecrementStock`, `MarkOutOfStock`, `ConfirmOrder`; on an error
`CompensateItem`, `FailOrder`; then `ReleaseLock` and `FinishJob`, which decides
with Bull's counts whether the job waits again. The sale counter that the code
increments in the same update as the stock (line 166) is left out. `inStock`
starts with any values: the schema's default and the administrators set the flag
whatever the quantity is (`models/Product.ts:136-144`, `routes/admin.ts:363-412`).

*Faults.* `Faults` switches on classes of steps: `crash`, `stall` (Bull takes a
living run for abandoned), `expire` (a lock runs out under a working holder),
`sweep` (the cleanup), `redis` and `mongo` (a round trip fails). Without a class
its steps do not exist, except that a lock nobody uses may always expire and a
job nobody works on is always found stalled. A round trip fails before it takes
effect (`RoundTripFails`, `CompensationFails`, `ReleaseFails`) or after it, when
only the reply is lost: `SetReplyLost` leaves a lock that its run does not know of,
`WriteReplyLost` a decrement, flag or confirmation that the run takes for failed,
`GiveBackReplyLost` a compensation that stops although it was made. A reply lost
after the order was failed or a lock released changes nothing that the step itself
does not.

*Bull*, which is not in the repository, is modelled from how the code uses it:
one job at a time per process, `attempts` and backoff, `maxStalledCount` at its
default of 1, the result of a run that lost its job is dropped.

### 2.2 StockGuard

Workers enter a product nobody is inside for, the one inside takes units that
are there, anyone gives units back, workers leave. `ImplementsGuard` maps
"inside for p" to "has p in its `locks` map". Giving back needs no lock because
the compensation really runs without one when the locks timed out.

### 2.3 CheckoutRequests

One key, several requests; clients send again whenever they like. `memory[s]` and
`shared` are the two cache levels, `req[r]` where the handler is, `order[r]` what
became of its order, `answer[r]` what the client was told. `mode` is chosen
initially: without Redis there is one process and lookup and claim happen in one
go, since their awaits resolve without leaving the process; with Redis GET and SET
are separate steps. `TurnDown` stands for all the ways of being rejected between
lines 187 and 302: they have one effect on the key. A process may die at any time.
The Map dies with it: without Redis the record of an order that was answered long
ago is lost too, and a client that repeats the key gets a second order. `forgotten`
has the requests whose record ran out or was lost this way.

*Redis.* Every command may fail and is swallowed, as in `cache.ts:157-193`: a GET
counts as no record (`ReadFails`), a SET that claims leaves the claim in one
process's memory (`PutFails`), a DEL or the SET of the result leaves the claim in
Redis and the client answered (`LastFails`). After an error of its connection a
process works without Redis for good (`Unlink`, `linked[s]`), since nothing sets
`redisClient` again (`cache.ts:33-49`). A command that took effect and whose reply
is lost is the command, for nothing depends on the reply of a SET or DEL.

*History variables.* `doubtful` becomes true when a lookup finds the key free while
another request is between its lookup and its claim, or when a lookup or a claim
does not reach Redis. `unheard` has the requests whose last command Redis did not
get. No action reads either; the properties name them as exceptions.

### 2.4 Transports

*State.* `vehicle[v]`, `stock[p]` and `transport[t]` are the columns the handlers
read and write; a transport's `load` is its `TransportProduct` rows. `call[c]` is
a request under way with what it has read, `night` the rows that the nightly job
still has to update.

*Actions.* The queries of a handler and its transaction are steps: `BeginCreate`,
`CheckProduct` per product, `ReadCode`, `CommitCreate`; `BeginAdd`,
`CheckProduct`, `CommitAdd`; `BeginUpdate` and then `Deliver`, `Cancel` or `Edit`,
decided by the status that was *read*; `BeginRemove`, `Remove`; `Refuse` for an
exception after the first query; `NightBegins`, and `NightArrival` or
`NightFails` per row; `SetVehicle`.

*Operators.* Nothing is assumed of them. Requests overlap as they like, with each
other and with the nightly job. An update writes any status and any vehicle of
`Updates`, one of another company or one that carries another transport included,
because `update` looks at no vehicle (lines 650-652, 850). Constants bound the
instance: `Loads` and `Starts` what a creation asks for, `Settable` what an
operator makes of a vehicle, `MaxTransports` and `MaxRequests` how much happens.

*History variables* say where the service does not guard itself, so that the
properties can say what it guards. No action reads them.

- `crowded`: vehicles for which two creations were under way at once, or to which
  a transport came otherwise than by a creation (an update put it there, or it had
  ended and was opened again or marked as arrived).
- `misled`: vehicles a transport was taken off, or whose status was changed between
  in use and not by anything but a request about a transport that is under way on
  them: an operator, or a request whose transport has ended, moved or gone since it
  was read.
- `disputed[e]`, for the endings DELIVERED and CANCELED: products of a transport
  that was created as ended, opened again, written by a request that had read it
  on the other side of the ending, or removed with another load than was read.

*Left out:* weights, addresses, dates, product statuses, the movement log,
notifications. Creation and deletion of vehicles and products.

*Fleet* is the abstract specification: a trip takes units from the depot, when it
begins or later, and what it carries is delivered once or comes back once, as a
whole. `FleetOf` maps trips to rows: what is aboard is the load of a row that is
under way, what is delivered the sum over the delivered rows. Of disputed products
nothing is promised from then on, nor that the depot has the units: a creation
reads the stock before its transaction, and two of them can overdraw it.

### 2.5 Payments

*State.* `intent[j]` is what Stripe says of the payment, `deliveries` and `acked`
what it does with its events; `hook[h]` is a webhook request with the order it
has read; `picked` and `unpicked` are the orders whose picking job was taken or
refused; `touched[j]` who, beside the queue, has written the order's status.

*Actions.* `Decline`, `Charge`; `ReadOrder`, `SavePaid`, `SendMail`,
`CreatePicking` or `PickingRefused` for a success, each a round trip;
`HandleDeclined` for a failure, which is one update; `HookFails` anywhere, which
makes Stripe deliver again; `SetStatus`. All interleave with the whole queue.
`Saved` is what Mongoose sends: the fields that differ from those read.

*Divergences worth knowing.* The queue writes the payment status "completed",
which the schema does not have (`models/Order.ts:149-152`): an update lets it
pass, a later save of such a document is refused, reconciliation
(`stripeReconciliation.ts:33`) reports it as unpaid, and revenue and the
warehouse's list (`admin.ts:34`, `wms.ts:317`) leave it out until the webhook
writes "paid". A card order earns no points (`orders.ts:321`), so the webhook
adds none and its points are left out. Only the card webhook creates picking
jobs: an order paid by bank transfer is never packed.

### 2.6 DirectOrders

*State.* `points`; `request[x]`: a purchase or a checkout with the points and
quantities it has read; `taken[d]`; `gone`: what ended with a process.
`overwritten` and `overlapped` record the two ways in which values are lost.

*Actions.* `BeginPurchase`, `ReadProducts`, `TakeUnits` and `SaveFails` for each
product in any order (one `Promise.all`), `PayPurchase`; `BeginCheckout` and
`EarnPoints` around the queue. It is run without Redis, where there are no locks
to compare with and the queue is in the process (`QueueStep`). A checkout by bank
earns its points also when its job failed (`orders.ts:375-378`).

*The end of a process.* Without Redis a failed job rejects a promise that nobody
waits for (`checkoutQueueService.ts:44-46, 72`; likewise `core/queues.ts:73-75`).
No handler is installed for that, and Node's default ends the process: `Dying`,
`ProcessEnds`. Requests, purchases and runs that were under way stop there.

### 2.7 Fulfilment

*Packing* is a set of operators: first fit over the items, `BestBox` by volume
and weight in units that keep the code's comparisons exact. `BoxesOf` is the
result for the constants `OrderItems`: a recursive function of the items placed so
far (`Packed`), which the proofs unfold item by item.

*State.* `pickJob`, `pickCalls`, `pickRuns` are Bull's record and its counts,
`picker[w]` a run with the box it is at and the version it read, `pickings` how
often each box was saved, `log` the events.

*Actions.* `AddPickingJob`/`TakePickingJob` with Redis, `RunPickingJob` without;
`SaveBox`, `ReadVersion`, `AppendInitiated`, or `AppendFailed` after
`PickingError`; `EndRun`, `PickerDies`, `PickingStalled`, `PickingSlow`.
`TakePickingJob` can start a run next to one that was taken for dead: `together`.

### 2.8 ChatOpsEngine and ChatHistory

The breaker's fields are as in the code; time is `ripe` (nextAttempt is past).
`command[c]` is a command's fetch with its attempt. An answer 4xx counts as
success, as in the code. `reachable` is the logistics service. `streak` counts
failures in a row independently of the breaker.

`chat[r]` is a message or a GET /history request between the awaits of
`ensureChannel` and `addMessageToHistory`; memory (`history`) is written before
the database (`stored`). `findMany` takes the *oldest* 200 rows, as the code
does: after a restart of a long channel the newest messages are not shown, which
is why the property speaks of lists that are not full.

### 2.9 Carts

`edit[r]` is a request with the cart it read, and `SaveCart` sends what Mongoose
makes of the difference: pushed lines always fit, a quantity at an index and a
whole array need the version that was read, and only pushes and whole arrays
raise it. A line that is pushed and then changed, by a merge that names a new product
twice, makes the save one of the whole array (`Pushes`), and the instance has such a
merge. Merging (uploads, clones, approvals) checks no stock. An item that is
added by its slug equals no line (`cart.ts:113`) and gets a second one.
A quantity does not raise the version, so a removal under way can revert it.
`Merged` and `Kept` are recursive functions over the lines, as the code's loops.

### 2.10 MCServices

The five services of `services.cfg` share no variable that a step of another
reads, so a behaviour of the run is one of a single service (`service`), and the
state spaces add up instead of multiplying. Only direct orders start with any flags
`inStock`: the other services do not look at them.

## 3. Runs

| run | instance | what it shows |
|---|---|---|
| `checkout` | 3 orders (two in opposite lock order), 2 products, 2 workers, 3 attempts, any flags, no faults | types; stock never negative, nothing lost, job and order agree, sold-out products are marked; held locks are kept; refinement to `StockGuard`; every order ends and no lock stays |
| `checkout_crash` | 2 orders, 1 product, 2 workers; crashes, failing round trips, lost replies | stock not negative, refinement, everything still comes to rest |
| `checkout_faults` | same; stalls, expiry under the holder, cleanup | foreign locks are never freed by a release; the number of runs is bounded |
| `checkout_phantom` | 2 orders of 2 units over 3 | **violated**: more is sold than there was |
| `checkout_sweep` | 3 orders of 2 units over 5, cleanup on | **violated**: the cleanup frees a live lock, stock goes negative |
| `requests` | 2 requests at any time, one process without Redis or 2 with it, 4 faults of any kind | one order per key unless a client was told otherwise or the claim is doubtful; replays are of placed orders; claims have an owner; a claimed key comes free |
| `payments` | a card order and a bank order for the last unit, 2 attempts, 2 deliveries of each event, an operator | paid means charged; odd states have a writer; a charge is shown; charged orders reach picking |
| `services` | see 2.10: 2 checkouts and a direct order without Redis; 1 order in 2 boxes, 2 pickers, 3 attempts; 3 commands; 3 messages and a reader; 6 edits of a cart | units vanish only by overwriting; points add up; every item is picked, the log agrees, every picking job ends; the breaker opens for a streak and closes again; history shows what is stored; edits hit their own lines |
| `requests_retry` | 3 requests, 2 processes with Redis, no faults | **violated**: a stale copy of the record refuses for nothing |
| `transports` | 2 vehicles, 1 product with a unit, 2 transports, 5 requests of which 2 at once, and the nightly job; every status and vehicle in updates, maintenance | a vehicle is with one transport and shows it, a unit is in stock or on one transport, refinement to `Fleet`: each up to the exceptions it names |
| `transports_booking` | 3 transports without load, 4 requests | **violated**: a vehicle is booked twice |
| `transports_tenants` | 2 companies with a vehicle each, 4 requests | **violated**: a company's first transport meets another company's code |

### 3.1 The properties

- `StockNonNegative`: the decrement is a `$inc` that does not repeat the check, so
  this rests entirely on the lock. Fails with `expire` or `sweep`.
- `NothingLost`: compensation gives back too much (see 3.3) but never too little:
  on hand, sold and in hand add up to at least the initial stock. Stated for
  processes and a database that survive.
- `JobAndOrderAgree`: what Bull reports and what the order says coincide, over
  several attempts.
- `StockoutMarked`: the separate save of the flag is not overtaken. It speaks of
  products that had units: the flag of one that began empty is the administrators'.
- `OwnerKeepsLock`, `NoForeignRelease`: action properties of the lock, seen from
  its users.
- `RunsBounded`: attempts plus restarts.
- `EventuallyQuiet`: all jobs settled, all keys gone, all workers idle, for good.
- `OnlyCrowdedCarryMore`, `VehicleShown`: two tables agree, over creation, delivery,
  cancellation, removal, updates of the vehicle and nightly arrival, with other
  requests for the same vehicle under way and maintenance in between. The first one
  says that the check of a creation leaves two ways only in which a vehicle gets a
  second transport; `VehicleCarriesOne` without the exception is what
  `transports_booking` refutes.
- `ImplementsFleet`: the refinement. It forbids what the invariants allow, such as
  units added to a transport that was delivered, or units that come back after
  their trip has ended.
- `UnitsInOnePlace`: requests for different transports take from and give back to
  one product at the same time; cancelled transports keep their rows, so a later
  removal must not give back again.
- `OneOrderPerKey`: claim, exits and expiry leave no second order under a key, for
  requests that nobody coordinates. Its exceptions are a client that was told of an
  error or of nothing, a record that ran out, and `doubtful`.
- `ReplayedWasPlaced`: see the module.
- `ClaimHasOwner`: requests overwrite and clear each other's claims, and still none
  stays on record without a request under way, one that broke, or a lost command.
  `RefusedForCause`, which would say it of the refusals too, is what
  `requests_retry` refutes.
- `KeyComesFree`: whatever exit, crash or error a request meets, no claim stays on
  any level of the cache. It rests on the expiry alone where a process died.
- `PaidMeansCharged`, `StatusHasCause`, `ChargeShown`: order, Stripe and queue
  related over any order of their writes. The last one's exceptions are real: a
  decline handled after the success, or a later failed attempt of the job, hides
  a charge.
- `ChargedIsPicked` (liveness): over lost answers and repeated events. A picking
  queue that refuses is the one exception, as the code acknowledges all the same.
- `LostOnlyByOverwriting`, `PointsAddUp`: absolute writes next to `$inc`, and next
  to each other; both over the end of a process. `JobAndOrderAgree` is checked
  beside purchases and that end as well.
- `EverythingPicked`, `LogTellsOutcome`, `PickingEnds`: packing, retries and log
  together; a box is doubled only by a failed run.
- `OpensOnStreak`, `Recovers`: results in any order; `Recovers` assumes that
  logistics stays up and that users go on asking, for only a call closes a breaker.
- `HistoryShowsStored`: memory against database over restarts. Exception: two
  first requests that load a channel at once, of which the later one drops what
  the earlier one pushed (`server.ts:138-160`).
- `OnlyOwnLines`, `WithinStock`: concurrent edits of one array.

### 3.2 Bounds

Two workers are enough for every interleaving of two runs; three orders let a
waiting job start between them, and two carts in opposite order give the
deadlock that only the timeout resolves. Two products distinguish first, later
and last item. Stocks are chosen so that the orders do not all fit. `Attempts` is
3 as in the code where retries matter, and 1 where faults multiply the states;
`MaxStalled` is Bull's 1. No run has a state constraint: attempts and stalls are
bounded by the model itself. Liveness is checked without symmetry. Two
requests with one key give every overlap of a lookup, a claim and an exit, on one
process or on two; four faults let each of them fail twice. `requests_retry` has
three: a first one, a retry during it and one after it. In `transports` two requests next to the
nightly job give all pairs of handlers, on two vehicles and two rows, over one
unit; five requests let two transports be created and three things happen to them.
`transports`
uses the symmetry of requests and of vehicles of one company (safety only).

`payments`: one webhook at a time is enough, because `Saved` writes constants and
is idempotent, and the deliveries of different events still alternate; two
deliveries give a repetition, one error a lost answer. `services`: two checkouts
with crossed products and one purchase over both give every order of absolute
write, decrement and compensation; two boxes and three attempts give failures
after the first box; three errors suffice for a job that fails for good; the
third item shares the first one's box over the second; three commands reach the
threshold of three and leave one that is late; a list of four holds the welcome
text and three messages, so both a full and a partly filled list occur.

`CHECK_DEADLOCK FALSE` everywhere: when all orders are settled or all requests
answered the system stops, as it should.

### 3.3 What the violations show

`checkout_phantom`. The catch block gives back all items of the order, also
those never taken. An order that failed because of the stock therefore creates
stock, and its own next attempt sells it. `backend/test-race-condition.ts:12-15`
claims the opposite for the same race.

`checkout_sweep`. `cleanupExpiredLocks` deletes keys whose TTL says that they do
not exist; a lock taken between the two commands is deleted.

`requests_retry`. The copy of a "processing" record in a process's memory
outlives the request; a retry that reaches this process is refused for up to
five minutes.

`transports_booking`. Whether the vehicle is free is asked before the transaction
that books it, and not again: two creations take one vehicle. `PATCH` with a
`vehicleId` needs no race at all: it looks at no transport of the new vehicle. The
pass run contains both and `OnlyCrowdedCarryMore` names them as its exceptions.

`transports_tenants`. A company's transports are numbered on their own, the code
is unique over all companies. The second company cannot create its first
transport.

### 3.4 Fairness

`FairSpec` assumes, per worker, weak fairness of the steps of its run: a living
Node process gets to its callbacks and its round trips return; per job, that Bull
starts it while a worker is idle and finds it when it has stalled; per product,
that Redis expires a key. Nothing is assumed of faults, and no strong fairness is
needed: the timeout (`LockTimeout`) ends every wait, and what it does next is
part of the same worker's fairness. Waiting is not assumed to succeed.

`CheckoutRequests!FairSpec` assumes that a handler that has begun goes on and that
a record grows old; clients send when they like. `PaymentsSpec` assumes that a
webhook's handler goes on and that Stripe delivers a success until it is
acknowledged, which its documentation promises and the code relies on; customers,
operators and errors are free. `FulfilmentFairness` assumes that a run goes on,
that Bull gives a waiting job to an idle worker and looks for silent ones.
`EngineFairness` assumes that fetches, pauses and the reset timeout end; nobody
has to send a command.

## 4. Proofs

All for arbitrary sets of workers, jobs, products, carts without repeated
products, quantities, attempts and restarts; of requests and processes; of
companies, vehicles, callers and rows; of webhooks, deliveries, purchases and
points; of pickers, items and volumes; of commands and thresholds; of messages
and readers; of goods and edits of a cart. The constants' assumptions are in the
modules that declare them (`CheckoutAssumption`, `CartsAssumption`, ...) and say
what kind of value each is; TLC evaluates them in every run.

| theorem | statement | needs |
|---|---|---|
| `TypeCorrect` | `Spec => []TypeOK` | - |
| `RunsAreBounded` | `Spec => []RunsBounded` | - |
| `ReleasesAreOwn` | `Spec => NoForeignRelease` | - |
| `LocksAreKept` | `Spec => OwnerKeepsLock` | `LockSound` |
| `StockNeverNegative` | `Spec => []StockNonNegative` | `LockSound`, `LocksEnabled` |
| `GuardImplemented` | `Spec => ImplementsGuard` | `LockSound`, `LocksEnabled` |
| `OrdersFollowJobs` | `Spec => []JobAndOrderAgree` | `LiveWork` |
| `NoUnitIsLost` | `Spec => []NothingLost` | `LiveWork`, finitely many workers and jobs |
| `SellOutsAreMarked` | `Spec => []StockoutMarked` | `LockSound`, `LocksEnabled`, `FlagIsWritten` |
| `TotalChange` | a sum changes by the change of one term | - |
| `RequestsTyped` | `Spec => []TypeOK` of the requests | - |
| `StoredAnswersAreTrue` | `Spec => []ReplayedWasPlaced` | - |
| `KeyHasOneOrder` | `Spec => []OneOrderPerKey` | - |
| `ClaimsHaveOwners` | `Spec => []ClaimHasOwner` | - |
| `TransportsTyped` | `Spec => []TypeOK` of the transports | - |
| `VehiclesCarryOne` | `Spec => []OnlyCrowdedCarryMore` | - |
| `VehiclesShown` | `Spec => []VehicleShown` | - |
| `UnitsStayInOnePlace` | `Spec => []UnitsInOnePlace` | - |
| `FleetImplemented` | `Spec => ImplementsFleet` | - |
| `PaidWasCharged` | `PaymentsSpec => []PaidMeansCharged` | - |
| `PaymentsTyped` | `PaymentsSpec => []PaymentsTypeOK` | - |
| `StatusesHaveACause` | `PaymentsSpec => []StatusHasCause` | `LiveWork` |
| `ChargesAreShown` | `PaymentsSpec => []ChargeShown` | `LiveWork` |
| `DirectTyped` | `DirectSpec => []DirectTypeOK` | - |
| `PointsOfOneByOne` | `DirectSpec => []PointsAddUp` | finitely many orders |
| `OrdersFollowJobsBeside` | `DirectSpec => []JobAndOrderAgree` | `LiveWork` |
| `OnlyOverwritingLoses` | `DirectSpec => []LostOnlyByOverwriting` | `LiveWork`, finitely many workers and orders |
| `FulfilmentTyped` | `[]FulfilmentTypeOK` | finitely many pickers |
| `LogsTellOutcomes` | `[]LogTellsOutcome` | - |
| `AllIsPicked` | `[]EverythingPicked` | finitely many pickers, `DistinctLines` |
| `EngineTypesHold` | `[]EngineTypeOK` | - |
| `BreakerOpensOnStreak` | `EngineSpec => OpensOnStreak` | `SuccessThreshold = 1` |
| `HistoryTyped` | `[]HistoryTypeOK` | - |
| `HistoryIsStored` | `[]HistoryShowsStored` | - |
| `CartsTyped` | `[]CartsTypeOK` | - |
| `SavesOwnLines` | `OnlyOwnLines` | - |
| `CartsWithinStock` | `[]WithinStock` | `BasketFits` |
| `ServicesTyped` | `ServicesSpec => []ServicesTypeOK` | finitely many pickers |

A statement without a specification is about the service's initial states and
steps, `FulfilmentInit /\ [][FulfilmentNext]_pickVars` and its like.

`LockSound` says that `expire` and `sweep` are not among the faults; the runs
`checkout_sweep` and (with `expire` switched on) the same invariant show that it
cannot be dropped. Crashes, stalls and failing round trips stay possible.

*RunsAreBounded.* The invariant `RunCounts` relates the starts of a job to its
failed attempts, its stalls and whether it is active: `runs` alone is not
inductive.

*ReleasesAreOwn.* Two busy workers are never in the same run (`RunsDistinct`:
a new run has a number no other one has), so the id a release compares with
cannot be another holder's.

*StockNeverNegative.* The inductive invariant `LockInv` is the conjunction of
`TypeOK`; `RunsDistinct`; `HeldIsOwned`: what is in a run's `locks` map is stored
in Redis under its id; `PhaseHolds`: a run beyond phase 1 and before its releases
has the locks of all its items, one in phase 1 those of the items before the
current one; `CheckStillHolds`: a run that is about to decrement sees at least
the units its check saw; and the goal itself. `CheckStillHolds` is preserved
because the only other steps that lower the stock of that product are decrements
by runs that hold its lock, and by `HeldIsOwned` that is the same run. Without
`PhaseHolds` a run could decrement under no lock; without `HeldIsOwned` two could
hold it.

*GuardImplemented.* The initial state maps to the abstract one, and under
`LockInv` every action maps to `Enter`, `Take`, `GiveBack`, `Leave` or a stutter.

*OrdersFollowJobs.* `LiveWork` is the condition under which the run `checkout`
states these properties: processes and round trips to the database survive and
Bull takes no living run for a stalled one; the lock may fail in any way.
`OrderInv` adds `RunsOwnJobs` (Bull counts on every run under way, and a job is
active only because of one) and `OutcomeWritten` (a run at its releases has
written what its result says). Without the first, a run that is no longer counted
could overwrite the order of one that is.

*NoUnitIsLost.* Induction over data is out of the provers' reach when the theorem
takes an operator, but a set of subsets is a value: `SubsetInduction` says that a
set of subsets of a finite S that has every subset whose proper subsets it has,
has S. From it follow the facts about `SumFunction` and `TotalChange`. The
invariant `UnitsAccounted` adds to stock and sales what every run owes: the units
of the cart places it has decremented (`Owed`). A step of a run changes one term
of that sum, by as much as it changes the stock, except that the compensation
also gives back what was never taken; hence the inequality. `NothingLost` counts
the units in hand in another way, and is shown to be at least that.

*SellOutsAreMarked.* `FlagIsWritten` leaves out the faults that keep the save of
the flag from taking place. Then a product that had units and has none is either
marked, or a run that holds its lock is about to mark it (`SoldOut`). That run is alone with
the product by `LockInv`.

*StoredAnswersAreTrue.* `RecordInv`: every record, on any level and in any reply
under way, is of a request that has claimed the key, and one that says completed
is of a request whose order went to the queue (`Placed`), which no later step
undoes (`Onward`). No assumption is made about clients.

*KeyHasOneOrder, ClaimsHaveOwners.* No assumption is made about clients, faults or
processes. `KeyInv` treats the two installations apart. In one process
(`InOneProcess`) the request that keeps the key is the one on record in its memory.
With Redis (`InTurn`), while the key is not doubtful, at most one request is between
its lookup and its claim, no other one keeps the key meanwhile, and a request that
keeps it is the one on record in Redis. `doubtful` is exactly the overlap that the
code leaves open: at the step at which a second lookup finds the key free, a first
one is still claiming; a lookup that comes later finds the record. `EndedFirst`:
only records of requests that ended are forgotten.
`ClaimHasOwner` is inductive beside `RecordInv`.

*TransportsTyped* needs an invariant, `Room`: the rows and the creations under way
together fit, so that a number is left for each.

*The transports.* No assumption is made about operators; what the service does not
guard is in the history variables, and the proofs show that it guards the rest.
`StepIsKind` says what a step may be, and `RequestFate` what becomes of a request
in it. `FlowInv` says of every vehicle that is not crowded: it has one carrier at
most (`OneCarrier`), none while a creation for it is under way (`BookedFree`), no
two creations (`TwoMarked`), and whoever deals with its carrier has read it there
and on its way (`StaleMarked`). The last is what a request that acts on an old
reading breaks, and it holds because a carrier leaves that state only for good: what
brings it back makes the vehicle crowded. For `VehiclesShown` one lemma per handler
shows that the status it writes is the one the rows call for. For
`UnitsStayInOnePlace` every step is, for a product not disputed, one of `UnitMoves`:
it changes the stock and one term of the sum over the rows by opposite amounts
(`MoveBalanced`). `AgreedFacts` draws from "not disputed" that the request has read
the row's ending and load as they are. `FleetImplemented` maps the same moves to the
actions of `Fleet`, for all settled products at once.

*PaidWasCharged.* `PaidInv` adds to the goal the types it needs and
`HooksAfterCharge`: a webhook under way for a success is about an order that is
charged. Without it a save could follow no charge. The queue's two order states
and the failure's are not "paid", an operator leaves the payment alone, and a
charge is never taken back.

*BreakerOpensOnStreak.* `EngineInv` says that the breaker's failure count is the
streak, and that a fetch pauses only with an attempt left. The first holds because
every success clears the count, also in the half-open state, where with
`SuccessThreshold = 1` it closes the breaker at once. With a greater threshold than the code's
(`LOGISTICS_CIRCUIT_SUCCESS_THRESHOLD`, `chatOpsEngine.ts:10`) the count would
survive a success and the theorem would be false.

*StatusesHaveACause, ChargesAreShown.* `CauseInv` says of every run at its releases
what `StatusHasCause` says of every job that is over (`OutcomeHasCause`): the order
shows the run's result, or somebody else has written it and is in `touched`. The
steps of the queue keep it by `RunsInv`, the part of `OrderInv` that does not need
the order to agree with the job, since here it need not. `ToldExcused` begins
before the acknowledgement, when a webhook has saved the order as paid or found it
so (`Told`): from there on it is paid, or one of the excuses applies (`Excused`). A
webhook that read the order as paid saves nothing, and no step but the excused ones
takes back what it read.

*PointsOfOneByOne, OnlyOverwritingLoses.* `PointsKnown`: as long as no two requests
that read the points overlapped, the one under way has read what is stored
(`KnowsPoints`), and points and points used add up to the first ones and those
earned. The sums change by one term (`TotalChange`). `UnitsThere` is
`UnitsAccounted` with the purchases' units added, for products that were not
overwritten: what a purchase writes there is what it read less what it takes,
and a stock that has changed since puts the product among the overwritten.

*OrdersFollowJobsBeside.* Purchases write only stock and flag of what the queue has
(`JobsOfPurchase`), so `OrderInv` holds beside them.

*LogsTellOutcomes.* An order whose runs were one after the other (`OneByOne`): the
log is numbered, a run that has read the version holds the length of the log, since
nobody else could append since, and a run that returned has just appended
`PICKING_INITIATED`. The greatest of the numbers 1 to n is n, which needs that the
numbers of a log are finitely many (`VersionIsLength`).

*AllIsPicked.* First the packing: `PackedWell`, by induction on the number of items
placed, says that the groups are never empty, hold the items placed and no other,
and that equal lines aside no item is in two groups (`Apart`). `DistinctLines` asks
for lines that are told apart, because `EverythingPicked` counts by what a line
says. Then the pickings: a run past a box has saved it (`SavedBehind`), so a run
that returned has saved all; and a box's pickings together with the runs that have
still to save it are no more than the runs (`PickingsPaid`), a sum over the pickers
again. `pickings <= pickRuns` alone is not inductive.

*FulfilmentTyped.* A job that may still run has an attempt and a stall left
(`CountsFit`); the pickings are bounded by `PickingsPaid`.

*HistoryIsStored.* `ServedFromMemory`: a message is handled only while the list is in
memory. `LoadsAlone`: as long as no two loads met, one that is under way is alone,
memory is empty, and what it has read is what is stored, for nothing is stored
before it ends. `ShowsAll` and `ShowsNoMore` count the messages pushed and not yet
inserted (`PendingAll`) among the stored. `ChatAssumption` says that `Unloaded` is
no list.

*SavesOwnLines.* `CartsInv`: what a request has read has the id of no later
document and no later version (`ReadBefore`); at the same version the same products
are at the same places (`SameShape`), because all that moves or removes a line
raises the version. A quantity is sent with the version, hence to the line meant;
a whole array replaces the one it was made of; pushes are at the end. That `Merged`
keeps every line it does not add to, and `Without` all of other products, is
induction on the number of lines.

*CartsWithinStock.* `CartsFit` says of the stored lines and of those that each
request has read that a product asks for no more than there is, and has one line,
unless it was merged or has got a second one. `BasketFits` says it of the cart the
behaviour begins with.

*ServicesTyped.* A step of `MCServices` is one of a single service and leaves the
others' variables alone (`StepsOfServices`), so that each service behaves as it does
alone (`ServicesApart`), and every theorem above about one of the five holds of
`ServicesSpec`.

Assumptions on the constants that a proof brought to light: `MaxHookErrors` is a
number; `Unloaded` is no list of messages and `NoCart` no document; an order to be
packed has at least one item. Each holds of the code's values.

Induction. A library theorem that takes an operator cannot be used, but a set can:
`SumProofs` derives from the well-founded order of the numbers that a set with 0,
and with n + 1 for each n, has all numbers, and `FulfilmentProofs` and
`ServicesProofs` apply it to the set of the n up to which `Packed`, `Merged` and
`Kept` satisfy their recursion. These three are recursive functions for that reason.

Only model-checked: all liveness (`EventuallyQuiet`, `KeyComesFree`,
`ChargedIsPicked`, `PickingEnds`, `Recovers`), because fairness and ENABLED are
beyond the provers. Every invariant and every action property that a passing run
checks is proved. The runs that end in a violation show that `LockSound` cannot be
dropped (`checkout_sweep`), nor the exceptions of `OnlyCrowdedCarryMore`
(`transports_booking`).

## 5. What is left

To prove next: `OnlyOverwritingLoses` for a queue whose processes die, with the
units of the dead runs as one more term of the account; the bounds of `pickings`
for lines that are not told apart.

**Not modelled.** The models stand for a small share of the repository's lines,
and for most of the rest there is nothing to check that a model would tell:

- *User interfaces* (`frontend/`, `Chatops/frontend/`,
  `logistica-multi-tenant-clean/frontend/`), by far the greatest part: components,
  forms, layout. What they keep, such as the local copy of the cart, is sent to the
  services, which check it again.
- *Requests over one document or row*: products, addresses, companies, suppliers,
  tenants, imports, feeds, analytics, the creation and deletion of vehicles. One
  read, one write, no step in between that another one could observe.
- *Calculations*: prices, tiers, tax, rules, rounding, scoring, tax export. Sequential,
  on decimals, and within reach of unit tests.
- *The saga*: nothing imports it.
- *Warehouse routes*: unreachable beyond "pending" (1.1). *Reconciliation*: it only
  reports.
- *Authentication and sessions* of the three services.
- *Notices*: mail, outgoing webhooks, WebSocket broadcasts, presence, publication
  through Redis, the logistics subscription (it logs what it receives). They change
  no state that another part reads. ChatOps publishes on a connection it has just
  created with `lazyConnect` and without an offline queue (`redisClient.ts:5-24`).
- *Deletion of vehicles*: the foreign key keeps one that has any transport.
