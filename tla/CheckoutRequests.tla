--------------------------- MODULE CheckoutRequests ---------------------------
(***************************************************************************)
(* POST /checkout of the commerce backend (backend/server/routes/orders.ts)*)
(* for the requests that carry one X-Idempotency-Key, and the two-level    *)
(* cache its records live in (utils/idempotency.ts, utils/cache.ts): a Map *)
(* in each server process and, when Redis is there, a copy they share.     *)
(* Keys do not interact, so one key stands for all.                        *)
(*                                                                         *)
(* A step is what a handler does between two awaits that leave the         *)
(* process.  Without Redis the lookup and the claim of a key are one step: *)
(* their awaits resolve at once.  Clients send again whenever they like.   *)
(***************************************************************************)
EXTENDS Naturals, FiniteSets

CONSTANTS
  Servers,       \* server processes
  Home,          \* the one there is without Redis
  Requests,      \* requests with the key; a client's retry is a new request
  CardRequests,  \* those that pay by card, for which a payment intent is made
  Modes,         \* "memory": one process without Redis; "redis": the cache is shared
  Faults,        \* round trips that may fail, see FaultKinds
  MaxFaults,     \* bound: faults in a behaviour
  None           \* no record

FaultKinds ==
  {"user",    \* the read of the user, before the handler's try block
   "stripe",  \* the payment intent
   "queue",   \* the queue does not take the job
   "mail",    \* after the job is queued: the user's points or the mail
   "redis",   \* a command to Redis, or the client of a process for good
   "crash"}   \* a server process dies and is started again

ASSUME RequestsAssumption ==
  /\ CardRequests \subseteq Requests
  /\ Modes \subseteq {"memory", "redis"}
  /\ Faults \subseteq FaultKinds
  /\ Home \in Servers /\ MaxFaults \in Nat

VARIABLES
  mode,     \* whether this installation has Redis
  linked,   \* linked[s]: the redisClient of s is there
  memory,   \* memory[s]: the record in the memoryCache of s
  shared,   \* the record in Redis
  req,      \* req[r]: where the handler of r is, on which server, what GET returned
  order,    \* order[r]: the order r created and how far it came
  answer,   \* answer[r]: what the client was told, and whose record said so
  forgotten, \* requests whose record outlived IDEMPOTENCY_TTL_MS, or was lost with
             \* the only process that had it
  faults,   \* faults so far, for the bound
  doubtful, \* history: whether the key may have been claimed twice, see Claiming
  unheard   \* history: the requests of whose end Redis was not told

cache == <<memory, shared>>
history == <<doubtful, unheard>>
vars == <<mode, linked, memory, shared, req, order, answer, forgotten, faults, doubtful, unheard>>

\* The status of the response, where the record's belongs.
PendingRecord(r) == [status |-> "pending", by |-> r]
\* A claim that looks like a result.
EarlyResult(r) == [status |-> "completed", by |-> r]
Processing(r) == [status |-> "processing", by |-> r]
Completed(r) == [status |-> "completed", by |-> r]
Records == [status : {"processing", "completed"}, by : Requests] \cup {None}

Pcs == {"new", "get", "got", "put", "user", "intent", "queue", "after",
        "publish", "del", "done"}
\* "broken" is a 500 from outside the try block, "lost" no answer at all.
Answers == {"none", "accepted", "replayed", "refused", "error", "broken", "lost"}

ASSUME NoneAssumption ==
  None \notin Requests /\ None \notin [status : {"processing", "completed"}, by : Requests]

InProgress(r) == req[r].pc \notin {"new", "done"}

Init ==
  /\ mode \in Modes
  /\ linked = [s \in Servers |-> mode = "redis"]
  /\ memory = [s \in Servers |-> None]
  /\ shared = None
  /\ req = [r \in Requests |-> [pc |-> "new", at |-> Home, seen |-> None]]
  /\ order = [r \in Requests |-> "none"]
  /\ answer = [r \in Requests |-> [kind |-> "none", by |-> None]]
  /\ forgotten = {}
  /\ faults = 0
  /\ doubtful = FALSE /\ unheard = {}

-----------------------------------------------------------------------------
Goto(r, pc) == req' = [req EXCEPT ![r].pc = pc]
Remember(s, rec) == memory' = [memory EXCEPT ![s] = rec]
Over == [pc |-> "done", at |-> Home, seen |-> None]
Tell(r, kind, by) ==
  /\ answer' = [answer EXCEPT ![r] = [kind |-> kind, by |-> by]]
  /\ req' = [req EXCEPT ![r] = Over]

\* One of the things that may fail does.
Fault(kind) == kind \in Faults /\ faults < MaxFaults /\ faults' = faults + 1

\* The answer a record gives: the stored response, or 409 while it says
\* processing.
FromRecord(r, rec) ==
  Tell(r, IF rec.status = "completed" THEN "replayed" ELSE "refused", rec.by)

\* getIdempotencyRecord finds the key in the process's own memory.
FindInMemory(r, s) ==
  /\ req[r].pc = "new"
  /\ memory[s] # None
  /\ FromRecord(r, memory[s])
  /\ UNCHANGED <<mode, faults, linked, cache, order, forgotten, history>>

\* A lookup that does not claim the key.
NoClaim(r, s) == UNCHANGED memory
Claim(r, s) == Remember(s, Processing(r))

\* It does not, and the process has no Redis to ask: the key is claimed at once.
ClaimInMemory(r, s) ==
  /\ req[r].pc = "new"
  /\ memory[s] = None /\ ~linked[s]
  /\ mode = "memory" => s = Home
  /\ Claim(r, s)
  /\ req' = [req EXCEPT ![r] = [pc |-> "user", at |-> s, seen |-> None]]
  /\ doubtful' = (doubtful \/ mode = "redis")
  /\ UNCHANGED <<mode, faults, linked, shared, order, answer, forgotten, unheard>>

\* It does not: GET is sent to Redis.
AskShared(r, s) ==
  /\ req[r].pc = "new"
  /\ memory[s] = None /\ linked[s]
  /\ req' = [req EXCEPT ![r] = [pc |-> "get", at |-> s, seen |-> None]]
  /\ UNCHANGED <<mode, faults, linked, cache, order, answer, forgotten, history>>

\* The time from a reply that says there is no record to the claim's arrival.
Claiming(r) == (req[r].pc = "got" /\ req[r].seen = None) \/ req[r].pc = "put"

ReadShared(r) ==
  /\ req[r].pc = "get"
  /\ req' = [req EXCEPT ![r] = [pc |-> "got", at |-> @.at, seen |-> shared]]
  /\ doubtful' = (doubtful \/ (shared = None /\ \E q \in Requests : Claiming(q)))
  /\ UNCHANGED <<mode, faults, linked, cache, order, answer, forgotten, unheard>>

\* A GET that fails counts as no record.
ReadFails(r) ==
  /\ Fault("redis")
  /\ req[r].pc = "get"
  /\ req' = [req EXCEPT ![r] = [pc |-> "got", at |-> @.at, seen |-> None]]
  /\ doubtful' = TRUE
  /\ UNCHANGED <<mode, linked, cache, order, answer, forgotten, unheard>>

\* The reply is copied into the memory of the process and answers the client.
FindShared(r) ==
  /\ req[r].pc = "got" /\ req[r].seen # None
  /\ Remember(req[r].at, req[r].seen)
  /\ FromRecord(r, req[r].seen)
  /\ UNCHANGED <<mode, faults, linked, shared, order, forgotten, history>>

\* setIdempotencyProcessing: memory first, then a SET.
ClaimShared(r) ==
  /\ req[r].pc = "got" /\ req[r].seen = None
  /\ Claim(r, req[r].at)
  /\ IF linked[req[r].at]
     THEN Goto(r, "put") /\ UNCHANGED doubtful
     ELSE Goto(r, "user") /\ doubtful' = TRUE
  /\ UNCHANGED <<mode, faults, linked, shared, order, answer, forgotten, unheard>>

PutShared(r) ==
  /\ req[r].pc = "put"
  /\ shared' = Processing(r)
  /\ Goto(r, "user")
  /\ UNCHANGED <<mode, faults, linked, memory, order, answer, forgotten, history>>

\* A SET that fails is swallowed: only this process knows of the claim.
PutFails(r) ==
  /\ Fault("redis")
  /\ req[r].pc = "put"
  /\ Goto(r, "user")
  /\ doubtful' = TRUE
  /\ UNCHANGED <<mode, linked, cache, order, answer, forgotten, unheard>>

-----------------------------------------------------------------------------
\* An exit that forgets the key stays claimed.
LeaveClaimed(s) == UNCHANGED memory
ForgetClaim(s) == Remember(s, None)

\* What follows the write to the process's own memory: a command to Redis, if
\* the process has it, or the answer.
ThenRedis(r, pc, kind) ==
  IF linked[req[r].at]
  THEN Goto(r, pc) /\ UNCHANGED <<answer, unheard>>
  ELSE Tell(r, kind, r) /\ unheard' = unheard \cup {q \in {r} : mode = "redis"}

\* clearIdempotencyRecord, then an error: memory first, then a DEL.
GiveUp(r) ==
  /\ ForgetClaim(req[r].at)
  /\ ThenRedis(r, "del", "error")
  /\ UNCHANGED <<mode, linked, shared, forgotten, doubtful>>

DelShared(r) ==
  /\ req[r].pc = "del"
  /\ shared' = None
  /\ Tell(r, "error", r)
  /\ UNCHANGED <<mode, faults, linked, memory, order, forgotten, history>>

\* The last command of a request fails and is swallowed: the client is answered
\* and Redis keeps the claim.
LastFails(r) ==
  /\ Fault("redis")
  /\ \/ req[r].pc = "del" /\ Tell(r, "error", r)
     \/ req[r].pc = "publish" /\ Tell(r, "accepted", r)
  /\ unheard' = unheard \cup {r}
  /\ UNCHANGED <<mode, linked, cache, order, forgotten, doubtful>>

\* The user, the address, a product, the rules or the credit limit turn the
\* order down.
TurnDown(r) == req[r].pc = "user" /\ GiveUp(r) /\ UNCHANGED <<order, faults>>

\* The read of the user throws: it stands outside the try block, so nothing
\* clears the key.
UserFails(r) ==
  /\ Fault("user")
  /\ req[r].pc = "user"
  /\ Tell(r, "broken", r)
  /\ UNCHANGED <<mode, linked, cache, order, forgotten, history>>

SaveOrder(r) ==
  /\ req[r].pc = "user"
  /\ order' = [order EXCEPT ![r] = "saved"]
  /\ Goto(r, IF r \in CardRequests THEN "intent" ELSE "queue")
  /\ UNCHANGED <<mode, faults, linked, cache, answer, forgotten, history>>

CreateIntent(r) ==
  /\ req[r].pc = "intent"
  /\ Goto(r, "queue")
  /\ UNCHANGED <<mode, faults, linked, cache, order, answer, forgotten, history>>

\* No intent: the saved order stays behind, pending and without a job.
IntentFails(r) ==
  /\ Fault("stripe")
  /\ req[r].pc = "intent"
  /\ GiveUp(r)
  /\ UNCHANGED order

Enqueue(r) ==
  /\ req[r].pc = "queue"
  /\ order' = [order EXCEPT ![r] = "queued"]
  /\ Goto(r, "after")
  /\ UNCHANGED <<mode, faults, linked, cache, answer, forgotten, history>>

\* processCheckoutWithFila marks the order as failed and returns normally: the
\* request goes on as if it had been queued.
EnqueueFails(r) ==
  /\ Fault("queue")
  /\ req[r].pc = "queue"
  /\ order' = [order EXCEPT ![r] = "failed"]
  /\ Goto(r, "after")
  /\ UNCHANGED <<mode, linked, cache, answer, forgotten, history>>

\* That update of the order fails as well: the order is cancelled instead and
\* the client gets the error.
EnqueueBreaks(r) ==
  /\ Fault("queue")
  /\ req[r].pc = "queue"
  /\ order' = [order EXCEPT ![r] = "cancelled"]
  /\ GiveUp(r)

\* The loyalty points or the mail fail: an error for an order that is queued.
AfterFails(r) ==
  /\ Fault("mail")
  /\ req[r].pc = "after"
  /\ GiveUp(r)
  /\ UNCHANGED order

\* setIdempotencyResult: memory first, then a SET; then 202.
Finish(r) ==
  /\ req[r].pc = "after"
  /\ Remember(req[r].at, Completed(r))
  /\ ThenRedis(r, "publish", "accepted")
  /\ UNCHANGED <<mode, faults, linked, shared, order, forgotten, doubtful>>

Publish(r) ==
  /\ req[r].pc = "publish"
  /\ shared' = Completed(r)
  /\ Tell(r, "accepted", r)
  /\ UNCHANGED <<mode, faults, linked, memory, order, forgotten, history>>

-----------------------------------------------------------------------------
\* Only Redis forgets: the copies in the processes have no time to live.
ExpireShared(rec) ==
  /\ rec # None /\ ~InProgress(rec.by)
  /\ shared = rec /\ shared' = None
  /\ forgotten' = forgotten \cup {rec.by}
  /\ UNCHANGED <<mode, faults, linked, memory, req, order, answer, history>>
\* The record of a request that is over is five minutes old.  Its copies carry
\* the same expiresAt.
Expire(rec) ==
  /\ rec # None /\ ~InProgress(rec.by)
  /\ \E s \in Servers : memory[s] = rec \/ shared = rec
  /\ memory' = [s \in Servers |-> IF memory[s] = rec THEN None ELSE memory[s]]
  /\ shared' = IF shared = rec THEN None ELSE shared
  /\ forgotten' = forgotten \cup {rec.by}
  /\ UNCHANGED <<mode, faults, linked, req, order, answer, history>>

\* Without Redis nothing is left of the record in its memory.
LostWith(s) ==
  IF mode = "memory" /\ memory[s] # None THEN forgotten \cup {memory[s].by} ELSE forgotten

\* The process of s dies: its memory and the requests it was working on are gone.
Crash(s) ==
  LET hit == {r \in Requests : InProgress(r) /\ req[r].at = s} IN
  /\ Fault("crash")
  /\ Remember(s, None)
  /\ req' = [r \in Requests |-> IF r \in hit THEN Over ELSE req[r]]
  /\ answer' = [r \in Requests |-> IF r \in hit THEN [kind |-> "lost", by |-> r]
                                                ELSE answer[r]]
  /\ forgotten' = LostWith(s)
  /\ linked' = [linked EXCEPT ![s] = mode = "redis"]
  /\ UNCHANGED <<mode, shared, order, history>>

\* An error of its connection takes the client of s away, and nothing connects
\* it again.
Unlink(s) ==
  /\ Fault("redis")
  /\ linked[s]
  /\ linked' = [linked EXCEPT ![s] = FALSE]
  /\ UNCHANGED <<mode, cache, req, order, answer, forgotten, history>>

Handle(r) ==
  \/ \E s \in Servers : FindInMemory(r, s) \/ ClaimInMemory(r, s) \/ AskShared(r, s)
  \/ ReadShared(r) \/ ReadFails(r) \/ FindShared(r) \/ ClaimShared(r)
  \/ PutShared(r) \/ PutFails(r)
  \/ TurnDown(r) \/ UserFails(r) \/ SaveOrder(r) \/ CreateIntent(r) \/ IntentFails(r)
  \/ Enqueue(r) \/ EnqueueFails(r) \/ EnqueueBreaks(r) \/ AfterFails(r) \/ Finish(r) \/ Publish(r)
  \/ DelShared(r) \/ LastFails(r)

Next ==
  \/ \E r \in Requests : Handle(r)
  \/ \E rec \in Records : Expire(rec)
  \/ \E s \in Servers : Crash(s) \/ Unlink(s)

Spec == Init /\ [][Next]_vars

(***************************************************************************)
(* Fairness: a handler goes on, since every round trip ends, and a record  *)
(* grows old.  Clients send when they like; nothing is assumed of faults.  *)
(***************************************************************************)
FairSpec ==
  /\ Spec
  /\ \A r \in Requests : WF_vars(InProgress(r) /\ Handle(r))
  /\ \A rec \in Records : WF_vars(Expire(rec))

-----------------------------------------------------------------------------
\* Type invariant.
TypeOK ==
  /\ mode \in Modes
  /\ linked \in [Servers -> BOOLEAN]
  /\ memory \in [Servers -> Records]
  /\ shared \in Records
  /\ req \in [Requests -> [pc : Pcs, at : Servers, seen : Records]]
  /\ order \in [Requests -> {"none", "saved", "queued", "failed", "cancelled"}]
  /\ answer \in [Requests -> [kind : Answers, by : Requests \cup {None}]]
  /\ forgotten \subseteq Requests
  /\ faults \in 0..MaxFaults
  /\ doubtful \in BOOLEAN
  /\ unheard \subseteq Requests

\* Two orders are queued under one key only when the client of one of them was
\* not told that it was placed, or its record had run out or was lost with the
\* one process that had it: the claim (orders.ts:169-184) and the exits that
\* clear it leave no other way, for a key that no two lookups found free before
\* the first of them had claimed it, and no lookup or claim of which was lost
\* on its way to Redis.
OneOrderPerKey ==
  \A q, r \in Requests :
    ~doubtful /\ q # r /\ order[q] = "queued" /\ order[r] = "queued" =>
      \E x \in {q, r} : x \in forgotten \/ answer[x].kind \in {"error", "lost"}

\* A stored response is replayed only for an order that went to the queue and
\* whose own client was never told of an error.
ReplayedWasPlaced ==
  \A r \in Requests :
    answer[r].kind = "replayed" =>
      /\ order[answer[r].by] \in {"queued", "failed"}
      /\ answer[answer[r].by].kind # "error"

\* A claim that other requests are refused for, in Redis or in the memory of the
\* one process there is, is that of a request under way, of one that ended
\* without reaching an exit that clears the key (orders.ts:186), or of one whose
\* last word did not reach Redis (cache.ts:173-193): whichever requests
\* overwrite and clear each other's claims.
ClaimHasOwner ==
  \A r \in Requests :
    \/ shared = Processing(r)
    \/ mode = "memory" /\ \E s \in Servers : memory[s] = Processing(r)
    => InProgress(r) \/ answer[r].kind \in {"broken", "lost"} \/ r \in unheard

\* 409 "Checkout já está a ser processado" (orders.ts:178-181) is said only
\* while the request that claimed the key is being processed, or after one that
\* ended without reaching an exit that clears the key.
RefusedForCause ==
  [][\A r \in Requests :
       LET by == answer'[r].by IN
       answer'[r] # answer[r] /\ answer'[r].kind = "refused" =>
         InProgress(by) \/ answer[by].kind \in {"broken", "lost"}]_vars

\* No claim of a key lasts, on any level of the cache, whatever became of the
\* request that made it: a client that tries again is not told forever that its
\* checkout is being processed (orders.ts:178-186, cache.ts:109-160).
KeyComesFree ==
  \A r \in Requests :
    LET Claimed == shared = Processing(r) \/ \E s \in Servers : memory[s] = Processing(r)
    IN  Claimed ~> ~Claimed

=============================================================================
