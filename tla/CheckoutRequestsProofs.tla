------------------------ MODULE CheckoutRequestsProofs ------------------------
(***************************************************************************)
(* Proofs about the requests that carry one idempotency key, for any       *)
(* number of requests, processes and faults, whenever clients send.  There *)
(* are no assumptions but those on the constants.                          *)
(***************************************************************************)
EXTENDS CheckoutRequests, TLAPS

\* Where a handler is once it has claimed the key.
Claims == {"put", "user", "intent", "queue", "after", "publish", "del"}

\* A response of r was stored: its order went to the queue, and r was not told
\* of an error.
Placed(r) ==
  /\ order[r] \in {"queued", "failed"}
  /\ req[r].pc \in {"publish", "done"}
  /\ answer[r].kind # "error"

\* A record is of a request that claimed the key, and what it says of it is so.
RecordHolds(rec) ==
  rec # None =>
    /\ req[rec.by].pc \in Claims \cup {"done"}
    /\ rec.status = "completed" => Placed(rec.by)

RecordsHold ==
  /\ \A s \in Servers : RecordHolds(memory[s])
  /\ RecordHolds(shared)
  /\ \A r \in Requests : RecordHolds(req[r].seen)

AnswersHold ==
  \A r \in Requests :
    answer[r].kind = "replayed" => answer[r].by \in Requests /\ Placed(answer[r].by)

\* How far a handler is shows in its order and its answer.
Progress ==
  \A r \in Requests :
    /\ req[r].pc # "done" => answer[r].kind = "none"
    /\ req[r].pc \in {"new", "get", "got", "put", "user"} => order[r] = "none"
    /\ req[r].pc \in {"intent", "queue"} => order[r] = "saved"
    /\ req[r].pc \in {"after", "publish"} => order[r] \in {"queued", "failed"}

Remote == {"get", "got", "put", "publish", "del"}

\* Without Redis no process has a client of it, and no handler waits for it.
Unlinked ==
  mode = "memory" =>
    /\ \A s \in Servers : linked[s] = FALSE
    /\ \A r \in Requests : req[r].pc \notin Remote

Sound == TypeOK /\ Unlinked
RecordInv == Sound /\ RecordsHold /\ AnswersHold /\ Progress

\* r has the key, or had its order placed under it, and nothing undid that.
Keeps(r) ==
  /\ r \notin forgotten /\ answer[r].kind \notin {"error", "lost"}
  /\ req[r].pc \in Claims \/ (req[r].pc = "done" /\ order[r] = "queued")

\* Only the record of a request that is over is forgotten.
EndedFirst == \A r \in forgotten : req[r].pc = "done"

Broken(r) == answer[r].kind \in {"broken", "lost"}

\* One process and its memory: the request that keeps the key is the one on record.
InOneProcess ==
  mode = "memory" =>
    /\ shared = None
    /\ \A r \in Requests : req[r].at = Home
    /\ \A s \in Servers : memory[s] # None => s = Home
    /\ \A r \in Requests : Keeps(r) => memory[Home] # None /\ memory[Home].by = r

\* Several processes: while nobody doubts it, one request at most is claiming
\* the key, nobody keeps it meanwhile, and the one that keeps it is on record in
\* Redis.
InTurn ==
  mode = "redis" /\ doubtful = FALSE =>
    /\ \A q, r \in Requests : Claiming(q) /\ Claiming(r) => q = r
    /\ \A q, r \in Requests : Claiming(q) /\ Keeps(r) => q = r
    /\ \A r \in Requests : Keeps(r) => req[r].pc = "put" \/ (shared # None /\ shared.by = r)

KeyInv == RecordInv /\ EndedFirst /\ InOneProcess /\ InTurn /\ ClaimHasOwner

-----------------------------------------------------------------------------
LEMMA RecordsTyped ==
  /\ None \in Records
  /\ \A r \in Requests : Processing(r) \in Records /\ Completed(r) \in Records
BY DEF Records, Processing, Completed

LEMMA RecordsApart ==
  ASSUME NEW q \in Requests, NEW r \in Requests
  PROVE  /\ Processing(r).by = r /\ Processing(r).status = "processing" /\ Processing(r) # None
         /\ Completed(r).by = r /\ Completed(r).status = "completed" /\ Completed(r) # None
         /\ Processing(q) # Completed(r)
         /\ Processing(q) = Processing(r) => q = r
<1>1. {Processing(r), Completed(r)} \subseteq [status : {"processing", "completed"}, by : Requests]
  BY DEF Processing, Completed
<1>2. Processing(r) # None /\ Completed(r) # None
  BY <1>1, NoneAssumption
<1>3. /\ Processing(r).by = r /\ Processing(r).status = "processing" /\ Processing(q).by = q
      /\ Completed(r).by = r /\ Completed(r).status = "completed"
      /\ Processing(q).status = "processing"
  BY DEF Processing, Completed
<1>. QED BY <1>2, <1>3

\* A record that is there is of a request, and says one of two things.
LEMMA RecordFacts ==
  ASSUME NEW rec \in Records, rec # None
  PROVE  /\ rec.by \in Requests
         /\ \/ rec = Processing(rec.by) /\ rec.status = "processing"
            \/ rec = Completed(rec.by) /\ rec.status = "completed"
BY DEF Records, Processing, Completed

-----------------------------------------------------------------------------
(***************************************************************************)
(* What the writes of a handler leave.                                     *)
(***************************************************************************)
Rows == [Requests -> [pc : Pcs, at : Servers, seen : Records]]
Said == [Requests -> [kind : Answers, by : Requests \cup {None}]]

\* The row of r is at pc now, on s, and seen is what GET returned.
Row(r, pc, s, seen) ==
  /\ req' \in Rows
  /\ req'[r].pc = pc /\ req'[r].at = s /\ req'[r].seen = seen
  /\ \A q \in Requests \ {r} : req'[q] = req[q]

\* The handler of r goes on to pc.
Moves(r, pc) == Row(r, pc, req[r].at, req[r].seen)
Goes(r, pc) == Moves(r, pc) /\ answer' = answer

\* It ends with an answer.
Ends(r, kind, by) ==
  /\ Row(r, "done", Home, None)
  /\ answer' \in Said
  /\ answer'[r].kind = kind /\ answer'[r].by = by
  /\ \A q \in Requests \ {r} : answer'[q] = answer[q]

\* It ends with what a record says.
Replies(r, rec) ==
  /\ rec \in Records /\ rec # None /\ rec.by \in Requests
  /\ \/ rec = Completed(rec.by) /\ Ends(r, "replayed", rec.by)
     \/ rec = Processing(rec.by) /\ Ends(r, "refused", rec.by)

Puts(s, rec) ==
  /\ memory' \in [Servers -> Records] /\ memory'[s] = rec
  /\ \A u \in Servers \ {s} : memory'[u] = memory[u]

OrderStates == {"none", "saved", "queued", "failed", "cancelled"}

Orders(r, state) ==
  /\ order' \in [Requests -> OrderStates]
  /\ order'[r] = state /\ \A q \in Requests \ {r} : order'[q] = order[q]

\* The row of a request is replaced.
LEMMA RowReplaced ==
  ASSUME TypeOK, NEW r \in Requests, NEW pc \in Pcs, NEW s \in Servers, NEW rec \in Records,
         req' = [req EXCEPT ![r] = [pc |-> pc, at |-> s, seen |-> rec]]
  PROVE  Row(r, pc, s, rec)
BY DEF TypeOK, Row, Rows

LEMMA GotoMoves ==
  ASSUME TypeOK, NEW r \in Requests, NEW pc \in Pcs, Goto(r, pc) PROVE Moves(r, pc)
BY DEF TypeOK, Goto, Moves, Row, Rows

LEMMA TellEnds ==
  ASSUME TypeOK, NEW r \in Requests, NEW kind \in Answers, NEW by \in Requests, Tell(r, kind, by)
  PROVE  Ends(r, kind, by)
<1>1. "done" \in Pcs /\ Home \in Servers /\ None \in Records
  BY RecordsTyped, RequestsAssumption DEF Pcs
<1>2. req' = [req EXCEPT ![r] = [pc |-> "done", at |-> Home, seen |-> None]]
  BY DEF Tell, Over
<1>3. Row(r, "done", Home, None)
  BY <1>1, <1>2, RowReplaced
<1>. QED BY <1>3 DEF TypeOK, Tell, Ends, Said

LEMMA FromRecordReplies ==
  ASSUME TypeOK, NEW r \in Requests, NEW rec \in Records, rec # None, FromRecord(r, rec)
  PROVE  Replies(r, rec)
<1>1. rec.by \in Requests /\ {"replayed", "refused"} \subseteq Answers
  BY RecordFacts DEF Answers
<1>2. CASE rec = Completed(rec.by) /\ rec.status = "completed"
  BY <1>1, <1>2, TellEnds DEF FromRecord, Replies
<1>3. CASE rec = Processing(rec.by) /\ rec.status = "processing"
  BY <1>1, <1>3, TellEnds DEF FromRecord, Replies
<1>. QED BY <1>2, <1>3, RecordFacts

LEMMA RememberPuts ==
  ASSUME TypeOK, NEW s \in Servers, NEW rec \in Records, Remember(s, rec) PROVE Puts(s, rec)
BY DEF TypeOK, Remember, Puts

LEMMA OrderWritten ==
  ASSUME TypeOK, NEW r \in Requests, NEW state \in OrderStates,
         order' = [order EXCEPT ![r] = state]
  PROVE  Orders(r, state)
BY DEF TypeOK, Orders, OrderStates

\* After the write to memory it goes to Redis, which there is, or ends: and then
\* Redis was not told, where there is one.
Follows(r, pc, kind) ==
  \/ mode = "redis" /\ Goes(r, pc)
  \/ Ends(r, kind, r) /\ (mode = "redis" => r \in unheard')

LEMMA ThenRedisFollows ==
  ASSUME Sound, NEW r \in Requests, NEW pc \in Pcs, NEW kind \in Answers, ThenRedis(r, pc, kind)
  PROVE  Follows(r, pc, kind)
<1>0. TypeOK /\ req[r].at \in Servers /\ mode \in {"memory", "redis"}
  BY RequestsAssumption DEF Sound, TypeOK
<1>1. CASE linked[req[r].at]
  <2>1. mode = "redis"
    BY <1>0, <1>1 DEF Sound, Unlinked
  <2>2. Goes(r, pc)
    BY <1>0, <1>1, GotoMoves DEF ThenRedis, Goes
  <2>. QED BY <2>1, <2>2 DEF Follows
<1>2. CASE ~linked[req[r].at]
  <2>1. Tell(r, kind, r) /\ unheard' = unheard \cup {q \in {r} : mode = "redis"}
    BY <1>2 DEF ThenRedis
  <2>2. Ends(r, kind, r)
    BY <1>0, <2>1, TellEnds
  <2>. QED BY <2>1, <2>2 DEF Follows
<1>. QED BY <1>1, <1>2

-----------------------------------------------------------------------------
(***************************************************************************)
(* What each step of a handler does, in terms of these.                    *)
(***************************************************************************)
\* It finds the key, in the memory of s or in the reply of Redis.
Told(r) ==
  \E s \in Servers, rec \in Records :
    /\ \/ req[r].pc = "new" /\ rec = memory[s] /\ UNCHANGED memory
       \/ req[r].pc = "got" /\ rec = req[r].seen /\ s = req[r].at /\ Puts(s, rec)
    /\ Replies(r, rec)
    /\ UNCHANGED <<mode, shared, order, forgotten>>

\* It is on its way to Redis and back, and where nothing is found while another
\* request claims the key, or where no reply came, the claim is doubtful.
Asks(r) ==
  /\ mode = "redis"
  /\ \/ req[r].pc = "new" /\ \E s \in Servers : Row(r, "get", s, None)
     \/ /\ req[r].pc = "get" /\ Row(r, "got", req[r].at, shared)
        /\ (shared = None /\ \E q \in Requests : Claiming(q)) => doubtful' = TRUE
     \/ req[r].pc = "get" /\ Row(r, "got", req[r].at, None) /\ doubtful' = TRUE
  /\ UNCHANGED <<mode, cache, order, answer, forgotten>>

\* It claims the key in the memory of its process, and does so only there when
\* it has nothing else.
Takes(r) ==
  \E s \in Servers :
    /\ \/ /\ req[r].pc = "new" /\ memory[s] = None /\ Row(r, "user", s, None)
          /\ IF mode = "memory" THEN s = Home ELSE doubtful' = TRUE
       \/ req[r].pc = "got" /\ req[r].seen = None /\ s = req[r].at /\ Moves(r, "put")
       \/ /\ req[r].pc = "got" /\ req[r].seen = None /\ s = req[r].at /\ Moves(r, "user")
          /\ doubtful' = TRUE
    /\ Puts(s, Processing(r))
    /\ UNCHANGED <<mode, shared, order, answer, forgotten>>

\* Its claim, or the response, reaches Redis, or the key is deleted there; or
\* the command is lost.
Shares(r) ==
  /\ \/ req[r].pc = "put" /\ shared' = Processing(r) /\ Goes(r, "user")
     \/ req[r].pc = "put" /\ shared' = shared /\ Goes(r, "user") /\ doubtful' = TRUE
     \/ req[r].pc = "publish" /\ shared' = Completed(r) /\ Ends(r, "accepted", r)
     \/ req[r].pc = "del" /\ shared' = None /\ Ends(r, "error", r)
     \/ /\ req[r].pc = "publish" /\ shared' = shared /\ Ends(r, "accepted", r)
        /\ r \in unheard'
     \/ req[r].pc = "del" /\ shared' = shared /\ Ends(r, "error", r) /\ r \in unheard'
  /\ UNCHANGED <<mode, memory, order, forgotten>>

\* It gives up, and where the queue broke its order is cancelled.
Quits(r) ==
  /\ \/ req[r].pc \in {"user", "intent", "after"} /\ UNCHANGED order
     \/ req[r].pc = "queue" /\ Orders(r, "cancelled")
  /\ Puts(req[r].at, None)
  /\ Follows(r, "del", "error")
  /\ UNCHANGED <<mode, shared, forgotten>>

\* It goes on without touching the records.
Proceeds(r) ==
  /\ \/ req[r].pc = "user" /\ UNCHANGED order /\ Ends(r, "broken", r)
     \/ req[r].pc = "user" /\ Orders(r, "saved") /\ (Goes(r, "intent") \/ Goes(r, "queue"))
     \/ req[r].pc = "intent" /\ UNCHANGED order /\ Goes(r, "queue")
     \/ /\ req[r].pc = "queue" /\ Goes(r, "after")
        /\ Orders(r, "queued") \/ Orders(r, "failed")
  /\ UNCHANGED <<mode, cache, forgotten>>

\* It stores the response in the memory of its process.
Stores(r) ==
  /\ req[r].pc = "after"
  /\ Puts(req[r].at, Completed(r))
  /\ Follows(r, "publish", "accepted")
  /\ UNCHANGED <<mode, shared, order, forgotten>>

Works(r) ==
  Told(r) \/ Asks(r) \/ Takes(r) \/ Shares(r) \/ Quits(r) \/ Proceeds(r) \/ Stores(r)

LEMMA FindTold ==
  ASSUME TypeOK, NEW r \in Requests, NEW s \in Servers, FindInMemory(r, s) \/ FindShared(r)
  PROVE  Told(r)
<1>1. CASE FindInMemory(r, s)
  <2>1. memory[s] \in Records /\ memory[s] # None /\ FromRecord(r, memory[s])
    BY <1>1 DEF FindInMemory, TypeOK
  <2>2. Replies(r, memory[s])
    BY <2>1, FromRecordReplies
  <2>. QED BY <1>1, <2>1, <2>2 DEF FindInMemory, Told, cache
<1>2. CASE FindShared(r)
  <2>1. req[r].seen \in Records /\ req[r].seen # None /\ FromRecord(r, req[r].seen)
    BY <1>2 DEF FindShared, TypeOK
  <2>2. req[r].at \in Servers /\ Remember(req[r].at, req[r].seen)
    BY <1>2 DEF FindShared, TypeOK
  <2>3. Replies(r, req[r].seen)
    BY <2>1, FromRecordReplies
  <2>4. Puts(req[r].at, req[r].seen)
    BY <2>1, <2>2, RememberPuts
  <2>. QED BY <1>2, <2>1, <2>2, <2>3, <2>4 DEF FindShared, Told
<1>. QED BY <1>1, <1>2

\* A request waits for Redis only where there is one.
LEMMA AskAsks ==
  ASSUME Sound, NEW r \in Requests, NEW s \in Servers,
         AskShared(r, s) \/ ReadShared(r) \/ ReadFails(r)
  PROVE  Asks(r)
<1>0. /\ TypeOK /\ mode \in {"memory", "redis"}
      /\ {"get", "got"} \subseteq Pcs /\ req[r].at \in Servers /\ shared \in Records
  BY RequestsAssumption DEF Pcs, Sound, TypeOK
<1>1. CASE AskShared(r, s)
  <2>1. req' = [req EXCEPT ![r] = [pc |-> "get", at |-> s, seen |-> None]] /\ linked[s]
    BY <1>1 DEF AskShared
  <2>2. Row(r, "get", s, None)
    BY <1>0, <2>1, RecordsTyped, RowReplaced
  <2>3. mode = "redis"
    BY <1>0, <2>1 DEF Sound, Unlinked
  <2>4. req[r].pc = "new" /\ UNCHANGED <<mode, cache, order, answer, forgotten>>
    BY <1>1 DEF AskShared
  <2>. QED BY <2>2, <2>3, <2>4 DEF Asks
<1>2. CASE ReadShared(r)
  <2>1. req' = [req EXCEPT ![r] = [pc |-> "got", at |-> req[r].at, seen |-> shared]]
    BY <1>2 DEF ReadShared
  <2>2. Row(r, "got", req[r].at, shared)
    BY <1>0, <2>1, RowReplaced
  <2>3. req[r].pc = "get" /\ UNCHANGED <<mode, cache, order, answer, forgotten>>
    BY <1>2 DEF ReadShared
  <2>4. (shared = None /\ \E q \in Requests : Claiming(q)) => doubtful' = TRUE
    BY <1>2, Zenon DEF ReadShared
  <2>5. mode = "redis"
    BY <1>0, <2>3 DEF Sound, Unlinked, Remote
  <2>. QED BY <2>2, <2>3, <2>4, <2>5 DEF Asks
<1>3. CASE ReadFails(r)
  <2>1. req' = [req EXCEPT ![r] = [pc |-> "got", at |-> req[r].at, seen |-> None]]
    BY <1>3 DEF ReadFails
  <2>2. Row(r, "got", req[r].at, None)
    BY <1>0, <2>1, RecordsTyped, RowReplaced
  <2>3. /\ req[r].pc = "get" /\ doubtful' = TRUE
        /\ UNCHANGED <<mode, cache, order, answer, forgotten>>
    BY <1>3 DEF ReadFails
  <2>5. mode = "redis"
    BY <1>0, <2>3 DEF Sound, Unlinked, Remote
  <2>. QED BY <2>2, <2>3, <2>5 DEF Asks
<1>. QED BY <1>1, <1>2, <1>3

LEMMA ClaimTakes ==
  ASSUME TypeOK, NEW r \in Requests, NEW s \in Servers, ClaimInMemory(r, s) \/ ClaimShared(r)
  PROVE  Takes(r)
<1>0. /\ {"user", "put"} \subseteq Pcs /\ req[r].at \in Servers /\ Processing(r) \in Records
      /\ None \in Records /\ mode \in {"memory", "redis"}
  BY RecordsTyped, RequestsAssumption DEF Pcs, TypeOK
<1>1. CASE ClaimInMemory(r, s)
  <2>1. /\ req' = [req EXCEPT ![r] = [pc |-> "user", at |-> s, seen |-> None]]
        /\ Remember(s, Processing(r))
    BY <1>1 DEF ClaimInMemory, Claim
  <2>2. Row(r, "user", s, None) /\ Puts(s, Processing(r))
    BY <1>0, <2>1, RowReplaced, RememberPuts
  <2>3. IF mode = "memory" THEN s = Home ELSE doubtful' = TRUE
    <3>1. mode = "memory" => s = Home
      BY <1>1 DEF ClaimInMemory
    <3>2. mode = "redis" => doubtful' = TRUE
      BY <1>1, Zenon DEF ClaimInMemory
    <3>. QED BY <1>0, <3>1, <3>2
  <2>4. /\ req[r].pc = "new" /\ memory[s] = None
        /\ UNCHANGED <<mode, shared, order, answer, forgotten>>
    BY <1>1 DEF ClaimInMemory
  <2>. QED BY <2>2, <2>3, <2>4 DEF Takes
<1>2. CASE ClaimShared(r)
  <2>1. /\ Remember(req[r].at, Processing(r))
        /\ Goto(r, "put") \/ (Goto(r, "user") /\ doubtful' = TRUE)
    BY <1>2, Zenon DEF ClaimShared, Claim
  <2>2. Puts(req[r].at, Processing(r))
    BY <1>0, <2>1, RememberPuts
  <2>3. Moves(r, "put") \/ (Moves(r, "user") /\ doubtful' = TRUE)
    BY <1>0, <2>1, GotoMoves
  <2>4. /\ req[r].pc = "got" /\ req[r].seen = None
        /\ UNCHANGED <<mode, shared, order, answer, forgotten>>
    BY <1>2 DEF ClaimShared
  <2>. QED BY <1>0, <2>2, <2>3, <2>4 DEF Takes
<1>. QED BY <1>1, <1>2

LEMMA WriteShares ==
  ASSUME TypeOK, NEW r \in Requests,
         PutShared(r) \/ PutFails(r) \/ Publish(r) \/ DelShared(r) \/ LastFails(r)
  PROVE  Shares(r)
<1>0. {"user"} \subseteq Pcs /\ {"accepted", "error"} \subseteq Answers
  BY DEF Pcs, Answers
<1>1. CASE PutShared(r)
  <2>1. Moves(r, "user")
    BY <1>0, <1>1, GotoMoves DEF PutShared
  <2>. QED BY <1>1, <2>1 DEF PutShared, Shares, Goes
<1>2. CASE PutFails(r)
  <2>1. Moves(r, "user")
    BY <1>0, <1>2, GotoMoves DEF PutFails
  <2>2. req[r].pc = "put" /\ doubtful' = TRUE /\ UNCHANGED <<mode, cache, order, answer, forgotten>>
    BY <1>2 DEF PutFails
  <2>. QED BY <2>1, <2>2 DEF Shares, Goes, cache
<1>3. CASE Publish(r)
  <2>1. Ends(r, "accepted", r)
    BY <1>0, <1>3, TellEnds DEF Publish
  <2>. QED BY <1>3, <2>1 DEF Publish, Shares
<1>4. CASE DelShared(r)
  <2>1. Ends(r, "error", r)
    BY <1>0, <1>4, TellEnds DEF DelShared
  <2>. QED BY <1>4, <2>1 DEF DelShared, Shares
<1>5. CASE LastFails(r)
  <2>1. /\ \/ req[r].pc = "del" /\ Tell(r, "error", r)
           \/ req[r].pc = "publish" /\ Tell(r, "accepted", r)
        /\ unheard' = unheard \cup {r}
        /\ UNCHANGED <<mode, cache, order, forgotten>>
    BY <1>5 DEF LastFails
  <2>2. \/ req[r].pc = "del" /\ Ends(r, "error", r)
        \/ req[r].pc = "publish" /\ Ends(r, "accepted", r)
    BY <1>0, <2>1, TellEnds
  <2>3. r \in unheard' /\ shared' = shared
    BY <2>1 DEF cache
  <2>. QED BY <2>1, <2>2, <2>3 DEF Shares, cache
<1>. QED BY <1>1, <1>2, <1>3, <1>4, <1>5

LEMMA ExitQuits ==
  ASSUME Sound, NEW r \in Requests,
         TurnDown(r) \/ IntentFails(r) \/ EnqueueBreaks(r) \/ AfterFails(r)
  PROVE  Quits(r)
<1>0. /\ TypeOK /\ {"del"} \subseteq Pcs /\ {"error"} \subseteq Answers /\ req[r].at \in Servers
      /\ {"cancelled"} \subseteq OrderStates
  BY DEF Pcs, Answers, Sound, TypeOK, OrderStates
<1>1. GiveUp(r)
  BY DEF TurnDown, IntentFails, EnqueueBreaks, AfterFails
<1>2. Puts(req[r].at, None)
  BY <1>0, <1>1, RecordsTyped, RememberPuts DEF GiveUp, ForgetClaim
<1>3. Follows(r, "del", "error")
  BY <1>0, <1>1, ThenRedisFollows DEF GiveUp
<1>4. UNCHANGED <<mode, shared, forgotten>>
  BY <1>1 DEF GiveUp
<1>5. CASE EnqueueBreaks(r)
  <2>1. Orders(r, "cancelled")
    BY <1>0, <1>5, OrderWritten DEF EnqueueBreaks
  <2>. QED BY <1>2, <1>3, <1>4, <1>5, <2>1 DEF EnqueueBreaks, Quits
<1>6. CASE TurnDown(r) \/ IntentFails(r) \/ AfterFails(r)
  BY <1>2, <1>3, <1>4, <1>6 DEF TurnDown, IntentFails, AfterFails, Quits
<1>. QED BY <1>5, <1>6

LEMMA WorkProceeds ==
  ASSUME TypeOK, NEW r \in Requests,
         \/ UserFails(r) \/ SaveOrder(r) \/ CreateIntent(r) \/ Enqueue(r) \/ EnqueueFails(r)
  PROVE  Proceeds(r)
<1>0. /\ {"intent", "queue", "after"} \subseteq Pcs /\ {"broken"} \subseteq Answers
      /\ {"saved", "queued", "failed"} \subseteq OrderStates
  BY DEF Pcs, Answers, OrderStates
<1>1. CASE UserFails(r)
  <2>1. Ends(r, "broken", r)
    BY <1>0, <1>1, TellEnds DEF UserFails
  <2>. QED BY <1>1, <2>1 DEF UserFails, Proceeds
<1>2. CASE SaveOrder(r)
  <2>1. Orders(r, "saved")
    BY <1>0, <1>2, OrderWritten DEF SaveOrder
  <2>2. Moves(r, "intent") \/ Moves(r, "queue")
    BY <1>0, <1>2, GotoMoves DEF SaveOrder
  <2>. QED BY <1>2, <2>1, <2>2 DEF SaveOrder, Proceeds, Goes
<1>3. CASE CreateIntent(r)
  <2>1. Moves(r, "queue")
    BY <1>0, <1>3, GotoMoves DEF CreateIntent
  <2>. QED BY <1>3, <2>1 DEF CreateIntent, Proceeds, Goes
<1>4. CASE Enqueue(r) \/ EnqueueFails(r)
  <2>1. Orders(r, "queued") \/ Orders(r, "failed")
    BY <1>0, <1>4, OrderWritten DEF Enqueue, EnqueueFails
  <2>2. Moves(r, "after")
    BY <1>0, <1>4, GotoMoves DEF Enqueue, EnqueueFails
  <2>. QED BY <1>4, <2>1, <2>2 DEF Enqueue, EnqueueFails, Proceeds, Goes
<1>. QED BY <1>1, <1>2, <1>3, <1>4

LEMMA FinishStores ==
  ASSUME Sound, NEW r \in Requests, Finish(r)
  PROVE  Stores(r)
<1>0. /\ TypeOK /\ {"publish"} \subseteq Pcs /\ {"accepted"} \subseteq Answers
      /\ req[r].at \in Servers /\ Completed(r) \in Records
  BY RecordsTyped DEF Pcs, Answers, Sound, TypeOK
<1>1. Puts(req[r].at, Completed(r))
  BY <1>0, RememberPuts DEF Finish
<1>2. Follows(r, "publish", "accepted")
  BY <1>0, ThenRedisFollows DEF Finish
<1>. QED BY <1>1, <1>2 DEF Finish, Stores

\* Every step of a handler is one of these seven.
LEMMA HandleWorks ==
  ASSUME Sound, NEW r \in Requests, Handle(r)
  PROVE  Works(r)
<1>0. TypeOK /\ req[r].at \in Servers
  BY DEF Sound, TypeOK
<1>1. CASE \E s \in Servers : FindInMemory(r, s) \/ ClaimInMemory(r, s) \/ AskShared(r, s)
  BY <1>0, <1>1, FindTold, ClaimTakes, AskAsks DEF Works
<1>2. CASE ReadShared(r) \/ ReadFails(r) \/ FindShared(r) \/ ClaimShared(r)
  BY <1>0, <1>2, FindTold, ClaimTakes, AskAsks DEF Works
<1>3. CASE PutShared(r) \/ PutFails(r) \/ Publish(r) \/ DelShared(r) \/ LastFails(r)
  BY <1>0, <1>3, WriteShares DEF Works
<1>4. CASE TurnDown(r) \/ IntentFails(r) \/ EnqueueBreaks(r) \/ AfterFails(r)
  BY <1>4, ExitQuits DEF Works
<1>5. CASE UserFails(r) \/ SaveOrder(r) \/ CreateIntent(r) \/ Enqueue(r) \/ EnqueueFails(r)
  BY <1>0, <1>5, WorkProceeds DEF Works
<1>6. CASE Finish(r)
  BY <1>6, FinishStores DEF Works
<1>. QED BY <1>1, <1>2, <1>3, <1>4, <1>5, <1>6 DEF Handle

\* A record runs out on every level.
Forgets(rec) ==
  /\ rec \in Records /\ rec # None /\ rec.by \in Requests /\ ~InProgress(rec.by)
  /\ \E s \in Servers : memory[s] = rec \/ shared = rec
  /\ memory' \in [Servers -> Records]
  /\ \A s \in Servers : memory'[s] = IF memory[s] = rec THEN None ELSE memory[s]
  /\ shared' = IF shared = rec THEN None ELSE shared
  /\ forgotten' = forgotten \cup {rec.by}
  /\ UNCHANGED <<mode, req, order, answer>>

\* The process of s dies with the requests it works on.
Dies(s) ==
  /\ Puts(s, None)
  /\ req' \in Rows /\ answer' \in Said
  /\ \A r \in Requests :
       IF InProgress(r) /\ req[r].at = s
       THEN /\ req'[r].pc = "done" /\ req'[r].at = Home /\ req'[r].seen = None
            /\ answer'[r].kind = "lost"
       ELSE req'[r] = req[r] /\ answer'[r] = answer[r]
  /\ forgotten' = LostWith(s)
  /\ UNCHANGED <<mode, shared, order>>

\* Nothing but the client of a process changes.
Parts == UNCHANGED <<mode, memory, shared, req, order, answer, forgotten>>

LEMMA ExpireForgets ==
  ASSUME TypeOK, NEW rec \in Records, Expire(rec)
  PROVE  Forgets(rec)
<1>1. rec # None /\ rec.by \in Requests
  BY RecordFacts DEF Expire
<1>2. memory' = [s \in Servers |-> IF memory[s] = rec THEN None ELSE memory[s]]
  BY DEF Expire
<1>3. \A s \in Servers : memory[s] \in Records
  BY DEF TypeOK
<1>4. memory' \in [Servers -> Records]
  BY <1>2, <1>3, RecordsTyped
<1>5. \A s \in Servers : memory'[s] = IF memory[s] = rec THEN None ELSE memory[s]
  BY <1>2
<1>. QED BY <1>1, <1>4, <1>5 DEF Expire, Forgets

LEMMA CrashDies ==
  ASSUME TypeOK, NEW s \in Servers, Crash(s)
  PROVE  Dies(s)
<1>. DEFINE hit == {r \in Requests : InProgress(r) /\ req[r].at = s}
            R == [pc : Pcs, at : Servers, seen : Records]
            A == [kind : Answers, by : Requests \cup {None}]
<1>1. /\ req' = [r \in Requests |-> IF r \in hit THEN Over ELSE req[r]]
      /\ answer' = [r \in Requests |-> IF r \in hit THEN [kind |-> "lost", by |-> r]
                                                    ELSE answer[r]]
  BY DEF Crash
<1>2. /\ Over \in R /\ Over.pc = "done" /\ Over.at = Home /\ Over.seen = None
  BY RecordsTyped, RequestsAssumption DEF Pcs, Over
<1>3. \A r \in Requests : [kind |-> "lost", by |-> r] \in A
  BY DEF Answers
<1>4. \A r \in Requests : req[r] \in R /\ answer[r] \in A
  BY DEF TypeOK
<1>5. \A r \in Requests : r \in hit <=> InProgress(r) /\ req[r].at = s
  OBVIOUS
<1>6. Puts(s, None)
  BY RecordsTyped, RememberPuts DEF Crash
<1>7. forgotten' = LostWith(s) /\ UNCHANGED <<mode, shared, order>>
  BY DEF Crash
<1>. HIDE DEF hit, R, A
<1>8. req' \in [Requests -> R]
  BY <1>1, <1>2, <1>4
<1>9. answer' \in [Requests -> A]
  BY <1>1, <1>3, <1>4
<1>10. \A r \in Requests : r \in hit =>
         /\ req'[r].pc = "done" /\ req'[r].at = Home /\ req'[r].seen = None
         /\ answer'[r].kind = "lost"
  <2>. TAKE r \in Requests
  <2>. HAVE r \in hit
  <2>1. req'[r] = Over /\ answer'[r] = [kind |-> "lost", by |-> r]
    BY <1>1
  <2>. QED BY <1>2, <2>1
<1>11. \A r \in Requests : r \notin hit => req'[r] = req[r] /\ answer'[r] = answer[r]
  BY <1>1
<1>. QED BY <1>5, <1>6, <1>7, <1>8, <1>9, <1>10, <1>11 DEF Dies, R, A, Rows, Said

LEMMA UnlinkParts == ASSUME NEW s \in Servers, Unlink(s) PROVE Parts
BY DEF Unlink, Parts, cache

\* Every step is one of these.
LEMMA NextDoes ==
  ASSUME Sound, Next
  PROVE  \/ \E r \in Requests : Works(r)
         \/ \E rec \in Records : Forgets(rec)
         \/ \E s \in Servers : Dies(s)
         \/ Parts
<1>1. TypeOK
  BY DEF Sound
<1>. QED BY <1>1, HandleWorks, ExpireForgets, CrashDies, UnlinkParts DEF Next

-----------------------------------------------------------------------------
(***************************************************************************)
(* The type invariant.                                                     *)
(***************************************************************************)
\* What every step keeps of the history, and of the clients of Redis.
Bookkeeping ==
  /\ mode' = mode
  /\ faults' \in 0..MaxFaults
  /\ doubtful' \in BOOLEAN /\ (doubtful' = FALSE => doubtful = FALSE)
  /\ unheard' \subseteq Requests /\ unheard \subseteq unheard'
  /\ linked' \in [Servers -> BOOLEAN]
  /\ mode = "memory" => \A s \in Servers : linked'[s] = FALSE

LEMMA FaultCounted ==
  ASSUME TypeOK, NEW kind, Fault(kind) PROVE faults' \in 0..MaxFaults
BY RequestsAssumption DEF TypeOK, Fault

LEMMA TypesApart ==
  ASSUME Sound
  PROVE  /\ mode \in {"memory", "redis"} /\ faults \in 0..MaxFaults
         /\ doubtful \in BOOLEAN /\ unheard \subseteq Requests
         /\ linked \in [Servers -> BOOLEAN]
         /\ mode = "memory" => \A s \in Servers : linked[s] = FALSE
BY RequestsAssumption DEF Sound, TypeOK, Unlinked

LEMMA HandleBooks ==
  ASSUME Sound, NEW r \in Requests, Handle(r) PROVE Bookkeeping
<1>0. TypeOK
  BY DEF Sound
<1>1. UNCHANGED <<mode, linked>>
  BY DEF Handle, FindInMemory, ClaimInMemory, AskShared, ReadShared, ReadFails, FindShared,
         ClaimShared, PutShared, PutFails, TurnDown, UserFails, SaveOrder, CreateIntent,
         IntentFails, Enqueue, EnqueueFails, EnqueueBreaks, AfterFails, Finish, Publish,
         DelShared, LastFails, GiveUp
<1>2. faults' \in 0..MaxFaults
  <2>1. \/ faults' = faults \/ \E kind \in FaultKinds : Fault(kind)
    BY DEF Handle, FindInMemory, ClaimInMemory, AskShared, ReadShared, ReadFails, FindShared,
           ClaimShared, PutShared, PutFails, TurnDown, UserFails, SaveOrder, CreateIntent,
           IntentFails, Enqueue, EnqueueFails, EnqueueBreaks, AfterFails, Finish, Publish,
           DelShared, LastFails, FaultKinds
  <2>. QED BY <1>0, <2>1, FaultCounted, TypesApart
<1>3. doubtful' \in BOOLEAN /\ (doubtful => doubtful')
  <2>1. ASSUME NEW s \in Servers, ClaimInMemory(r, s) PROVE doubtful' \in BOOLEAN /\ (doubtful => doubtful')
    BY <2>1, Zenon DEF ClaimInMemory
  <2>2. CASE ReadShared(r)
    BY <2>2, Zenon DEF ReadShared
  <2>3. CASE ClaimShared(r)
    BY <1>0, <2>3, Zenon DEF ClaimShared, TypeOK
  <2>4. CASE ReadFails(r) \/ PutFails(r)
    BY <2>4, Zenon DEF ReadFails, PutFails
  <2>5. ASSUME doubtful' = doubtful PROVE doubtful' \in BOOLEAN /\ (doubtful => doubtful')
    BY <1>0, <2>5, Zenon DEF TypeOK
  <2>6. \/ \E s \in Servers : ClaimInMemory(r, s)
        \/ ReadShared(r) \/ ClaimShared(r) \/ ReadFails(r) \/ PutFails(r)
        \/ doubtful' = doubtful
    BY DEF Handle, FindInMemory, AskShared, FindShared, PutShared, TurnDown, UserFails,
           SaveOrder, CreateIntent, IntentFails, Enqueue, EnqueueFails, EnqueueBreaks,
           AfterFails, Finish, Publish, DelShared, LastFails, GiveUp, history
  <2>. QED BY <2>1, <2>2, <2>3, <2>4, <2>5, <2>6
<1>4. unheard' = unheard \/ unheard' = unheard \cup {r}
  BY DEF Handle, FindInMemory, ClaimInMemory, AskShared, ReadShared, ReadFails, FindShared,
         ClaimShared, PutShared, PutFails, TurnDown, UserFails, SaveOrder, CreateIntent,
         IntentFails, Enqueue, EnqueueFails, EnqueueBreaks, AfterFails, Finish, Publish,
         DelShared, LastFails, GiveUp, ThenRedis, history
<1>5. doubtful' = FALSE => doubtful = FALSE
  BY <1>0, <1>3, Zenon DEF TypeOK
<1>6. doubtful' \in BOOLEAN
  BY <1>3
<1>. QED BY <1>1, <1>2, <1>4, <1>5, <1>6, TypesApart DEF Bookkeeping

LEMMA NextBooks == ASSUME Sound, Next PROVE Bookkeeping
<1>0. TypeOK
  BY DEF Sound
<1>1. ASSUME NEW rec \in Records, Expire(rec) PROVE Bookkeeping
  BY <1>1, TypesApart DEF Expire, Bookkeeping, history
<1>2. ASSUME NEW s \in Servers, Crash(s) PROVE Bookkeeping
  <2>1. UNCHANGED <<mode, doubtful, unheard>> /\ faults' \in 0..MaxFaults
    BY <1>0, <1>2, FaultCounted DEF Crash, history
  <2>2. linked' \in [Servers -> BOOLEAN]
    BY <1>0, <1>2, Zenon DEF Crash, TypeOK
  <2>3. ASSUME mode = "memory", NEW u \in Servers PROVE linked'[u] = FALSE
    <3>1. linked[u] = FALSE /\ (mode = "redis") = FALSE
      BY <2>3, TypesApart
    <3>2. linked'[u] = IF u = s THEN mode = "redis" ELSE linked[u]
      BY <1>0, <1>2, Zenon DEF Crash, TypeOK
    <3>. QED BY <3>1, <3>2, Zenon
  <2>. QED BY <2>1, <2>2, <2>3, TypesApart DEF Bookkeeping
<1>3. ASSUME NEW s \in Servers, Unlink(s) PROVE Bookkeeping
  <2>1. UNCHANGED <<mode, doubtful, unheard>> /\ faults' \in 0..MaxFaults
    BY <1>0, <1>3, FaultCounted DEF Unlink, history
  <2>2. linked' = [linked EXCEPT ![s] = FALSE]
    BY <1>3 DEF Unlink
  <2>. QED BY <2>1, <2>2, TypesApart DEF Bookkeeping
<1>. QED BY <1>1, <1>2, <1>3, HandleBooks DEF Next

LEMMA TypeInit == Init => Sound
<1>. SUFFICES ASSUME Init PROVE Sound
  OBVIOUS
<1>1. [r \in Requests |-> [pc |-> "new", at |-> Home, seen |-> None]]
        \in [Requests -> [pc : Pcs, at : Servers, seen : Records]]
  BY RecordsTyped, RequestsAssumption DEF Pcs
<1>2. [r \in Requests |-> [kind |-> "none", by |-> None]]
        \in [Requests -> [kind : Answers, by : Requests \cup {None}]]
  BY DEF Answers
<1>3. linked \in [Servers -> BOOLEAN]
  BY Zenon DEF Init
<1>4. mode = "memory" => \A s \in Servers : linked[s] = FALSE
  <2>. SUFFICES ASSUME mode = "memory", NEW s \in Servers PROVE linked[s] = FALSE
    OBVIOUS
  <2>1. linked[s] = (mode = "redis")
    BY Zenon DEF Init
  <2>. QED BY <2>1
<1>5. \A r \in Requests : req[r].pc \notin Remote
  BY DEF Init, Remote
<1>6. TypeOK
  <2>1. /\ mode \in Modes /\ memory \in [Servers -> Records] /\ shared \in Records
        /\ forgotten \subseteq Requests /\ unheard \subseteq Requests
        /\ order \in [Requests -> {"none", "saved", "queued", "failed", "cancelled"}]
    BY RecordsTyped DEF Init
  <2>2. faults \in 0..MaxFaults /\ doubtful \in BOOLEAN
    <3>1. faults = 0 /\ doubtful = FALSE
      BY Zenon DEF Init
    <3>2. 0 \in 0..MaxFaults
      BY RequestsAssumption
    <3>. QED BY <3>1, <3>2, Zenon
  <2>3. /\ req \in [Requests -> [pc : Pcs, at : Servers, seen : Records]]
        /\ answer \in [Requests -> [kind : Answers, by : Requests \cup {None}]]
    BY <1>1, <1>2 DEF Init
  <2>. QED BY <1>3, <2>1, <2>2, <2>3 DEF TypeOK
<1>. QED BY <1>4, <1>5, <1>6 DEF Sound, Unlinked

\* The variables a handler, a clock and a crash write keep to their values.
Typed ==
  /\ memory \in [Servers -> Records] /\ shared \in Records
  /\ req \in Rows /\ answer \in Said
  /\ order \in [Requests -> OrderStates] /\ forgotten \subseteq Requests

LEMMA TypedWorks ==
  ASSUME Typed, NEW r \in Requests, Works(r) PROVE Typed'
<1>1. CASE Told(r)
  BY <1>1 DEF Told, Replies, Ends, Row, Puts, Typed
<1>2. CASE Asks(r)
  BY <1>2 DEF Asks, Row, Typed, cache
<1>3. CASE Takes(r)
  BY <1>3 DEF Takes, Moves, Row, Puts, Typed
<1>4. CASE Shares(r)
  BY <1>4, RecordsTyped DEF Shares, Goes, Ends, Moves, Row, Typed
<1>5. CASE Quits(r)
  BY <1>5 DEF Quits, Follows, Orders, Goes, Ends, Moves, Row, Puts, Typed
<1>6. CASE Proceeds(r)
  BY <1>6 DEF Proceeds, Orders, Goes, Ends, Moves, Row, Typed, cache
<1>7. CASE Stores(r)
  BY <1>7 DEF Stores, Follows, Goes, Ends, Moves, Row, Puts, Typed
<1>. QED BY <1>1, <1>2, <1>3, <1>4, <1>5, <1>6, <1>7 DEF Works

\* Where there is no Redis no handler comes to wait for it.
LEMMA WorksNear ==
  ASSUME Sound, NEW r \in Requests, Works(r), mode = "memory"
  PROVE  \A q \in Requests : req'[q].pc \notin Remote
<1>0. \A q \in Requests : req[q].pc \notin Remote
  BY DEF Sound, Unlinked
<1>1. CASE Told(r)
  BY <1>0, <1>1 DEF Told, Replies, Ends, Row, Remote
<1>2. CASE Asks(r) \/ Shares(r)
  BY <1>0, <1>2 DEF Asks, Shares, Remote
<1>3. CASE Takes(r)
  BY <1>0, <1>3 DEF Takes, Row, Moves, Remote
<1>4. CASE Quits(r) \/ Stores(r)
  BY <1>0, <1>4 DEF Quits, Stores, Follows, Ends, Row, Remote
<1>5. CASE Proceeds(r)
  BY <1>0, <1>5 DEF Proceeds, Goes, Ends, Moves, Row, Remote
<1>. QED BY <1>1, <1>2, <1>3, <1>4, <1>5 DEF Works

LEMMA SoundStep ==
  ASSUME Sound, [Next]_vars PROVE Sound'
<1>1. CASE UNCHANGED vars
  BY <1>1 DEF vars, Sound, TypeOK, Unlinked
<1>2. CASE Next
  <2>1. Bookkeeping
    BY <1>2, NextBooks
  <2>2. Typed
    BY DEF Sound, TypeOK, Typed, Rows, Said, OrderStates
  <2>3. Typed' /\ (mode = "memory" => \A r \in Requests : req'[r].pc \notin Remote)
    <3>1. ASSUME NEW r \in Requests, Works(r) PROVE <2>3
      BY <2>2, <3>1, TypedWorks, WorksNear
    <3>2. ASSUME NEW rec \in Records, Forgets(rec) PROVE <2>3
      BY <2>2, <3>2, RecordsTyped DEF Forgets, Typed, Sound, Unlinked
    <3>3. ASSUME NEW s \in Servers, Dies(s) PROVE <2>3
      <4>1. forgotten' \subseteq Requests
        BY <2>2, <3>3, RecordFacts DEF Dies, LostWith, Typed
      <4>2. Typed'
        BY <2>2, <3>3, <4>1 DEF Dies, Puts, Typed
      <4>. QED BY <3>3, <4>2 DEF Dies, Sound, Unlinked, Remote
    <3>4. CASE Parts
      BY <2>2, <3>4 DEF Parts, Typed, Sound, Unlinked
    <3>. QED BY <1>2, <3>1, <3>2, <3>3, <3>4, NextDoes
  <2>4. mode' \in Modes
    BY <2>1 DEF Bookkeeping, Sound, TypeOK
  <2>5. TypeOK'
    BY <2>1, <2>3, <2>4 DEF Bookkeeping, Typed, TypeOK, Rows, Said, OrderStates
  <2>6. Unlinked'
    BY <2>1, <2>3 DEF Bookkeeping, Unlinked
  <2>. QED BY <2>5, <2>6 DEF Sound
<1>. QED BY <1>1, <1>2

\* Every variable of the requests keeps to its values, whatever the number of
\* processes and requests and whatever fails (orders.ts:144-680, cache.ts).
THEOREM RequestsTyped == Spec => []TypeOK
<1>1. Init => Sound
  BY TypeInit
<1>2. Sound /\ [Next]_vars => Sound'
  BY SoundStep
<1>3. Sound => TypeOK
  BY DEF Sound
<1>. QED BY <1>1, <1>2, <1>3, PTL DEF Spec

-----------------------------------------------------------------------------
(***************************************************************************)
(* What a stored response says.                                            *)
(***************************************************************************)
\* No claim is taken back and no placed order is undone.
Onward ==
  \A q \in Requests :
    /\ req[q].pc \in Claims \cup {"done"} => req'[q].pc \in Claims \cup {"done"}
    /\ Placed(q) => Placed(q)'

\* So what the records say stays true.
LEMMA RecordsStay ==
  ASSUME Onward
  PROVE  \A rec \in Records : RecordHolds(rec) => RecordHolds(rec)'
<1>. SUFFICES ASSUME NEW rec \in Records, RecordHolds(rec), rec # None PROVE RecordHolds(rec)'
  BY DEF RecordHolds
<1>1. rec.by \in Requests
  BY RecordFacts
<1>. QED BY <1>1 DEF Onward, RecordHolds

\* The step of one handler takes back nothing.
LEMMA HandlerOnward ==
  ASSUME TypeOK, Progress, NEW r \in Requests, Works(r)
  PROVE  Onward
<1>1. CASE Told(r)
  BY <1>1 DEF Told, Replies, Ends, Row, Onward, Placed, Claims, TypeOK
<1>2. CASE Asks(r)
  BY <1>2 DEF Asks, Row, Onward, Placed, Claims, TypeOK
<1>3. CASE Takes(r)
  BY <1>3 DEF Takes, Moves, Row, Onward, Placed, Claims, TypeOK
<1>4. CASE Shares(r)
  BY <1>4 DEF Shares, Goes, Ends, Moves, Row, Onward, Placed, Claims, TypeOK
<1>5. CASE Quits(r)
  BY <1>5 DEF Quits, Follows, Orders, Goes, Ends, Moves, Row, Onward, Placed, Claims, TypeOK
<1>6. CASE Proceeds(r)
  BY <1>6 DEF Proceeds, Orders, Goes, Ends, Moves, Row, Onward, Placed, Claims, TypeOK
<1>7. CASE Stores(r)
  BY <1>7 DEF Stores, Follows, Goes, Ends, Moves, Row, Onward, Placed, Claims, TypeOK
<1>. QED BY <1>1, <1>2, <1>3, <1>4, <1>5, <1>6, <1>7 DEF Works

LEMMA HandlerProgress ==
  ASSUME TypeOK, Progress, NEW r \in Requests, Works(r)
  PROVE  Progress'
<1>1. CASE Told(r)
  BY <1>1 DEF Told, Replies, Ends, Row, Progress, TypeOK
<1>2. CASE Asks(r)
  BY <1>2 DEF Asks, Row, Progress, TypeOK
<1>3. CASE Takes(r)
  BY <1>3 DEF Takes, Moves, Row, Progress, TypeOK
<1>4. CASE Shares(r)
  BY <1>4 DEF Shares, Goes, Ends, Moves, Row, Progress, TypeOK
<1>5. CASE Quits(r)
  BY <1>5 DEF Quits, Follows, Orders, Goes, Ends, Moves, Row, Progress, TypeOK
<1>6. CASE Proceeds(r)
  BY <1>6 DEF Proceeds, Orders, Goes, Ends, Moves, Row, Progress, TypeOK
<1>7. CASE Stores(r)
  BY <1>7 DEF Stores, Follows, Goes, Ends, Moves, Row, Progress, TypeOK
<1>. QED BY <1>1, <1>2, <1>3, <1>4, <1>5, <1>6, <1>7 DEF Works

\* Each level and each reply holds what was there before, or nothing, or a
\* record that is true now.
LEMMA RecordsKept ==
  ASSUME TypeOK, TypeOK', RecordsHold, Onward,
         \A s \in Servers : memory'[s] # memory[s] => RecordHolds(memory[s])',
         shared' # shared => RecordHolds(shared)',
         \A r \in Requests : req'[r].seen # req[r].seen => RecordHolds(req[r].seen)'
  PROVE  RecordsHold'
<1>1. ASSUME NEW s \in Servers PROVE RecordHolds(memory[s])'
  <2>1. CASE memory'[s] = memory[s]
    <3>1. memory[s] \in Records /\ RecordHolds(memory[s])
      BY DEF TypeOK, RecordsHold
    <3>. QED BY <2>1, <3>1, RecordsStay DEF RecordHolds
  <2>. QED BY <2>1
<1>2. RecordHolds(shared)'
  <2>1. CASE shared' = shared
    <3>1. shared \in Records /\ RecordHolds(shared)
      BY DEF TypeOK, RecordsHold
    <3>. QED BY <2>1, <3>1, RecordsStay DEF RecordHolds
  <2>. QED BY <2>1
<1>3. ASSUME NEW r \in Requests PROVE RecordHolds(req[r].seen)'
  <2>1. CASE req'[r].seen = req[r].seen
    <3>1. req[r].seen \in Records /\ RecordHolds(req[r].seen)
      BY DEF TypeOK, RecordsHold
    <3>. QED BY <2>1, <3>1, RecordsStay DEF RecordHolds
  <2>. QED BY <1>3, <2>1
<1>. QED BY <1>1, <1>2, <1>3 DEF RecordsHold

\* What a handler writes is true when it is written.
LEMMA HandlerRecords ==
  ASSUME TypeOK, TypeOK', RecordsHold, Progress, NEW r \in Requests, Works(r)
  PROVE  RecordsHold'
<1>0. Onward
  BY HandlerOnward
<1>. DEFINE Memories == \A s \in Servers : memory'[s] # memory[s] => RecordHolds(memory[s])'
            Shared == shared' # shared => RecordHolds(shared)'
            Replied == \A q \in Requests : req'[q].seen # req[q].seen => RecordHolds(req[q].seen)'
<1>. SUFFICES Memories /\ Shared /\ Replied
  BY <1>0, RecordsKept
<1>1. CASE Told(r)
  <2>1. Shared
    BY <1>1 DEF Told
  <2>2. \A q \in Requests : req'[q].seen # req[q].seen => req'[q].seen = None
    BY <1>1 DEF Told, Replies, Ends, Row
  <2>3. Replied
    BY <2>2 DEF RecordHolds
  <2>4. req[r].seen \in Records /\ RecordHolds(req[r].seen)
    BY DEF TypeOK, RecordsHold
  <2>5. \A s \in Servers : memory'[s] # memory[s] => memory'[s] = req[r].seen
    BY <1>1 DEF Told, Puts
  <2>6. Memories
    BY <1>0, <2>4, <2>5, RecordsStay DEF RecordHolds
  <2>. QED BY <2>1, <2>3, <2>6
<1>2. CASE Asks(r)
  <2>1. Shared /\ Memories
    BY <1>2 DEF Asks, cache
  <2>2. shared \in Records /\ RecordHolds(shared)
    BY DEF TypeOK, RecordsHold
  <2>3. \A q \in Requests : req'[q].seen # req[q].seen => req'[q].seen \in {None, shared}
    BY <1>2 DEF Asks, Row
  <2>4. Replied
    BY <1>0, <2>2, <2>3, RecordsStay DEF RecordHolds
  <2>. QED BY <2>1, <2>4
<1>3. CASE Takes(r)
  <2>1. \A q \in Requests : req'[q].seen # req[q].seen => req'[q].seen = None
    BY <1>3 DEF Takes, Moves, Row
  <2>2. Shared /\ Replied
    BY <1>3, <2>1 DEF Takes, RecordHolds
  <2>3. req'[r].pc \in Claims
    BY <1>3 DEF Takes, Moves, Row, Claims
  <2>4. \A s \in Servers : memory'[s] # memory[s] => memory'[s] = Processing(r)
    BY <1>3 DEF Takes, Puts
  <2>5. Memories
    BY <2>3, <2>4, RecordsApart DEF RecordHolds
  <2>. QED BY <2>2, <2>5
<1>4. CASE Shares(r)
  <2>1. \A q \in Requests : req'[q].seen # req[q].seen => req'[q].seen = None
    BY <1>4 DEF Shares, Goes, Ends, Moves, Row
  <2>2. Memories /\ Replied
    BY <1>4, <2>1 DEF Shares, RecordHolds
  <2>3. CASE shared' = Processing(r) /\ Goes(r, "user")
    <3>1. req'[r].pc \in Claims
      BY <2>3 DEF Goes, Moves, Row, Claims
    <3>2. Shared
      BY <2>3, <3>1, RecordsApart DEF RecordHolds
    <3>. QED BY <2>2, <3>2
  <2>4. CASE req[r].pc = "publish" /\ shared' = Completed(r) /\ Ends(r, "accepted", r)
    <3>1. Placed(r)'
      BY <1>4, <2>4 DEF Shares, Ends, Row, Placed, Progress
    <3>2. Shared
      BY <2>4, <3>1, RecordsApart DEF RecordHolds, Placed, Claims
    <3>. QED BY <2>2, <3>2
  <2>5. CASE shared' = None \/ shared' = shared
    BY <2>2, <2>5 DEF RecordHolds
  <2>. QED BY <1>4, <2>3, <2>4, <2>5 DEF Shares
<1>5. CASE Quits(r)
  <2>1. \A q \in Requests : req'[q].seen # req[q].seen => req'[q].seen = None
    BY <1>5 DEF Quits, Follows, Goes, Ends, Moves, Row
  <2>2. Shared /\ Replied
    BY <1>5, <2>1 DEF Quits, RecordHolds
  <2>3. Memories
    BY <1>5 DEF Quits, Puts, RecordHolds
  <2>. QED BY <2>2, <2>3
<1>6. CASE Proceeds(r)
  <2>1. \A q \in Requests : req'[q].seen # req[q].seen => req'[q].seen = None
    BY <1>6 DEF Proceeds, Goes, Ends, Moves, Row
  <2>. QED BY <1>6, <2>1 DEF Proceeds, cache, RecordHolds
<1>7. CASE Stores(r)
  <2>1. \A q \in Requests : req'[q].seen # req[q].seen => req'[q].seen = None
    BY <1>7 DEF Stores, Follows, Goes, Ends, Moves, Row
  <2>2. Shared /\ Replied
    BY <1>7, <2>1 DEF Stores, RecordHolds
  <2>3. Placed(r)'
    BY <1>7 DEF Stores, Follows, Goes, Ends, Moves, Row, Placed, Progress
  <2>4. \A s \in Servers : memory'[s] # memory[s] => memory'[s] = Completed(r)
    BY <1>7 DEF Stores, Puts
  <2>5. Memories
    BY <2>3, <2>4, RecordsApart DEF RecordHolds, Placed, Claims
  <2>. QED BY <2>2, <2>5
<1>. QED BY <1>1, <1>2, <1>3, <1>4, <1>5, <1>6, <1>7 DEF Works

LEMMA HandlerAnswers ==
  ASSUME TypeOK, RecordsHold, AnswersHold, Progress, NEW r \in Requests, Works(r)
  PROVE  AnswersHold'
<1>0. Onward
  BY HandlerOnward
<1>1. ASSUME NEW q \in Requests, answer'[q] = answer[q], answer'[q].kind = "replayed"
      PROVE  answer'[q].by \in Requests /\ Placed(answer[q].by)'
  <2>1. answer[q].by \in Requests /\ Placed(answer[q].by)
    BY <1>1 DEF AnswersHold
  <2>. QED BY <1>0, <1>1, <2>1 DEF Onward, Placed
<1>2. \A q \in Requests \ {r} : answer'[q] = answer[q]
  BY DEF Works, Told, Replies, Asks, Takes, Shares, Quits, Follows, Proceeds, Stores, Goes, Ends
<1>3. ASSUME answer'[r] # answer[r], answer'[r].kind = "replayed"
      PROVE  answer'[r].by \in Requests /\ Placed(answer[r].by)'
  <2>1. Told(r)
    BY <1>3 DEF Works, Asks, Takes, Shares, Quits, Follows, Proceeds, Stores, Goes, Ends
  <2>2. PICK rec \in Records :
          /\ (\E s \in Servers : rec = memory[s]) \/ rec = req[r].seen
          /\ Replies(r, rec)
    BY <2>1 DEF Told
  <2>3. RecordHolds(rec) /\ rec # None
    BY <2>2 DEF RecordsHold, Replies
  <2>4. rec = Completed(rec.by) /\ Ends(r, "replayed", rec.by) /\ rec.by \in Requests
    BY <1>3, <2>2 DEF Replies, Ends
  <2>5. rec.status = "completed"
    BY <2>4, RecordsApart
  <2>6. Placed(rec.by)
    BY <2>3, <2>5 DEF RecordHolds
  <2>7. answer'[r].by = rec.by
    BY <2>4 DEF Ends
  <2>. QED BY <1>0, <2>4, <2>6, <2>7 DEF Onward, Placed
<1>. QED BY <1>1, <1>2, <1>3 DEF AnswersHold

LEMMA RecordInit == Init => RecordInv
<1>. SUFFICES ASSUME Init PROVE RecordInv
  OBVIOUS
<1>1. Sound
  BY TypeInit
<1>2. RecordsHold
  BY DEF Init, RecordsHold, RecordHolds
<1>3. AnswersHold
  BY DEF Init, AnswersHold
<1>4. Progress
  BY DEF Init, Progress
<1>. QED BY <1>1, <1>2, <1>3, <1>4 DEF RecordInv

LEMMA RecordStep ==
  ASSUME RecordInv, [Next]_vars
  PROVE  RecordInv'
<1>0. /\ Sound /\ TypeOK /\ RecordsHold /\ AnswersHold /\ Progress
      /\ Sound' /\ TypeOK'
  BY SoundStep DEF RecordInv, Sound
<1>1. CASE UNCHANGED vars
  BY <1>0, <1>1 DEF vars, RecordInv, RecordsHold, RecordHolds, AnswersHold, Progress, Placed
<1>2. ASSUME NEW r \in Requests, Works(r) PROVE RecordInv'
  BY <1>0, <1>2, HandlerRecords, HandlerAnswers, HandlerProgress DEF RecordInv
<1>3. ASSUME NEW rec \in Records, Forgets(rec) PROVE RecordInv'
  <2>1. Onward
    BY <1>3 DEF Forgets, Onward, Placed
  <2>2. RecordsHold'
    BY <1>0, <1>3, <2>1, RecordsKept DEF Forgets, RecordHolds
  <2>3. AnswersHold' /\ Progress'
    BY <1>0, <1>3 DEF Forgets, AnswersHold, Placed, Progress
  <2>. QED BY <1>0, <2>2, <2>3 DEF RecordInv
<1>4. ASSUME NEW s \in Servers, Dies(s) PROVE RecordInv'
  <2>1. Onward
    BY <1>4 DEF Dies, Onward, Placed, Claims, InProgress
  <2>2. RecordsHold'
    BY <1>0, <1>4, <2>1, RecordsKept DEF Dies, Puts, RecordHolds
  <2>3. AnswersHold'
    BY <1>0, <1>4, <2>1 DEF Dies, AnswersHold, Onward, Placed
  <2>4. Progress'
    BY <1>0, <1>4 DEF Dies, Progress, InProgress
  <2>. QED BY <1>0, <2>2, <2>3, <2>4 DEF RecordInv
<1>5. CASE Parts
  BY <1>0, <1>5 DEF Parts, RecordInv, RecordsHold, RecordHolds, AnswersHold, Progress, Placed
<1>. QED BY <1>0, <1>1, <1>2, <1>3, <1>4, <1>5, NextDoes

\* A stored response is replayed only for an order that went to the queue and
\* whose own client was not told of an error (orders.ts:169-186, 640-664),
\* however often clients send and whatever fails.
THEOREM StoredAnswersAreTrue == Spec => []ReplayedWasPlaced
<1>1. Init => RecordInv
  BY RecordInit
<1>2. RecordInv /\ [Next]_vars => RecordInv'
  BY RecordStep
<1>3. RecordInv => ReplayedWasPlaced
  BY DEF RecordInv, AnswersHold, Placed, ReplayedWasPlaced
<1>. QED BY <1>1, <1>2, <1>3, PTL DEF Spec

-----------------------------------------------------------------------------
(***************************************************************************)
(* One order per key, and an owner for every claim.                        *)
(***************************************************************************)
\* A handler at work has its answer before it and has lost no record.
LEMMA AtWork ==
  ASSUME RecordInv, EndedFirst, NEW r \in Requests, req[r].pc # "done"
  PROVE  /\ answer[r].kind = "none" /\ r \notin forgotten /\ ~Broken(r)
         /\ req[r].pc \in Claims => Keeps(r)
         /\ req[r].pc \notin Claims =>
              /\ shared # Processing(r)
              /\ \A s \in Servers : memory[s] # Processing(r)
BY RecordsApart DEF RecordInv, Progress, EndedFirst, Broken, Keeps, RecordsHold, RecordHolds

\* What a handler leaves of the other requests.
LEMMA OthersStay ==
  ASSUME NEW r \in Requests, Works(r)
  PROVE  /\ req[r].pc # "done" /\ mode' = mode /\ forgotten' = forgotten
         /\ \A q \in Requests \ {r} :
              req'[q] = req[q] /\ answer'[q] = answer[q] /\ order'[q] = order[q]
<1>1. CASE Told(r)
  BY <1>1 DEF Told, Replies, Ends, Row
<1>2. CASE Asks(r)
  BY <1>2 DEF Asks, Row
<1>3. CASE Takes(r)
  BY <1>3 DEF Takes, Moves, Row
<1>4. CASE Shares(r)
  BY <1>4 DEF Shares, Goes, Ends, Moves, Row
<1>5. CASE Quits(r)
  BY <1>5 DEF Quits, Follows, Orders, Goes, Ends, Moves, Row
<1>6. CASE Proceeds(r)
  BY <1>6 DEF Proceeds, Orders, Goes, Ends, Moves, Row
<1>7. CASE Stores(r)
  BY <1>7 DEF Stores, Follows, Goes, Ends, Moves, Row
<1>. QED BY <1>1, <1>2, <1>3, <1>4, <1>5, <1>6, <1>7 DEF Works

LEMMA EndedFirstStep ==
  ASSUME RecordInv, EndedFirst, InOneProcess, Next
  PROVE  EndedFirst'
<1>0. Sound /\ TypeOK
  BY DEF RecordInv, Sound
<1>1. ASSUME NEW r \in Requests, Works(r) PROVE EndedFirst'
  BY <1>0, <1>1, OthersStay DEF EndedFirst, TypeOK
<1>2. ASSUME NEW rec \in Records, Forgets(rec) PROVE EndedFirst'
  <2>1. req[rec.by].pc = "done"
    BY <1>2 DEF Forgets, RecordInv, RecordsHold, RecordHolds, Claims, InProgress
  <2>. QED BY <1>2, <2>1 DEF Forgets, EndedFirst
<1>3. ASSUME NEW s \in Servers, Dies(s) PROVE EndedFirst'
  <2>1. \A r \in Requests : req[r].pc = "done" => req'[r].pc = "done"
    BY <1>3 DEF Dies, InProgress
  <2>2. CASE mode = "memory" /\ memory[s] # None
    <3>. DEFINE x == memory[s].by
    <3>1. x \in Requests /\ RecordHolds(memory[s])
      BY <1>0, <2>2, RecordFacts DEF TypeOK, RecordInv, RecordsHold
    <3>2. req[x].pc \in Claims \cup {"done"}
      BY <2>2, <3>1 DEF RecordHolds
    <3>3. req[x].at = s
      BY <2>2, <3>1 DEF InOneProcess
    <3>4. req'[x].pc = "done"
      BY <1>3, <3>1, <3>2, <3>3 DEF Dies, InProgress, Claims
    <3>. QED BY <1>0, <1>3, <2>1, <2>2, <3>4 DEF Dies, LostWith, EndedFirst, TypeOK
  <2>3. CASE ~(mode = "memory" /\ memory[s] # None)
    BY <1>0, <1>3, <2>1, <2>3 DEF Dies, LostWith, EndedFirst, TypeOK
  <2>. QED BY <2>2, <2>3
<1>4. CASE Parts
  BY <1>4 DEF Parts, EndedFirst
<1>. QED BY <1>0, <1>1, <1>2, <1>3, <1>4, NextDoes

\* Where a step leaves the one process: the request that keeps the key is the
\* one on record.
LEMMA InOneProcessHandler ==
  ASSUME RecordInv, EndedFirst, InOneProcess, mode = "memory", NEW r \in Requests, Works(r)
  PROVE  InOneProcess'
<1>. DEFINE OnRecord(q) == memory[Home] # None /\ memory[Home].by = q
<1>0. TypeOK /\ Progress /\ mode # "redis" /\ Home \in Servers
  BY RequestsAssumption DEF RecordInv, Sound
<1>1. /\ shared = None
      /\ \A q \in Requests : req[q].at = Home /\ req[q].pc \notin Remote
      /\ \A s \in Servers : memory[s] # None => s = Home
      /\ \A q \in Requests : Keeps(q) => OnRecord(q)
  BY DEF InOneProcess, RecordInv, Sound, Unlinked
<1>2. /\ req[r].pc # "done"
      /\ Told(r) \/ Takes(r) \/ Quits(r) \/ Proceeds(r) \/ Stores(r)
  BY <1>0, <1>1, OthersStay DEF Works, Asks, Shares, Remote
<1>3. /\ \A q \in Requests \ {r} : req'[q] = req[q] /\ (Keeps(q)' <=> Keeps(q))
      /\ mode' = mode /\ forgotten' = forgotten
  BY OthersStay DEF Keeps
<1>4. answer[r].kind = "none" /\ r \notin forgotten /\ (req[r].pc \in Claims => Keeps(r))
  BY <1>2, AtWork
<1>5. shared' = shared
  BY <1>1, <1>2 DEF Told, Takes, Quits, Proceeds, Stores, cache
<1>6. req'[r].at = Home
  BY <1>0, <1>1, <1>2 DEF Told, Replies, Takes, Quits, Proceeds, Stores, Follows, Goes, Ends,
                          Moves, Row
<1>7. \A s \in Servers : memory'[s] # memory[s] => s = Home
  BY <1>0, <1>1, <1>2 DEF Told, Takes, Quits, Proceeds, Stores, Puts, cache, Remote
<1>8. \A s \in Servers : memory'[s] # None => s = Home
  BY <1>1, <1>7
<1>9. \A q \in Requests : Keeps(q)' => OnRecord(q)'
  <2>1. CASE Told(r)
    <3>1. ~Keeps(r)' /\ memory' = memory
      BY <1>0, <1>1, <2>1 DEF Told, Replies, Ends, Row, Keeps, Progress, Claims, Remote
    <3>. QED BY <1>1, <1>3, <3>1
  <2>2. CASE Takes(r)
    <3>1. memory[Home] = None /\ Puts(Home, Processing(r))
      BY <1>0, <1>1, <2>2 DEF Takes, Remote
    <3>2. \A q \in Requests : ~Keeps(q)
      BY <1>1, <3>1
    <3>3. OnRecord(r)'
      BY <3>1, RecordsApart DEF Puts
    <3>. QED BY <1>3, <3>2, <3>3
  <2>3. CASE Quits(r)
    <3>1. Keeps(r)
      BY <1>4, <2>3 DEF Quits, Claims
    <3>2. \A q \in Requests \ {r} : ~Keeps(q)
      BY <1>1, <3>1
    <3>3. ~Keeps(r)'
      BY <1>0, <2>3 DEF Quits, Follows, Ends, Keeps
    <3>. QED BY <1>3, <3>2, <3>3
  <2>4. CASE Proceeds(r)
    <3>1. Keeps(r) /\ memory' = memory
      BY <1>4, <2>4 DEF Proceeds, Claims, cache
    <3>. QED BY <1>1, <1>3, <3>1
  <2>5. CASE Stores(r)
    <3>1. Keeps(r)
      BY <1>4, <2>5 DEF Stores, Claims
    <3>2. \A q \in Requests \ {r} : ~Keeps(q)
      BY <1>1, <3>1
    <3>3. OnRecord(r)'
      BY <1>1, <2>5, RecordsApart DEF Stores, Puts
    <3>. QED BY <1>3, <3>2, <3>3
  <2>. QED BY <1>2, <2>1, <2>2, <2>3, <2>4, <2>5
<1>10. \A q \in Requests : req'[q].at = Home
  BY <1>1, <1>3, <1>6
<1>. QED BY <1>1, <1>5, <1>8, <1>9, <1>10 DEF InOneProcess

LEMMA InOneProcessStep ==
  ASSUME RecordInv, EndedFirst, InOneProcess, Next
  PROVE  InOneProcess'
<1>0. Sound /\ TypeOK /\ mode' = mode /\ Home \in Servers
  BY NextBooks, RequestsAssumption DEF RecordInv, Sound, Bookkeeping
<1>. SUFFICES ASSUME mode = "memory" PROVE InOneProcess'
  BY <1>0 DEF InOneProcess
<1>1. /\ shared = None
      /\ \A q \in Requests : req[q].at = Home
      /\ \A s \in Servers : memory[s] # None => s = Home
      /\ \A q \in Requests : Keeps(q) => memory[Home] # None /\ memory[Home].by = q
  BY DEF InOneProcess
<1>2. ASSUME NEW rec \in Records, Forgets(rec) PROVE InOneProcess'
  <2>1. \A q \in Requests : Keeps(q)' => Keeps(q) /\ q # rec.by
    BY <1>2 DEF Forgets, Keeps
  <2>2. \A q \in Requests : Keeps(q)' => memory'[Home] # None /\ memory'[Home].by = q
    BY <1>0, <1>1, <1>2, <2>1 DEF Forgets
  <2>. QED BY <1>1, <1>2, <2>2 DEF Forgets, InOneProcess
<1>3. ASSUME NEW s \in Servers, Dies(s) PROVE InOneProcess'
  <2>1. \A q \in Requests : req'[q].at = Home
    BY <1>1, <1>3 DEF Dies
  <2>2. ASSUME NEW q \in Requests, Keeps(q)' PROVE Keeps(q) /\ Home # s
    <3>1. Keeps(q)
      BY <1>3, <2>2 DEF Dies, LostWith, Keeps, Claims, InProgress
    <3>2. memory[s] # None /\ memory[s].by = q => q \in forgotten'
      BY <1>3 DEF Dies, LostWith
    <3>. QED BY <1>1, <2>2, <3>1, <3>2 DEF Keeps
  <2>3. \A u \in Servers : memory'[u] = IF u = s THEN None ELSE memory[u]
    BY <1>3 DEF Dies, Puts
  <2>4. \A q \in Requests : Keeps(q)' => memory'[Home] # None /\ memory'[Home].by = q
    BY <1>0, <1>1, <2>2, <2>3
  <2>5. \A u \in Servers : memory'[u] # None => u = Home
    BY <1>1, <2>3
  <2>. QED BY <1>1, <1>3, <2>1, <2>4, <2>5 DEF Dies, InOneProcess
<1>4. CASE Parts
  BY <1>4 DEF Parts, InOneProcess, Keeps
<1>. QED BY <1>0, <1>2, <1>3, <1>4, NextDoes, InOneProcessHandler

\* A handler that has claimed the key is alone with it.
LEMMA Alone ==
  ASSUME RecordInv, EndedFirst, InTurn, mode = "redis", doubtful = FALSE,
         NEW r \in Requests, req[r].pc \in Claims
  PROVE  /\ \A q \in Requests \ {r} : ~Keeps(q) /\ ~Claiming(q)
         /\ req[r].pc = "put" \/ (shared # None /\ shared.by = r)
<1>1. Keeps(r)
  BY AtWork DEF Claims
<1>2. ASSUME NEW q \in Requests \ {r}, Keeps(q) PROVE FALSE
  <2>1. CASE req[q].pc = "put"
    BY <1>1, <1>2, <2>1 DEF InTurn, Claiming
  <2>2. CASE req[r].pc = "put"
    BY <1>2, <2>2 DEF InTurn, Claiming
  <2>3. CASE req[q].pc # "put" /\ req[r].pc # "put"
    BY <1>1, <1>2, <2>3 DEF InTurn
  <2>. QED BY <2>1, <2>2, <2>3
<1>. QED BY <1>1, <1>2 DEF InTurn

LEMMA InTurnHandler ==
  ASSUME RecordInv, EndedFirst, InTurn, mode = "redis", doubtful = FALSE, doubtful' = FALSE,
         NEW r \in Requests, Works(r)
  PROVE  InTurn'
<1>0. TypeOK /\ Progress
  BY DEF RecordInv, Sound
<1>1. /\ \A p, q \in Requests : Claiming(p) /\ Claiming(q) => p = q
      /\ \A p, q \in Requests : Claiming(p) /\ Keeps(q) => p = q
      /\ \A q \in Requests : Keeps(q) => req[q].pc = "put" \/ (shared # None /\ shared.by = q)
  BY DEF InTurn
<1>2. /\ req[r].pc # "done"
      /\ \A q \in Requests \ {r} : /\ req'[q] = req[q]
                                   /\ Keeps(q)' <=> Keeps(q)
                                   /\ Claiming(q)' <=> Claiming(q)
  BY OthersStay DEF Keeps, Claiming
<1>3. CASE Told(r)
  <2>1. ~Keeps(r)' /\ ~Claiming(r)' /\ shared' = shared
    BY <1>0, <1>3 DEF Told, Replies, Ends, Row, Keeps, Claiming, Progress, Claims
  <2>. QED BY <1>1, <1>2, <2>1 DEF InTurn
<1>4. CASE Asks(r)
  <2>1. ~Keeps(r)' /\ shared' = shared
    BY <1>4 DEF Asks, Row, Keeps, Claims, cache
  <2>2. Claiming(r)' => shared = None /\ \A q \in Requests : ~Claiming(q)
    BY <1>4 DEF Asks, Row, Claiming
  <2>3. Claiming(r)' => \A q \in Requests \ {r} : ~Keeps(q)
    BY <1>1, <2>2 DEF Claiming
  <2>. QED BY <1>1, <1>2, <2>1, <2>2, <2>3 DEF InTurn
<1>5. CASE Takes(r)
  <2>1. Claiming(r) /\ req'[r].pc = "put" /\ shared' = shared
    BY <1>5 DEF Takes, Moves, Row, Claiming
  <2>. QED BY <1>1, <1>2, <2>1 DEF InTurn
<1>6. CASE Shares(r) \/ Quits(r) \/ Proceeds(r) \/ Stores(r)
  <2>1. req[r].pc \in Claims
    BY <1>6 DEF Shares, Quits, Proceeds, Stores, Claims
  <2>2. /\ \A q \in Requests \ {r} : ~Keeps(q) /\ ~Claiming(q)
        /\ req[r].pc = "put" \/ (shared # None /\ shared.by = r)
    BY <2>1, Alone
  <2>3. \/ shared' = shared /\ shared # None /\ shared.by = r
        \/ shared' \in {Processing(r), Completed(r)}
        \/ shared' = None /\ ~Keeps(r)'
    BY <1>6, <2>2 DEF Shares, Quits, Proceeds, Stores, Ends, Keeps, cache
  <2>4. Keeps(r)' => shared' # None /\ shared'.by = r
    BY <2>3, RecordsApart
  <2>. QED BY <1>2, <2>2, <2>4 DEF InTurn
<1>. QED BY <1>3, <1>4, <1>5, <1>6 DEF Works

LEMMA InTurnStep ==
  ASSUME RecordInv, EndedFirst, InTurn, Next
  PROVE  InTurn'
<1>0. Sound /\ TypeOK /\ mode' = mode /\ (doubtful' = FALSE => doubtful = FALSE)
  BY NextBooks DEF RecordInv, Sound, Bookkeeping
<1>. SUFFICES ASSUME mode = "redis", doubtful' = FALSE, doubtful = FALSE PROVE InTurn'
  BY <1>0 DEF InTurn
<1>1. /\ \A p, q \in Requests : Claiming(p) /\ Claiming(q) => p = q
      /\ \A p, q \in Requests : Claiming(p) /\ Keeps(q) => p = q
      /\ \A q \in Requests : Keeps(q) => req[q].pc = "put" \/ (shared # None /\ shared.by = q)
  BY DEF InTurn
<1>2. ASSUME NEW rec \in Records, Forgets(rec) PROVE InTurn'
  <2>1. \A q \in Requests : Keeps(q)' => Keeps(q) /\ q # rec.by
    BY <1>2 DEF Forgets, Keeps
  <2>2. \A q \in Requests : Claiming(q)' <=> Claiming(q)
    BY <1>2 DEF Forgets, Claiming
  <2>3. \A q \in Requests : Keeps(q)' => req'[q].pc = "put" \/ (shared' # None /\ shared'.by = q)
    BY <1>1, <1>2, <2>1 DEF Forgets
  <2>. QED BY <1>1, <2>1, <2>2, <2>3 DEF InTurn
<1>3. ASSUME NEW s \in Servers, Dies(s) PROVE InTurn'
  <2>1. \A q \in Requests : Keeps(q)' => Keeps(q) /\ req'[q] = req[q]
    BY <1>0, <1>3 DEF Dies, LostWith, Keeps
  <2>2. \A q \in Requests : Claiming(q)' => Claiming(q)
    BY <1>3 DEF Dies, Claiming
  <2>3. shared' = shared
    BY <1>3 DEF Dies
  <2>. QED BY <1>1, <2>1, <2>2, <2>3 DEF InTurn
<1>4. CASE Parts
  <2>1. \A q \in Requests : (Keeps(q)' <=> Keeps(q)) /\ (Claiming(q)' <=> Claiming(q))
    BY <1>4 DEF Parts, Keeps, Claiming
  <2>. QED BY <1>1, <1>4, <2>1 DEF InTurn, Parts
<1>. QED BY <1>0, <1>2, <1>3, <1>4, NextDoes, InTurnHandler

\* Who answers for a claim of r.
Owned(r) == InProgress(r) \/ answer[r].kind \in {"broken", "lost"} \/ r \in unheard

Stands(r) ==
  shared = Processing(r) \/ (mode = "memory" /\ \E s \in Servers : memory[s] = Processing(r))

LEMMA OwnerHandler ==
  ASSUME RecordInv, EndedFirst, InOneProcess, ClaimHasOwner, Bookkeeping,
         NEW r \in Requests, Works(r), NEW x \in Requests
  PROVE  Stands(x)' => Owned(x)'
<1>0. /\ mode' = mode /\ unheard \subseteq unheard' /\ Home \in Servers
      /\ Stands(x) => Owned(x)
      /\ req[r].pc # "done"
  BY OthersStay, RequestsAssumption DEF Bookkeeping, ClaimHasOwner, Stands, Owned
<1>1. /\ ~Broken(r)
      /\ req[r].pc \notin Claims => ~Stands(r)
  BY <1>0, AtWork DEF Stands
<1>2. x # r /\ Owned(x) => Owned(x)'
  BY <1>0, OthersStay DEF Owned, InProgress
<1>3. mode = "memory" => /\ shared = None /\ req[r].at = Home /\ req[r].pc \notin Remote
                         /\ \A s \in Servers : memory[s] # None => s = Home
  BY DEF InOneProcess, RecordInv, Sound, Unlinked
<1>4. CASE Told(r)
  <2>1. shared' = shared /\ (mode = "memory" => memory' = memory) /\ req[r].pc \notin Claims
    BY <1>3, <1>4 DEF Told, Claims, Remote
  <2>2. Stands(x)' => Stands(x)
    BY <1>0, <2>1 DEF Stands
  <2>. QED BY <1>0, <1>1, <1>2, <2>1, <2>2
<1>5. CASE Asks(r) \/ Proceeds(r)
  <2>1. shared' = shared /\ memory' = memory
    BY <1>5 DEF Asks, Proceeds, cache
  <2>2. Stands(x)' => Stands(x)
    BY <1>0, <2>1 DEF Stands
  <2>3. Owned(r)'
    BY <1>5 DEF Asks, Proceeds, Goes, Ends, Moves, Row, Owned, InProgress
  <2>. QED BY <1>0, <1>2, <2>2, <2>3
<1>6. CASE Takes(r)
  <2>1. /\ shared' = shared
        /\ \A s \in Servers : memory'[s] \in {memory[s], Processing(r)}
    BY <1>6 DEF Takes, Puts
  <2>2. x # r => (Stands(x)' => Stands(x))
    BY <1>0, <2>1, RecordsApart DEF Stands
  <2>3. Owned(r)'
    BY <1>6 DEF Takes, Moves, Row, Owned, InProgress
  <2>. QED BY <1>0, <1>2, <2>2, <2>3
<1>7. CASE Shares(r)
  <2>1. memory' = memory /\ shared' \in {shared, Processing(r), Completed(r), None}
    BY <1>7 DEF Shares
  <2>2. x # r => (Stands(x)' => Stands(x))
    BY <1>0, <2>1, RecordsApart DEF Stands
  <2>3. mode # "memory"
    BY <1>3, <1>7 DEF Shares, Remote
  <2>4. shared' \in {Completed(r), None} \/ Owned(r)'
    BY <1>7 DEF Shares, Goes, Moves, Row, Owned, InProgress
  <2>5. Stands(r)' => Owned(r)'
    BY <1>0, <2>3, <2>4, RecordsApart DEF Stands
  <2>. QED BY <1>0, <1>2, <2>2, <2>5
<1>8. CASE Quits(r) \/ Stores(r)
  <2>1. /\ shared' = shared
        /\ \A s \in Servers \ {req[r].at} : memory'[s] = memory[s]
        /\ memory'[req[r].at] \in {None, Completed(r)}
    BY <1>8 DEF Quits, Stores, Puts
  <2>2. x # r => (Stands(x)' => Stands(x))
    BY <1>0, <2>1, RecordsApart DEF Stands
  <2>3. Owned(r)' \/ mode = "memory"
    BY <1>8, RequestsAssumption
       DEF Quits, Stores, Follows, Goes, Moves, Row, Owned, InProgress, RecordInv, Sound, TypeOK
  <2>4. mode = "memory" => ~Stands(r)'
    BY <1>0, <1>3, <2>1, RecordsApart DEF Stands
  <2>. QED BY <1>0, <1>2, <2>2, <2>3, <2>4
<1>. QED BY <1>4, <1>5, <1>6, <1>7, <1>8 DEF Works

LEMMA OwnerStep ==
  ASSUME RecordInv, EndedFirst, InOneProcess, ClaimHasOwner, Next
  PROVE  ClaimHasOwner'
<1>0. Sound /\ Bookkeeping
  BY NextBooks DEF RecordInv
<1>. SUFFICES ASSUME NEW x \in Requests PROVE Stands(x)' => Owned(x)'
  BY DEF ClaimHasOwner, Stands, Owned, InProgress
<1>1. mode' = mode /\ unheard \subseteq unheard' /\ (Stands(x) => Owned(x))
  BY <1>0 DEF Bookkeeping, ClaimHasOwner, Stands, Owned
<1>2. ASSUME NEW rec \in Records, Forgets(rec) PROVE Stands(x)' => Owned(x)'
  <2>1. /\ \A s \in Servers : memory'[s] \in {None, memory[s]}
        /\ shared' \in {None, shared} /\ req' = req /\ answer' = answer
    BY <1>2 DEF Forgets
  <2>. QED BY <1>1, <2>1, RecordsApart DEF Stands, Owned, InProgress
<1>3. ASSUME NEW u \in Servers, Dies(u) PROVE Stands(x)' => Owned(x)'
  <2>1. /\ \A s \in Servers : memory'[s] \in {None, memory[s]}
        /\ shared' = shared
    BY <1>3 DEF Dies, Puts
  <2>2. Owned(x) => Owned(x)'
    BY <1>1, <1>3 DEF Dies, Owned, InProgress
  <2>. QED BY <1>1, <2>1, <2>2, RecordsApart DEF Stands
<1>4. CASE Parts
  BY <1>1, <1>4 DEF Parts, Stands, Owned, InProgress
<1>. QED BY <1>0, <1>2, <1>3, <1>4, NextDoes, OwnerHandler

LEMMA KeyInit == Init => KeyInv
<1>. SUFFICES ASSUME Init PROVE KeyInv
  OBVIOUS
<1>1. RecordInv
  BY RecordInit
<1>2. /\ shared = None /\ forgotten = {}
      /\ \A s \in Servers : memory[s] = None
      /\ \A r \in Requests : req[r].pc = "new" /\ req[r].at = Home
  BY DEF Init
<1>3. InOneProcess /\ InTurn
  BY <1>2 DEF InOneProcess, InTurn, Claiming, Keeps, Claims
<1>4. EndedFirst /\ ClaimHasOwner
  BY <1>2, RecordsApart DEF EndedFirst, ClaimHasOwner
<1>. QED BY <1>1, <1>3, <1>4 DEF KeyInv

LEMMA KeyStep ==
  ASSUME KeyInv, [Next]_vars
  PROVE  KeyInv'
<1>0. RecordInv'
  BY RecordStep DEF KeyInv
<1>1. CASE Next
  BY <1>0, <1>1, EndedFirstStep, InOneProcessStep, InTurnStep, OwnerStep DEF KeyInv
<1>2. CASE UNCHANGED vars
  <2>1. EndedFirst' /\ ClaimHasOwner'
    BY <1>2 DEF vars, KeyInv, EndedFirst, ClaimHasOwner, InProgress
  <2>2. InOneProcess' /\ InTurn'
    BY <1>2 DEF vars, KeyInv, InOneProcess, InTurn, Claiming, Keeps
  <2>. QED BY <1>0, <2>1, <2>2 DEF KeyInv
<1>. QED BY <1>1, <1>2

\* Two orders under one key are queued only when the client of one was not told
\* that it was placed, or its record was forgotten, or lookups and claims
\* overlapped or were lost on their way to Redis (orders.ts:169-184 and the
\* exits that clear the key; cache.ts:139-179).
THEOREM KeyHasOneOrder == Spec => []OneOrderPerKey
<1>1. Init => KeyInv
  BY KeyInit
<1>2. KeyInv /\ [Next]_vars => KeyInv'
  BY KeyStep
<1>3. KeyInv => OneOrderPerKey
  <2>. SUFFICES ASSUME KeyInv, ~doubtful, NEW q \in Requests, NEW r \in Requests, q # r,
                       order[q] = "queued", order[r] = "queued",
                       \A x \in {q, r} : x \notin forgotten /\ answer[x].kind \notin {"error", "lost"}
                PROVE  FALSE
    BY DEF OneOrderPerKey
  <2>1. Progress /\ TypeOK /\ InOneProcess /\ InTurn /\ doubtful = FALSE
    BY DEF KeyInv, RecordInv, Sound
  <2>2. ASSUME NEW x \in {q, r} PROVE req[x].pc \in (Claims \ {"put"}) \cup {"done"}
    <3>1. x \in Requests /\ order[x] = "queued"
      OBVIOUS
    <3>2. req[x].pc \in Pcs /\ req[x].pc \notin {"new", "get", "got", "put", "user"}
      BY <2>1, <3>1 DEF Progress, TypeOK
    <3>. QED BY <3>2 DEF Pcs, Claims
  <2>3. Keeps(q) /\ Keeps(r)
    BY <2>2 DEF Keeps
  <2>4. CASE mode = "memory"
    BY <2>1, <2>3, <2>4 DEF InOneProcess
  <2>5. CASE mode = "redis"
    BY <2>1, <2>2, <2>3, <2>5 DEF InTurn
  <2>. QED BY <2>1, <2>4, <2>5, RequestsAssumption DEF TypeOK
<1>. QED BY <1>1, <1>2, <1>3, PTL DEF Spec

\* A claim that others are refused for has an owner: a request under way, one
\* that broke or was lost, or one whose last word did not reach Redis
\* (orders.ts:169-186, cache.ts:162-194), whatever overwrites and clears it.
THEOREM ClaimsHaveOwners == Spec => []ClaimHasOwner
<1>1. Init => KeyInv
  BY KeyInit
<1>2. KeyInv /\ [Next]_vars => KeyInv'
  BY KeyStep
<1>3. KeyInv => ClaimHasOwner
  BY DEF KeyInv
<1>. QED BY <1>1, <1>2, <1>3, PTL DEF Spec

=============================================================================
