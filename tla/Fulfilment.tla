------------------------------ MODULE Fulfilment ------------------------------
(***************************************************************************)
(* From a paid order to the warehouse: the picking queue                   *)
(* (backend/server/services/pickingQueueService.ts), the boxes it packs an *)
(* order into (packingService.ts) and the event store it reports to        *)
(* (eventSourcing.ts).                                                     *)
(*                                                                         *)
(* With Redis the queue is Bull's: one job for each order, up to three     *)
(* attempts, and a job whose worker is silent is given to another one.     *)
(* Without Redis the request that adds the job runs the processor itself,  *)
(* each time, once (core/queues.ts:93-112).                                *)
(*                                                                         *)
(* The event store reads the version of an order and inserts the next one  *)
(* in two round trips, under no unique key.                                *)
(***************************************************************************)
EXTENDS Integers, Sequences, FiniteSets, FiniteSetsExt, SequencesExt

CONSTANTS
  PickOrders,     \* orders that are paid
  OrderItems,     \* OrderItems[o]: the items, with the volume (dm3) and the
                  \* weight (100 g) of a unit
  Pickers,        \* workers, or requests without Redis, at the same time
  PickAttempts,   \* `attempts: 3` of createPickingJob
  MaxPickStalls,  \* Bull's maxStalledCount
  MaxPickCalls,   \* bound: calls of createPickingJob for one order
  MaxPickErrors,  \* bound: round trips that fail
  NoOrder         \* an idle picker's order

ASSUME FulfilmentAssumption ==
  /\ PickAttempts \in Nat \ {0}
  /\ {MaxPickStalls, MaxPickCalls, MaxPickErrors} \subseteq Nat
  /\ NoOrder \notin PickOrders
  /\ \A o \in PickOrders : /\ Len(OrderItems[o]) \in Nat \ {0}
                             /\ DOMAIN OrderItems[o] = 1..Len(OrderItems[o])

-----------------------------------------------------------------------------
(***************************************************************************)
(* Packing: first fit over the items in their order.  An item is never     *)
(* split, and what no box type holds goes into the largest.                *)
(***************************************************************************)
BoxTypes == << [volume |-> 3, weight |-> 3], [volume |-> 9, weight |-> 5],
               [volume |-> 24, weight |-> 8], [volume |-> 60, weight |-> 12] >>

ItemVolume(item) == item.volume * item.quantity
VolumeOf(group) == MapThenSumSet(LAMBDA n : ItemVolume(group[n]), DOMAIN group)
WeightOf(group) ==
  MapThenSumSet(LAMBDA n : group[n].weight * group[n].quantity, DOMAIN group)

\* The smallest type with a fifth to spare whose own weight exceeds the items'.
BestBox(group) ==
  LET fit == {b \in DOMAIN BoxTypes : /\ 10 * BoxTypes[b].volume >= 12 * VolumeOf(group)
                                      /\ BoxTypes[b].weight > WeightOf(group)}
  IN  IF fit = {} THEN Len(BoxTypes) ELSE Min(fit)

FitsInto(group, item) ==
  10 * (VolumeOf(group) + ItemVolume(item))
    <= 9 * BoxTypes[BestBox(Append(group, item))].volume

\* An item for which there is no room is left over.
PlaceIfRoom(groups, item) ==
  LET fit == {g \in DOMAIN groups : FitsInto(groups[g], item)}
  IN  IF fit # {} THEN [groups EXCEPT ![Min(fit)] = Append(@, item)]
      ELSE IF groups = <<>> THEN << <<item>> >> ELSE groups
Place(groups, item) ==
  LET fit == {g \in DOMAIN groups : FitsInto(groups[g], item)}
  IN  IF fit = {} THEN Append(groups, <<item>>)
                  ELSE [groups EXCEPT ![Min(fit)] = Append(@, item)]

\* The groups when the first n items of the order are placed.
Packed(o) ==
  LET packed[n \in 0..Len(OrderItems[o])] ==
        IF n = 0 THEN <<>> ELSE Place(packed[n - 1], OrderItems[o][n])
  IN  packed

\* The groups that calculatePacking puts into a box each.
BoxesOf == [o \in PickOrders |-> Packed(o)[Len(OrderItems[o])]]

-----------------------------------------------------------------------------
VARIABLES
  withRedis,  \* shouldUseRedisQueue, decided when the server starts
  pickJob,    \* Bull's record of each order's job
  pickCalls,  \* pickCalls[o]: calls of createPickingJob
  pickRuns,   \* pickRuns[o]: runs of the processor
  picker,     \* picker[w]: where a run is, the box it is at, the version it read
  pickings,   \* pickings[o][b]: the pickings of box b
  log,        \* log[o]: the events of o, in the order of their insertion
  pickErrors, \* round trips that failed
  together    \* the orders that had two runs at once

pickVars == <<withRedis, pickJob, pickCalls, pickRuns, picker, pickings, log,
              pickErrors, together>>

RestingPicker == [pc |-> "idle", order |-> NoOrder, run |-> 0, box |-> 1, version |-> 0]

FulfilmentInit ==
  /\ withRedis \in BOOLEAN
  /\ pickJob = [o \in PickOrders |-> [state |-> "none", attempts |-> 0, stalls |-> 0]]
  /\ pickCalls = [o \in PickOrders |-> 0]
  /\ pickRuns = [o \in PickOrders |-> 0]
  /\ picker = [w \in Pickers |-> RestingPicker]
  /\ pickings = [o \in PickOrders |-> [b \in DOMAIN BoxesOf[o] |-> 0]]
  /\ log = [o \in PickOrders |-> <<>>]
  /\ pickErrors = 0
  /\ together = {}

-----------------------------------------------------------------------------
\* Order.findById, Product.find and the packing: the processor starts.
BeginRun(w, o) ==
  /\ picker[w].pc = "idle"
  /\ pickRuns' = [pickRuns EXCEPT ![o] = @ + 1]
  /\ picker' = [picker EXCEPT ![w] = [RestingPicker EXCEPT
                  !.pc = "boxes", !.order = o, !.run = pickRuns[o] + 1]]
  /\ together' = IF \E v \in Pickers : picker[v].order = o THEN together \cup {o}
                                                          ELSE together

Calls(o) ==
  /\ pickCalls[o] < MaxPickCalls
  /\ pickCalls' = [pickCalls EXCEPT ![o] = @ + 1]

\* createPickingJob: Bull ignores a job whose id it knows.
AddPickingJob(o) ==
  /\ withRedis
  /\ Calls(o)
  /\ pickJob' = IF pickJob[o].state = "none"
                THEN [pickJob EXCEPT ![o].state = "waiting"] ELSE pickJob
  /\ UNCHANGED <<withRedis, pickRuns, picker, pickings, log, pickErrors, together>>

RunPickingJob(w, o) ==
  /\ ~withRedis
  /\ Calls(o)
  /\ BeginRun(w, o)
  /\ UNCHANGED <<withRedis, pickJob, pickings, log, pickErrors>>

TakePickingJob(w, o) ==
  /\ pickJob[o].state = "waiting"
  /\ pickJob' = [pickJob EXCEPT ![o].state = "active"]
  /\ BeginRun(w, o)
  /\ UNCHANGED <<withRedis, pickCalls, pickings, log, pickErrors>>

\* picking.save of one box.
SaveBox(w) ==
  LET o == picker[w].order
      b == picker[w].box
  IN
  /\ picker[w].pc = "boxes"
  /\ pickings' = [pickings EXCEPT ![o][b] = @ + 1]
  /\ picker' = [picker EXCEPT ![w].box = b + 1,
                              ![w].pc = IF b = Len(BoxesOf[o]) THEN "version" ELSE "boxes"]
  /\ UNCHANGED <<withRedis, pickJob, pickCalls, pickRuns, log, pickErrors, together>>

-----------------------------------------------------------------------------
\* getAggregateVersion: the greatest version, 0 when there is none.
VersionOf(o) == Max({0} \cup {e.version : e \in Range(log[o])})
\* The version itself, not the one after it.
SameVersion(version) == version
NextVersion(version) == version + 1

ReadVersion(w) ==
  /\ picker[w].pc \in {"version", "failversion"}
  /\ picker' = [picker EXCEPT
       ![w].pc = IF @ = "version" THEN "event" ELSE "failevent",
       ![w].version = VersionOf(picker[w].order)]
  /\ UNCHANGED <<withRedis, pickJob, pickCalls, pickRuns, pickings, log, pickErrors,
                 together>>

Insert(w, type) ==
  log' = [log EXCEPT ![picker[w].order] =
            Append(@, [type |-> type, version |-> NextVersion(picker[w].version)])]

\* PICKING_INITIATED: the processor returns.
AppendInitiated(w) ==
  /\ picker[w].pc = "event"
  /\ Insert(w, "PICKING_INITIATED")
  /\ picker' = [picker EXCEPT ![w].pc = "returned"]
  /\ UNCHANGED <<withRedis, pickJob, pickCalls, pickRuns, pickings, pickErrors, together>>

\* PICKING_FAILED, and the error is thrown again.
AppendFailed(w) ==
  /\ picker[w].pc = "failevent"
  /\ Insert(w, "PICKING_FAILED")
  /\ picker' = [picker EXCEPT ![w].pc = "thrown"]
  /\ UNCHANGED <<withRedis, pickJob, pickCalls, pickRuns, pickings, pickErrors, together>>

\* A round trip fails: to the catch block, and from there out of it.
PickingError(w) ==
  /\ picker[w].pc \notin {"idle", "returned", "thrown"}
  /\ pickErrors < MaxPickErrors
  /\ pickErrors' = pickErrors + 1
  /\ picker' = [picker EXCEPT
       ![w].pc = IF @ \in {"failversion", "failevent"} THEN "thrown"
                                                               ELSE "failversion"]
  /\ UNCHANGED <<withRedis, pickJob, pickCalls, pickRuns, pickings, log, together>>

-----------------------------------------------------------------------------
\* Bull hears of a run's end only from the run that has the job.
HasPickJob(w) == picker[w].run = pickRuns[picker[w].order]
                 /\ pickJob[picker[w].order].state = "active"

Ended(record, ok) ==
  IF ok THEN [record EXCEPT !.state = "completed"]
  ELSE [record EXCEPT !.attempts = @ + 1,
                      !.state = IF record.attempts + 1 < PickAttempts THEN "waiting"
                                                                      ELSE "failed"]

\* A process ends: without Redis it is the one of all runs.
ProcessEnded(w) ==
  IF withRedis THEN [picker EXCEPT ![w] = RestingPicker]
               ELSE [v \in Pickers |-> RestingPicker]

\* The processor returned or threw.  Without Redis nobody waits for the promise
\* that a failed job rejects, and Node ends the process.
EndRun(w) ==
  LET o == picker[w].order IN
  /\ picker[w].pc \in {"returned", "thrown"}
  /\ pickJob' = IF HasPickJob(w)
                THEN [pickJob EXCEPT ![o] = Ended(@, picker[w].pc = "returned")]
                ELSE pickJob
  /\ picker' = IF picker[w].pc = "thrown" /\ ~withRedis
               THEN ProcessEnded(w) ELSE [picker EXCEPT ![w] = RestingPicker]
  /\ UNCHANGED <<withRedis, pickCalls, pickRuns, pickings, log, pickErrors, together>>

\* The process dies.
PickerDies(w) ==
  /\ picker[w].pc # "idle"
  /\ pickErrors < MaxPickErrors
  /\ pickErrors' = pickErrors + 1
  /\ picker' = ProcessEnded(w)
  /\ UNCHANGED <<withRedis, pickJob, pickCalls, pickRuns, pickings, log, together>>

\* A job that is never looked at again.
StillActive(record) == record
AfterPickStall(record) ==
  [record EXCEPT !.stalls = @ + 1,
                 !.state = IF record.stalls < MaxPickStalls THEN "waiting" ELSE "failed"]

\* Bull hears nothing of the worker, which is dead.
PickingStalled(o) ==
  /\ pickJob[o].state = "active"
  /\ \A w \in Pickers : picker[w].order # o
  /\ pickJob' = [pickJob EXCEPT ![o] = AfterPickStall(@)]
  /\ UNCHANGED <<withRedis, pickCalls, pickRuns, picker, pickings, log, pickErrors,
                 together>>

\* The worker lives, but is too slow.
PickingSlow(o) ==
  /\ pickJob[o].state = "active"
  /\ \E w \in Pickers : picker[w].order = o /\ HasPickJob(w)
  /\ pickErrors < MaxPickErrors
  /\ pickErrors' = pickErrors + 1
  /\ pickJob' = [pickJob EXCEPT ![o] = AfterPickStall(@)]
  /\ UNCHANGED <<withRedis, pickCalls, pickRuns, picker, pickings, log, together>>

PickStep(w) ==
  SaveBox(w) \/ ReadVersion(w) \/ AppendInitiated(w) \/ AppendFailed(w) \/ EndRun(w)

FulfilmentNext ==
  \/ \E o \in PickOrders : AddPickingJob(o) \/ PickingStalled(o) \/ PickingSlow(o)
  \/ \E w \in Pickers, o \in PickOrders : RunPickingJob(w, o) \/ TakePickingJob(w, o)
  \/ \E w \in Pickers : PickStep(w) \/ PickingError(w) \/ PickerDies(w)

(***************************************************************************)
(* Fairness: a run goes on, an idle worker takes a job, and Bull looks for *)
(* jobs whose worker is silent.  Errors and deaths are free.               *)
(***************************************************************************)
FulfilmentFairness ==
  /\ \A w \in Pickers : WF_pickVars(PickStep(w))
  /\ \A o \in PickOrders :
       /\ WF_pickVars(\E w \in Pickers : TakePickingJob(w, o))
       /\ WF_pickVars(PickingStalled(o))

-----------------------------------------------------------------------------
\* Type invariant.
FulfilmentTypeOK ==
  /\ pickJob \in [PickOrders ->
       [state : {"none", "waiting", "active", "completed", "failed"},
        attempts : 0..PickAttempts, stalls : 0..MaxPickStalls + 1]]
  /\ picker \in [Pickers ->
       [pc : {"idle", "boxes", "version", "event", "failversion", "failevent",
              "returned", "thrown"},
        order : PickOrders \cup {NoOrder}, run : Nat, box : Nat, version : Nat]]
  /\ \A o \in PickOrders : pickings[o] \in [DOMAIN BoxesOf[o] -> 0..pickRuns[o]]
  /\ log \in [PickOrders ->
       Seq([type : {"PICKING_INITIATED", "PICKING_FAILED"}, version : Nat \ {0}])]
  /\ together \subseteq PickOrders

\* The pickings that ask for an item of the order.
PickingsOf(o, item) ==
  SumFunction([b \in DOMAIN BoxesOf[o] |->
                 IF item \in Range(BoxesOf[o][b]) THEN pickings[o][b] ELSE 0])

\* The pickings of a completed job ask for every item of the order, and for
\* none more often than the processor ran: a box is doubled only where a run
\* failed (pickingQueueService.ts:67-108, packingService.ts:160-184).
EverythingPicked ==
  \A o \in PickOrders : pickJob[o].state = "completed" =>
    \A n \in DOMAIN OrderItems[o] :
      PickingsOf(o, OrderItems[o][n]) \in 1..pickRuns[o]

\* The events of an order that never had two runs at once are numbered from 1
\* without a gap or a tie, and those of a completed job end in
\* PICKING_INITIATED: the state rebuilt from them is the job's
\* (eventSourcing.ts:49-105, 132-219).
LogTellsOutcome ==
  \A o \in PickOrders \ together :
    /\ \A n \in DOMAIN log[o] : log[o][n].version = n
    /\ pickJob[o].state = "completed" => Last(log[o]).type = "PICKING_INITIATED"

\* Every picking job ends, over errors, dead workers and repeated attempts.
PickingEnds ==
  \A o \in PickOrders :
    pickJob[o].state = "waiting" ~> pickJob[o].state \in {"completed", "failed"}

=============================================================================
