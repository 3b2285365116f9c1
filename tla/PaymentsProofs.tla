---------------------------- MODULE PaymentsProofs ----------------------------
(***************************************************************************)
(* Proofs about the card payments beside the checkout queue, for any       *)
(* number of orders, workers, webhooks, deliveries and operators.          *)
(*                                                                         *)
(* Part 1, under every fault of the queue: what is shown as paid was       *)
(* charged.  "paid" is written to a card order by the webhook of a success *)
(* alone, whose event exists only once the card is charged, and a charge   *)
(* is never taken back.  The queue and the webhook of a failure have other *)
(* words for the payment, and an operator leaves it alone.                 *)
(*                                                                         *)
(* Part 2, with the processes of the queue alive: an order that does not   *)
(* show the end of its job, or a charge the shop was told of, was written  *)
(* by somebody else.  A run at its releases has written its outcome, and   *)
(* whoever overwrites it leaves a trace; a webhook that has read the order *)
(* as paid saves nothing, because the order was already shown as such.     *)
(***************************************************************************)
EXTENDS Payments, CheckoutProofs

USE DEF redis, shop, bull

Intents == [CardJobs -> {"open", "declined", "charged", "charged late"}]
HookStates == [pc : {"idle", "save", "mail", "pick"}, event : Events \cup {NoEvent},
               seen : OrderFields]

\* A webhook under way is about a charge.
HooksAfterCharge ==
  \A h \in Hooks : hook[h].pc # "idle" =>
    \E j \in CardJobs : hook[h].event = Succeeded(j) /\ Charged(j)

PaidInv ==
  /\ order \in [Jobs -> OrderFields]
  /\ intent \in Intents
  /\ hook \in [Hooks -> HookStates]
  /\ HooksAfterCharge
  /\ PaidMeansCharged

LEMMA Cards == CardJobs \subseteq Jobs
BY CheckoutAssumption

LEMMA PaidStarts == PaymentsInit => PaidInv
<1> SUFFICES ASSUME PaymentsInit PROVE PaidInv
  OBVIOUS
<1>1. order \in [Jobs -> OrderFields] /\ PaidMeansCharged
  BY Cards DEF PaymentsInit, Init, OrderFields, OrderStatuses, PaymentStatuses,
               PaidMeansCharged
<1>2. IdleHook \in HookStates /\ IdleHook.pc = "idle"
  BY DEF IdleHook, HookStates, OrderFields, OrderStatuses, PaymentStatuses
<1> QED BY <1>1, <1>2 DEF PaymentsInit, PaidInv, Intents, HooksAfterCharge

-----------------------------------------------------------------------------
LEMMA QueueKeepsPaid ==
  ASSUME PaidInv, Next, UNCHANGED paymentVars
  PROVE  PaidInv'
<1>1. UNCHANGED <<intent, hook, picked>>
  BY DEF paymentVars, stripe, warehouse
<1>2. ConfirmedOrder \in OrderFields /\ ConfirmedOrder.payment # "paid"
      /\ FailedOrder \in OrderFields /\ FailedOrder.payment # "paid"
  BY DEF ConfirmedOrder, FailedOrder, OrderFields, OrderStatuses, PaymentStatuses
<1>3. order' \in [Jobs -> OrderFields]
      /\ \A j \in Jobs : order'[j].payment = "paid" => order[j].payment = "paid"
  BY <1>2, QueueWrites DEF PaidInv
<1> QED BY <1>1, <1>3, Cards DEF PaidInv, HooksAfterCharge, PaidMeansCharged, Charged

-----------------------------------------------------------------------------
\* What is charged stays charged.
LEMMA IntentSteps ==
  ASSUME PaidInv, NEW j \in CardJobs, Decline(j) \/ Charge(j)
  PROVE  PaidInv'
<1>1. /\ UNCHANGED <<order, hook, picked>> /\ intent' \in Intents
      /\ \A k \in CardJobs : Charged(k) => Charged(k)'
  BY DEF PaidInv, Decline, Charge, Charged, Intents, vars, warehouse
<1> QED BY <1>1 DEF PaidInv, HooksAfterCharge, PaidMeansCharged, Succeeded

\* A webhook's steps; the event of a success is there only after the charge.
LEMMA HookSteps ==
  ASSUME PaidInv, NEW h \in Hooks, Webhook(h) \/ HookFails(h)
  PROVE  PaidInv'
<1>1. /\ hook \in [Hooks -> HookStates] /\ HooksAfterCharge /\ PaidMeansCharged
      /\ order \in [Jobs -> OrderFields] /\ intent \in Intents
  BY DEF PaidInv
<1>2. IdleHook \in HookStates /\ IdleHook.pc = "idle"
  BY DEF IdleHook, HookStates, OrderFields, OrderStatuses, PaymentStatuses
<1>3. intent' = intent
  BY DEF Webhook, HookFails, SavePaid, SendMail, CreatePicking, PickingRefused, stripe
<1>4. hook[h].pc # "idle"
  BY DEF Webhook, HookFails, SavePaid, SendMail, CreatePicking, PickingRefused
<1>5. PICK j \in CardJobs : hook[h].event = Succeeded(j) /\ Charged(j)
  BY <1>1, <1>4 DEF HooksAfterCharge
<1>6. hook[h].event.job = j
  BY <1>5 DEF Succeeded
<1>7. /\ hook' \in [Hooks -> HookStates]
      /\ \A g \in Hooks : hook'[g].pc # "idle" =>
           hook[g].pc # "idle" /\ hook'[g].event = hook[g].event
  <2>1. CASE \E pc \in {"mail", "pick"} : hook' = [hook EXCEPT ![h].pc = pc]
    BY <1>1, <1>4, <2>1 DEF HookStates
  <2>2. CASE hook' = [hook EXCEPT ![h] = IdleHook]
    BY <1>1, <1>2, <2>2
  <2> QED BY <2>1, <2>2 DEF Webhook, HookFails, SavePaid, SendMail, CreatePicking,
                          PickingRefused, Acknowledge
<1>8. HooksAfterCharge'
  BY <1>1, <1>3, <1>7 DEF HooksAfterCharge, Charged
<1>9. /\ order' \in [Jobs -> OrderFields]
      /\ \A k \in CardJobs : order'[k].payment = "paid" => order[k].payment = "paid" \/ k = j
  <2>1. CASE SavePaid(h)
    <3>1. order' = [order EXCEPT ![j] = Saved(order[j], hook[h].seen, PaidOrder)]
      BY <1>6, <2>1 DEF SavePaid
    <3>2. Saved(order[j], hook[h].seen, PaidOrder) \in OrderFields
      <4>1. order[j] \in OrderFields
        BY <1>1, Cards
      <4>2. PaidOrder \in OrderFields /\ DOMAIN order[j] = {"status", "payment"}
        BY <4>1 DEF PaidOrder, OrderFields, OrderStatuses, PaymentStatuses
      <4>3. \A f \in {"status", "payment"} :
              Saved(order[j], hook[h].seen, PaidOrder)[f] \in {PaidOrder[f], order[j][f]}
        BY <4>2 DEF Saved
      <4> QED BY <4>1, <4>2, <4>3 DEF OrderFields, Saved
    <3> QED BY <1>1, <3>1, <3>2, Cards
  <2>2. CASE ~SavePaid(h)
    <3>1. order' = order
      BY <2>2 DEF Webhook, HookFails, SendMail, CreatePicking, PickingRefused, vars
    <3> QED BY <1>1, <3>1
  <2> QED BY <2>1, <2>2
<1>10. picked' \subseteq picked \cup {j}
  BY <1>6 DEF Webhook, HookFails, SavePaid, SendMail, CreatePicking, PickingRefused,
            warehouse
<1>11. PaidMeansCharged'
  BY <1>1, <1>3, <1>5, <1>9, <1>10 DEF PaidMeansCharged, Charged
<1> QED BY <1>1, <1>3, <1>7, <1>8, <1>9, <1>11 DEF PaidInv

LEMMA ReadKeepsPaid ==
  ASSUME PaidInv, NEW j \in CardJobs, NEW h \in Hooks, ReadOrder(h, j)
  PROVE  PaidInv'
<1> DEFINE read == [pc |-> "save", event |-> Succeeded(j), seen |-> order[j]]
<1>1. /\ hook' = [hook EXCEPT ![h] = read] /\ Charged(j)
      /\ UNCHANGED <<order, intent, picked>>
  BY DEF ReadOrder, Deliver, Raised, Succeeded, vars, warehouse
<1>2. read \in HookStates /\ read.event = Succeeded(j)
  BY Cards DEF PaidInv, HookStates, Events, EventKinds, Succeeded
<1>3. /\ hook' \in [Hooks -> HookStates]
      /\ \A g \in Hooks \ {h} : hook'[g] = hook[g]
      /\ hook'[h] = read
  BY <1>1, <1>2 DEF PaidInv
<1>4. HooksAfterCharge'
  BY <1>1, <1>2, <1>3 DEF PaidInv, HooksAfterCharge, Charged
<1> QED BY <1>1, <1>3, <1>4 DEF PaidInv, PaidMeansCharged, Charged

\* The other writers of an order: a decline, and an operator.
LEMMA OthersKeepPaid ==
  ASSUME PaidInv,
         \/ \E j \in CardJobs : HandleDeclined(j)
         \/ \E j \in Jobs, s \in AdminStatuses : SetStatus(j, s)
  PROVE  PaidInv'
<1>1. UNCHANGED <<intent, hook, picked>>
  BY DEF HandleDeclined, Deliver, SetStatus, stripe, warehouse
<1>2. /\ order' \in [Jobs -> OrderFields]
      /\ \A k \in Jobs : order'[k].payment = "paid" => order[k].payment = "paid"
  <2>1. ASSUME NEW j \in CardJobs, HandleDeclined(j)
        PROVE  order' = [order EXCEPT ![j] = HeldOrder]
    BY <2>1 DEF HandleDeclined
  <2>2. HeldOrder \in OrderFields /\ HeldOrder.payment # "paid"
    BY DEF HeldOrder, OrderFields, OrderStatuses, PaymentStatuses
  <2>3. ASSUME NEW j \in Jobs, NEW s \in AdminStatuses, SetStatus(j, s)
        PROVE  order' = [order EXCEPT ![j] = [order[j] EXCEPT !.status = s]]
    BY <2>3 DEF SetStatus
  <2>4. ASSUME NEW j \in Jobs, NEW s \in AdminStatuses
        PROVE  /\ [order[j] EXCEPT !.status = s] \in OrderFields
               /\ [order[j] EXCEPT !.status = s].payment = order[j].payment
    <3>1. order[j] \in OrderFields
      BY DEF PaidInv
    <3> QED BY <3>1 DEF OrderFields, OrderStatuses
  <2>5. order \in [Jobs -> OrderFields]
    BY DEF PaidInv
  <2>6. CASE \E j \in CardJobs : HandleDeclined(j)
    <3>1. PICK j \in CardJobs : order' = [order EXCEPT ![j] = HeldOrder]
      BY <2>1, <2>6
    <3> QED BY <2>2, <2>5, <3>1, Cards
  <2>7. CASE \E j \in Jobs, s \in AdminStatuses : SetStatus(j, s)
    <3>1. PICK j \in Jobs, s \in AdminStatuses :
            order' = [order EXCEPT ![j] = [order[j] EXCEPT !.status = s]]
      BY <2>3, <2>7
    <3> QED BY <2>4, <2>5, <3>1
  <2> QED BY <2>6, <2>7
<1> QED BY <1>1, <1>2, Cards DEF PaidInv, HooksAfterCharge, PaidMeansCharged, Charged

-----------------------------------------------------------------------------
LEMMA PaidStep == PaidInv /\ [PaymentsNext]_allVars => PaidInv'
<1> SUFFICES ASSUME PaidInv, [PaymentsNext]_allVars PROVE PaidInv'
  OBVIOUS
<1>1. CASE UNCHANGED allVars
  BY <1>1 DEF allVars, paymentVars, vars, stripe, warehouse, PaidInv, HooksAfterCharge,
              PaidMeansCharged, Charged
<1>2. CASE Next /\ UNCHANGED paymentVars
  BY <1>2, QueueKeepsPaid
<1>3. CASE \E j \in CardJobs : Decline(j) \/ Charge(j)
  BY <1>3, IntentSteps
<1>4. CASE \E j \in CardJobs, h \in Hooks : ReadOrder(h, j)
  BY <1>4, ReadKeepsPaid
<1>5. CASE \E h \in Hooks : Webhook(h) \/ HookFails(h)
  BY <1>5, HookSteps
<1>6. CASE \/ \E j \in CardJobs : HandleDeclined(j)
           \/ \E j \in Jobs, s \in AdminStatuses : SetStatus(j, s)
  BY <1>6, OthersKeepPaid
<1> QED BY <1>1, <1>2, <1>3, <1>4, <1>5, <1>6 DEF PaymentsNext

\* A card order that is shown as paid, or that the warehouse packs, was charged,
\* whatever the queue, repeated events, crashes and operators do in between
\* (orders.ts:85-86, admin.ts:34).
THEOREM PaidWasCharged == PaymentsSpec => []PaidMeansCharged
<1>1. PaidInv => PaidMeansCharged
  BY DEF PaidInv
<1> QED BY PaidStarts, PaidStep, <1>1, PTL DEF PaymentsSpec


-----------------------------------------------------------------------------
(***************************************************************************)
(* The types of what the payments add.                                     *)
(***************************************************************************)
StripeTyped ==
  /\ deliveries \in [Events -> 0..MaxDeliveries]
  /\ acked \subseteq Events
  /\ hookErrors \in 0..MaxHookErrors
  /\ picked \subseteq CardJobs /\ unpicked \subseteq CardJobs
  /\ touched \in [Jobs -> SUBSET {"succeeded", "failed", "admin"}]

LEMMA StripeTypedStarts == PaymentsInit => StripeTyped
BY PaymentsAssumption DEF PaymentsInit, StripeTyped

LEMMA EventFacts ==
  ASSUME NEW j \in CardJobs
  PROVE  /\ Succeeded(j) \in Events /\ Declined(j) \in Events
         /\ Succeeded(j) # Declined(j) /\ Succeeded(j).job = j
BY DEF Events, EventKinds, Succeeded, Declined

LEMMA DeliverTyped ==
  ASSUME StripeTyped, NEW e \in Events, Deliver(e)
  PROVE  deliveries' \in [Events -> 0..MaxDeliveries]
<1>1. deliveries[e] + 1 \in 0..MaxDeliveries
  BY PaymentsAssumption DEF StripeTyped, Deliver
<1> QED BY <1>1 DEF StripeTyped, Deliver

\* The handler of a success is about a card order.
LEMMA HookEvent ==
  ASSUME PaidInv, NEW h \in Hooks, hook[h].pc # "idle"
  PROVE  hook[h].event \in Events /\ hook[h].event.job \in CardJobs
         /\ hook[h].event = Succeeded(hook[h].event.job)
BY EventFacts DEF PaidInv, HooksAfterCharge, Succeeded

LEMMA StripeTypedStep ==
  ASSUME PaidInv, StripeTyped, [PaymentsNext]_allVars
  PROVE  StripeTyped'
<1>1. CASE UNCHANGED paymentVars
  BY <1>1 DEF paymentVars, stripe, warehouse, StripeTyped
<1>2. ASSUME NEW j \in CardJobs, Decline(j) \/ Charge(j) PROVE StripeTyped'
  BY <1>2 DEF Decline, Charge, warehouse, StripeTyped
<1>3. ASSUME NEW j \in CardJobs, HandleDeclined(j) PROVE StripeTyped'
  <2>1. deliveries' \in [Events -> 0..MaxDeliveries] /\ acked' \subseteq Events
    BY <1>3, EventFacts, DeliverTyped DEF HandleDeclined, StripeTyped
  <2>2. touched' \in [Jobs -> SUBSET {"succeeded", "failed", "admin"}]
    BY <1>3, Cards DEF HandleDeclined, Touch, StripeTyped
  <2> QED BY <1>3, <2>1, <2>2 DEF HandleDeclined, warehouse, StripeTyped
<1>4. ASSUME NEW j \in CardJobs, NEW h \in Hooks, ReadOrder(h, j) PROVE StripeTyped'
  <2>1. deliveries' \in [Events -> 0..MaxDeliveries]
    BY <1>4, EventFacts, DeliverTyped DEF ReadOrder
  <2> QED BY <1>4, <2>1 DEF ReadOrder, warehouse, StripeTyped
<1>5. ASSUME NEW h \in Hooks, Webhook(h) \/ HookFails(h) PROVE StripeTyped'
  <2>1. hook[h].event \in Events /\ hook[h].event.job \in CardJobs
    BY <1>5, HookEvent
    DEF Webhook, HookFails, SavePaid, SendMail, CreatePicking, PickingRefused
  <2>2. CASE SavePaid(h)
    BY <2>1, <2>2, Cards DEF SavePaid, Touch, stripe, warehouse, StripeTyped
  <2>3. CASE SendMail(h)
    BY <2>3 DEF SendMail, stripe, warehouse, StripeTyped
  <2>4. CASE CreatePicking(h) \/ PickingRefused(h)
    BY <2>1, <2>4 DEF CreatePicking, PickingRefused, Acknowledge, StripeTyped
  <2>5. CASE HookFails(h)
    BY <2>5, PaymentsAssumption DEF HookFails, ErrorReported, warehouse, StripeTyped
  <2> QED BY <1>5, <2>2, <2>3, <2>4, <2>5 DEF Webhook
<1>6. ASSUME NEW j \in Jobs, NEW s \in AdminStatuses, SetStatus(j, s) PROVE StripeTyped'
  BY <1>6 DEF SetStatus, Touch, stripe, warehouse, StripeTyped
<1> QED BY <1>1, <1>2, <1>3, <1>4, <1>5, <1>6 DEF PaymentsNext, allVars

LEMMA PaymentsInvariant == PaymentsSpec => [](PaidInv /\ StripeTyped)
<1>1. PaidInv /\ StripeTyped /\ [PaymentsNext]_allVars => PaidInv' /\ StripeTyped'
  BY PaidStep, StripeTypedStep
<1> QED BY PaidStarts, StripeTypedStarts, <1>1, PTL DEF PaymentsSpec

\* Orders, intents, events, webhooks and what they leave behind are well typed,
\* whoever writes them and whatever fails.
THEOREM PaymentsTyped == PaymentsSpec => []PaymentsTypeOK
<1>1. PaidInv /\ StripeTyped => PaymentsTypeOK
  BY DEF PaidInv, StripeTyped, PaymentsTypeOK, Intents, HookStates
<1> QED BY PaymentsInvariant, <1>1, PTL

-----------------------------------------------------------------------------
(***************************************************************************)
(* Part 2.  Who is to blame for what an order shows.                       *)
(***************************************************************************)

\* The order shows that its job ended this way, or another writer has been there.
EndShown(j, ok) ==
  IF ok THEN order[j].status = "confirmed" \/ touched[j] \cap {"failed", "admin"} # {}
        ELSE order[j].status = "failed" \/ touched[j] # {}

\* A run at its releases has left its outcome.
OutcomeHasCause ==
  \A w \in Workers :
    /\ wk[w].ok => wk[w].pc = "release"
    /\ wk[w].pc = "release" => EndShown(wk[w].run.job, wk[w].ok)

Failing(w, j) == wk[w].pc = "release" /\ ~wk[w].ok /\ wk[w].run.job = j

\* The order of a charge counts as paid, or there is a reason why it does not.
Excused(j) ==
  \/ order[j].payment \in {"paid", "completed"} \/ "failed" \in touched[j]
  \/ job[j].attempts > 0 \/ \E w \in Workers : Failing(w, j)

\* A webhook that has saved the order as paid, or found it so.
Told(h, j) ==
  /\ hook[h].event = Succeeded(j)
  /\ \/ hook[h].pc \in {"mail", "pick"}
     \/ hook[h].pc = "save" /\ hook[h].seen.payment = "paid"

ToldExcused ==
  \A j \in CardJobs :
    Succeeded(j) \in acked \/ (\E h \in Hooks : Told(h, j)) => Excused(j)

CauseInv == RunsInv /\ OutcomeHasCause /\ StatusHasCause /\ ToldExcused

\* What StatusHasCause says, in terms of EndShown.
LEMMA StatusShown ==
  /\ StatusHasCause <=> \A j \in Jobs : /\ job[j].state = "completed" => EndShown(j, TRUE)
                                        /\ job[j].state = "failed" => EndShown(j, FALSE)
  /\ StatusHasCause' <=> \A j \in Jobs : /\ job'[j].state = "completed" => EndShown(j, TRUE)'
                                         /\ job'[j].state = "failed" => EndShown(j, FALSE)'
BY DEF StatusHasCause, EndShown

LEMMA CauseStarts == PaymentsInit => CauseInv
<1> SUFFICES ASSUME PaymentsInit PROVE CauseInv
  OBVIOUS
<1>1. RunsInv
  BY IdleFacts, TypeInit
  DEF PaymentsInit, Init, RunsInv, RunsDistinct, RunsOwnJobs, Busy
<1>2. OutcomeHasCause /\ StatusHasCause
  BY DEF PaymentsInit, Init, Idle, OutcomeHasCause, StatusHasCause
<1>3. ToldExcused
  BY DEF PaymentsInit, IdleHook, ToldExcused, Told
<1> QED BY <1>1, <1>2, <1>3 DEF CauseInv

\* When neither jobs nor runs change, it is enough that every order still shows
\* its end and its charge, and that a webhook is told of nothing else.
LEMMA WritersLeaveTraces ==
  ASSUME CauseInv, UNCHANGED <<job, wk>>, UNCHANGED <<lock, sweep, stock, inStock, runs>>,
         \A j \in Jobs : \A ok \in BOOLEAN : EndShown(j, ok) => EndShown(j, ok)',
         \A j \in CardJobs : Excused(j) => Excused(j)',
         ToldExcused'
  PROVE  CauseInv'
<1>1. RunsInv'
  BY DEF CauseInv, RunsInv, QueueTyped, RunsDistinct, RunsOwnJobs, Busy, Owns
<1>2. OutcomeHasCause'
  <2>1. \A w \in Workers : wk[w].pc = "release" => wk[w].run.job \in Jobs /\ wk[w].ok \in BOOLEAN
    <3> SUFFICES ASSUME NEW w \in Workers, wk[w].pc = "release"
                 PROVE  wk[w].run.job \in Jobs /\ wk[w].ok \in BOOLEAN
      OBVIOUS
    <3>1. QueueTyped /\ Busy(w)
      BY DEF CauseInv, RunsInv, Busy
    <3> QED BY <3>1, BusyFacts DEF Frames
  <2> QED BY <2>1 DEF CauseInv, OutcomeHasCause
<1>3. StatusHasCause'
  BY StatusShown DEF CauseInv
<1> QED BY <1>1, <1>2, <1>3 DEF CauseInv

\* A step of the queue: the run's own order shows what the run writes, and no
\* other order changes.
LEMMA QueueKeepsCauses ==
  ASSUME LiveWork, PaidInv, CauseInv, Next, UNCHANGED paymentVars
  PROVE  CauseInv'
<1>1. /\ RunsInv /\ QueueTyped /\ RunsDistinct /\ RunsOwnJobs /\ OutcomeHasCause
      /\ StatusHasCause /\ ToldExcused
      /\ wk \in [Workers -> Runner] /\ order \in [Jobs -> OrderFields]
      /\ job \in [Jobs -> [state : {"waiting", "active", "completed", "failed"},
                           attempts : Nat, stalls : Nat]]
  BY DEF CauseInv, RunsInv, QueueTyped, PaidInv
<1>2. RunsInv'
  BY <1>1, RunsInvStep
<1>3. UNCHANGED <<touched, hook, acked>>
  BY DEF paymentVars, stripe
<1>4. SUFFICES /\ OutcomeHasCause' /\ StatusHasCause'
               /\ \A j \in Jobs : Excused(j) => Excused(j)'
  BY <1>1, <1>2, <1>3, Cards DEF CauseInv, ToldExcused, Told
<1>5. CASE Quiet
  <2>1. UNCHANGED <<order, job, wk>>
    BY <1>1, <1>5, NobodyStalls
  <2> QED BY <1>1, <1>3, <2>1
          DEF OutcomeHasCause, StatusHasCause, EndShown, Excused, Failing
<1>6. ASSUME NEW w \in Workers, NEW j \in Jobs, StartJob(w, j)
      PROVE  /\ OutcomeHasCause' /\ StatusHasCause'
             /\ \A k \in Jobs : Excused(k) => Excused(k)'
  <2>1. /\ \A v \in Workers : v # w => wk'[v] = wk[v]
        /\ wk[w].pc = "idle" /\ wk'[w].pc = "acquire" /\ ~wk'[w].ok
        /\ job'[j].state = "active" /\ job'[j].attempts = job[j].attempts
        /\ \A k \in Jobs \ {j} : job'[k] = job[k]
        /\ order' = order
    BY <1>1, <1>6 DEF StartJob, Started
  <2>2. OutcomeHasCause'
    BY <1>1, <1>3, <2>1 DEF OutcomeHasCause, EndShown
  <2>3. StatusHasCause'
    BY <1>1, <1>3, <2>1 DEF StatusHasCause
  <2>4. ASSUME NEW k \in Jobs, Excused(k) PROVE Excused(k)'
    <3>1. job'[k].attempts = job[k].attempts
      BY <2>1
    <3>2. \A v \in Workers : Failing(v, k) => Failing(v, k)'
      BY <2>1 DEF Failing
    <3> QED BY <1>3, <2>1, <2>4, <3>1, <3>2 DEF Excused
  <2> QED BY <2>2, <2>3, <2>4
<1>7. ASSUME NEW w \in Workers, Process(w) \/ Fault(w)
      PROVE  /\ OutcomeHasCause' /\ StatusHasCause'
             /\ \A k \in Jobs : Excused(k) => Excused(k)'
  <2>0. Busy(w) /\ wk[w].run.job \in Jobs
    BY <1>1, <1>7, WorkerSteps, BusyFacts
  <2>00. PICK k \in Jobs : k = wk[w].run.job
    BY <2>0
  <2>1. PICK r \in Runner : Moves(w, r) /\ OrderStep(w, r)
    BY <1>1, <1>7, OrderSteps
  <2>2. Busy(w) /\ k = wk[w].run.job /\ Owns(w) /\ job[k].state = "active"
    BY <1>1, <2>0, <2>00 DEF RunsOwnJobs, Owns
  <2>3. wk'[w] = r /\ \A v \in Workers : v # w => wk'[v] = wk[v]
    BY <1>1, <2>1 DEF Moves
  <2>4. \A v \in Workers : v # w /\ Busy(v) => wk[v].run.job \in Jobs \ {k}
    BY <1>1, <2>2, OneRunPerJob, BusyFacts
  \* Orders and jobs of other runs stay as they are.
  <2>5. /\ \A j \in Jobs \ {k} : order'[j] = order[j] /\ job'[j] = job[j]
        /\ job'[k].attempts \in Nat /\ job'[k].attempts >= job[k].attempts
    <3>1. \/ order' = order
          \/ \E o : order' = [order EXCEPT ![k] = o]
      BY <2>1, <2>2 DEF OrderStep, Goes, Confirms, Fails, FinishJob
    <3>2. job' = job \/ job' = [job EXCEPT ![k] = AfterRun(w)]
      BY <2>1, <2>2 DEF OrderStep, Goes, Confirms, Fails, FinishJob
    <3>3. /\ job[k].attempts \in Nat /\ AfterRun(w).attempts \in Nat
          /\ AfterRun(w).attempts >= job[k].attempts
      BY <1>1, <2>2 DEF AfterRun, AfterFailure
    <3>4. /\ \A j \in Jobs \ {k} : job'[j] = job[j]
          /\ job'[k] = job[k] \/ job'[k] = AfterRun(w)
      BY <1>1, <2>2, <3>2
    <3>5. \A j \in Jobs \ {k} : order'[j] = order[j]
      BY <1>1, <2>2, <3>1
    <3> QED BY <3>3, <3>4, <3>5
  <2>6. ASSUME NEW v \in Workers, v # w
        PROVE  (/\ wk[v].ok => wk[v].pc = "release"
                /\ wk[v].pc = "release" => EndShown(wk[v].run.job, wk[v].ok))'
    <3>1. CASE Busy(v)
      <4>1. wk[v].run.job \in Jobs \ {k} /\ wk'[v] = wk[v]
        BY <2>3, <2>4, <2>6, <3>1
      <4>2. order'[wk[v].run.job] = order[wk[v].run.job]
        BY <2>5, <4>1
      <4> QED BY <1>1, <1>3, <4>1, <4>2 DEF OutcomeHasCause, EndShown
    <3>2. CASE ~Busy(v)
      BY <1>1, <2>3, <2>6, <3>2 DEF Busy, OutcomeHasCause
    <3> QED BY <3>1, <3>2
  <2>7. ASSUME NEW j \in Jobs, j # k
        PROVE  /\ job'[j].state = "completed" => EndShown(j, TRUE)'
               /\ job'[j].state = "failed" => EndShown(j, FALSE)'
               /\ Excused(j) => Excused(j)'
    <3>1. order'[j] = order[j] /\ job'[j] = job[j]
      BY <2>5, <2>7
    <3>2. \A ok \in BOOLEAN : EndShown(j, ok)' = EndShown(j, ok)
      BY <1>3, <3>1 DEF EndShown
    <3>3. \A v \in Workers : Failing(v, j) => Failing(v, j)'
      BY <2>2, <2>3, <2>7 DEF Failing
    <3> QED BY <1>1, <1>3, <3>1, <3>2, <3>3, StatusShown DEF Excused
  \* The run's own order.
  <2>8. /\ r.ok => r.pc = "release"
        /\ r.pc = "release" => r.run = wk[w].run /\ EndShown(k, r.ok)'
        /\ job'[k].state = "completed" => EndShown(k, TRUE)'
        /\ job'[k].state = "failed" => EndShown(k, FALSE)'
        /\ Excused(k) => Excused(k)'
    <3>1. \A v \in Workers : v # w /\ Failing(v, k) => Failing(v, k)'
      BY <2>3 DEF Failing
    <3>2. CASE Goes(w, r)
      <4>1. /\ r.pc = "release" <=> wk[w].pc = "release"
            /\ r.run = wk[w].run /\ r.ok = wk[w].ok /\ order' = order /\ job' = job
        BY <3>2 DEF Goes
      <4>2. /\ r.ok => r.pc = "release"
            /\ r.pc = "release" => EndShown(k, r.ok)'
        BY <1>1, <1>3, <2>2, <4>1 DEF OutcomeHasCause, EndShown
      <4>3. Failing(w, k) => Failing(w, k)'
        BY <2>2, <2>3, <4>1 DEF Failing
      <4>4. Excused(k) => Excused(k)'
        BY <1>3, <3>1, <4>1, <4>3 DEF Excused
      <4> QED BY <2>2, <4>1, <4>2, <4>4
    <3>3. CASE Confirms(w, r)
      <4>1. /\ r.pc = "release" /\ r.run = wk[w].run /\ r.ok = TRUE /\ job' = job
            /\ order' = [order EXCEPT ![k] = ConfirmedOrder]
        BY <2>2, <3>3 DEF Confirms
      <4>2. order'[k].status = "confirmed" /\ order'[k].payment = "completed"
        BY <1>1, <2>2, <4>1 DEF ConfirmedOrder
      <4> QED BY <2>2, <4>1, <4>2 DEF EndShown, Excused
    <3>4. CASE Fails(w, r)
      <4>1. /\ r.pc = "release" /\ r.run = wk[w].run /\ r.ok = wk[w].ok /\ job' = job
            /\ wk[w].pc = "failorder"
            /\ order' = [order EXCEPT ![k] = FailedOrder]
        BY <2>2, <3>4 DEF Fails
      <4>2. order'[k].status = "failed" /\ ~wk[w].ok
        BY <1>1, <2>2, <4>1 DEF FailedOrder, OutcomeHasCause
      <4>3. Failing(w, k)'
        BY <2>2, <2>3, <4>1, <4>2 DEF Failing
      <4> QED BY <2>2, <4>1, <4>2, <4>3 DEF EndShown, Excused
    <3>5. CASE FinishJob(w) /\ r = Idle
      <4>1. /\ wk[w].pc = "release" /\ order' = order
            /\ job' = [job EXCEPT ![k] = AfterRun(w)]
        BY <2>2, <3>5 DEF FinishJob
      <4>2. job'[k] = AfterRun(w)
        BY <1>1, <2>2, <4>1
      <4>3. IF wk[w].ok THEN AfterRun(w).state = "completed"
                        ELSE /\ AfterRun(w).state \in {"waiting", "failed"}
                             /\ AfterRun(w).attempts > 0
        BY <1>1, <2>2 DEF AfterRun, AfterFailure
      <4>4. \A ok : ok = wk[w].ok => EndShown(k, ok)'
        BY <1>1, <1>3, <2>2, <4>1 DEF OutcomeHasCause, EndShown
      <4>5. Excused(k) => Excused(k)'
        <5>1. CASE wk[w].ok
          <6>1. ~Failing(w, k)
            BY <5>1 DEF Failing
          <6>2. job[k].attempts > 0 => job'[k].attempts > 0
            BY <1>1, <2>2, <2>5
          <6> QED BY <1>3, <3>1, <4>1, <6>1, <6>2 DEF Excused
        <5>2. CASE ~wk[w].ok
          BY <4>2, <4>3, <5>2 DEF Excused
        <5> QED BY <5>1, <5>2
      <4>6. wk[w].ok \in BOOLEAN
        BY <1>1 DEF Runner
      <4>7. /\ job'[k].state = "completed" => EndShown(k, TRUE)'
            /\ job'[k].state = "failed" => EndShown(k, FALSE)'
        BY <4>2, <4>3, <4>4, <4>6
      <4> QED BY <3>5, <4>5, <4>7 DEF Idle
    <3> QED BY <2>1, <3>2, <3>3, <3>4, <3>5 DEF OrderStep
  <2>9. OutcomeHasCause'
    <3>1. ASSUME NEW v \in Workers
          PROVE  (/\ wk[v].ok => wk[v].pc = "release"
                  /\ wk[v].pc = "release" => EndShown(wk[v].run.job, wk[v].ok))'
      BY <2>2, <2>3, <2>6, <2>8
    <3> QED BY <3>1 DEF OutcomeHasCause
  <2>10. StatusHasCause'
    BY <2>7, <2>8, StatusShown
  <2> QED BY <2>7, <2>8, <2>9, <2>10
<1> QED BY <1>5, <1>6, <1>7, StepCases

-----------------------------------------------------------------------------
\* Who writes an order beside the queue leaves a trace that excuses what it has
\* written: a decline excuses all, an operator a status, and a success writes
\* nothing but what a paid order shows.
Traced(j) ==
  /\ touched[j] \subseteq touched'[j]
  /\ \/ order'[j] = order[j]
     \/ "failed" \in touched'[j]
     \/ "admin" \in touched'[j] /\ order'[j].payment = order[j].payment
     \/ /\ "succeeded" \in touched'[j]
        /\ order'[j].status \in {"confirmed", order[j].status}
        /\ order'[j].payment \in {"paid", order[j].payment}

LEMMA TracedIsShown ==
  ASSUME NEW j \in Jobs, UNCHANGED <<job, wk>>, Traced(j)
  PROVE  /\ \A ok \in BOOLEAN : EndShown(j, ok) => EndShown(j, ok)'
         /\ Excused(j) => Excused(j)'
<1>1. ASSUME NEW ok \in BOOLEAN, EndShown(j, ok) PROVE EndShown(j, ok)'
  BY <1>1 DEF Traced, EndShown
<1>2. ASSUME Excused(j) PROVE Excused(j)'
  BY <1>2 DEF Traced, Excused, Failing
<1> QED BY <1>1, <1>2

LEMMA TracedSteps ==
  ASSUME CauseInv, UNCHANGED <<lock, sweep, stock, inStock, runs, job, wk>>,
         \A j \in Jobs : Traced(j), ToldExcused'
  PROVE  CauseInv'
BY Cards, TracedIsShown, WritersLeaveTraces

\* What an acknowledged success or a webhook's knowledge is about.
LEMMA ToldKept ==
  ASSUME CauseInv, UNCHANGED <<job, wk>>, \A j \in Jobs : Traced(j),
         \A j \in CardJobs : Succeeded(j) \in acked' =>
           Succeeded(j) \in acked \/ \E h \in Hooks : Told(h, j),
         \A j \in CardJobs, h \in Hooks : Told(h, j)' => Told(h, j) \/ Excused(j)'
  PROVE  ToldExcused'
BY Cards, TracedIsShown DEF CauseInv, ToldExcused

LEMMA OthersKeepCauses ==
  ASSUME PaidInv, StripeTyped, CauseInv, PaymentsNext, ~(Next /\ UNCHANGED paymentVars)
  PROVE  CauseInv'
<1>1. /\ order \in [Jobs -> OrderFields] /\ hook \in [Hooks -> HookStates]
      /\ touched \in [Jobs -> SUBSET {"succeeded", "failed", "admin"}]
  BY DEF PaidInv, StripeTyped
<1>2. ASSUME order' = order, touched' = touched PROVE \A j \in Jobs : Traced(j)
  BY <1>2 DEF Traced
<1>3. ASSUME NEW j \in CardJobs, Decline(j) \/ Charge(j) PROVE CauseInv'
  <2>1. UNCHANGED <<vars, acked, hook, touched>>
    BY <1>3 DEF Decline, Charge
  <2>2. \A k \in Jobs : Traced(k)
    BY <1>2, <2>1 DEF vars
  <2>3. ToldExcused'
    BY <2>1, <2>2, ToldKept DEF Told, vars
  <2> QED BY <2>1, <2>2, <2>3, TracedSteps DEF vars
<1>4. ASSUME NEW j \in CardJobs, HandleDeclined(j) PROVE CauseInv'
  <2>1. /\ UNCHANGED <<lock, sweep, stock, inStock, runs, job, wk, hook>>
        /\ acked' = acked \cup {Declined(j)}
        /\ order' = [order EXCEPT ![j] = HeldOrder]
        /\ touched' = [touched EXCEPT ![j] = @ \cup {"failed"}]
    BY <1>4 DEF HandleDeclined, Touch
  <2>2. \A k \in Jobs : Traced(k)
    BY <1>1, <2>1 DEF Traced
  <2>3. \A k \in CardJobs : Succeeded(k) # Declined(j)
    BY DEF Succeeded, Declined
  <2>4. ToldExcused'
    BY <2>1, <2>2, <2>3, ToldKept DEF Told
  <2> QED BY <2>1, <2>2, <2>4, TracedSteps
<1>5. ASSUME NEW j \in CardJobs, NEW h \in Hooks, ReadOrder(h, j) PROVE CauseInv'
  <2>1. /\ UNCHANGED <<vars, acked, touched>>
        /\ hook' = [hook EXCEPT ![h] =
             [pc |-> "save", event |-> Succeeded(j), seen |-> order[j]]]
    BY <1>5 DEF ReadOrder
  <2>2. \A k \in Jobs : Traced(k)
    BY <1>2, <2>1 DEF vars
  <2>3. ASSUME NEW k \in CardJobs, NEW g \in Hooks, Told(g, k)'
        PROVE  Told(g, k) \/ Excused(k)'
    <3>1. CASE g # h
      BY <1>1, <2>1, <2>3, <3>1 DEF Told
    <3>2. CASE g = h
      <4>1. hook'[h] = [pc |-> "save", event |-> Succeeded(j), seen |-> order[j]]
        BY <1>1, <2>1
      <4>2. k = j /\ order[j].payment = "paid"
        BY <2>3, <3>2, <4>1, EventFacts DEF Told
      <4> QED BY <2>1, <4>2 DEF Excused, vars
    <3> QED BY <3>1, <3>2
  <2>4. ToldExcused'
    BY <2>1, <2>2, <2>3, ToldKept DEF vars
  <2> QED BY <2>1, <2>2, <2>4, TracedSteps DEF vars
<1>6. ASSUME NEW h \in Hooks, SavePaid(h) PROVE CauseInv'
  <2>1. PICK j \in CardJobs : hook[h].event = Succeeded(j) /\ hook[h].event.job = j
    BY <1>6, HookEvent DEF SavePaid
  <2>2. /\ UNCHANGED <<lock, sweep, stock, inStock, runs, job, wk, acked>>
        /\ hook[h].pc = "save" /\ hook' = [hook EXCEPT ![h].pc = "mail"]
        /\ order' = [order EXCEPT ![j] = Saved(order[j], hook[h].seen, PaidOrder)]
        /\ touched' = [touched EXCEPT ![j] = @ \cup {"succeeded"}]
    BY <1>6, <2>1 DEF SavePaid, Touch, stripe
  <2>3. order'[j] = Saved(order[j], hook[h].seen, PaidOrder)
    BY <1>1, <2>2, Cards
  <2>4. /\ order'[j].status \in {"confirmed", order[j].status}
        /\ order'[j].payment \in {"paid", order[j].payment}
        /\ hook[h].seen.payment # "paid" => order'[j].payment = "paid"
    <3>1. DOMAIN order[j] = {"status", "payment"}
      BY <1>1, Cards DEF OrderFields
    <3> QED BY <2>3, <3>1 DEF Saved, PaidOrder
  <2>5. \A k \in Jobs : Traced(k)
    <3>1. ASSUME NEW k \in Jobs, k # j PROVE Traced(k)
      BY <1>1, <2>2, <3>1 DEF Traced
    <3>2. Traced(j)
      BY <1>1, <2>2, <2>4, Cards DEF Traced
    <3> QED BY <3>1, <3>2
  <2>6. ASSUME NEW k \in CardJobs, NEW g \in Hooks, Told(g, k)'
        PROVE  Told(g, k) \/ Excused(k)'
    <3>1. CASE g # h
      BY <1>1, <2>2, <2>6, <3>1 DEF Told
    <3>2. CASE g = h
      <4>1. hook'[h].event = hook[h].event
        BY <1>1, <2>2 DEF HookStates
      <4>2. k = j
        BY <2>1, <2>6, <3>2, <4>1, EventFacts DEF Told
      <4> QED BY <2>1, <2>2, <2>4, <3>2, <4>2 DEF Told, Excused
    <3> QED BY <3>1, <3>2
  <2>7. ToldExcused'
    BY <2>2, <2>5, <2>6, ToldKept
  <2> QED BY <2>2, <2>5, <2>7, TracedSteps
<1>7. ASSUME NEW h \in Hooks,
             SendMail(h) \/ CreatePicking(h) \/ PickingRefused(h) \/ HookFails(h)
      PROVE  CauseInv'
  <2>1. UNCHANGED <<vars, touched>>
    BY <1>7 DEF SendMail, CreatePicking, PickingRefused, HookFails
  <2>2. \A k \in Jobs : Traced(k)
    BY <1>2, <2>1 DEF vars
  <2>3. /\ \/ acked' = acked
           \/ hook[h].pc = "pick" /\ acked' = acked \cup {hook[h].event}
        /\ \/ hook[h].pc = "mail" /\ hook' = [hook EXCEPT ![h].pc = "pick"]
           \/ hook' = [hook EXCEPT ![h] = IdleHook]
    BY <1>7 DEF SendMail, CreatePicking, PickingRefused, HookFails, Acknowledge, stripe,
                ErrorReported
  <2>4. ASSUME NEW k \in CardJobs, Succeeded(k) \in acked'
        PROVE  Succeeded(k) \in acked \/ \E g \in Hooks : Told(g, k)
    <3>1. CASE Succeeded(k) \in acked
      BY <3>1
    <3>2. CASE Succeeded(k) \notin acked
      <4>1. hook[h].event = Succeeded(k) /\ hook[h].pc = "pick"
        BY <2>3, <2>4, <3>2
      <4>2. Told(h, k)
        BY <4>1 DEF Told
      <4> QED BY <4>2
    <3> QED BY <3>1, <3>2
  <2>5. ASSUME NEW k \in CardJobs, NEW g \in Hooks, Told(g, k)' PROVE Told(g, k)
    <3>1. CASE g # h
      BY <1>1, <2>3, <2>5, <3>1 DEF Told
    <3>2. CASE g = h /\ hook' = [hook EXCEPT ![h] = IdleHook]
      <4>1. hook'[h].pc = "idle"
        BY <1>1, <3>2 DEF IdleHook
      <4> QED BY <2>5, <3>2, <4>1 DEF Told
    <3>3. CASE g = h /\ hook[h].pc = "mail" /\ hook' = [hook EXCEPT ![h].pc = "pick"]
      <4>1. hook'[h].event = hook[h].event
        BY <1>1, <3>3 DEF HookStates
      <4> QED BY <2>5, <3>3, <4>1 DEF Told
    <3> QED BY <2>3, <3>1, <3>2, <3>3
  <2>6. ToldExcused'
    BY <2>1, <2>2, <2>4, <2>5, ToldKept DEF vars
  <2> QED BY <2>1, <2>2, <2>6, TracedSteps DEF vars
<1>8. ASSUME NEW j \in Jobs, NEW s \in AdminStatuses, SetStatus(j, s) PROVE CauseInv'
  <2>1. /\ UNCHANGED <<lock, sweep, stock, inStock, runs, job, wk, hook, acked>>
        /\ order' = [order EXCEPT ![j].status = s]
        /\ touched' = [touched EXCEPT ![j] = @ \cup {"admin"}]
    BY <1>8 DEF SetStatus, Touch, stripe
  <2>2. \A k \in Jobs : Traced(k)
    <3>1. order'[j].payment = order[j].payment
      BY <1>1, <2>1 DEF OrderFields
    <3>2. ASSUME NEW k \in Jobs, k # j PROVE Traced(k)
      BY <1>1, <2>1, <3>2 DEF Traced
    <3>3. Traced(j)
      BY <1>1, <2>1, <3>1 DEF Traced
    <3> QED BY <3>2, <3>3
  <2>3. ToldExcused'
    BY <2>1, <2>2, ToldKept DEF Told
  <2> QED BY <2>1, <2>2, <2>3, TracedSteps
<1> QED BY <1>3, <1>4, <1>5, <1>6, <1>7, <1>8 DEF PaymentsNext, Webhook

LEMMA CauseStep ==
  ASSUME LiveWork, PaidInv, StripeTyped, CauseInv, [PaymentsNext]_allVars
  PROVE  CauseInv'
<1>1. CASE UNCHANGED allVars
  <2>1. UNCHANGED <<lock, sweep, stock, inStock, runs, job, wk, order, touched, hook, acked>>
    BY <1>1 DEF allVars, paymentVars, vars, stripe
  <2>2. \A j \in Jobs : Traced(j)
    BY <2>1 DEF Traced
  <2>3. ToldExcused'
    BY <2>1, <2>2, ToldKept DEF Told
  <2> QED BY <2>1, <2>2, <2>3, TracedSteps
<1>2. CASE Next /\ UNCHANGED paymentVars
  BY <1>2, QueueKeepsCauses
<1> QED BY <1>1, <1>2, OthersKeepCauses

LEMMA CauseInvariant == ASSUME LiveWork PROVE PaymentsSpec => []CauseInv
<1>1. PaidInv /\ StripeTyped /\ CauseInv /\ [PaymentsNext]_allVars => CauseInv'
  BY CauseStep
<1> QED BY PaymentsInvariant, CauseStarts, <1>1, PTL DEF PaymentsSpec

\* Where no process dies and the database answers, an order shows the end of its
\* job unless a payment event or an operator has written it, in whatever order
\* they do and however often a run is repeated (orders.ts:85-86, 130-136).
THEOREM StatusesHaveACause == ASSUME LiveWork PROVE PaymentsSpec => []StatusHasCause
<1>1. CauseInv => StatusHasCause
  BY DEF CauseInv
<1> QED BY CauseInvariant, <1>1, PTL

\* Under the same faults, a charge whose event the shop has acknowledged is shown
\* as paid, unless a decline was handled or an attempt of the job failed: no
\* repeated, late or failing delivery loses it (orders.ts:75-128).
THEOREM ChargesAreShown == ASSUME LiveWork PROVE PaymentsSpec => []ChargeShown
<1>1. CauseInv => ChargeShown
  <2> SUFFICES ASSUME CauseInv, NEW j \in CardJobs, Succeeded(j) \in acked,
                      order[j].payment \notin {"paid", "completed"}
               PROVE  "failed" \in touched[j] \/ job[j].attempts > 0
                        \/ \E w \in Workers : wk[w].pc = "release" /\ wk[w].run.job = j
    BY DEF ChargeShown
  <2>1. Excused(j)
    BY DEF CauseInv, ToldExcused
  <2> QED BY <2>1 DEF Excused, Failing
<1> QED BY CauseInvariant, <1>1, PTL

=============================================================================
