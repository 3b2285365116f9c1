------------------------------- MODULE Payments -------------------------------
(***************************************************************************)
(* Card payments beside the checkout queue: what Stripe makes of a payment *)
(* intent, the webhook that tells the shop                                 *)
(* (backend/server/routes/orders.ts:43-142) and the operators who set an   *)
(* order's status by hand (backend/server/routes/admin.ts:573-600).  All   *)
(* of them, and the queue, write the status of the same orders.            *)
(*                                                                         *)
(* Stripe delivers an event until it is acknowledged, may deliver it again *)
(* afterwards, and keeps no order among events.  The webhook of a success  *)
(* is four round trips: it reads the order, saves it, reads the user and   *)
(* sends a mail, and creates a picking job.  The document that is saved    *)
(* carries only the fields that differ from those that were read.          *)
(*                                                                         *)
(* Left out: the points of the user, of which a card order earns none      *)
(* (orders.ts:321), and the totals, which the webhook computes again from  *)
(* fields that nobody changes.                                             *)
(***************************************************************************)
EXTENDS CheckoutProperties

CONSTANTS
  Hooks,          \* webhook requests under way at once
  MaxDeliveries,  \* bound: deliveries of one event
  MaxHookErrors,  \* bound: webhook requests that end in an error
  AdminStatuses,  \* what operators set an order to
  NoEvent         \* an idle webhook

VARIABLES
  intent,      \* intent[j]: what Stripe says of the payment intent of order j
  deliveries,  \* deliveries[e]: how often event e was delivered
  acked,       \* the events answered with 2xx
  hookErrors,  \* webhook requests that ended in an error
  hook,        \* hook[h]: the handler of a success and the order it has read
  picked,      \* the orders handed to picking: one job each, pick-<orderId>
  unpicked,    \* the orders whose picking job the queue refused
  touched      \* touched[j]: who beside the queue has written the status of j

stripe == <<intent, deliveries, acked, hookErrors>>
warehouse == <<picked, unpicked>>
paymentVars == <<stripe, hook, warehouse, touched>>
allVars == <<vars, paymentVars>>

EventKinds == {"succeeded", "failed"}
Events == [kind : EventKinds, job : CardJobs]
Succeeded(j) == [kind |-> "succeeded", job |-> j]
Declined(j) == [kind |-> "failed", job |-> j]

ASSUME PaymentsAssumption ==
  /\ MaxDeliveries \in Nat \ {0}
  /\ MaxHookErrors \in Nat /\ MaxHookErrors < MaxDeliveries
  /\ NoEvent \notin Events

OrderStatuses == {"pending", "confirmed", "failed"} \cup AdminStatuses
PaymentStatuses == {"pending", "paid", "completed", "failed"}
OrderFields == [status : OrderStatuses, payment : PaymentStatuses]

IdleHook == [pc |-> "idle", event |-> NoEvent,
             seen |-> [status |-> "pending", payment |-> "pending"]]

PaymentsInit ==
  /\ Init
  /\ intent = [j \in CardJobs |-> "open"]
  /\ deliveries = [e \in Events |-> 0]
  /\ acked = {}
  /\ hookErrors = 0
  /\ hook = [h \in Hooks |-> IdleHook]
  /\ picked = {}
  /\ unpicked = {}
  /\ touched = [j \in Jobs |-> {}]

-----------------------------------------------------------------------------
(***************************************************************************)
(* Stripe and the customer.                                                *)
(***************************************************************************)

\* The customer's card is declined; the intent stays open for another one.
Decline(j) ==
  /\ intent[j] = "open"
  /\ intent' = [intent EXCEPT ![j] = "declined"]
  /\ UNCHANGED <<vars, deliveries, acked, hookErrors, hook, warehouse, touched>>

Charge(j) ==
  /\ intent[j] \in {"open", "declined"}
  /\ intent' = [intent EXCEPT ![j] = IF @ = "open" THEN "charged" ELSE "charged late"]
  /\ UNCHANGED <<vars, deliveries, acked, hookErrors, hook, warehouse, touched>>

Charged(j) == intent[j] \in {"charged", "charged late"}

Raised(e) ==
  IF e.kind = "succeeded" THEN Charged(e.job)
                          ELSE intent[e.job] \in {"declined", "charged late"}

Deliver(e) ==
  /\ Raised(e)
  /\ deliveries[e] < MaxDeliveries
  /\ deliveries' = [deliveries EXCEPT ![e] = @ + 1]

-----------------------------------------------------------------------------
(***************************************************************************)
(* The webhook.                                                            *)
(***************************************************************************)
Touch(j, who) == touched' = [touched EXCEPT ![j] = @ \cup {who}]

\* payment_intent.succeeded: Order.findOne.
ReadOrder(h, j) ==
  /\ hook[h].pc = "idle"
  /\ Deliver(Succeeded(j))
  /\ hook' = [hook EXCEPT ![h] = [pc |-> "save", event |-> Succeeded(j), seen |-> order[j]]]
  /\ UNCHANGED <<vars, intent, acked, hookErrors, warehouse, touched>>

PaidOrder == [status |-> "confirmed", payment |-> "paid"]
\* A save of the status alone.
StatusSaved(now, seen, new) == [now EXCEPT !.status = new.status]
\* The fields set on a document that was read as `seen` and saved.
Saved(now, seen, new) ==
  [f \in DOMAIN now |-> IF new[f] # seen[f] THEN new[f] ELSE now[f]]

SavePaid(h) ==
  LET j == hook[h].event.job IN
  /\ hook[h].pc = "save"
  /\ order' = [order EXCEPT ![j] = Saved(@, hook[h].seen, PaidOrder)]
  /\ hook' = [hook EXCEPT ![h].pc = "mail"]
  /\ Touch(j, "succeeded")
  /\ UNCHANGED <<redis, stock, inStock, bull, wk, stripe, warehouse>>

\* User.findById and the confirmation mail.
SendMail(h) ==
  /\ hook[h].pc = "mail"
  /\ hook' = [hook EXCEPT ![h].pc = "pick"]
  /\ UNCHANGED <<vars, stripe, warehouse, touched>>

Acknowledge(h) ==
  /\ acked' = acked \cup {hook[h].event}
  /\ hook' = [hook EXCEPT ![h] = IdleHook]

\* createPickingJob: Bull knows a job by its id and takes it once.
CreatePicking(h) ==
  /\ hook[h].pc = "pick"
  /\ picked' = picked \cup {hook[h].event.job}
  /\ Acknowledge(h)
  /\ UNCHANGED <<vars, intent, deliveries, hookErrors, unpicked, touched>>

\* The queue refuses: the error is logged and the event acknowledged all the same.
PickingRefused(h) ==
  /\ hook[h].pc = "pick"
  /\ unpicked' = unpicked \cup {hook[h].event.job}
  /\ Acknowledge(h)
  /\ UNCHANGED <<vars, intent, deliveries, hookErrors, picked, touched>>

\* An error is answered as if all were well.
ErrorAcknowledged(h) == acked \cup {hook[h].event}
ErrorReported(h) == acked

\* A round trip fails or the process dies: Stripe will deliver again.
HookFails(h) ==
  /\ hook[h].pc # "idle"
  /\ hookErrors < MaxHookErrors
  /\ hookErrors' = hookErrors + 1
  /\ acked' = ErrorReported(h)
  /\ hook' = [hook EXCEPT ![h] = IdleHook]
  /\ UNCHANGED <<vars, intent, deliveries, warehouse, touched>>

\* payment_intent.payment_failed: one update, whatever the order says.
HandleDeclined(j) ==
  /\ Deliver(Declined(j))
  /\ order' = [order EXCEPT ![j] = HeldOrder]
  /\ acked' = acked \cup {Declined(j)}
  /\ Touch(j, "failed")
  /\ UNCHANGED <<redis, stock, inStock, bull, wk, intent, hookErrors, hook, warehouse>>

-----------------------------------------------------------------------------
\* An operator sets the status; the payment stays as it is.  The handler saves
\* the document it has read, and the schema refuses one that was read with the
\* queue's "completed" (models/Order.ts:149-152): an order that has it is written
\* only by a handler that read the order before.
SetStatus(j, s) ==
  /\ order[j].status # s
  /\ order' = [order EXCEPT ![j].status = s]
  /\ Touch(j, "admin")
  /\ UNCHANGED <<redis, stock, inStock, bull, wk, stripe, hook, warehouse>>

Webhook(h) == SavePaid(h) \/ SendMail(h) \/ CreatePicking(h) \/ PickingRefused(h)

PaymentsNext ==
  \/ Next /\ UNCHANGED paymentVars
  \/ \E j \in CardJobs :
       Decline(j) \/ Charge(j) \/ HandleDeclined(j) \/ \E h \in Hooks : ReadOrder(h, j)
  \/ \E h \in Hooks : Webhook(h) \/ HookFails(h)
  \/ \E j \in Jobs, s \in AdminStatuses : SetStatus(j, s)

(***************************************************************************)
(* Fairness: a handler goes on, and Stripe delivers an event again until   *)
(* it is acknowledged.  Customers, operators and errors are free.          *)
(***************************************************************************)
PaymentsSpec ==
  /\ PaymentsInit /\ [][PaymentsNext]_allVars
  /\ \A h \in Hooks : WF_allVars(Webhook(h))
  /\ \A j \in CardJobs :
       WF_allVars(Succeeded(j) \notin acked /\ \E h \in Hooks : ReadOrder(h, j))

-----------------------------------------------------------------------------
\* Type invariant.
PaymentsTypeOK ==
  /\ order \in [Jobs -> OrderFields]
  /\ intent \in [CardJobs -> {"open", "declined", "charged", "charged late"}]
  /\ deliveries \in [Events -> 0..MaxDeliveries]
  /\ acked \subseteq Events
  /\ hookErrors \in 0..MaxHookErrors
  /\ hook \in [Hooks -> [pc : {"idle", "save", "mail", "pick"},
                         event : Events \cup {NoEvent}, seen : OrderFields]]
  /\ picked \subseteq CardJobs /\ unpicked \subseteq CardJobs
  /\ touched \in [Jobs -> SUBSET {"succeeded", "failed", "admin"}]

\* A card order that counts as revenue (admin.ts:34 adds up the orders that are
\* "paid") or that the warehouse packs has been charged, in whatever order
\* events, their repetitions, the queue and the operators write.
PaidMeansCharged ==
  \A j \in CardJobs : order[j].payment = "paid" \/ j \in picked => Charged(j)

\* An order shows the end of its job unless a payment event or an operator has
\* written it: a confirmed order without units, or units taken for an order
\* that is not confirmed, has no other cause than those two
\* (orders.ts:85-86, 130-136).
StatusHasCause ==
  \A j \in Jobs :
    /\ job[j].state = "completed" /\ order[j].status # "confirmed"
         => touched[j] \cap {"failed", "admin"} # {}
    /\ job[j].state = "failed" /\ order[j].status # "failed"
         => touched[j] # {}

\* A charge the shop was told of is not shown as unpaid unless a decline was
\* handled as well, or an attempt of the order's job failed.
ChargeShown ==
  \A j \in CardJobs :
    Succeeded(j) \in acked /\ order[j].payment \notin {"paid", "completed"} =>
      "failed" \in touched[j] \/ job[j].attempts > 0
        \/ \E w \in Workers : wk[w].pc = "release" /\ wk[w].run.job = j

\* Every charged order reaches picking, over lost answers and repeated events,
\* unless the picking queue refuses it (orders.ts:120-123).
ChargedIsPicked ==
  \A j \in CardJobs : Charged(j) ~> j \in picked \cup unpicked

=============================================================================
