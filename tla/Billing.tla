------------------------------- MODULE Billing -------------------------------
(***************************************************************************)
(* Billing and add-ons of one workspace (apps/api/src/billing, addons).    *)
(* Requests talk to Stripe and mostly wait for its webhooks to change the  *)
(* rows; the webhooks arrive late, repeated and in any order, several at   *)
(* once, and are handled one await at a time.                              *)
(*                                                                         *)
(* The limits of a plan are always written with plan_type and are not kept *)
(* apart from it.  An event carries what Stripe held when it was sent.     *)
(***************************************************************************)
EXTENDS Integers, FiniteSets

CONSTANTS
  Plan,
  Addon, FlowAddon,  \* the add-ons of plans.json; the one AddonGuard asks for
  Request, Handler,  \* requests and webhooks at once
  Nil,
  MaxSubscriptions, MaxEvents,  \* bounds on what Stripe creates and sends
  MaxMishaps         \* bound on failed calls and repeated deliveries

ASSUME BillingAssumption ==
  /\ FlowAddon \in Addon /\ Nil \notin Plan \cup Addon /\ "trial" \notin Plan
  /\ MaxSubscriptions \in Nat \ {0} /\ MaxEvents \in Nat /\ MaxMishaps \in Nat

VARIABLES
  planType, billingStatus, customer, subscription,  \* the row of subscriptions
  addons,        \* workspace_addons by key
  flowsActive,   \* some automation flow has is_active
  conversions,   \* trial_converted_to_paid events
  customers,     \* Stripe: how many customers were made
  sessions,      \* Stripe: checkout sessions not completed yet
  stripe,        \* Stripe: subscriptions, by id
  sent,          \* Stripe: how many events were sent
  events,        \* Stripe: events not answered yet
  requests, handlers,  \* where each stands
  crowded,       \* history: two first checkouts at once
  crossed,       \* history: a request that went on a reading since changed
  shuffled,      \* history: an event delivered out of turn
  mishaps

row == <<planType, billingStatus, customer, subscription>>
atStripe == <<customers, sessions, stripe, sent, events>>
history == <<crowded, crossed, shuffled>>
vars == <<row, addons, flowsActive, conversions, atStripe, requests, handlers,
          history, mishaps>>

-----------------------------------------------------------------------------
BillingStatus == {"active", "past_due", "cancelled"}
AddonRow == [status : {"absent", "active", "cancelled"}, item : Nat]
Absent == [status |-> "absent", item |-> 0]

(* Items are numbered; 0 is none.                                          *)
StripeSubscription ==
  [customer : Nat, plan : Plan \cup {Nil}, status : {"none", "active", "past_due", "deleted"},
   items : [Addon -> Nat]]
NoItems == [a \in Addon |-> 0]
NoSubscription == [customer |-> 0, plan |-> Nil, status |-> "none", items |-> NoItems]

Event == [n : 1..MaxEvents, kind : {"checkout", "updated", "deleted", "payment_failed"},
          sub : 1..MaxSubscriptions, of : StripeSubscription]

Idle == [op |-> "none", pc |-> "idle", plan |-> Nil, addon |-> Nil, id |-> 0]
RequestState ==
  [op : {"none", "checkout", "subscribe", "cancel", "flow"},
   pc : {"idle", "customer", "saveCustomer", "session", "item", "deleteItem", "write", "flow"},
   plan : Plan \cup {Nil}, addon : Addon \cup {Nil}, id : Nat]

HandlerIdle == [pc |-> "idle", event |-> Nil, wasTrial |-> FALSE, todo |-> {}, addon |-> Nil]
HandlerState ==
  [pc : {"idle", "plan", "convert", "status", "addons", "activate", "cancel", "flows",
         "revert", "pastDue"},
   event : Event \cup {Nil}, wasTrial : BOOLEAN, todo : SUBSET Addon,
   addon : Addon \cup {Nil}]

(* A workspace on trial, or one whose first checkout was paid and handled. *)
Init ==
  /\ \/ /\ planType = "trial" /\ customer = 0 /\ subscription = 0 /\ customers = 0
        /\ stripe = [s \in 1..MaxSubscriptions |-> NoSubscription] /\ conversions = 0
     \/ /\ planType \in Plan /\ customer = 1 /\ subscription = 1 /\ customers = 1
        /\ stripe = [s \in 1..MaxSubscriptions |->
                       IF s > 1 THEN NoSubscription
                       ELSE [customer |-> 1, plan |-> planType, status |-> "active",
                             items |-> NoItems]]
        /\ conversions = 1
  /\ billingStatus = "active" /\ addons = [a \in Addon |-> Absent] /\ flowsActive = FALSE
  /\ sessions = {} /\ sent = 0 /\ events = {}
  /\ requests = [q \in Request |-> Idle] /\ handlers = [h \in Handler |-> HandlerIdle]
  /\ crowded = FALSE /\ crossed = FALSE /\ shuffled = FALSE /\ mishaps = 0

-----------------------------------------------------------------------------
(* Requests.                                                               *)
At(q, op, pc) == requests[q].op = op /\ requests[q].pc = pc
Goto(q, pc) == requests' = [requests EXCEPT ![q].pc = pc]
Reply(q) == requests' = [requests EXCEPT ![q] = Idle]
Begin(q, request) ==
  /\ requests[q].pc = "idle"
  /\ requests' = [requests EXCEPT ![q] = request]
  /\ UNCHANGED <<row, addons, flowsActive, conversions, atStripe, handlers, history, mishaps>>

(* createCheckoutSession, ensureCustomer.                                  *)
CheckoutRead(q, p) ==
  Begin(q, [Idle EXCEPT !.op = "checkout", !.plan = p, !.id = customer,
                        !.pc = IF customer = 0 THEN "customer" ELSE "session"])

CustomerCreate(q) ==
  /\ At(q, "checkout", "customer")
  /\ customers' = customers + 1
  /\ requests' = [requests EXCEPT ![q].pc = "saveCustomer", ![q].id = customers + 1]
  /\ crowded' = (crowded \/ customer # 0
                   \/ \E r \in Request \ {q} : requests[r].pc \in {"customer", "saveCustomer"})
  /\ UNCHANGED <<row, addons, flowsActive, conversions, sessions, stripe, sent, events,
                 handlers, crossed, shuffled, mishaps>>

(* The first form forgets the new customer.                                *)
CustomerSaveForgetting(q) ==
  /\ At(q, "checkout", "saveCustomer")
  /\ Goto(q, "session")
  /\ UNCHANGED <<row, addons, flowsActive, conversions, atStripe, handlers, history, mishaps>>
CustomerSave(q) ==
  /\ At(q, "checkout", "saveCustomer")
  /\ customer' = requests[q].id
  /\ Goto(q, "session")
  /\ UNCHANGED <<planType, billingStatus, subscription, addons, flowsActive, conversions,
                 atStripe, handlers, history, mishaps>>

SessionCreate(q) ==
  /\ At(q, "checkout", "session")
  /\ sessions' = sessions \cup {[customer |-> requests[q].id, plan |-> requests[q].plan]}
  /\ Reply(q)
  /\ UNCHANGED <<row, addons, flowsActive, conversions, customers, stripe, sent, events,
                 handlers, history, mishaps>>

(* Stripe sends an event about subscription s, as it is from now on.       *)
Sends(kinds, s, new) ==
  /\ sent + Cardinality(kinds) <= MaxEvents
  /\ stripe' = [stripe EXCEPT ![s] = new]
  /\ sent' = sent + Cardinality(kinds)
  /\ \E number \in [kinds -> (sent + 1)..(sent + Cardinality(kinds))] :
       /\ \A k, l \in kinds : number[k] = number[l] => k = l
       /\ events' = events \cup {[n |-> number[k], kind |-> k, sub |-> s, of |-> new] : k \in kinds}

(* subscribe: the row is changed by the webhook.  Stripe refuses a second  *)
(* item of one price, and any item on a subscription that has ended.       *)
SubscribeRead(q, a) ==
  /\ addons[a].status # "active" /\ subscription # 0
  /\ Begin(q, [Idle EXCEPT !.op = "subscribe", !.pc = "item", !.addon = a, !.id = subscription])

ItemCreate(q) ==
  LET s == requests[q].id  a == requests[q].addon IN
  /\ At(q, "subscribe", "item")
  /\ IF stripe[s].status # "deleted" /\ stripe[s].items[a] = 0
       THEN Sends({"updated"}, s, [stripe[s] EXCEPT !.items[a] = sent + 1])
       ELSE UNCHANGED <<stripe, sent, events>>
  /\ crossed' = (crossed \/ \E r \in Request : requests[r].op = "cancel" /\ requests[r].pc = "write")
  /\ Reply(q)
  /\ UNCHANGED <<row, addons, flowsActive, conversions, customers, sessions, handlers,
                 crowded, shuffled, mishaps>>

(* cancel: the item first, then row and flows in one transaction.          *)
CancelRead(q, a) ==
  /\ addons[a].status = "active"
  /\ Begin(q, [Idle EXCEPT !.op = "cancel", !.pc = "deleteItem", !.addon = a,
                           !.id = addons[a].item])

ItemDelete(q) ==
  LET a == requests[q].addon
      held == {s \in 1..MaxSubscriptions :
                 stripe[s].status # "deleted" /\ stripe[s].items[a] = requests[q].id} IN
  /\ At(q, "cancel", "deleteItem")
  /\ IF held = {} THEN Reply(q) /\ UNCHANGED <<stripe, sent, events>>
     ELSE /\ \E s \in held : Sends({"updated"}, s, [stripe[s] EXCEPT !.items[a] = 0])
          /\ Goto(q, "write")
  /\ UNCHANGED <<row, addons, flowsActive, conversions, customers, sessions, handlers,
                 history, mishaps>>

(* A flow request that passed the guard is still to write is_active.       *)
FlowPassed == \E q \in Request : requests[q].pc = "flow"

CancelWrite(q) ==
  /\ At(q, "cancel", "write")
  /\ addons' = [addons EXCEPT ![requests[q].addon].status = "cancelled"]
  /\ flowsActive' = FALSE
  /\ crossed' = (crossed \/ FlowPassed)
  /\ Reply(q)
  /\ UNCHANGED <<row, conversions, atStripe, handlers, crowded, shuffled, mishaps>>

(* AddonGuard, before a flow is created or switched on.                    *)
GuardPasses(q) ==
  /\ addons[FlowAddon].status = "active"
  /\ Begin(q, [Idle EXCEPT !.op = "flow", !.pc = "flow"])

FlowOn(q) ==
  /\ At(q, "flow", "flow")
  /\ flowsActive' = TRUE
  /\ Reply(q)
  /\ UNCHANGED <<row, addons, conversions, atStripe, handlers, history, mishaps>>

-----------------------------------------------------------------------------
(* Webhooks.                                                               *)
Resume(h, pc) == handlers' = [handlers EXCEPT ![h].pc = pc]
Answer(h) == handlers' = [handlers EXCEPT ![h] = HandlerIdle]

(* The first read of each handler; only events of the customer on the row  *)
(* find a workspace.  Of events delivered one at a time and in their order *)
(* none is out of turn.                                                    *)
FirstStep(kind) ==
  CASE kind = "checkout" -> "plan" [] kind = "updated" -> "status"
    [] kind = "deleted" -> "revert" [] OTHER -> "pastDue"

Deliver(h, e, again) ==
  /\ handlers[h].pc = "idle" /\ e \in events
  /\ events' = IF again THEN events ELSE events \ {e}
  /\ handlers' =
       IF e.kind # "checkout" /\ e.of.customer # customer THEN handlers
       ELSE [handlers EXCEPT ![h] = [HandlerIdle EXCEPT !.pc = FirstStep(e.kind), !.event = e,
                                       !.wasTrial = planType = "trial"]]
  /\ shuffled' = (shuffled \/ again \/ (\E f \in events : f.n < e.n)
                    \/ \E g \in Handler \ {h} : handlers[g].pc # "idle")
  /\ IF again THEN mishaps < MaxMishaps /\ mishaps' = mishaps + 1 ELSE UNCHANGED mishaps
  /\ UNCHANGED <<row, addons, flowsActive, conversions, customers, sessions, stripe, sent,
                 requests, crowded, crossed>>

(* onCheckoutCompleted, recordTrialConvertedEvent.                         *)
PlanWrite(h) ==
  LET e == handlers[h].event IN
  /\ handlers[h].pc = "plan"
  /\ planType' = e.of.plan /\ billingStatus' = "active" /\ subscription' = e.sub
  /\ IF handlers[h].wasTrial THEN Resume(h, "convert") ELSE Answer(h)
  /\ UNCHANGED <<customer, addons, flowsActive, conversions, atStripe, requests, history, mishaps>>

RecordTrialConverted(h) ==
  /\ handlers[h].pc = "convert"
  /\ conversions' = conversions + 1
  /\ Answer(h)
  /\ UNCHANGED <<row, addons, flowsActive, atStripe, requests, history, mishaps>>

(* onSubscriptionUpdated; the first form does not look at the add-ons.     *)
StatusWriteOnly(h) ==
  /\ handlers[h].pc = "status"
  /\ billingStatus' = handlers[h].event.of.status
  /\ Answer(h)
  /\ UNCHANGED <<planType, customer, subscription, addons, flowsActive, conversions, atStripe,
                 requests, history, mishaps>>
StatusWrite(h) ==
  /\ handlers[h].pc = "status"
  /\ billingStatus' = handlers[h].event.of.status
  /\ handlers' = [handlers EXCEPT ![h].pc = "addons", ![h].todo = Addon]
  /\ UNCHANGED <<planType, customer, subscription, addons, flowsActive, conversions, atStripe,
                 requests, history, mishaps>>

(* reconcileAddons: one add-on after the other, read and then written.     *)
Item(h, a) == handlers[h].event.of.items[a]
Verdict(h, a) ==
  IF Item(h, a) # 0 /\ addons[a].status # "active" THEN "activate"
  ELSE IF Item(h, a) = 0 /\ addons[a].status = "active" THEN "cancel" ELSE "addons"

AddonRead(h, a) ==
  /\ handlers[h].pc = "addons" /\ a \in handlers[h].todo
  /\ handlers' = [handlers EXCEPT ![h].todo = @ \ {a}, ![h].pc = Verdict(h, a), ![h].addon = a]
  /\ UNCHANGED <<row, addons, flowsActive, conversions, atStripe, requests, history, mishaps>>

AddonsDone(h) ==
  /\ handlers[h].pc = "addons" /\ handlers[h].todo = {}
  /\ Answer(h)
  /\ UNCHANGED <<row, addons, flowsActive, conversions, atStripe, requests, history, mishaps>>

AddonActivate(h) ==
  LET a == handlers[h].addon IN
  /\ handlers[h].pc = "activate"
  /\ addons' = [addons EXCEPT ![a] = [status |-> "active", item |-> Item(h, a)]]
  /\ Resume(h, "addons")
  /\ UNCHANGED <<row, flowsActive, conversions, atStripe, requests, history, mishaps>>

(* The first form leaves the flows alone.                                  *)
AddonCancelOnly(h) ==
  /\ handlers[h].pc = "cancel"
  /\ addons' = [addons EXCEPT ![handlers[h].addon].status = "cancelled"]
  /\ Resume(h, "addons")
  /\ UNCHANGED <<row, flowsActive, conversions, atStripe, requests, history, mishaps>>
AddonCancel(h) ==
  /\ handlers[h].pc = "cancel"
  /\ addons' = [addons EXCEPT ![handlers[h].addon].status = "cancelled"]
  /\ Resume(h, "flows")
  /\ UNCHANGED <<row, flowsActive, conversions, atStripe, requests, history, mishaps>>

DeactivateAutomationFlows(h) ==
  /\ handlers[h].pc = "flows"
  /\ flowsActive' = FALSE
  /\ crossed' = (crossed \/ FlowPassed)
  /\ Resume(h, "addons")
  /\ UNCHANGED <<row, addons, conversions, atStripe, requests, crowded, shuffled, mishaps>>

(* onSubscriptionDeleted and onPaymentFailed.                              *)
RevertWrite(h) ==
  /\ handlers[h].pc = "revert"
  /\ planType' = "trial" /\ billingStatus' = "cancelled"
  /\ Answer(h)
  /\ UNCHANGED <<customer, subscription, addons, flowsActive, conversions, atStripe, requests,
                 history, mishaps>>

PastDueWrite(h) ==
  /\ handlers[h].pc = "pastDue"
  /\ billingStatus' = "past_due"
  /\ Answer(h)
  /\ UNCHANGED <<planType, customer, subscription, addons, flowsActive, conversions, atStripe,
                 requests, history, mishaps>>

-----------------------------------------------------------------------------
(* Stripe: a session is paid; a later payment fails or is made up for; the *)
(* subscription ends; an item is taken off in the dashboard.               *)
CheckoutCompletes(x, s) ==
  /\ x \in sessions /\ stripe[s].status = "none"
  /\ \A r \in 1..MaxSubscriptions : r < s => stripe[r].status # "none"
  /\ Sends({"checkout"}, s,
           [customer |-> x.customer, plan |-> x.plan, status |-> "active", items |-> NoItems])
  /\ sessions' = sessions \ {x}
  /\ UNCHANGED <<row, addons, flowsActive, conversions, customers, requests, handlers,
                 history, mishaps>>

Alive(s) == stripe[s].status \in {"active", "past_due"}
StripeChanges(kinds, s, new) ==
  /\ Alive(s) /\ Sends(kinds, s, new)
  /\ UNCHANGED <<row, addons, flowsActive, conversions, customers, sessions, requests,
                 handlers, history, mishaps>>
PaymentFails(s) ==
  stripe[s].status = "active"
    /\ StripeChanges({"payment_failed", "updated"}, s, [stripe[s] EXCEPT !.status = "past_due"])
PaymentRecovers(s) ==
  stripe[s].status = "past_due"
    /\ StripeChanges({"updated"}, s, [stripe[s] EXCEPT !.status = "active"])
SubscriptionEnds(s) == StripeChanges({"deleted"}, s, [stripe[s] EXCEPT !.status = "deleted"])
ItemRemoved(s, a) ==
  stripe[s].items[a] # 0 /\ StripeChanges({"updated"}, s, [stripe[s] EXCEPT !.items[a] = 0])

(* A call throws; Stripe sends an event again whose handler threw.         *)
RequestFails(q) ==
  /\ mishaps < MaxMishaps /\ mishaps' = mishaps + 1
  /\ requests[q].pc # "idle" /\ Reply(q)
  /\ UNCHANGED <<row, addons, flowsActive, conversions, atStripe, handlers, history>>

HandlerFails(h) ==
  /\ mishaps < MaxMishaps /\ mishaps' = mishaps + 1
  /\ handlers[h].pc # "idle" /\ Answer(h)
  /\ events' = events \cup {handlers[h].event}
  /\ UNCHANGED <<row, addons, flowsActive, conversions, customers, sessions, stripe, sent,
                 requests, history>>

-----------------------------------------------------------------------------
RequestStep(q) ==
  \/ \E p \in Plan : CheckoutRead(q, p)
  \/ CustomerCreate(q) \/ CustomerSave(q) \/ SessionCreate(q)
  \/ \E a \in Addon : SubscribeRead(q, a) \/ CancelRead(q, a)
  \/ ItemCreate(q) \/ ItemDelete(q) \/ CancelWrite(q)
  \/ GuardPasses(q) \/ FlowOn(q) \/ RequestFails(q)

HandlerStep(h) ==
  \/ \E e \in events, again \in BOOLEAN : Deliver(h, e, again)
  \/ PlanWrite(h) \/ RecordTrialConverted(h) \/ StatusWrite(h) \/ AddonsDone(h)
  \/ \E a \in Addon : AddonRead(h, a)
  \/ AddonActivate(h) \/ AddonCancel(h) \/ DeactivateAutomationFlows(h)
  \/ RevertWrite(h) \/ PastDueWrite(h) \/ HandlerFails(h)

StripeStep(s) ==
  \/ \E x \in sessions : CheckoutCompletes(x, s)
  \/ PaymentFails(s) \/ PaymentRecovers(s) \/ SubscriptionEnds(s)
  \/ \E a \in Addon : ItemRemoved(s, a)

Next ==
  \/ \E q \in Request : RequestStep(q)
  \/ \E h \in Handler : HandlerStep(h)
  \/ \E s \in 1..MaxSubscriptions : StripeStep(s)

Spec == Init /\ [][Next]_vars

-----------------------------------------------------------------------------
(* The types of the variables.                                             *)
TypeOK ==
  /\ planType \in Plan \cup {"trial"} /\ billingStatus \in BillingStatus
  /\ customer \in 0..customers /\ subscription \in 0..MaxSubscriptions
  /\ addons \in [Addon -> AddonRow] /\ flowsActive \in BOOLEAN
  /\ conversions \in Nat /\ customers \in Nat
  /\ sessions \subseteq [customer : Nat, plan : Plan]
  /\ stripe \in [1..MaxSubscriptions -> StripeSubscription]
  /\ sent \in 0..MaxEvents /\ events \subseteq Event
  /\ requests \in [Request -> RequestState] /\ handlers \in [Handler -> HandlerState]
  /\ crowded \in BOOLEAN /\ crossed \in BOOLEAN /\ shuffled \in BOOLEAN /\ mishaps \in Nat

(* When everything sent was handled, one event at a time and in order, and *)
(* nothing failed or crossed, the rows say what Stripe says of the         *)
(* workspace's only subscription: its status, its plan and its add-ons, or *)
(* that it ended.  The rows of the add-ons say nothing of that end: it     *)
(* leaves them active.                                                     *)
Quiet ==
  /\ events = {} /\ \A h \in Handler : handlers[h].pc = "idle"
  /\ \A q \in Request : requests[q].pc # "write"
Mirrors(s) ==
  /\ subscription = s
  /\ Alive(s) => /\ planType = stripe[s].plan /\ billingStatus = stripe[s].status
                 /\ \A a \in Addon : addons[a].status = "active" <=> stripe[s].items[a] # 0
  /\ ~Alive(s) => planType = "trial" /\ billingStatus = "cancelled"
Subscriptions == {s \in 1..MaxSubscriptions : stripe[s].status # "none"}
SettledMirrors ==
  Quiet /\ ~crowded /\ ~crossed /\ ~shuffled /\ mishaps = 0 /\ Cardinality(Subscriptions) = 1
    => \A s \in Subscriptions : Mirrors(s)

(* Flows only stay on without the add-on while somebody is about to switch *)
(* them off, unless a flow request went past the guard before the add-on   *)
(* was cancelled, or a handler failed between the two writes (spec 053,    *)
(* CA-04).                                                                 *)
CancelledStopsFlows ==
  flowsActive /\ addons[FlowAddon].status # "active" /\ ~crossed /\ mishaps = 0
    => \/ \E h \in Handler : handlers[h].pc = "flows"
       \/ \E q \in Request : At(q, "flow", "flow")

(* Every subscription paid at Stripe belongs to the customer on the row,   *)
(* whose events find the workspace, unless two first checkouts ran at once *)
(* or one failed before it kept its customer.                              *)
SubscriptionIsOurs ==
  crowded \/ mishaps > 0 \/ \A s \in Subscriptions : stripe[s].customer = customer
=============================================================================
