--------------------------- MODULE BillingProofs ---------------------------
(***************************************************************************)
(* Theorems about Billing, for every set of plans, add-ons, requests and   *)
(* handlers, and any number of subscriptions, events and faults.           *)
(***************************************************************************)
EXTENDS Billing, FiniteSetTheorems, TLAPS

USE BillingAssumption DEF BillingAssumption

-----------------------------------------------------------------------------
(* An event is pending until its handler is through with it.               *)
Busy(h) == handlers[h].pc # "idle"
Pending(e) == e \in events \/ \E h \in Handler : Busy(h) /\ handlers[h].event = e

(* A subscription of Stripe, once there, stays and keeps plan and customer.*)
Known(s) == s \in 1..MaxSubscriptions /\ stripe[s].status # "none"
SubscriptionInv ==
  \A s \in 1..MaxSubscriptions :
    IF stripe[s].status = "none" THEN stripe[s] = NoSubscription
                                 ELSE stripe[s].plan \in Plan

(* What an event says, and what of it stays true.                          *)
Says(e) ==
  /\ e \in Event /\ e.n <= sent /\ Known(e.sub)
  /\ e.of.plan = stripe[e.sub].plan /\ e.of.customer = stripe[e.sub].customer
  /\ e.kind = "checkout" => e.of.status = "active"
  /\ e.kind = "payment_failed" => e.of.status = "past_due"
  /\ e.kind = "updated" => e.of.status \in {"active", "past_due"}
  /\ e.kind = "deleted" => stripe[e.sub].status = "deleted"
EventInv == \A e : Pending(e) => Says(e)

(* Where a handler may be with its event.                                  *)
Handles(h) ==
  LET x == handlers[h] IN
  /\ Busy(h) => x.event \in Event
  /\ x.pc \in {"plan", "convert"} => x.event.kind = "checkout"
  /\ x.pc \in {"status", "addons", "activate", "cancel", "flows"} => x.event.kind = "updated"
  /\ x.pc = "revert" => x.event.kind = "deleted"
  /\ x.pc = "pastDue" => x.event.kind = "payment_failed"
  /\ x.pc \in {"activate", "cancel"} => x.addon \in Addon
  /\ x.pc = "activate" => Item(h, x.addon) # 0
  /\ x.pc = "cancel" => Item(h, x.addon) = 0

(* What a request carries.                                                 *)
Carries(q) ==
  LET r == requests[q] IN
  /\ r.pc \in {"customer", "saveCustomer", "session"} => r.op = "checkout" /\ r.plan \in Plan
  /\ r.pc = "saveCustomer" => r.id \in 1..customers
  /\ r.pc = "item" => r.op = "subscribe" /\ r.addon \in Addon /\ Known(r.id)
  /\ r.pc \in {"deleteItem", "write"} => r.op = "cancel" /\ r.addon \in Addon /\ \E s : Known(s)
  /\ r.pc = "deleteItem" => r.id # 0
  /\ r.pc = "flow" => r.op = "flow"

TypeInv ==
  /\ TypeOK
  /\ SubscriptionInv /\ EventInv
  /\ \A h \in Handler : Handles(h)
  /\ \A q \in Request : Carries(q)
  /\ subscription # 0 => Known(subscription)
  /\ \A a \in Addon : addons[a].status = "active" => addons[a].item # 0 /\ \E s : Known(s)

(* Without faults, a flow that is on without its add-on, or about to be,   *)
(* has a handler on its way to switch it off.                              *)
FlowsInv ==
  ~crossed /\ mishaps = 0 /\ addons[FlowAddon].status # "active" /\ (flowsActive \/ FlowPassed)
    => \E h \in Handler : handlers[h].pc = "flows"

(* Without a crowd of first checkouts, there is only one customer.         *)
OursInv ==
  ~crowded /\ mishaps = 0 =>
    /\ \A q \in Request :
         /\ requests[q].pc = "saveCustomer" =>
              customer = 0 /\ \A r \in Request : requests[r].pc = "saveCustomer" => r = q
         /\ requests[q].pc = "session" => customer # 0 /\ requests[q].id = customer
    /\ \A x \in sessions : customer # 0 /\ x.customer = customer
    /\ \A s : Known(s) => customer # 0 /\ stripe[s].customer = customer

-----------------------------------------------------------------------------
(* Events in turn: one handler at a time, with the oldest event.           *)
TurnInv ==
  ~shuffled =>
    /\ \A g, h \in Handler : Busy(g) /\ Busy(h) => g = h
    /\ \A h \in Handler, f \in events : Busy(h) => handlers[h].event.n < f.n
    /\ \A e, f \in events : e.n = f.n => e = f

Calm == ~crowded /\ ~crossed /\ ~shuffled /\ mishaps = 0
Only(s) == Known(s) /\ \A r : Known(r) => r = s

(* The newest event, and the newest of the kind that carries the items,    *)
(* say what Stripe says now.                                               *)
NewestSays(s) ==
  /\ \A e : Pending(e) /\ (\A f : Pending(f) => f.n <= e.n) => e.of = stripe[s]
  /\ \A e : Pending(e) /\ e.kind = "updated"
              /\ (\A f : Pending(f) /\ f.kind = "updated" => f.n <= e.n)
       => e.of.items = stripe[s].items

(* Nothing is sent after the end of a subscription.                        *)
EndIsLast(s) ==
  stripe[s].status = "deleted" =>
    \/ \E e : Pending(e) /\ e.kind = "deleted" /\ \A f : Pending(f) => f = e \/ f.n < e.n
    \/ (\A f : ~Pending(f)) /\ planType = "trial" /\ billingStatus = "cancelled"

(* A cancellation in progress has taken its item off at Stripe.            *)
ItemIsOff(s) ==
  \A q \in Request : requests[q].pc = "write" => stripe[s].items[requests[q].addon] = 0

PlanDue ==
  \/ \E e \in events : e.kind = "checkout"
  \/ \E h \in Handler : handlers[h].pc = "plan"
PlanInv(s) ==
  PlanDue \/ (subscription = s /\ (stripe[s].status # "deleted" => planType = stripe[s].plan))

StatusDue == events # {} \/ \E h \in Handler : handlers[h].pc \in {"plan", "status", "pastDue"}
StatusInv(s) ==
  stripe[s].status # "deleted" => StatusDue \/ billingStatus = stripe[s].status

HandlerDue(h, a) ==
  \/ handlers[h].pc = "status"
  \/ handlers[h].pc \in {"addons", "activate", "cancel", "flows"} /\ a \in handlers[h].todo
  \/ handlers[h].pc \in {"activate", "cancel"} /\ handlers[h].addon = a
AddonDue(a) ==
  (\E e \in events : e.kind = "updated") \/ \E h \in Handler : HandlerDue(h, a)
AddonSettled(s, a) ==
  \/ addons[a].status = "active" <=> stripe[s].items[a] # 0
  \/ \E q \in Request : requests[q].pc = "write" /\ requests[q].addon = a
AddonsInv(s) == \A a \in Addon : AddonDue(a) \/ AddonSettled(s, a)

MirrorInv ==
  Calm => \A s : Only(s) =>
    /\ NewestSays(s) /\ EndIsLast(s) /\ ItemIsOff(s)
    /\ PlanInv(s) /\ StatusInv(s) /\ AddonsInv(s)

-----------------------------------------------------------------------------
(* What a step does to the record of a request, or of a handler, and that  *)
(* it leaves the others alone.                                             *)
Alone(q) ==
  /\ requests' \in [Request -> RequestState]
  /\ \A r \in Request \ {q} : requests'[r] = requests[r]
HandlerAlone(h) ==
  /\ handlers' \in [Handler -> HandlerState]
  /\ \A g \in Handler \ {h} : handlers'[g] = handlers[g]

LEMMA IdleType == Idle \in RequestState /\ HandlerIdle \in HandlerState
  BY DEF Idle, RequestState, HandlerIdle, HandlerState

LEMMA ReplyFields ==
  ASSUME TypeOK, NEW q \in Request, Reply(q)
  PROVE  Alone(q) /\ requests'[q] = Idle
  BY IdleType DEF TypeOK, Reply, Alone

LEMMA GotoFields ==
  ASSUME TypeOK, NEW q \in Request, NEW pc \in {"session", "write"}, Goto(q, pc)
  PROVE  /\ Alone(q) /\ requests'[q].pc = pc /\ requests'[q].op = requests[q].op
         /\ requests'[q].plan = requests[q].plan /\ requests'[q].addon = requests[q].addon
         /\ requests'[q].id = requests[q].id
<1>1. requests[q] \in RequestState /\ requests \in [Request -> RequestState]
  BY DEF TypeOK
<1> DEFINE s == [requests[q] EXCEPT !.pc = pc]
<1>2. /\ s \in RequestState /\ s.pc = pc /\ s.op = requests[q].op /\ s.id = requests[q].id
      /\ s.plan = requests[q].plan /\ s.addon = requests[q].addon
  BY <1>1 DEF RequestState
<1>3. requests' = [requests EXCEPT ![q] = s]
  BY DEF Goto
<1> HIDE DEF s
<1> QED
  BY <1>1, <1>2, <1>3 DEF Alone

LEMMA BeginFields ==
  ASSUME TypeOK, NEW q \in Request, NEW r \in RequestState, Begin(q, r)
  PROVE  /\ Alone(q) /\ requests'[q] = r /\ requests[q].pc = "idle"
         /\ UNCHANGED <<row, addons, flowsActive, conversions, atStripe, handlers, history,
                        mishaps>>
  BY DEF TypeOK, Begin, Alone

(* The records the requests begin with.                                    *)
LEMMA Beginnings ==
  ASSUME TypeOK
  PROVE  /\ \A p \in Plan :
              LET r == [Idle EXCEPT !.op = "checkout", !.plan = p, !.id = customer,
                          !.pc = IF customer = 0 THEN "customer" ELSE "session"] IN
              /\ r \in RequestState /\ r.op = "checkout" /\ r.plan = p /\ r.id = customer
              /\ r.pc \in {"customer", "session"} /\ (r.pc = "session" => customer # 0)
         /\ \A a \in Addon :
              LET r == [Idle EXCEPT !.op = "subscribe", !.pc = "item", !.addon = a,
                          !.id = subscription] IN
              /\ r \in RequestState /\ r.op = "subscribe" /\ r.pc = "item" /\ r.addon = a
              /\ r.id = subscription
         /\ \A a \in Addon :
              LET r == [Idle EXCEPT !.op = "cancel", !.pc = "deleteItem", !.addon = a,
                          !.id = addons[a].item] IN
              /\ r \in RequestState /\ r.op = "cancel" /\ r.pc = "deleteItem" /\ r.addon = a
              /\ r.id = addons[a].item
         /\ LET r == [Idle EXCEPT !.op = "flow", !.pc = "flow"] IN
              r \in RequestState /\ r.op = "flow" /\ r.pc = "flow"
<1>1. customer \in Nat /\ subscription \in Nat /\ \A a \in Addon : addons[a].item \in Nat
  BY DEF TypeOK, AddonRow
<1> QED
  BY <1>1 DEF Idle, RequestState

LEMMA CreateFields ==
  ASSUME TypeOK, NEW q \in Request, CustomerCreate(q)
  PROVE  /\ Alone(q) /\ requests'[q].pc = "saveCustomer" /\ requests'[q].op = requests[q].op
         /\ requests'[q].plan = requests[q].plan /\ requests'[q].addon = requests[q].addon
         /\ requests'[q].id = customers + 1
<1>1. requests[q] \in RequestState /\ requests \in [Request -> RequestState] /\ customers \in Nat
  BY DEF TypeOK
<1> DEFINE n == customers + 1
           s == [requests[q] EXCEPT !.pc = "saveCustomer", !.id = n]
<1>2. n \in Nat
  BY <1>1
<1>3. requests' = [requests EXCEPT ![q] = s]
  BY DEF CustomerCreate
<1> HIDE DEF n
<1>4. /\ s \in RequestState /\ s.pc = "saveCustomer" /\ s.op = requests[q].op
      /\ s.id = n /\ s.plan = requests[q].plan /\ s.addon = requests[q].addon
  BY <1>1, <1>2 DEF RequestState
<1> HIDE DEF s
<1>5. Alone(q) /\ requests'[q] = s
  BY <1>1, <1>3, <1>4 DEF Alone
<1> QED
  BY <1>4, <1>5 DEF n

LEMMA AnswerFields ==
  ASSUME TypeOK, NEW h \in Handler, Answer(h)
  PROVE  HandlerAlone(h) /\ handlers'[h] = HandlerIdle
  BY IdleType DEF TypeOK, Answer, HandlerAlone

HandlerPc == {"idle", "plan", "convert", "status", "addons", "activate", "cancel", "flows",
              "revert", "pastDue"}

LEMMA ResumeFields ==
  ASSUME TypeOK, NEW h \in Handler, NEW pc \in HandlerPc, Resume(h, pc)
  PROVE  /\ HandlerAlone(h) /\ handlers'[h].pc = pc /\ handlers'[h].event = handlers[h].event
         /\ handlers'[h].todo = handlers[h].todo /\ handlers'[h].addon = handlers[h].addon
<1>1. handlers[h] \in HandlerState /\ handlers \in [Handler -> HandlerState]
  BY DEF TypeOK
<1> DEFINE s == [handlers[h] EXCEPT !.pc = pc]
<1>2. /\ s \in HandlerState /\ s.pc = pc /\ s.event = handlers[h].event
      /\ s.todo = handlers[h].todo /\ s.addon = handlers[h].addon
  BY <1>1 DEF HandlerState, HandlerPc
<1>3. handlers' = [handlers EXCEPT ![h] = s]
  BY DEF Resume
<1> HIDE DEF s
<1> QED
  BY <1>1, <1>2, <1>3 DEF HandlerAlone

LEMMA StatusFields ==
  ASSUME TypeOK, NEW h \in Handler, StatusWrite(h)
  PROVE  /\ HandlerAlone(h) /\ handlers'[h].pc = "addons" /\ handlers'[h].todo = Addon
         /\ handlers'[h].event = handlers[h].event
<1>1. handlers[h] \in HandlerState /\ handlers \in [Handler -> HandlerState]
  BY DEF TypeOK
<1> DEFINE s == [handlers[h] EXCEPT !.pc = "addons", !.todo = Addon]
<1>2. /\ s \in HandlerState /\ s.pc = "addons" /\ s.event = handlers[h].event
      /\ s.todo = Addon
  BY <1>1 DEF HandlerState
<1>3. handlers' = [handlers EXCEPT ![h] = s]
  BY DEF StatusWrite
<1> HIDE DEF s
<1> QED
  BY <1>1, <1>2, <1>3 DEF HandlerAlone

LEMMA ReadFields ==
  ASSUME TypeOK, NEW h \in Handler, NEW a \in Addon, AddonRead(h, a)
  PROVE  /\ HandlerAlone(h) /\ handlers'[h].pc = Verdict(h, a) /\ handlers'[h].addon = a
         /\ handlers'[h].todo = handlers[h].todo \ {a}
         /\ handlers'[h].event = handlers[h].event
<1>1. handlers[h] \in HandlerState /\ handlers \in [Handler -> HandlerState]
  BY DEF TypeOK
<1>2. Verdict(h, a) \in {"activate", "cancel", "addons"}
  BY DEF Verdict
<1> DEFINE v == Verdict(h, a)
           s == [handlers[h] EXCEPT !.todo = handlers[h].todo \ {a}, !.pc = v, !.addon = a]
<1>3. handlers' = [handlers EXCEPT ![h] = s]
  BY DEF AddonRead
<1> HIDE DEF v
<1>4. /\ s \in HandlerState /\ s.pc = v /\ s.event = handlers[h].event
      /\ s.todo = handlers[h].todo \ {a} /\ s.addon = a
  BY <1>1, <1>2 DEF HandlerState, v
<1> HIDE DEF s
<1>5. HandlerAlone(h) /\ handlers'[h] = s
  BY <1>1, <1>3, <1>4 DEF HandlerAlone
<1> QED
  BY <1>4, <1>5 DEF v

(* A delivery: the handler takes the event, or no workspace is found.      *)
LEMMA DeliverFields ==
  ASSUME TypeInv, NEW h \in Handler, NEW e \in events, NEW again \in BOOLEAN,
         Deliver(h, e, again)
  PROVE  \/ handlers' = handlers /\ e.kind # "checkout" /\ e.of.customer # customer
         \/ /\ HandlerAlone(h) /\ handlers'[h].pc = FirstStep(e.kind)
            /\ handlers'[h].event = e
<1>1. handlers \in [Handler -> HandlerState] /\ e \in Event
  BY DEF TypeInv, TypeOK
<1> DEFINE s == [HandlerIdle EXCEPT !.pc = FirstStep(e.kind), !.event = e,
                                    !.wasTrial = planType = "trial"]
<1>2. FirstStep(e.kind) \in {"plan", "status", "revert", "pastDue"}
  BY DEF FirstStep
<1>3. \/ handlers' = handlers /\ e.kind # "checkout" /\ e.of.customer # customer
      \/ handlers' = [handlers EXCEPT ![h] = s]
  BY DEF Deliver
<1>4. s \in HandlerState /\ s.pc = FirstStep(e.kind) /\ s.event = e
  <2> DEFINE pc == FirstStep(e.kind)
             trial == planType = "trial"
  <2>1. trial \in BOOLEAN /\ pc \in {"plan", "status", "revert", "pastDue"}
    BY <1>2
  <2> HIDE DEF pc, trial
  <2>2. s = [HandlerIdle EXCEPT !.pc = pc, !.event = e, !.wasTrial = trial]
    BY DEF pc, trial
  <2>3. s \in HandlerState /\ s.pc = pc /\ s.event = e
    BY <2>1, <2>2, <1>1, IdleType DEF HandlerState
  <2> QED
    BY <2>3 DEF pc
<1> HIDE DEF s
<1> QED
  BY <1>1, <1>3, <1>4 DEF HandlerAlone

-----------------------------------------------------------------------------
(* What Stripe announces: a new subscription, its end, or a change of a    *)
(* living one.                                                             *)
Kind == {"checkout", "updated", "deleted", "payment_failed"}
Announced == {{"checkout"}, {"updated"}, {"deleted"}, {"payment_failed", "updated"}}
Starts(s, kinds, new) ==
  /\ stripe[s].status = "none" /\ kinds = {"checkout"}
  /\ new.status = "active" /\ new.items = NoItems
Changes(s, kinds, new) ==
  /\ stripe[s].status \in {"active", "past_due"}
  /\ new.plan = stripe[s].plan /\ new.customer = stripe[s].customer
  /\ \/ kinds = {"deleted"} /\ new.status = "deleted" /\ new.items = stripe[s].items
     \/ /\ kinds \in {{"updated"}, {"payment_failed", "updated"}}
        /\ new.status \in {"active", "past_due"}
        /\ "payment_failed" \in kinds => new.status = "past_due"
Announces(s, kinds, new) ==
  /\ s \in 1..MaxSubscriptions /\ kinds \in Announced
  /\ new \in StripeSubscription /\ new.plan \in Plan
  /\ Starts(s, kinds, new) \/ Changes(s, kinds, new)
  /\ Sends(kinds, s, new)

LEMMA AnnouncedFinite == \A kinds \in Announced : IsFiniteSet(kinds)
<1>1. \A k : IsFiniteSet({k})
  BY FS_Singleton
<1>2. IsFiniteSet({"updated"} \cup {"payment_failed"})
  BY <1>1, FS_AddElement
<1>3. {"updated"} \cup {"payment_failed"} = {"payment_failed", "updated"}
  OBVIOUS
<1> QED
  BY <1>1, <1>2, <1>3 DEF Announced

(* The events of an announcement are new, each has a number of its own.    *)
LEMMA SendsFields ==
  ASSUME TypeOK, NEW s, NEW kinds, NEW new, Announces(s, kinds, new)
  PROVE  /\ stripe' \in [1..MaxSubscriptions -> StripeSubscription]
         /\ stripe'[s] = new /\ \A r \in 1..MaxSubscriptions \ {s} : stripe'[r] = stripe[r]
         /\ sent' \in 0..MaxEvents /\ sent <= sent' /\ events' \subseteq Event
         /\ events \subseteq events'
         /\ \A e \in events' \ events :
              /\ e \in Event /\ e.n > sent /\ e.n <= sent' /\ e.kind \in kinds
              /\ e.sub = s /\ e.of = new
         /\ \A k \in kinds : \E e \in events' : e.n > sent /\ e.kind = k /\ e.sub = s /\ e.of = new
         /\ \A e, f \in events' \ events : e.n = f.n \/ e.kind = f.kind => e = f
<1> DEFINE c == Cardinality(kinds)
<1>1. /\ stripe \in [1..MaxSubscriptions -> StripeSubscription] /\ sent \in 0..MaxEvents
      /\ events \subseteq Event /\ s \in 1..MaxSubscriptions /\ new \in StripeSubscription
  BY DEF TypeOK, Announces
<1>2. c \in Nat
  BY AnnouncedFinite, FS_CardinalityType DEF Announces
<1>3. kinds \subseteq Kind
  BY DEF Announces, Announced, Kind
<1>4. sent + c <= MaxEvents /\ stripe' = [stripe EXCEPT ![s] = new] /\ sent' = sent + c
  BY DEF Announces, Sends
<1>5. PICK number \in [kinds -> (sent + 1)..(sent + c)] :
        /\ \A k, l \in kinds : number[k] = number[l] => k = l
        /\ events' = events \cup
                       {[n |-> number[k], kind |-> k, sub |-> s, of |-> new] : k \in kinds}
  BY DEF Announces, Sends
<1> HIDE DEF c
<1>6. \A k \in kinds : number[k] \in 1..MaxEvents /\ number[k] > sent /\ number[k] <= sent'
  BY <1>1, <1>2, <1>4, <1>5
<1> DEFINE E(k) == [n |-> number[k], kind |-> k, sub |-> s, of |-> new]
<1>7. \A k \in kinds : /\ E(k) \in Event /\ E(k).n = number[k] /\ E(k).kind = k
                       /\ E(k).sub = s /\ E(k).of = new
  BY <1>1, <1>3, <1>6 DEF Event, Kind
<1>8. events' = events \cup {E(k) : k \in kinds}
  BY <1>5
<1> HIDE DEF E
<1>9. \A e \in events' \ events : \E k \in kinds : e = E(k)
  BY <1>8
<1>10. \A e, f \in events' \ events : e.n = f.n \/ e.kind = f.kind => e = f
  <2> SUFFICES ASSUME NEW e \in events' \ events, NEW f \in events' \ events,
                      e.n = f.n \/ e.kind = f.kind
               PROVE  e = f
    OBVIOUS
  <2>1. PICK k \in kinds : e = E(k)
    BY <1>9
  <2>2. PICK l \in kinds : f = E(l)
    BY <1>9
  <2>3. k = l
    BY <2>1, <2>2, <1>5, <1>7
  <2> QED
    BY <2>1, <2>2, <2>3
<1>11. \A e \in events' \ events :
         e \in Event /\ e.n > sent /\ e.n <= sent' /\ e.kind \in kinds /\ e.sub = s /\ e.of = new
  BY <1>6, <1>7, <1>9
<1>12. \A k \in kinds : \E e \in events' : e.n > sent /\ e.kind = k /\ e.sub = s /\ e.of = new
  BY <1>6, <1>7, <1>8
<1>13. /\ stripe' \in [1..MaxSubscriptions -> StripeSubscription]
       /\ stripe'[s] = new /\ \A r \in 1..MaxSubscriptions \ {s} : stripe'[r] = stripe[r]
  BY <1>1, <1>4
<1>14. events' \subseteq Event /\ events \subseteq events'
  BY <1>1, <1>7, <1>8
<1> QED
  BY <1>1, <1>2, <1>4, <1>10, <1>11, <1>12, <1>13, <1>14

(* What Stripe knows it keeps.                                             *)
Keeps ==
  /\ sent \in 0..MaxEvents /\ sent' \in 0..MaxEvents /\ sent <= sent'
  /\ \A s : Known(s) =>
       /\ Known(s)' /\ stripe'[s].plan = stripe[s].plan /\ stripe'[s].customer = stripe[s].customer
       /\ stripe[s].status = "deleted" => stripe'[s].status = "deleted"

LEMMA AnnouncementKeeps ==
  ASSUME TypeInv, NEW s, NEW kinds, NEW new, Announces(s, kinds, new)
  PROVE  Keeps /\ SubscriptionInv' /\ Known(s)'
<1>1. /\ s \in 1..MaxSubscriptions /\ stripe'[s] = new
      /\ \A r \in 1..MaxSubscriptions \ {s} : stripe'[r] = stripe[r]
      /\ sent \in 0..MaxEvents /\ sent' \in 0..MaxEvents /\ sent <= sent'
  BY SendsFields DEF TypeInv, TypeOK, Announces
<1>2. /\ new.plan \in Plan /\ new.status # "none"
      /\ \/ stripe[s].status = "none"
         \/ /\ stripe[s].status # "deleted" /\ new.plan = stripe[s].plan
            /\ new.customer = stripe[s].customer
  BY DEF Announces, Starts, Changes
<1>3. SubscriptionInv'
  BY <1>1, <1>2 DEF TypeInv, SubscriptionInv
<1> QED
  BY <1>1, <1>2, <1>3 DEF Keeps, Known

(* The events of an announcement say what is true, and the others go on    *)
(* doing so.                                                               *)
LEMMA StillSays ==
  ASSUME NEW e, Says(e), Keeps
  PROVE  Says(e)'
<1>1. e.n \in Int
  BY DEF Says, Event
<1> QED
  BY <1>1 DEF Says, Keeps

LEMMA AnnouncementSays ==
  ASSUME TypeInv, NEW s, NEW kinds, NEW new, Announces(s, kinds, new),
         NEW e \in events' \ events
  PROVE  Says(e)'
<1>1. /\ e \in Event /\ e.n <= sent' /\ e.kind \in kinds /\ e.sub = s /\ e.of = new
      /\ stripe'[s] = new
  BY SendsFields DEF TypeInv
<1>2. Known(s)'
  BY AnnouncementKeeps
<1>3. /\ e.kind = "checkout" => new.status = "active"
      /\ e.kind = "payment_failed" => new.status = "past_due"
      /\ e.kind = "updated" => new.status \in {"active", "past_due"}
      /\ e.kind = "deleted" => new.status = "deleted"
  BY <1>1 DEF Announces, Starts, Changes
<1> QED
  BY <1>1, <1>2, <1>3 DEF Says

(* The steps that announce something, and what.                            *)
LEMMA SameItems ==
  ASSUME NEW x \in StripeSubscription, NEW status \in {"active", "past_due", "deleted"}
  PROVE  LET new == [x EXCEPT !.status = status] IN
         /\ new \in StripeSubscription /\ new.status = status /\ new.items = x.items
         /\ new.plan = x.plan /\ new.customer = x.customer
  BY DEF StripeSubscription

LEMMA OtherItem ==
  ASSUME NEW x \in StripeSubscription, NEW a \in Addon, NEW i \in Nat
  PROVE  LET new == [x EXCEPT !.items[a] = i] IN
         /\ new \in StripeSubscription /\ new.status = x.status /\ new.plan = x.plan
         /\ new.customer = x.customer /\ new.items[a] = i
         /\ \A b \in Addon \ {a} : new.items[b] = x.items[b]
<1> DEFINE m == [x.items EXCEPT ![a] = i]
<1>1. x.items \in [Addon -> Nat]
  BY DEF StripeSubscription
<1>2. m \in [Addon -> Nat] /\ m[a] = i /\ \A b \in Addon \ {a} : m[b] = x.items[b]
  BY <1>1
<1>3. [x EXCEPT !.items[a] = i] = [x EXCEPT !.items = m]
  OBVIOUS
<1> HIDE DEF m
<1>4. LET new == [x EXCEPT !.items = m] IN
        /\ new \in StripeSubscription /\ new.status = x.status /\ new.plan = x.plan
        /\ new.customer = x.customer /\ new.items = m
  BY <1>2 DEF StripeSubscription
<1> QED
  BY <1>2, <1>3, <1>4

(* A subscription that has an item, or a status but none, has begun.       *)
LEMMA Begun ==
  ASSUME TypeInv, NEW s \in 1..MaxSubscriptions
  PROVE  /\ stripe[s] \in StripeSubscription
         /\ Known(s) => stripe[s].plan \in Plan
         /\ \A a \in Addon : stripe[s].items[a] # 0 => Known(s)
<1>1. stripe[s] \in StripeSubscription
  BY DEF TypeInv, TypeOK
<1>2. stripe[s].status = "none" => \A a \in Addon : stripe[s].items[a] = 0
  BY DEF TypeInv, SubscriptionInv, NoSubscription, NoItems
<1> QED
  BY <1>1, <1>2 DEF TypeInv, SubscriptionInv, Known

LEMMA ItemChanges ==
  ASSUME TypeInv, NEW s \in 1..MaxSubscriptions, Known(s), stripe[s].status # "deleted",
         NEW a \in Addon, NEW i \in Nat,
         Sends({"updated"}, s, [stripe[s] EXCEPT !.items[a] = i])
  PROVE  LET new == [stripe[s] EXCEPT !.items[a] = i] IN
         /\ Announces(s, {"updated"}, new) /\ new.items[a] = i
         /\ \A b \in Addon \ {a} : new.items[b] = stripe[s].items[b]
<1> DEFINE new == [stripe[s] EXCEPT !.items[a] = i]
<1>1. stripe[s] \in StripeSubscription /\ stripe[s].plan \in Plan
  BY Begun
<1>2. /\ new \in StripeSubscription /\ new.status = stripe[s].status
      /\ new.plan = stripe[s].plan /\ new.customer = stripe[s].customer /\ new.items[a] = i
      /\ \A b \in Addon \ {a} : new.items[b] = stripe[s].items[b]
  BY <1>1, OtherItem
<1>3. stripe[s].status \in {"active", "past_due"}
  BY <1>1 DEF StripeSubscription, Known
<1> HIDE DEF new
<1>4. Changes(s, {"updated"}, new)
  BY <1>2, <1>3 DEF Changes
<1>5. Sends({"updated"}, s, new)
  BY DEF new
<1>6. {"updated"} \in Announced
  BY DEF Announced
<1>7. Announces(s, {"updated"}, new)
  BY <1>1, <1>2, <1>4, <1>5, <1>6 DEF Announces
<1> QED
  BY <1>2, <1>7 DEF new

LEMMA StatusChanges ==
  ASSUME TypeInv, NEW s \in 1..MaxSubscriptions, Alive(s),
         NEW status \in {"active", "past_due", "deleted"}, NEW kinds,
         Sends(kinds, s, [stripe[s] EXCEPT !.status = status]),
         \/ kinds = {"deleted"} /\ status = "deleted"
         \/ kinds = {"updated"} /\ status = "active"
         \/ kinds = {"payment_failed", "updated"} /\ status = "past_due"
  PROVE  LET new == [stripe[s] EXCEPT !.status = status] IN
         Announces(s, kinds, new) /\ new.items = stripe[s].items
<1> DEFINE new == [stripe[s] EXCEPT !.status = status]
<1>1. stripe[s] \in StripeSubscription /\ stripe[s].plan \in Plan
  BY Begun DEF Alive, Known
<1>2. /\ new \in StripeSubscription /\ new.status = status /\ new.items = stripe[s].items
      /\ new.plan = stripe[s].plan /\ new.customer = stripe[s].customer
  BY <1>1, SameItems
<1> HIDE DEF new
<1>3. Changes(s, kinds, new) /\ kinds \in Announced
  BY <1>2 DEF Changes, Alive, Announced
<1>4. Sends(kinds, s, new)
  BY DEF new
<1>5. Announces(s, kinds, new)
  BY <1>1, <1>2, <1>3, <1>4 DEF Announces
<1> QED
  BY <1>2, <1>5 DEF new

-----------------------------------------------------------------------------
LEMMA SameKeeps ==
  ASSUME TypeInv, UNCHANGED <<stripe, sent>>
  PROVE  Keeps /\ SubscriptionInv'
  BY DEF TypeInv, TypeOK, Keeps, Known, SubscriptionInv

LEMMA NoNewEvents ==
  ASSUME TypeInv, Keeps, \A e : Pending(e)' => Pending(e)
  PROVE  EventInv'
<1> SUFFICES ASSUME NEW e, Pending(e)' PROVE Says(e)'
  BY DEF EventInv
<1>1. Says(e)
  BY DEF TypeInv, EventInv
<1> QED
  BY <1>1, StillSays

LEMMA NewEvents ==
  ASSUME TypeInv, NEW s, NEW kinds, NEW new, Announces(s, kinds, new), UNCHANGED handlers
  PROVE  EventInv'
<1> SUFFICES ASSUME NEW e, Pending(e)' PROVE Says(e)'
  BY DEF EventInv
<1>1. CASE Pending(e)
  <2>1. Says(e) /\ Keeps
    BY <1>1, AnnouncementKeeps DEF TypeInv, EventInv
  <2> QED
    BY <2>1, StillSays
<1>2. CASE e \in events' \ events
  BY <1>2, AnnouncementSays
<1> QED
  BY <1>1, <1>2 DEF Pending, Busy

LEMMA SameCarries ==
  ASSUME TypeInv, Keeps, customers <= customers', customers' \in Nat,
         NEW r \in Request, requests'[r] = requests[r]
  PROVE  Carries(r)'
<1>1. Carries(r) /\ customers \in Nat
  BY DEF TypeInv, TypeOK
<1> QED
  BY <1>1 DEF Carries, Keeps

(* A step of a request, or of Stripe: the rest of TypeInv.                 *)
LEMMA RequestRest ==
  ASSUME TypeInv, TypeOK', Keeps, SubscriptionInv', EventInv', customers <= customers',
         UNCHANGED <<handlers, subscription>>,
         \A a \in Addon : addons'[a].status = "active" => addons'[a] = addons[a],
         \A r \in Request : requests'[r] = requests[r] \/ Carries(r)'
  PROVE  TypeInv'
<1>1. customers' \in Nat
  BY DEF TypeOK
<1>2. \A r \in Request : Carries(r)'
  BY <1>1, SameCarries
<1>3. \A h \in Handler : Handles(h)'
  BY DEF TypeInv, Handles, Busy, Item
<1>4. subscription' # 0 => Known(subscription)'
  BY DEF TypeInv, Keeps
<1>5. \A a \in Addon : addons'[a].status = "active" => addons'[a].item # 0 /\ \E s : Known(s)'
  BY DEF TypeInv, Keeps
<1> QED
  BY <1>2, <1>3, <1>4, <1>5 DEF TypeInv

LEMMA IdleCarries ==
  ASSUME NEW q \in Request, requests'[q] = Idle PROVE Carries(q)'
  BY DEF Carries, Idle

(* A request begins: nothing but its record changes.                       *)
LEMMA BeginTypes ==
  ASSUME TypeInv, NEW q \in Request, NEW r \in RequestState, Begin(q, r),
         Carries(q)'
  PROVE  TypeInv'
<1>1. /\ Alone(q)
      /\ UNCHANGED <<planType, billingStatus, customer, subscription, addons, flowsActive,
                     conversions, customers, sessions, stripe, sent, events, handlers,
                     crowded, crossed, shuffled, mishaps>>
  BY BeginFields DEF TypeInv, row, atStripe, history
<1>2. TypeOK' /\ customers <= customers'
  BY <1>1 DEF TypeInv, TypeOK, Alone
<1>3. Keeps /\ SubscriptionInv'
  BY <1>1, SameKeeps
<1>4. EventInv'
  BY <1>1, <1>3, NoNewEvents DEF Pending, Busy
<1>5. \A s \in Request : requests'[s] = requests[s] \/ Carries(s)'
  BY <1>1 DEF Alone
<1> QED
  BY <1>1, <1>2, <1>3, <1>4, <1>5, RequestRest

(* What the two steps of the add-ons announce.                             *)
LEMMA ItemCreateAnnounces ==
  ASSUME TypeInv, NEW q \in Request, ItemCreate(q), ~(UNCHANGED <<stripe, sent, events>>)
  PROVE  \E new : Announces(requests[q].id, {"updated"}, new)
<1> DEFINE s == requests[q].id
           a == requests[q].addon
<1>1. Known(s) /\ a \in Addon
  BY DEF ItemCreate, At, TypeInv, Carries
<1>2. s \in 1..MaxSubscriptions
  BY <1>1 DEF Known
<1>3. /\ stripe[s].status # "deleted"
      /\ Sends({"updated"}, s, [stripe[s] EXCEPT !.items[a] = sent + 1])
  BY DEF ItemCreate
<1>4. sent + 1 \in Nat
  BY DEF TypeInv, TypeOK
<1> HIDE DEF s, a
<1>5. Announces(s, {"updated"}, [stripe[s] EXCEPT !.items[a] = sent + 1])
  BY <1>1, <1>2, <1>3, <1>4, ItemChanges
<1> QED
  BY <1>5 DEF s

LEMMA ItemDeleteAnnounces ==
  ASSUME TypeInv, NEW q \in Request, ItemDelete(q),
         ~(Reply(q) /\ UNCHANGED <<stripe, sent, events>>)
  PROVE  \E s \in 1..MaxSubscriptions : \E new :
           /\ Announces(s, {"updated"}, new) /\ Goto(q, "write")
           /\ new.items[requests[q].addon] = 0
           /\ \A b \in Addon \ {requests[q].addon} : new.items[b] = stripe[s].items[b]
<1> DEFINE a == requests[q].addon
<1>1. a \in Addon /\ requests[q].id # 0
  BY DEF ItemDelete, At, TypeInv, Carries
<1>2. PICK s \in 1..MaxSubscriptions :
        /\ stripe[s].status # "deleted" /\ stripe[s].items[a] = requests[q].id
        /\ Sends({"updated"}, s, [stripe[s] EXCEPT !.items[a] = 0])
  BY DEF ItemDelete
<1>3. Goto(q, "write")
  BY DEF ItemDelete
<1>4. Known(s)
  BY <1>1, <1>2, Begun
<1> HIDE DEF a
<1> DEFINE new == [stripe[s] EXCEPT !.items[a] = 0]
<1>5. /\ Announces(s, {"updated"}, new) /\ new.items[a] = 0
      /\ \A b \in Addon \ {a} : new.items[b] = stripe[s].items[b]
  BY <1>1, <1>2, <1>4, ItemChanges
<1> HIDE DEF new
<1> QED
  BY <1>3, <1>5 DEF a

LEMMA CancelledRow ==
  ASSUME TypeOK, NEW a \in Addon, addons' = [addons EXCEPT ![a].status = "cancelled"]
  PROVE  /\ addons' \in [Addon -> AddonRow] /\ addons'[a].status = "cancelled"
         /\ \A b \in Addon \ {a} : addons'[b] = addons[b]
         /\ \A b \in Addon : addons'[b].status = "active" => addons'[b] = addons[b]
<1>1. addons \in [Addon -> AddonRow] /\ addons[a] \in AddonRow
  BY DEF TypeOK
<1> DEFINE s == [addons[a] EXCEPT !.status = "cancelled"]
<1>2. s \in AddonRow /\ s.status = "cancelled"
  BY <1>1 DEF AddonRow
<1>3. addons' = [addons EXCEPT ![a] = s]
  OBVIOUS
<1> HIDE DEF s
<1> QED
  BY <1>1, <1>2, <1>3

LEMMA RequestTypes ==
  ASSUME TypeInv, NEW q \in Request, RequestStep(q)
  PROVE  TypeInv'
<1>0. TypeInv /\ TypeOK /\ Carries(q)
  BY DEF TypeInv
<1>1. ASSUME NEW p \in Plan, CheckoutRead(q, p)
      PROVE  TypeInv'
  <2> DEFINE r == [Idle EXCEPT !.op = "checkout", !.plan = p, !.id = customer,
                     !.pc = IF customer = 0 THEN "customer" ELSE "session"]
  <2>1. r \in RequestState /\ r.op = "checkout" /\ r.plan = p /\ r.pc \in {"customer", "session"}
    BY <1>0, Beginnings
  <2>2. Begin(q, r)
    BY <1>1 DEF CheckoutRead
  <2> HIDE DEF r
  <2>3. requests'[q] = r /\ UNCHANGED <<stripe, customers>>
    BY <2>1, <2>2, <1>0, BeginFields DEF atStripe
  <2>4. Carries(q)'
    BY <2>1, <2>3 DEF Carries
  <2> QED
    BY <2>1, <2>2, <2>4, BeginTypes
<1>2. CASE CustomerCreate(q)
  <2>1. UNCHANGED <<stripe, sent, events, handlers, subscription>>
    BY <1>2 DEF CustomerCreate, row, atStripe
  <2>2. Alone(q) /\ Carries(q)' /\ customers <= customers' /\ UNCHANGED addons
    <3>1. /\ requests[q].pc = "customer" /\ customers' = customers + 1 /\ UNCHANGED addons
          /\ customers \in Nat
      BY <1>2, <1>0 DEF CustomerCreate, At, TypeOK
    <3>2. requests[q].op = "checkout" /\ requests[q].plan \in Plan
      BY <3>1, <1>0 DEF Carries
    <3> QED
      BY <1>2, <3>1, <3>2, <1>0, CreateFields DEF Carries
  <2>3. TypeOK'
    <3>1. customer' \in 0..customers' /\ customers' \in Nat /\ crowded' \in BOOLEAN
      BY <1>2, <1>0 DEF CustomerCreate, TypeOK, row
    <3> QED
      BY <1>2, <2>1, <2>2, <3>1, <1>0 DEF CustomerCreate, TypeOK, Alone, row
  <2>4. Keeps /\ SubscriptionInv'
    BY <2>1, SameKeeps
  <2>5. EventInv'
    BY <2>1, <2>4, NoNewEvents DEF Pending, Busy
  <2>6. \A r \in Request : requests'[r] = requests[r] \/ Carries(r)'
    BY <2>2 DEF Alone
  <2> QED
    BY <2>1, <2>2, <2>3, <2>4, <2>5, <2>6, RequestRest
<1>3. CASE CustomerSave(q)
  <2>1. UNCHANGED <<stripe, sent, events, handlers, subscription>>
    BY <1>3 DEF CustomerSave, row, atStripe
  <2>2. Alone(q) /\ Carries(q)' /\ customers <= customers' /\ UNCHANGED addons
    <3>1. /\ requests[q].pc = "saveCustomer" /\ UNCHANGED <<addons, customers>>
          /\ customers \in Nat /\ Goto(q, "session")
      BY <1>3, <1>0 DEF CustomerSave, At, TypeOK, atStripe
    <3>2. requests[q].op = "checkout" /\ requests[q].plan \in Plan
      BY <3>1, <1>0 DEF Carries
    <3> QED
      BY <3>1, <3>2, <1>0, GotoFields DEF Carries
  <2>3. TypeOK'
    <3>1. customer' \in 0..customers' /\ UNCHANGED customers
      BY <1>3, <1>0 DEF CustomerSave, At, Carries, TypeOK, atStripe
    <3> QED
      BY <1>3, <2>1, <2>2, <3>1, <1>0
        DEF CustomerSave, TypeOK, Alone, atStripe, history
  <2>4. Keeps /\ SubscriptionInv'
    BY <2>1, SameKeeps
  <2>5. EventInv'
    BY <2>1, <2>4, NoNewEvents DEF Pending, Busy
  <2>6. \A r \in Request : requests'[r] = requests[r] \/ Carries(r)'
    BY <2>2 DEF Alone
  <2> QED
    BY <2>1, <2>2, <2>3, <2>4, <2>5, <2>6, RequestRest
<1>4. CASE SessionCreate(q)
  <2>1. UNCHANGED <<stripe, sent, events, handlers, subscription>>
    BY <1>4 DEF SessionCreate, row, atStripe
  <2>2. Alone(q) /\ Carries(q)' /\ customers <= customers' /\ UNCHANGED addons
    <3>1. Reply(q) /\ UNCHANGED <<addons, customers>> /\ customers \in Nat
      BY <1>4, <1>0 DEF SessionCreate, TypeOK, atStripe
    <3> QED
      BY <3>1, <1>0, ReplyFields, IdleCarries
  <2>3. TypeOK'
    <3>1. sessions' \subseteq [customer : Nat, plan : Plan]
      <4>1. requests[q].id \in Nat /\ requests[q].plan \in Plan
        BY <1>4, <1>0 DEF SessionCreate, At, Carries, TypeOK, RequestState
      <4> QED
        BY <1>4, <4>1, <1>0 DEF SessionCreate, TypeOK
    <3> QED
      BY <1>4, <2>1, <2>2, <3>1, <1>0
        DEF SessionCreate, TypeOK, Alone, row, history
  <2>4. Keeps /\ SubscriptionInv'
    BY <2>1, SameKeeps
  <2>5. EventInv'
    BY <2>1, <2>4, NoNewEvents DEF Pending, Busy
  <2>6. \A r \in Request : requests'[r] = requests[r] \/ Carries(r)'
    BY <2>2 DEF Alone
  <2> QED
    BY <2>1, <2>2, <2>3, <2>4, <2>5, <2>6, RequestRest
<1>5. ASSUME NEW a \in Addon, SubscribeRead(q, a)
      PROVE  TypeInv'
  <2> DEFINE r == [Idle EXCEPT !.op = "subscribe", !.pc = "item", !.addon = a,
                     !.id = subscription]
  <2>1. /\ r \in RequestState /\ r.op = "subscribe" /\ r.pc = "item" /\ r.addon = a
        /\ r.id = subscription
    BY <1>0, Beginnings
  <2>2. Begin(q, r)
    BY <1>5 DEF SubscribeRead
  <2> HIDE DEF r
  <2>3. requests'[q] = r /\ UNCHANGED <<stripe, customers>>
    BY <2>1, <2>2, <1>0, BeginFields DEF atStripe
  <2>4. Carries(q)'
    <3>1. Known(subscription)
      BY <1>5, <1>0 DEF SubscribeRead, TypeInv
    <3> QED
      BY <2>1, <2>3, <3>1 DEF Carries, Known
  <2> QED
    BY <2>1, <2>2, <2>4, BeginTypes
<1>6. ASSUME NEW a \in Addon, CancelRead(q, a)
      PROVE  TypeInv'
  <2> DEFINE r == [Idle EXCEPT !.op = "cancel", !.pc = "deleteItem", !.addon = a,
                     !.id = addons[a].item]
  <2>1. /\ r \in RequestState /\ r.op = "cancel" /\ r.pc = "deleteItem" /\ r.addon = a
        /\ r.id = addons[a].item
    BY <1>0, Beginnings
  <2>2. Begin(q, r)
    BY <1>6 DEF CancelRead
  <2> HIDE DEF r
  <2>3. requests'[q] = r /\ UNCHANGED <<stripe, customers>>
    BY <2>1, <2>2, <1>0, BeginFields DEF atStripe
  <2>4. Carries(q)'
    <3>1. addons[a].item /= 0 /\ \E s : Known(s)
      BY <1>6, <1>0 DEF CancelRead, TypeInv
    <3> QED
      BY <2>1, <2>3, <3>1 DEF Carries, Known
  <2> QED
    BY <2>1, <2>2, <2>4, BeginTypes
<1>7. CASE ItemCreate(q)
  <2>1. Reply(q) /\ UNCHANGED <<handlers, addons, row, customers, sessions>>
    BY <1>7 DEF ItemCreate
  <2>2. Alone(q) /\ Carries(q)'
    BY <2>1, <1>0, ReplyFields, IdleCarries
  <2>3. \A r \in Request : requests'[r] = requests[r] \/ Carries(r)'
    BY <2>2 DEF Alone
  <2>4. CASE UNCHANGED <<stripe, sent, events>>
    <3>1. TypeOK'
      BY <1>7, <2>1, <2>2, <2>4, <1>0 DEF ItemCreate, TypeOK, Alone, row
    <3>2. Keeps /\ SubscriptionInv'
      BY <2>4, SameKeeps
    <3>3. EventInv'
      BY <2>1, <2>4, <3>2, NoNewEvents DEF Pending, Busy
    <3> QED
      BY <2>1, <2>3, <3>1, <3>2, <3>3, <1>0, RequestRest DEF row, TypeOK
  <2>5. CASE ~(UNCHANGED <<stripe, sent, events>>)
    <3>1. PICK new : Announces(requests[q].id, {"updated"}, new)
      BY <1>7, <2>5, ItemCreateAnnounces
    <3>2. TypeOK'
      BY <1>7, <2>1, <2>2, <3>1, <1>0, SendsFields
        DEF ItemCreate, TypeOK, Alone, row
    <3>3. Keeps /\ SubscriptionInv' /\ EventInv'
      BY <2>1, <3>1, AnnouncementKeeps, NewEvents
    <3> QED
      BY <2>1, <2>3, <3>2, <3>3, <1>0, RequestRest DEF row, TypeOK
  <2> QED
    BY <2>4, <2>5
<1>8. CASE ItemDelete(q)
  <2>1. UNCHANGED <<handlers, addons, row, customers, sessions>>
    BY <1>8 DEF ItemDelete
  <2>2. CASE Reply(q) /\ UNCHANGED <<stripe, sent, events>>
    <3>1. Alone(q) /\ Carries(q)'
      BY <2>2, <1>0, ReplyFields, IdleCarries
    <3>2. TypeOK'
      BY <1>8, <2>1, <2>2, <3>1, <1>0
        DEF ItemDelete, TypeOK, Alone, row, history
    <3>3. Keeps /\ SubscriptionInv'
      BY <2>2, SameKeeps
    <3>4. EventInv'
      BY <2>1, <2>2, <3>3, NoNewEvents DEF Pending, Busy
    <3>5. \A r \in Request : requests'[r] = requests[r] \/ Carries(r)'
      BY <3>1 DEF Alone
    <3> QED
      BY <2>1, <3>2, <3>3, <3>4, <3>5, <1>0, RequestRest DEF row, TypeOK
  <2>3. CASE ~(Reply(q) /\ UNCHANGED <<stripe, sent, events>>)
    <3>0. PICK s \in 1..MaxSubscriptions :
            \E new : Announces(s, {"updated"}, new) /\ Goto(q, "write")
      BY <1>8, <2>3, ItemDeleteAnnounces
    <3>1. PICK new :
            s \in 1..MaxSubscriptions /\ Announces(s, {"updated"}, new) /\ Goto(q, "write")
      BY <3>0
    <3>2. requests[q].op = "cancel" /\ requests[q].addon \in Addon
      BY <1>8, <1>0 DEF ItemDelete, At, Carries
    <3>3. Keeps /\ SubscriptionInv' /\ EventInv' /\ Known(s)'
      BY <2>1, <3>1, AnnouncementKeeps, NewEvents
    <3>4. Alone(q) /\ requests'[q].pc = "write" /\ requests'[q].op = requests[q].op
          /\ requests'[q].addon = requests[q].addon
      BY <3>1, <1>0, GotoFields
    <3>5. Carries(q)'
      BY <3>2, <3>3, <3>4 DEF Carries
    <3>6. TypeOK'
      BY <1>8, <2>1, <3>1, <3>4, <1>0, SendsFields
        DEF ItemDelete, TypeOK, Alone, row, history
    <3>7. \A r \in Request : requests'[r] = requests[r] \/ Carries(r)'
      BY <3>4, <3>5 DEF Alone
    <3> QED
      BY <2>1, <3>3, <3>6, <3>7, <1>0, RequestRest DEF row, TypeOK
  <2> QED
    BY <2>2, <2>3
<1>9. CASE CancelWrite(q)
  <2>1. UNCHANGED <<stripe, sent, events, handlers, subscription, customers>> /\ Reply(q)
    BY <1>9 DEF CancelWrite, row, atStripe
  <2>2. Alone(q) /\ Carries(q)'
    BY <2>1, <1>0, ReplyFields, IdleCarries
  <2>3. requests[q].addon \in Addon
    BY <1>9, <1>0 DEF CancelWrite, At, Carries
  <2>4. /\ addons' \in [Addon -> AddonRow]
        /\ \A a \in Addon : addons'[a].status = "active" => addons'[a] = addons[a]
    BY <1>9, <2>3, <1>0, CancelledRow DEF CancelWrite
  <2>5. TypeOK'
    BY <1>9, <2>1, <2>2, <2>4, <1>0
      DEF CancelWrite, TypeOK, Alone, row, atStripe
  <2>6. Keeps /\ SubscriptionInv'
    BY <2>1, SameKeeps
  <2>7. EventInv'
    BY <2>1, <2>6, NoNewEvents DEF Pending, Busy
  <2>8. (\A r \in Request : requests'[r] = requests[r] \/ Carries(r)') /\ customers <= customers'
    BY <2>1, <2>2, <1>0 DEF Alone, TypeOK
  <2> QED
    BY <2>1, <2>4, <2>5, <2>6, <2>7, <2>8, RequestRest
<1>10. CASE GuardPasses(q)
  <2> DEFINE r == [Idle EXCEPT !.op = "flow", !.pc = "flow"]
  <2>1. r \in RequestState /\ r.op = "flow" /\ r.pc = "flow"
    BY <1>0, Beginnings
  <2>2. Begin(q, r)
    BY <1>10 DEF GuardPasses
  <2> HIDE DEF r
  <2>3. requests'[q] = r /\ UNCHANGED <<stripe, customers>>
    BY <2>1, <2>2, <1>0, BeginFields DEF atStripe
  <2>4. Carries(q)'
    BY <2>1, <2>3 DEF Carries
  <2> QED
    BY <2>1, <2>2, <2>4, BeginTypes
<1>11. CASE FlowOn(q)
  <2>1. UNCHANGED <<stripe, sent, events, handlers, subscription>>
    BY <1>11 DEF FlowOn, row, atStripe
  <2>2. Alone(q) /\ Carries(q)' /\ customers <= customers' /\ UNCHANGED addons
    <3>1. Reply(q) /\ UNCHANGED <<addons, customers>> /\ customers \in Nat
      BY <1>11, <1>0 DEF FlowOn, TypeOK, atStripe
    <3> QED
      BY <3>1, <1>0, ReplyFields, IdleCarries
  <2>3. TypeOK'
    BY <1>11, <2>1, <2>2, <1>0 DEF FlowOn, TypeOK, Alone, row, atStripe, history
  <2>4. Keeps /\ SubscriptionInv'
    BY <2>1, SameKeeps
  <2>5. EventInv'
    BY <2>1, <2>4, NoNewEvents DEF Pending, Busy
  <2>6. \A r \in Request : requests'[r] = requests[r] \/ Carries(r)'
    BY <2>2 DEF Alone
  <2> QED
    BY <2>1, <2>2, <2>3, <2>4, <2>5, <2>6, RequestRest
<1>12. CASE RequestFails(q)
  <2>1. UNCHANGED <<stripe, sent, events, handlers, subscription>>
    BY <1>12 DEF RequestFails, row, atStripe
  <2>2. Alone(q) /\ Carries(q)' /\ customers <= customers' /\ UNCHANGED addons
    <3>1. Reply(q) /\ UNCHANGED <<addons, customers>> /\ customers \in Nat
      BY <1>12, <1>0 DEF RequestFails, TypeOK, atStripe
    <3> QED
      BY <3>1, <1>0, ReplyFields, IdleCarries
  <2>3. TypeOK'
    BY <1>12, <2>1, <2>2, <1>0
      DEF RequestFails, TypeOK, Alone, row, atStripe, history
  <2>4. Keeps /\ SubscriptionInv'
    BY <2>1, SameKeeps
  <2>5. EventInv'
    BY <2>1, <2>4, NoNewEvents DEF Pending, Busy
  <2>6. \A r \in Request : requests'[r] = requests[r] \/ Carries(r)'
    BY <2>2 DEF Alone
  <2> QED
    BY <2>1, <2>2, <2>3, <2>4, <2>5, <2>6, RequestRest
<1> QED
  BY <1>1, <1>2, <1>3, <1>4, <1>5, <1>6, <1>7, <1>8, <1>9, <1>10, <1>11, <1>12
    DEF RequestStep

(* A step of a handler: what is pending was pending, and the rest of       *)
(* TypeInv.                                                                *)
LEMMA HandlerPending ==
  ASSUME NEW h \in Handler, HandlerAlone(h), \A e \in events' : Pending(e),
         handlers'[h].pc # "idle" => Pending(handlers'[h].event)
  PROVE  \A e : Pending(e)' => Pending(e)
<1> SUFFICES ASSUME NEW e, Pending(e)' PROVE Pending(e)
  OBVIOUS
<1>1. ASSUME NEW g \in Handler, handlers'[g].pc # "idle", handlers'[g].event = e
      PROVE  Pending(e)
  BY <1>1 DEF HandlerAlone, Pending, Busy
<1> QED
  BY <1>1 DEF Pending, Busy

LEMMA HandlerRest ==
  ASSUME TypeInv, TypeOK', NEW h \in Handler, HandlerAlone(h), Handles(h)',
         \A e : Pending(e)' => Pending(e), UNCHANGED <<stripe, sent, requests, customers>>,
         subscription' = subscription \/ Known(subscription'),
         \A a \in Addon : addons'[a].status = "active" =>
           addons'[a] = addons[a] \/ (addons'[a].item # 0 /\ \E s : Known(s))
  PROVE  TypeInv'
<1>1. Keeps /\ SubscriptionInv' /\ EventInv'
  BY SameKeeps, NoNewEvents
<1>2. \A g \in Handler : Handles(g)'
  BY DEF TypeInv, HandlerAlone, Handles, Busy, Item
<1>3. \A q \in Request : Carries(q)'
  BY DEF TypeInv, Carries, Known
<1>4. subscription' # 0 => Known(subscription)'
  BY DEF TypeInv, Known
<1>5. \A a \in Addon : addons'[a].status = "active" => addons'[a].item # 0 /\ \E s : Known(s)'
  BY DEF TypeInv, Known
<1> QED
  BY <1>1, <1>2, <1>3, <1>4, <1>5 DEF TypeInv

(* What a handler at work may rely on.                                     *)
LEMMA AtWork ==
  ASSUME TypeInv, NEW h \in Handler, Busy(h)
  PROVE  /\ handlers[h].event \in Event /\ Pending(handlers[h].event)
         /\ Says(handlers[h].event) /\ Handles(h)
         /\ handlers[h].event.of \in StripeSubscription
         /\ handlers[h].event.of.plan \in Plan
         /\ \A a \in Addon : Item(h, a) \in Nat
<1> DEFINE e == handlers[h].event
<1>1. Pending(e) /\ Handles(h)
  BY DEF TypeInv, Pending
<1>2. Says(e)
  BY <1>1 DEF TypeInv, EventInv
<1>3. e \in Event /\ e.of \in StripeSubscription
  BY <1>2 DEF Says, Event
<1>4. e.of.plan \in Plan
  BY <1>2 DEF Says, TypeInv, SubscriptionInv, Known
<1>5. \A a \in Addon : e.of.items[a] \in Nat
  BY <1>3 DEF StripeSubscription
<1> QED
  BY <1>1, <1>2, <1>3, <1>4, <1>5 DEF Item

LEMMA AnswerIdles ==
  ASSUME TypeOK, NEW h \in Handler, Answer(h)
  PROVE  HandlerAlone(h) /\ Handles(h)' /\ handlers'[h].pc = "idle"
<1>1. HandlerAlone(h) /\ handlers'[h] = HandlerIdle
  BY AnswerFields
<1>2. HandlerIdle.pc = "idle"
  BY DEF HandlerIdle
<1>3. handlers'[h].pc = "idle"
  BY <1>1, <1>2
<1> QED
  BY <1>1, <1>3 DEF Handles, Busy

LEMMA HandlerTypes ==
  ASSUME TypeInv, NEW h \in Handler, HandlerStep(h)
  PROVE  TypeInv'
<1>0. TypeInv /\ TypeOK
  BY DEF TypeInv
<1>1. ASSUME NEW e \in events, NEW again \in BOOLEAN, Deliver(h, e, again)
      PROVE  TypeInv'
  <2>1. UNCHANGED <<stripe, sent, requests, customers, row, addons>> /\ events' \subseteq events
    BY <1>1 DEF Deliver
  <2>2. Pending(e) /\ Says(e)
    BY <1>0 DEF Pending, TypeInv, EventInv
  <2>3. HandlerAlone(h) /\ Handles(h)' /\ (handlers'[h].pc /= "idle" => Pending(handlers'[h].event))
    <3>1. CASE UNCHANGED handlers
      <4>1. handlers \in [Handler -> HandlerState] /\ Handles(h) /\ handlers[h].pc = "idle"
        BY <1>1, <1>0 DEF TypeInv, TypeOK, Deliver
      <4>2. HandlerAlone(h)
        BY <3>1, <4>1 DEF HandlerAlone
      <4>3. Handles(h)'
        BY <3>1, <4>1 DEF Handles, Busy, Item
      <4> QED
        BY <3>1, <4>1, <4>2, <4>3
    <3>2. CASE HandlerAlone(h) /\ handlers'[h].pc = FirstStep(e.kind) /\ handlers'[h].event = e
      <4>1. e.kind \in {"checkout", "updated", "deleted", "payment_failed"} /\ e \in Event
        BY <2>2 DEF Says, Event
      <4> QED
        BY <2>2, <3>2, <4>1 DEF Handles, Busy, FirstStep
    <3> QED
      BY <1>1, <3>1, <3>2, <1>0, DeliverFields
  <2>4. \A f : Pending(f)' => Pending(f)
    BY <2>1, <2>3, HandlerPending DEF Pending
  <2>5. TypeOK'
    <3>1. shuffled' \in BOOLEAN /\ mishaps' \in Nat
      BY <1>1, <1>0 DEF Deliver, TypeOK
    <3> QED
      BY <1>1, <2>1, <2>3, <3>1, <1>0 DEF Deliver, TypeOK, HandlerAlone, row
  <2> QED
    BY <2>1, <2>3, <2>4, <2>5, <1>0, HandlerRest DEF row
<1>2. CASE PlanWrite(h)
  <2>1. handlers[h].pc = "plan" /\ UNCHANGED <<stripe, sent, requests, customers, events, addons>>
    BY <1>2 DEF PlanWrite, atStripe
  <2>2. /\ Says(handlers[h].event) /\ Handles(h) /\ Pending(handlers[h].event)
        /\ handlers[h].event.of.plan \in Plan /\ handlers[h].event \in Event
    BY <2>1, AtWork DEF Busy
  <2>3. /\ HandlerAlone(h) /\ Handles(h)'
        /\ (handlers'[h].pc /= "idle" => handlers'[h].event = handlers[h].event)
    <3>1. CASE Answer(h)
      BY <3>1, <1>0, AnswerIdles
    <3>2. CASE Resume(h, "convert")
      <4>1. HandlerAlone(h) /\ handlers'[h].pc = "convert" /\ handlers'[h].event = handlers[h].event
        BY <3>2, <1>0, ResumeFields DEF HandlerPc
      <4> QED
        BY <4>1, <2>1, <2>2 DEF Handles, Busy
    <3> QED
      BY <1>2, <3>1, <3>2 DEF PlanWrite
  <2>4. \A e : Pending(e)' => Pending(e)
    BY <2>1, <2>2, <2>3, HandlerPending DEF Pending
  <2>5. /\ planType' \in Plan \cup {"trial"} /\ billingStatus' \in BillingStatus
        /\ subscription' \in 0..MaxSubscriptions /\ Known(subscription')
    BY <1>2, <2>2 DEF PlanWrite, BillingStatus, Says, Known
  <2>6. TypeOK'
    BY <1>2, <2>1, <2>3, <2>5, <1>0
      DEF PlanWrite, TypeOK, HandlerAlone, atStripe, history
  <2> QED
    BY <2>1, <2>3, <2>4, <2>5, <2>6, <1>0, HandlerRest
<1>3. CASE RecordTrialConverted(h)
  <2>1. handlers[h].pc = "convert" /\ UNCHANGED <<stripe, sent, requests, customers, events>>
    BY <1>3 DEF RecordTrialConverted, row, atStripe
  <2>2. Says(handlers[h].event) /\ Handles(h) /\ Pending(handlers[h].event)
    BY <2>1, AtWork DEF Busy
  <2>3. HandlerAlone(h) /\ Handles(h)' /\ handlers'[h].pc = "idle"
    BY <1>3, <1>0, AnswerIdles DEF RecordTrialConverted
  <2>4. \A e : Pending(e)' => Pending(e)
    BY <2>1, <2>3, HandlerPending DEF Pending
  <2>5. TypeOK'
    BY <1>3, <2>1, <2>3, <1>0
      DEF RecordTrialConverted, TypeOK, HandlerAlone, row, atStripe, history
  <2> QED
    BY <1>3, <2>1, <2>2, <2>3, <2>4, <2>5, <1>0, HandlerRest
      DEF RecordTrialConverted, row
<1>4. CASE StatusWrite(h)
  <2>1. handlers[h].pc = "status" /\ UNCHANGED <<stripe, sent, requests, customers, events>>
    BY <1>4 DEF StatusWrite, row, atStripe
  <2>2. Says(handlers[h].event) /\ Handles(h) /\ Pending(handlers[h].event)
    BY <2>1, AtWork DEF Busy
  <2>3. HandlerAlone(h) /\ Handles(h)' /\ handlers'[h].event = handlers[h].event
    <3>1. HandlerAlone(h) /\ handlers'[h].pc = "addons" /\ handlers'[h].event = handlers[h].event
      BY <1>4, <1>0, StatusFields
    <3> QED
      BY <3>1, <2>1, <2>2 DEF Handles, Busy
  <2>4. \A e : Pending(e)' => Pending(e)
    BY <2>1, <2>2, <2>3, HandlerPending DEF Pending
  <2>5. TypeOK'
    <3>1. billingStatus' \in BillingStatus
      BY <1>4, <2>1, <2>2 DEF StatusWrite, BillingStatus, Handles, Says
    <3> QED
      BY <1>4, <2>1, <2>3, <3>1, <1>0
        DEF StatusWrite, TypeOK, HandlerAlone, atStripe, history
  <2> QED
    BY <1>4, <2>1, <2>2, <2>3, <2>4, <2>5, <1>0, HandlerRest
      DEF StatusWrite, row
<1>5. CASE AddonsDone(h)
  <2>1. handlers[h].pc = "addons" /\ UNCHANGED <<stripe, sent, requests, customers, events>>
    BY <1>5 DEF AddonsDone, row, atStripe
  <2>2. Says(handlers[h].event) /\ Handles(h) /\ Pending(handlers[h].event)
    BY <2>1, AtWork DEF Busy
  <2>3. HandlerAlone(h) /\ Handles(h)' /\ handlers'[h].pc = "idle"
    BY <1>5, <1>0, AnswerIdles DEF AddonsDone
  <2>4. \A e : Pending(e)' => Pending(e)
    BY <2>1, <2>3, HandlerPending DEF Pending
  <2>5. TypeOK'
    BY <1>5, <2>1, <2>3, <1>0
      DEF AddonsDone, TypeOK, HandlerAlone, row, atStripe, history
  <2> QED
    BY <1>5, <2>1, <2>2, <2>3, <2>4, <2>5, <1>0, HandlerRest DEF AddonsDone, row
<1>6. ASSUME NEW a \in Addon, AddonRead(h, a)
      PROVE  TypeInv'
  <2>1. handlers[h].pc = "addons" /\ UNCHANGED <<stripe, sent, requests, customers, events>>
    BY <1>6 DEF AddonRead, row, atStripe
  <2>2. Says(handlers[h].event) /\ Handles(h) /\ Pending(handlers[h].event)
    BY <2>1, AtWork DEF Busy
  <2>3. HandlerAlone(h) /\ Handles(h)' /\ handlers'[h].event = handlers[h].event
    <3>1. /\ HandlerAlone(h) /\ handlers'[h].pc = Verdict(h, a) /\ handlers'[h].addon = a
          /\ handlers'[h].event = handlers[h].event
      BY <1>6, <1>0, ReadFields
    <3>2. \/ handlers'[h].pc = "activate" /\ ~(Item(h, a) = 0)
          \/ handlers'[h].pc = "cancel" /\ Item(h, a) = 0
          \/ handlers'[h].pc = "addons"
      BY <3>1 DEF Verdict
    <3> QED
      BY <3>1, <3>2, <2>1, <2>2 DEF Handles, Busy, Item
  <2>4. \A e : Pending(e)' => Pending(e)
    BY <2>1, <2>2, <2>3, HandlerPending DEF Pending
  <2>5. TypeOK'
    BY <1>6, <2>1, <2>3, <1>0
      DEF AddonRead, TypeOK, HandlerAlone, row, atStripe, history
  <2> QED
    BY <1>6, <2>1, <2>2, <2>3, <2>4, <2>5, <1>0, HandlerRest DEF AddonRead, row
<1>7. CASE AddonActivate(h)
  <2>1. handlers[h].pc = "activate" /\ UNCHANGED <<stripe, sent, requests, customers, events>>
    BY <1>7 DEF AddonActivate, row, atStripe
  <2>2. Says(handlers[h].event) /\ Handles(h) /\ Pending(handlers[h].event)
    BY <2>1, AtWork DEF Busy
  <2>3. HandlerAlone(h) /\ Handles(h)' /\ handlers'[h].event = handlers[h].event
    <3>1. HandlerAlone(h) /\ handlers'[h].pc = "addons" /\ handlers'[h].event = handlers[h].event
      BY <1>7, <1>0, ResumeFields DEF AddonActivate, HandlerPc
    <3> QED
      BY <3>1, <2>1, <2>2, AtWork DEF Handles, Busy, Item
  <2>4. \A e : Pending(e)' => Pending(e)
    BY <2>1, <2>2, <2>3, HandlerPending DEF Pending
  <2>5. TypeOK' /\ \A a \in Addon : addons'[a].status = "active" =>
                     addons'[a] = addons[a] \/ (~(addons'[a].item = 0) /\ \E s : Known(s))
    <3> DEFINE b == handlers[h].addon
               r == [status |-> "active", item |-> Item(h, b)]
    <3>1. b \in Addon /\ ~(Item(h, b) = 0) /\ Item(h, b) \in Nat
      BY <2>1, <2>2, AtWork DEF Handles, Busy
    <3>2. r \in AddonRow /\ ~(r.item = 0)
      BY <3>1 DEF AddonRow
    <3>3. addons' = [addons EXCEPT ![b] = r]
      BY <1>7 DEF AddonActivate
    <3>4. \E s : Known(s)
      BY <2>2 DEF Says
    <3> HIDE DEF b, r
    <3>5. /\ addons' \in [Addon -> AddonRow]
          /\ \A a \in Addon : addons'[a] = addons[a] \/ addons'[a] = r
      BY <3>1, <3>2, <3>3, <1>0 DEF TypeOK
    <3>6. TypeOK'
      BY <1>7, <2>1, <2>3, <3>5, <1>0
        DEF AddonActivate, TypeOK, HandlerAlone, row, atStripe, history
    <3> QED
      BY <3>2, <3>4, <3>5, <3>6
  <2> QED
    BY <1>7, <2>1, <2>2, <2>3, <2>4, <2>5, <1>0, HandlerRest
      DEF AddonActivate, row
<1>8. CASE AddonCancel(h)
  <2>1. handlers[h].pc = "cancel" /\ UNCHANGED <<stripe, sent, requests, customers, events>>
    BY <1>8 DEF AddonCancel, row, atStripe
  <2>2. Says(handlers[h].event) /\ Handles(h) /\ Pending(handlers[h].event)
    BY <2>1, AtWork DEF Busy
  <2>3. HandlerAlone(h) /\ Handles(h)' /\ handlers'[h].event = handlers[h].event
    <3>1. HandlerAlone(h) /\ handlers'[h].pc = "flows" /\ handlers'[h].event = handlers[h].event
      BY <1>8, <1>0, ResumeFields DEF AddonCancel, HandlerPc
    <3> QED
      BY <3>1, <2>1, <2>2, AtWork DEF Handles, Busy, Item
  <2>4. \A e : Pending(e)' => Pending(e)
    BY <2>1, <2>2, <2>3, HandlerPending DEF Pending
  <2>5. TypeOK' /\ \A a \in Addon : addons'[a].status = "active" => addons'[a] = addons[a]
    <3>1. handlers[h].addon \in Addon
      BY <2>1, <2>2 DEF Handles
    <3>2. /\ addons' \in [Addon -> AddonRow]
          /\ \A a \in Addon : addons'[a].status = "active" => addons'[a] = addons[a]
      BY <1>8, <3>1, <1>0, CancelledRow DEF AddonCancel
    <3> QED
      BY <1>8, <2>1, <2>3, <3>2, <1>0
        DEF AddonCancel, TypeOK, HandlerAlone, row, atStripe, history
  <2> QED
    BY <1>8, <2>1, <2>2, <2>3, <2>4, <2>5, <1>0, HandlerRest
      DEF AddonCancel, row
<1>9. CASE DeactivateAutomationFlows(h)
  <2>1. handlers[h].pc = "flows" /\ UNCHANGED <<stripe, sent, requests, customers, events>>
    BY <1>9 DEF DeactivateAutomationFlows, row, atStripe
  <2>2. Says(handlers[h].event) /\ Handles(h) /\ Pending(handlers[h].event)
    BY <2>1, AtWork DEF Busy
  <2>3. HandlerAlone(h) /\ Handles(h)' /\ handlers'[h].event = handlers[h].event
    <3>1. HandlerAlone(h) /\ handlers'[h].pc = "addons" /\ handlers'[h].event = handlers[h].event
      BY <1>9, <1>0, ResumeFields DEF DeactivateAutomationFlows, HandlerPc
    <3> QED
      BY <3>1, <2>1, <2>2, AtWork DEF Handles, Busy, Item
  <2>4. \A e : Pending(e)' => Pending(e)
    BY <2>1, <2>2, <2>3, HandlerPending DEF Pending
  <2>5. TypeOK'
    <3>1. crossed' \in BOOLEAN
      BY <1>9, <1>0 DEF DeactivateAutomationFlows, TypeOK
    <3> QED
      BY <1>9, <2>1, <2>3, <3>1, <1>0
        DEF DeactivateAutomationFlows, TypeOK, HandlerAlone, row, atStripe
  <2> QED
    BY <1>9, <2>1, <2>2, <2>3, <2>4, <2>5, <1>0, HandlerRest
      DEF DeactivateAutomationFlows, row
<1>10. CASE RevertWrite(h)
  <2>1. handlers[h].pc = "revert" /\ UNCHANGED <<stripe, sent, requests, customers, events>>
    BY <1>10 DEF RevertWrite, row, atStripe
  <2>2. Says(handlers[h].event) /\ Handles(h) /\ Pending(handlers[h].event)
    BY <2>1, AtWork DEF Busy
  <2>3. HandlerAlone(h) /\ Handles(h)' /\ handlers'[h].pc = "idle"
    BY <1>10, <1>0, AnswerIdles DEF RevertWrite
  <2>4. \A e : Pending(e)' => Pending(e)
    BY <2>1, <2>3, HandlerPending DEF Pending
  <2>5. TypeOK'
    BY <1>10, <2>1, <2>3, <1>0
      DEF BillingStatus, RevertWrite, TypeOK, HandlerAlone, row, atStripe,
          history
  <2> QED
    BY <1>10, <2>1, <2>2, <2>3, <2>4, <2>5, <1>0, HandlerRest
      DEF RevertWrite, row
<1>11. CASE PastDueWrite(h)
  <2>1. handlers[h].pc = "pastDue" /\ UNCHANGED <<stripe, sent, requests, customers, events>>
    BY <1>11 DEF PastDueWrite, row, atStripe
  <2>2. Says(handlers[h].event) /\ Handles(h) /\ Pending(handlers[h].event)
    BY <2>1, AtWork DEF Busy
  <2>3. HandlerAlone(h) /\ Handles(h)' /\ handlers'[h].pc = "idle"
    BY <1>11, <1>0, AnswerIdles DEF PastDueWrite
  <2>4. \A e : Pending(e)' => Pending(e)
    BY <2>1, <2>3, HandlerPending DEF Pending
  <2>5. TypeOK'
    BY <1>11, <2>1, <2>3, <1>0
      DEF BillingStatus, PastDueWrite, TypeOK, HandlerAlone, row, atStripe,
          history
  <2> QED
    BY <1>11, <2>1, <2>2, <2>3, <2>4, <2>5, <1>0, HandlerRest
      DEF PastDueWrite, row
<1>12. CASE HandlerFails(h)
  <2>1. /\ Busy(h) /\ UNCHANGED <<stripe, sent, requests, customers, row, addons>>
        /\ events' = events \cup {handlers[h].event}
    BY <1>12 DEF HandlerFails, Busy
  <2>2. Pending(handlers[h].event) /\ handlers[h].event \in Event
    BY <2>1, AtWork
  <2>3. HandlerAlone(h) /\ Handles(h)' /\ handlers'[h].pc = "idle"
    BY <1>12, <1>0, AnswerIdles DEF HandlerFails
  <2>4. \A e : Pending(e)' => Pending(e)
    BY <2>1, <2>2, <2>3, HandlerPending DEF Pending
  <2>5. TypeOK'
    <3>1. mishaps' \in Nat
      BY <1>12, <1>0 DEF HandlerFails, TypeOK
    <3> QED
      BY <1>12, <2>1, <2>2, <2>3, <3>1, <1>0
        DEF HandlerFails, TypeOK, HandlerAlone, row, history
  <2> QED
    BY <2>1, <2>3, <2>4, <2>5, <1>0, HandlerRest DEF row
<1> QED
  BY <1>1, <1>2, <1>3, <1>4, <1>5, <1>6, <1>7, <1>8, <1>9, <1>10, <1>11, <1>12
    DEF HandlerStep

LEMMA CheckoutAnnounces ==
  ASSUME TypeInv, NEW x \in sessions, NEW s \in 1..MaxSubscriptions, CheckoutCompletes(x, s)
  PROVE  \E new : Announces(s, {"checkout"}, new) /\ new.customer = x.customer
<1> DEFINE new == [customer |-> x.customer, plan |-> x.plan, status |-> "active",
                   items |-> NoItems]
<1>1. x.customer \in Nat /\ x.plan \in Plan
  BY DEF TypeInv, TypeOK
<1>2. NoItems \in [Addon -> Nat]
  BY DEF NoItems
<1>3. /\ new \in StripeSubscription /\ new.plan \in Plan /\ new.status = "active"
      /\ new.items = NoItems /\ new.customer = x.customer
  BY <1>1, <1>2 DEF StripeSubscription
<1>4. stripe[s].status = "none" /\ Sends({"checkout"}, s, new)
  BY DEF CheckoutCompletes
<1> HIDE DEF new
<1>5. Announces(s, {"checkout"}, new)
  BY <1>3, <1>4 DEF Announces, Announced, Starts
<1> QED
  BY <1>3, <1>5

LEMMA AnnouncementTypes ==
  ASSUME TypeInv, NEW s, NEW kinds, NEW new, Announces(s, kinds, new),
         sessions' \subseteq sessions,
         UNCHANGED <<row, addons, flowsActive, conversions, customers, requests, handlers,
                     history, mishaps>>
  PROVE  TypeInv'
<1>1. TypeOK'
  BY SendsFields DEF TypeInv, TypeOK, row, history
<1>2. Keeps /\ SubscriptionInv' /\ EventInv'
  BY AnnouncementKeeps, NewEvents
<1>3. customers <= customers'
  BY DEF TypeInv, TypeOK
<1> QED
  BY <1>1, <1>2, <1>3, RequestRest DEF row

LEMMA StripeTypes ==
  ASSUME TypeInv, NEW s \in 1..MaxSubscriptions, StripeStep(s)
  PROVE  TypeInv'
<1>0. TypeInv /\ TypeOK
  BY DEF TypeInv
<1>1. ASSUME NEW x \in sessions, CheckoutCompletes(x, s)
      PROVE  TypeInv'
  <2>1. /\ sessions' \subseteq sessions
        /\ UNCHANGED <<row, addons, flowsActive, conversions, customers, requests, handlers,
                       history, mishaps>>
    BY <1>1 DEF CheckoutCompletes
  <2>2. PICK new : Announces(s, {"checkout"}, new) /\ new.customer = x.customer
    BY <1>1, <1>0, CheckoutAnnounces
  <2> QED
    BY <2>1, <2>2, <1>0, AnnouncementTypes
<1>2. CASE PaymentFails(s)
  <2>1. /\ Alive(s)
        /\ Sends({"payment_failed", "updated"}, s, [stripe[s] EXCEPT !.status = "past_due"])
        /\ UNCHANGED <<row, addons, flowsActive, conversions, customers, sessions, requests,
                       handlers, history, mishaps>>
    BY <1>2 DEF PaymentFails, StripeChanges
  <2>2. \E kinds, new : Announces(s, kinds, new)
    BY <2>1, <1>0, StatusChanges
  <2> QED
    BY <2>1, <2>2, <1>0, AnnouncementTypes
<1>3. CASE PaymentRecovers(s)
  <2>1. /\ Alive(s) /\ Sends({"updated"}, s, [stripe[s] EXCEPT !.status = "active"])
        /\ UNCHANGED <<row, addons, flowsActive, conversions, customers, sessions, requests,
                       handlers, history, mishaps>>
    BY <1>3 DEF PaymentRecovers, StripeChanges
  <2>2. \E kinds, new : Announces(s, kinds, new)
    BY <2>1, <1>0, StatusChanges
  <2> QED
    BY <2>1, <2>2, <1>0, AnnouncementTypes
<1>4. CASE SubscriptionEnds(s)
  <2>1. /\ Alive(s) /\ Sends({"deleted"}, s, [stripe[s] EXCEPT !.status = "deleted"])
        /\ UNCHANGED <<row, addons, flowsActive, conversions, customers, sessions, requests,
                       handlers, history, mishaps>>
    BY <1>4 DEF SubscriptionEnds, StripeChanges
  <2>2. \E kinds, new : Announces(s, kinds, new)
    BY <2>1, <1>0, StatusChanges
  <2> QED
    BY <2>1, <2>2, <1>0, AnnouncementTypes
<1>5. ASSUME NEW a \in Addon, ItemRemoved(s, a)
      PROVE  TypeInv'
  <2>1. /\ Alive(s) /\ Sends({"updated"}, s, [stripe[s] EXCEPT !.items[a] = 0])
        /\ UNCHANGED <<row, addons, flowsActive, conversions, customers, sessions, requests,
                       handlers, history, mishaps>>
    BY <1>5 DEF ItemRemoved, StripeChanges
  <2>2. Known(s) /\ ~(stripe[s].status = "deleted")
    BY <2>1 DEF Alive, Known
  <2>3. Announces(s, {"updated"}, [stripe[s] EXCEPT !.items[a] = 0])
    BY <2>1, <2>2, <1>0, ItemChanges
  <2> QED
    BY <2>1, <2>3, <1>0, AnnouncementTypes
<1> QED
  BY <1>1, <1>2, <1>3, <1>4, <1>5 DEF StripeStep

LEMMA TypeStep == TypeInv /\ [Next]_vars => TypeInv'
<1> SUFFICES ASSUME TypeInv, [Next]_vars PROVE TypeInv'
  OBVIOUS
<1>1. CASE UNCHANGED vars
  BY <1>1
    DEF vars, row, atStripe, history, TypeInv, TypeOK, SubscriptionInv,
        EventInv,
              Pending, Busy, Says, Known, Handles, Item, Carries
<1> QED
  BY <1>1, RequestTypes, HandlerTypes, StripeTypes DEF Next

-----------------------------------------------------------------------------
(* Where each step leads the request, or the handler, that takes it.       *)
LEMMA Begins ==
  ASSUME TypeOK, NEW q \in Request
  PROVE  /\ \A p \in Plan : CheckoutRead(q, p) =>
              /\ Alone(q) /\ requests'[q].pc \in {"customer", "session"}
              /\ requests'[q].id = customer
              /\ requests'[q].pc = "session" => customer # 0
         /\ \A a \in Addon : SubscribeRead(q, a) => Alone(q) /\ requests'[q].pc = "item"
         /\ \A a \in Addon : CancelRead(q, a) => Alone(q) /\ requests'[q].pc = "deleteItem"
         /\ GuardPasses(q) => Alone(q) /\ requests'[q].pc = "flow"
<1>1. ASSUME NEW p \in Plan, CheckoutRead(q, p)
      PROVE  /\ Alone(q) /\ requests'[q].pc \in {"customer", "session"}
             /\ requests'[q].id = customer
             /\ requests'[q].pc = "session" => customer # 0
  <2> DEFINE r == [Idle EXCEPT !.op = "checkout", !.plan = p, !.id = customer,
                     !.pc = IF customer = 0 THEN "customer" ELSE "session"]
  <2>1. /\ r \in RequestState /\ r.id = customer /\ r.pc \in {"customer", "session"}
        /\ r.pc = "session" => customer # 0
    BY Beginnings
  <2>2. Begin(q, r)
    BY <1>1 DEF CheckoutRead
  <2> HIDE DEF r
  <2> QED
    BY <2>1, <2>2, BeginFields
<1>2. ASSUME NEW a \in Addon, SubscribeRead(q, a)
      PROVE  Alone(q) /\ requests'[q].pc = "item"
  <2> DEFINE r == [Idle EXCEPT !.op = "subscribe", !.pc = "item", !.addon = a,
                     !.id = subscription]
  <2>1. r \in RequestState /\ r.pc = "item"
    BY Beginnings
  <2>2. Begin(q, r)
    BY <1>2 DEF SubscribeRead
  <2> HIDE DEF r
  <2> QED
    BY <2>1, <2>2, BeginFields
<1>3. ASSUME NEW a \in Addon, CancelRead(q, a)
      PROVE  Alone(q) /\ requests'[q].pc = "deleteItem"
  <2> DEFINE r == [Idle EXCEPT !.op = "cancel", !.pc = "deleteItem", !.addon = a,
                     !.id = addons[a].item]
  <2>1. r \in RequestState /\ r.pc = "deleteItem"
    BY Beginnings
  <2>2. Begin(q, r)
    BY <1>3 DEF CancelRead
  <2> HIDE DEF r
  <2> QED
    BY <2>1, <2>2, BeginFields
<1>4. ASSUME GuardPasses(q)
      PROVE  Alone(q) /\ requests'[q].pc = "flow"
  <2> DEFINE r == [Idle EXCEPT !.op = "flow", !.pc = "flow"]
  <2>1. r \in RequestState /\ r.pc = "flow"
    BY Beginnings
  <2>2. Begin(q, r)
    BY <1>4 DEF GuardPasses
  <2> HIDE DEF r
  <2> QED
    BY <2>1, <2>2, BeginFields
<1> QED
  BY <1>1, <1>2, <1>3, <1>4

LEMMA Replied ==
  ASSUME TypeOK, NEW q \in Request, Reply(q)
  PROVE  Alone(q) /\ requests'[q].pc = "idle"
  BY ReplyFields DEF Idle

(* A handler goes on with its event, or is done with it.                   *)
Goes(h) ==
  /\ HandlerAlone(h) /\ Busy(h)
  /\ Busy(h)' => handlers'[h].event = handlers[h].event

LEMMA Answers ==
  ASSUME TypeOK, NEW h \in Handler, Busy(h), Answer(h)
  PROVE  Goes(h) /\ handlers'[h].pc = "idle"
  BY AnswerIdles DEF Goes, Busy

LEMMA Resumes ==
  ASSUME TypeOK, NEW h \in Handler, NEW pc \in HandlerPc, Busy(h), Resume(h, pc)
  PROVE  /\ Goes(h) /\ handlers'[h].pc = pc /\ handlers'[h].todo = handlers[h].todo
         /\ handlers'[h].addon = handlers[h].addon /\ handlers'[h].event = handlers[h].event
  BY ResumeFields DEF Goes

LEMMA HandlerGoes ==
  ASSUME TypeOK, NEW h \in Handler
  PROVE  /\ PlanWrite(h) => Goes(h) /\ handlers'[h].pc \in {"idle", "convert"}
         /\ RecordTrialConverted(h) => Goes(h) /\ handlers'[h].pc = "idle"
         /\ StatusWrite(h) => /\ Goes(h) /\ handlers'[h].pc = "addons"
                              /\ handlers'[h].todo = Addon
         /\ AddonsDone(h) => Goes(h) /\ handlers'[h].pc = "idle"
         /\ \A a \in Addon : AddonRead(h, a) =>
              /\ Goes(h) /\ handlers'[h].pc = Verdict(h, a) /\ handlers'[h].addon = a
              /\ handlers'[h].todo = handlers[h].todo \ {a}
         /\ AddonActivate(h) => /\ Goes(h) /\ handlers'[h].pc = "addons"
                                /\ handlers'[h].todo = handlers[h].todo
         /\ AddonCancel(h) => /\ Goes(h) /\ handlers'[h].pc = "flows"
                              /\ handlers'[h].todo = handlers[h].todo
         /\ DeactivateAutomationFlows(h) => /\ Goes(h) /\ handlers'[h].pc = "addons"
                                            /\ handlers'[h].todo = handlers[h].todo
         /\ RevertWrite(h) => Goes(h) /\ handlers'[h].pc = "idle"
         /\ PastDueWrite(h) => Goes(h) /\ handlers'[h].pc = "idle"
<1>1. "convert" \in HandlerPc /\ "addons" \in HandlerPc /\ "flows" \in HandlerPc
  BY DEF HandlerPc
<1>2. PlanWrite(h) => Goes(h) /\ handlers'[h].pc \in {"idle", "convert"}
  BY <1>1, Answers, Resumes DEF PlanWrite, Busy
<1>3. /\ RecordTrialConverted(h) => Goes(h) /\ handlers'[h].pc = "idle"
      /\ AddonsDone(h) => Goes(h) /\ handlers'[h].pc = "idle"
      /\ RevertWrite(h) => Goes(h) /\ handlers'[h].pc = "idle"
      /\ PastDueWrite(h) => Goes(h) /\ handlers'[h].pc = "idle"
  BY Answers
    DEF RecordTrialConverted, AddonsDone, RevertWrite, PastDueWrite, Busy
<1>4. StatusWrite(h) => /\ Goes(h) /\ handlers'[h].pc = "addons"
                        /\ handlers'[h].todo = Addon
  <2> SUFFICES ASSUME StatusWrite(h)
               PROVE  Goes(h) /\ handlers'[h].pc = "addons" /\ handlers'[h].todo = Addon
    OBVIOUS
  <2>1. Busy(h)
    BY DEF StatusWrite, Busy
  <2> QED
    BY <2>1, StatusFields DEF Goes
<1>5. ASSUME NEW a \in Addon, AddonRead(h, a)
      PROVE  /\ Goes(h) /\ handlers'[h].pc = Verdict(h, a) /\ handlers'[h].addon = a
             /\ handlers'[h].todo = handlers[h].todo \ {a}
  <2>1. Busy(h)
    BY <1>5 DEF AddonRead, Busy
  <2> QED
    BY <2>1, <1>5, ReadFields DEF Goes
<1>6. /\ AddonActivate(h) => /\ Goes(h) /\ handlers'[h].pc = "addons"
                             /\ handlers'[h].todo = handlers[h].todo
      /\ AddonCancel(h) => /\ Goes(h) /\ handlers'[h].pc = "flows"
                           /\ handlers'[h].todo = handlers[h].todo
      /\ DeactivateAutomationFlows(h) => /\ Goes(h) /\ handlers'[h].pc = "addons"
                                         /\ handlers'[h].todo = handlers[h].todo
  BY <1>1, Resumes
    DEF AddonActivate, AddonCancel, DeactivateAutomationFlows, Busy
<1> QED
  BY <1>2, <1>3, <1>4, <1>5, <1>6

(* Stripe's own steps, and what they announce.                             *)
LEMMA StripeAnnounces ==
  ASSUME TypeInv, NEW s \in 1..MaxSubscriptions, StripeStep(s)
  PROVE  /\ UNCHANGED <<row, addons, flowsActive, conversions, customers, requests, handlers,
                        history, mishaps>>
         /\ \/ \E x \in sessions : \E new :
                 /\ Announces(s, {"checkout"}, new) /\ Starts(s, {"checkout"}, new)
                 /\ new.customer = x.customer /\ sessions' = sessions \ {x}
            \/ \E kinds, new :
                 /\ Announces(s, kinds, new) /\ Changes(s, kinds, new)
                 /\ UNCHANGED sessions
                 /\ \A a \in Addon : new.items[a] = stripe[s].items[a] \/ new.items[a] = 0
<1>1. ASSUME NEW x \in sessions, CheckoutCompletes(x, s)
      PROVE  /\ UNCHANGED <<row, addons, flowsActive, conversions, customers, requests,
                            handlers, history, mishaps>>
             /\ \E new :
                 /\ Announces(s, {"checkout"}, new) /\ Starts(s, {"checkout"}, new)
                 /\ new.customer = x.customer /\ sessions' = sessions \ {x}
  <2>1. stripe[s].status = "none"
    BY <1>1 DEF CheckoutCompletes
  <2>2. PICK new : Announces(s, {"checkout"}, new) /\ new.customer = x.customer
    BY <1>1, CheckoutAnnounces
  <2>3. Starts(s, {"checkout"}, new)
    BY <2>1, <2>2 DEF Announces, Changes
  <2> QED
    BY <1>1, <2>2, <2>3 DEF CheckoutCompletes
<1>2. ASSUME NEW status \in {"active", "past_due", "deleted"}, NEW kinds,
             StripeChanges(kinds, s, [stripe[s] EXCEPT !.status = status]),
             \/ kinds = {"deleted"} /\ status = "deleted"
             \/ kinds = {"updated"} /\ status = "active"
             \/ kinds = {"payment_failed", "updated"} /\ status = "past_due"
      PROVE  /\ UNCHANGED <<row, addons, flowsActive, conversions, customers, requests,
                            handlers, history, mishaps>>
             /\ \E new :
                 /\ Announces(s, kinds, new) /\ Changes(s, kinds, new)
                 /\ UNCHANGED sessions
                 /\ \A a \in Addon : new.items[a] = stripe[s].items[a] \/ new.items[a] = 0
  <2>1. Alive(s) /\ Sends(kinds, s, [stripe[s] EXCEPT !.status = status])
    BY <1>2 DEF StripeChanges
  <2>2. PICK new : Announces(s, kinds, new) /\ new.items = stripe[s].items
    BY <2>1, <1>2, StatusChanges
  <2>3. Changes(s, kinds, new)
    BY <2>1, <2>2 DEF Announces, Starts, Alive
  <2> QED
    BY <1>2, <2>2, <2>3 DEF StripeChanges
<1>3. ASSUME NEW a \in Addon, ItemRemoved(s, a)
      PROVE  /\ UNCHANGED <<row, addons, flowsActive, conversions, customers, requests,
                            handlers, history, mishaps>>
             /\ \E new :
                 /\ Announces(s, {"updated"}, new) /\ Changes(s, {"updated"}, new)
                 /\ UNCHANGED sessions
                 /\ \A b \in Addon : new.items[b] = stripe[s].items[b] \/ new.items[b] = 0
  <2>1. Alive(s) /\ Sends({"updated"}, s, [stripe[s] EXCEPT !.items[a] = 0])
    BY <1>3 DEF ItemRemoved, StripeChanges
  <2>2. Known(s) /\ ~(stripe[s].status = "deleted")
    BY <2>1 DEF Alive, Known
  <2> DEFINE new == [stripe[s] EXCEPT !.items[a] = 0]
  <2>3. /\ Announces(s, {"updated"}, new) /\ new.items[a] = 0
        /\ \A b \in Addon \ {a} : new.items[b] = stripe[s].items[b]
    BY <2>1, <2>2, ItemChanges
  <2> HIDE DEF new
  <2>4. Changes(s, {"updated"}, new)
    BY <2>1, <2>3 DEF Announces, Starts, Alive
  <2>5. UNCHANGED <<row, addons, flowsActive, conversions, customers, sessions, requests,
                    handlers, history, mishaps>>
    BY <1>3 DEF ItemRemoved, StripeChanges
  <2> QED
    BY <2>3, <2>4, <2>5
<1>4. PaymentFails(s) => StripeChanges({"payment_failed", "updated"}, s,
                                       [stripe[s] EXCEPT !.status = "past_due"])
  BY DEF PaymentFails
<1>5. PaymentRecovers(s) => StripeChanges({"updated"}, s, [stripe[s] EXCEPT !.status = "active"])
  BY DEF PaymentRecovers
<1>6. SubscriptionEnds(s) => StripeChanges({"deleted"}, s, [stripe[s] EXCEPT !.status = "deleted"])
  BY DEF SubscriptionEnds
<1> QED
  BY <1>1, <1>2, <1>3, <1>4, <1>5, <1>6 DEF StripeStep

-----------------------------------------------------------------------------
(* FlowsInv: nobody else switches flows on, or the flag of the history is  *)
(* up.                                                                     *)
LEMMA SameFlows ==
  ASSUME FlowsInv, crossed => crossed', mishaps' = 0 => mishaps = 0,
         addons[FlowAddon].status = "active" => addons'[FlowAddon].status = "active",
         flowsActive' => flowsActive \/ FlowPassed, FlowPassed' => FlowPassed,
         \A h \in Handler : handlers[h].pc = "flows" => handlers'[h].pc = "flows"
  PROVE  FlowsInv'
  BY DEF FlowsInv

LEMMA NoNewFlow ==
  ASSUME NEW q \in Request, Alone(q), requests'[q].pc # "flow"
  PROVE  FlowPassed' => FlowPassed
  BY DEF FlowPassed, Alone

LEMMA StillFlows ==
  ASSUME NEW h \in Handler, HandlerAlone(h), handlers[h].pc # "flows"
  PROVE  \A g \in Handler : handlers[g].pc = "flows" => handlers'[g].pc = "flows"
  BY DEF HandlerAlone

LEMMA RequestFlows ==
  ASSUME TypeInv, FlowsInv, NEW q \in Request, RequestStep(q)
  PROVE  FlowsInv'
<1>0. TypeInv /\ TypeOK /\ mishaps \in Nat
  BY DEF TypeInv, TypeOK
<1>1. ASSUME NEW p \in Plan, CheckoutRead(q, p)
      PROVE  FlowsInv'
  <2>1. Alone(q) /\ requests'[q].pc /= "flow"
    BY <1>1, <1>0, Begins DEF CheckoutRead
  <2>2. UNCHANGED <<handlers, addons, crossed, mishaps, flowsActive>>
    BY <1>1 DEF CheckoutRead, Begin, history
  <2> QED
    BY <2>1, <2>2, NoNewFlow, SameFlows
<1>2. CASE CustomerCreate(q)
  <2>1. Alone(q) /\ requests'[q].pc /= "flow"
    BY <1>2, <1>0, CreateFields
  <2>2. UNCHANGED <<handlers, addons, crossed, mishaps, flowsActive>>
    BY <1>2 DEF CustomerCreate, Begin, history
  <2> QED
    BY <2>1, <2>2, NoNewFlow, SameFlows
<1>3. CASE CustomerSave(q)
  <2>1. Alone(q) /\ requests'[q].pc /= "flow"
    BY <1>3, <1>0, GotoFields DEF CustomerSave
  <2>2. UNCHANGED <<handlers, addons, crossed, mishaps, flowsActive>>
    BY <1>3 DEF CustomerSave, history
  <2> QED
    BY <2>1, <2>2, NoNewFlow, SameFlows
<1>4. CASE SessionCreate(q)
  <2>1. Alone(q) /\ requests'[q].pc /= "flow"
    BY <1>4, <1>0, Replied DEF SessionCreate
  <2>2. UNCHANGED <<handlers, addons, crossed, mishaps, flowsActive>>
    BY <1>4 DEF SessionCreate, Begin, history
  <2> QED
    BY <2>1, <2>2, NoNewFlow, SameFlows
<1>5. ASSUME NEW a \in Addon, SubscribeRead(q, a)
      PROVE  FlowsInv'
  <2>1. Alone(q) /\ requests'[q].pc /= "flow"
    BY <1>5, <1>0, Begins DEF SubscribeRead
  <2>2. UNCHANGED <<handlers, addons, crossed, mishaps, flowsActive>>
    BY <1>5 DEF SubscribeRead, Begin, history
  <2> QED
    BY <2>1, <2>2, NoNewFlow, SameFlows
<1>6. ASSUME NEW a \in Addon, CancelRead(q, a)
      PROVE  FlowsInv'
  <2>1. Alone(q) /\ requests'[q].pc /= "flow"
    BY <1>6, <1>0, Begins DEF CancelRead
  <2>2. UNCHANGED <<handlers, addons, crossed, mishaps, flowsActive>>
    BY <1>6 DEF CancelRead, Begin, history
  <2> QED
    BY <2>1, <2>2, NoNewFlow, SameFlows
<1>7. CASE ItemCreate(q)
  <2>1. Alone(q) /\ requests'[q].pc /= "flow"
    BY <1>7, <1>0, Replied DEF ItemCreate
  <2>2. UNCHANGED <<handlers, addons, mishaps, flowsActive>> /\ (crossed => crossed')
    BY <1>7 DEF ItemCreate
  <2> QED
    BY <2>1, <2>2, NoNewFlow, SameFlows
<1>8. CASE ItemDelete(q)
  <2>1. Alone(q) /\ requests'[q].pc /= "flow"
    BY <1>8, <1>0, Replied, GotoFields DEF ItemDelete
  <2>2. UNCHANGED <<handlers, addons, crossed, mishaps, flowsActive>>
    BY <1>8 DEF ItemDelete, history
  <2> QED
    BY <2>1, <2>2, NoNewFlow, SameFlows
<1>9. CASE CancelWrite(q)
  <2>1. Alone(q) /\ requests'[q].pc /= "flow"
    BY <1>9, <1>0, Replied DEF CancelWrite
  <2>2. flowsActive' = FALSE /\ crossed' = (crossed \/ FlowPassed)
    BY <1>9 DEF CancelWrite
  <2> QED
    BY <2>1, <2>2, NoNewFlow DEF FlowsInv
<1>10. CASE GuardPasses(q)
  <2>1. addons'[FlowAddon].status = "active"
    BY <1>10 DEF GuardPasses, Begin
  <2> QED
    BY <2>1 DEF FlowsInv
<1>11. CASE FlowOn(q)
  <2>1. Alone(q) /\ requests'[q].pc /= "flow" /\ FlowPassed
    BY <1>11, <1>0, Replied DEF FlowOn, At, FlowPassed
  <2>2. UNCHANGED <<handlers, addons, crossed, mishaps>>
    BY <1>11 DEF FlowOn, history
  <2> QED
    BY <2>1, <2>2, NoNewFlow, SameFlows
<1>12. CASE RequestFails(q)
  BY <1>12, <1>0 DEF RequestFails, FlowsInv
<1> QED
  BY <1>1, <1>2, <1>3, <1>4, <1>5, <1>6, <1>7, <1>8, <1>9, <1>10, <1>11, <1>12
    DEF RequestStep
LEMMA HandlerFlows ==
  ASSUME TypeInv, FlowsInv, NEW h \in Handler, HandlerStep(h)
  PROVE  FlowsInv'
<1>0. TypeInv /\ TypeOK /\ mishaps \in Nat
  BY DEF TypeInv, TypeOK
<1>1. ASSUME NEW e \in events, NEW again \in BOOLEAN, Deliver(h, e, again)
      PROVE  FlowsInv'
  <2>1. \A g \in Handler : handlers[g].pc = "flows" => handlers'[g].pc = "flows"
    <3>1. handlers' = handlers \/ HandlerAlone(h)
      BY <1>1, <1>0, DeliverFields
    <3>2. handlers[h].pc = "idle"
      BY <1>1 DEF Deliver
    <3> QED
      BY <3>1, <3>2, StillFlows
  <2>2. UNCHANGED <<requests, addons, crossed, flowsActive>> /\ (mishaps' = 0 => mishaps = 0)
    BY <1>1, <1>0 DEF Deliver
  <2> QED
    BY <2>1, <2>2, SameFlows DEF FlowPassed
<1>2. CASE PlanWrite(h)
  <2>1. HandlerAlone(h) /\ handlers[h].pc /= "flows"
    BY <1>2, <1>0, HandlerGoes DEF PlanWrite, Goes
  <2>2. UNCHANGED <<requests, addons, crossed, mishaps, flowsActive>>
    BY <1>2 DEF PlanWrite, history
  <2> QED
    BY <2>1, <2>2, StillFlows, SameFlows DEF FlowPassed
<1>3. CASE RecordTrialConverted(h)
  <2>1. HandlerAlone(h) /\ handlers[h].pc /= "flows"
    BY <1>3, <1>0, HandlerGoes DEF RecordTrialConverted, Goes
  <2>2. UNCHANGED <<requests, addons, crossed, mishaps, flowsActive>>
    BY <1>3 DEF RecordTrialConverted, history
  <2> QED
    BY <2>1, <2>2, StillFlows, SameFlows DEF FlowPassed
<1>4. CASE StatusWrite(h)
  <2>1. HandlerAlone(h) /\ handlers[h].pc /= "flows"
    BY <1>4, <1>0, HandlerGoes DEF StatusWrite, Goes
  <2>2. UNCHANGED <<requests, addons, crossed, mishaps, flowsActive>>
    BY <1>4 DEF StatusWrite, history
  <2> QED
    BY <2>1, <2>2, StillFlows, SameFlows DEF FlowPassed
<1>5. CASE AddonsDone(h)
  <2>1. HandlerAlone(h) /\ handlers[h].pc /= "flows"
    BY <1>5, <1>0, HandlerGoes DEF AddonsDone, Goes
  <2>2. UNCHANGED <<requests, addons, crossed, mishaps, flowsActive>>
    BY <1>5 DEF AddonsDone, history
  <2> QED
    BY <2>1, <2>2, StillFlows, SameFlows DEF FlowPassed
<1>6. ASSUME NEW a \in Addon, AddonRead(h, a)
      PROVE  FlowsInv'
  <2>1. HandlerAlone(h) /\ handlers[h].pc /= "flows"
    BY <1>6, <1>0, HandlerGoes DEF AddonRead, Goes
  <2>2. UNCHANGED <<requests, addons, crossed, mishaps, flowsActive>>
    BY <1>6 DEF AddonRead, history
  <2> QED
    BY <2>1, <2>2, StillFlows, SameFlows DEF FlowPassed
<1>7. CASE AddonActivate(h)
  <2>1. HandlerAlone(h) /\ handlers[h].pc /= "flows"
    BY <1>7, <1>0, HandlerGoes DEF AddonActivate, Goes
  <2>2. UNCHANGED <<requests, crossed, mishaps, flowsActive>>
    BY <1>7 DEF AddonActivate, history
  <2>3. addons[FlowAddon].status = "active" => addons'[FlowAddon].status = "active"
    <3> DEFINE r == [status |-> "active", item |-> Item(h, handlers[h].addon)]
    <3>1. addons' = [addons EXCEPT ![handlers[h].addon] = r] /\ addons \in [Addon -> AddonRow]
      BY <1>7, <1>0 DEF AddonActivate, TypeOK
    <3>2. r.status = "active"
      OBVIOUS
    <3> HIDE DEF r
    <3> QED
      BY <3>1, <3>2
  <2> QED
    BY <2>1, <2>2, <2>3, StillFlows, SameFlows DEF FlowPassed
<1>8. CASE AddonCancel(h)
  <2>1. handlers'[h].pc = "flows"
    BY <1>8, <1>0, HandlerGoes
  <2> QED
    BY <2>1 DEF FlowsInv
<1>9. CASE DeactivateAutomationFlows(h)
  <2>1. flowsActive' = FALSE /\ crossed' = (crossed \/ FlowPassed) /\ UNCHANGED requests
    BY <1>9 DEF DeactivateAutomationFlows
  <2> QED
    BY <2>1 DEF FlowsInv, FlowPassed
<1>10. CASE RevertWrite(h)
  <2>1. HandlerAlone(h) /\ handlers[h].pc /= "flows"
    BY <1>10, <1>0, HandlerGoes DEF RevertWrite, Goes
  <2>2. UNCHANGED <<requests, addons, crossed, mishaps, flowsActive>>
    BY <1>10 DEF RevertWrite, history
  <2> QED
    BY <2>1, <2>2, StillFlows, SameFlows DEF FlowPassed
<1>11. CASE PastDueWrite(h)
  <2>1. HandlerAlone(h) /\ handlers[h].pc /= "flows"
    BY <1>11, <1>0, HandlerGoes DEF PastDueWrite, Goes
  <2>2. UNCHANGED <<requests, addons, crossed, mishaps, flowsActive>>
    BY <1>11 DEF PastDueWrite, history
  <2> QED
    BY <2>1, <2>2, StillFlows, SameFlows DEF FlowPassed
<1>12. CASE HandlerFails(h)
  BY <1>12, <1>0 DEF HandlerFails, FlowsInv
<1> QED
  BY <1>1, <1>2, <1>3, <1>4, <1>5, <1>6, <1>7, <1>8, <1>9, <1>10, <1>11, <1>12
    DEF HandlerStep

LEMMA FlowsStep == TypeInv /\ FlowsInv /\ [Next]_vars => FlowsInv'
<1> SUFFICES ASSUME TypeInv, FlowsInv, [Next]_vars PROVE FlowsInv'
  OBVIOUS
<1>1. CASE UNCHANGED vars
  BY <1>1 DEF vars, history, FlowsInv, FlowPassed
<1>2. ASSUME NEW s \in 1..MaxSubscriptions, StripeStep(s)
      PROVE  FlowsInv'
  <2>1. UNCHANGED <<addons, flowsActive, requests, handlers, crossed, mishaps>>
    BY <1>2, StripeAnnounces DEF history
  <2> QED
    BY <2>1, SameFlows DEF FlowPassed
<1> QED
  BY <1>1, <1>2, RequestFlows, HandlerFlows DEF Next

-----------------------------------------------------------------------------
(* OursInv: sessions and subscriptions keep the customer of the row.       *)
Paying(q) ==
  \/ requests'[q] = requests[q]
  \/ requests'[q].pc \notin {"saveCustomer", "session"}
  \/ requests'[q].pc = "session" /\ customer # 0 /\ requests'[q].id = customer
SameCustomers == \A s : Known(s)' => Known(s) /\ stripe'[s].customer = stripe[s].customer

LEMMA SameOurs ==
  ASSUME OursInv, crowded => crowded', mishaps' = 0 => mishaps = 0, UNCHANGED customer,
         sessions' \subseteq sessions, \A q \in Request : Paying(q), SameCustomers
  PROVE  OursInv'
<1> SUFFICES ASSUME ~crowded', mishaps' = 0
             PROVE  /\ \A q \in Request :
                         /\ requests'[q].pc = "saveCustomer" =>
                              /\ customer = 0
                              /\ \A r \in Request : requests'[r].pc = "saveCustomer" => r = q
                         /\ requests'[q].pc = "session" =>
                              customer # 0 /\ requests'[q].id = customer
                    /\ \A x \in sessions' : customer # 0 /\ x.customer = customer
                    /\ \A s : Known(s)' => customer # 0 /\ stripe'[s].customer = customer
  BY DEF OursInv
<1>1. /\ \A q \in Request :
           /\ requests[q].pc = "saveCustomer" =>
                customer = 0 /\ \A r \in Request : requests[r].pc = "saveCustomer" => r = q
           /\ requests[q].pc = "session" => customer # 0 /\ requests[q].id = customer
      /\ \A x \in sessions : customer # 0 /\ x.customer = customer
      /\ \A s : Known(s) => customer # 0 /\ stripe[s].customer = customer
  BY DEF OursInv
<1>2. \A q \in Request : requests'[q].pc = "saveCustomer" => requests[q].pc = "saveCustomer"
  BY DEF Paying
<1>3. \A q \in Request : requests'[q].pc = "session" =>
        \/ requests[q].pc = "session" /\ requests'[q].id = requests[q].id
        \/ customer # 0 /\ requests'[q].id = customer
  BY DEF Paying
<1> QED
  BY <1>1, <1>2, <1>3 DEF SameCustomers

(* What an announced change does not touch.                                *)
LEMMA ChangesKeepCustomer ==
  ASSUME TypeInv, NEW s, NEW kinds, NEW new, Announces(s, kinds, new), Changes(s, kinds, new)
  PROVE  SameCustomers
<1>1. /\ s \in 1..MaxSubscriptions /\ stripe'[s] = new
      /\ \A r \in 1..MaxSubscriptions \ {s} : stripe'[r] = stripe[r]
  BY SendsFields DEF TypeInv, Announces
<1>2. stripe[s].status # "none" /\ new.customer = stripe[s].customer
  BY DEF Changes
<1> QED
  BY <1>1, <1>2 DEF Known, SameCustomers

LEMMA Changed ==
  ASSUME NEW s, NEW kinds, NEW new, Announces(s, kinds, new), kinds # {"checkout"}
  PROVE  Changes(s, kinds, new)
  BY DEF Announces, Starts

LEMMA RequestOurs ==
  ASSUME TypeInv, OursInv, NEW q \in Request, RequestStep(q)
  PROVE  OursInv'
<1>0. TypeInv /\ TypeOK
  BY DEF TypeInv
<1>1. ASSUME NEW p \in Plan, CheckoutRead(q, p)
      PROVE  OursInv'
  <2>1. Alone(q) /\ requests'[q].pc \in {"customer", "session"} /\ requests'[q].id = customer
        /\ (requests'[q].pc = "session" => ~(customer = 0))
    BY <1>1, <1>0, Begins DEF CheckoutRead
  <2>2. UNCHANGED <<customer, sessions, crowded, mishaps>> /\ SameCustomers
    BY <1>1
      DEF CheckoutRead, Begin, row, atStripe, history, Known, SameCustomers
  <2>3. \A r \in Request : Paying(r)
    BY <2>1 DEF Alone, Paying
  <2> QED
    BY <2>2, <2>3, SameOurs
<1>2. CASE CustomerCreate(q)
  <2>1. /\ Alone(q) /\ requests'[q].pc = "saveCustomer"
        /\ UNCHANGED <<customer, sessions, stripe, mishaps>> /\ (crowded => crowded')
    BY <1>2, <1>0, CreateFields DEF CustomerCreate, row
  <2>2. ~crowded' => customer = 0 /\ \A r \in Request \ {q} : ~(requests[r].pc = "saveCustomer")
    BY <1>2 DEF CustomerCreate
  <2> SUFFICES ASSUME ~crowded', mishaps' = 0 PROVE OursInv'
    BY DEF OursInv
  <2>3. OursInv /\ ~crowded /\ mishaps = 0
    BY <2>1
  <2>4. \A r \in Request : requests'[r].pc = "saveCustomer" => r = q
    BY <2>1, <2>2 DEF Alone
  <2>5. \A r \in Request : requests'[r].pc = "session" => requests'[r] = requests[r]
    BY <2>1 DEF Alone
  <2> QED
    BY <2>1, <2>2, <2>3, <2>4, <2>5 DEF OursInv, Known
<1>3. CASE CustomerSave(q)
  <2>1. /\ Alone(q) /\ requests[q].pc = "saveCustomer" /\ requests'[q].pc = "session"
        /\ requests'[q].id = customer'
    BY <1>3, <1>0, GotoFields DEF CustomerSave, At
  <2>2. UNCHANGED <<sessions, stripe, crowded, mishaps>>
    BY <1>3 DEF CustomerSave, atStripe, history
  <2>3. requests[q].id \in 1..customers /\ customer' = requests[q].id
    BY <1>3, <2>1, <1>0 DEF CustomerSave, TypeInv, Carries
  <2>4. ~(customer' = 0)
    BY <2>3, <1>0 DEF TypeOK
  <2> SUFFICES ASSUME ~crowded', mishaps' = 0 PROVE OursInv'
    BY DEF OursInv
  <2>5. /\ customer = 0 /\ sessions = {}
        /\ (\A r \in Request : requests[r].pc = "saveCustomer" => r = q)
        /\ (\A r \in Request : ~(requests[r].pc = "session"))
        /\ (\A s : ~Known(s))
    BY <2>1, <2>2 DEF OursInv
  <2>6. \A r \in Request : /\ ~(requests'[r].pc = "saveCustomer")
                          /\ (requests'[r].pc = "session" => r = q)
    BY <2>1, <2>5 DEF Alone
  <2> QED
    BY <2>1, <2>2, <2>4, <2>5, <2>6 DEF OursInv, Known
<1>4. CASE SessionCreate(q)
  <2>1. Alone(q) /\ requests'[q].pc = "idle" /\ requests[q].pc = "session"
    BY <1>4, <1>0, Replied DEF SessionCreate, At
  <2>2. UNCHANGED <<customer, stripe, crowded, mishaps>>
    BY <1>4 DEF SessionCreate, row, history
  <2> SUFFICES ASSUME ~crowded', mishaps' = 0 PROVE OursInv'
    BY DEF OursInv
  <2>3. ~(customer = 0) /\ requests[q].id = customer
    BY <2>1, <2>2 DEF OursInv
  <2>4. \A x \in sessions' : x \in sessions \/ x.customer = customer
    BY <1>4, <2>3 DEF SessionCreate
  <2>5. /\ (\A r \in Request : requests'[r].pc = "saveCustomer" => requests[r].pc = "saveCustomer")
        /\ (\A r \in Request : requests'[r].pc = "session" =>
              requests[r].pc = "session" /\ requests'[r].id = requests[r].id)
    BY <2>1 DEF Alone
  <2> QED
    BY <2>2, <2>3, <2>4, <2>5 DEF OursInv, Known
<1>5. ASSUME NEW a \in Addon, SubscribeRead(q, a)
      PROVE  OursInv'
  <2>1. Alone(q) /\ requests'[q].pc \notin {"saveCustomer", "session"}
    BY <1>5, <1>0, Begins DEF SubscribeRead
  <2>2. UNCHANGED <<customer, sessions, crowded, mishaps>> /\ SameCustomers
    BY <1>5
      DEF SubscribeRead, Begin, row, atStripe, history, Known, SameCustomers
  <2>3. \A r \in Request : Paying(r)
    BY <2>1 DEF Alone, Paying
  <2> QED
    BY <2>2, <2>3, SameOurs
<1>6. ASSUME NEW a \in Addon, CancelRead(q, a)
      PROVE  OursInv'
  <2>1. Alone(q) /\ requests'[q].pc \notin {"saveCustomer", "session"}
    BY <1>6, <1>0, Begins DEF CancelRead
  <2>2. UNCHANGED <<customer, sessions, crowded, mishaps>> /\ SameCustomers
    BY <1>6 DEF CancelRead, Begin, row, atStripe, history, Known, SameCustomers
  <2>3. \A r \in Request : Paying(r)
    BY <2>1 DEF Alone, Paying
  <2> QED
    BY <2>2, <2>3, SameOurs
<1>7. CASE ItemCreate(q)
  <2>1. Alone(q) /\ requests'[q].pc = "idle"
    BY <1>7, <1>0, Replied DEF ItemCreate
  <2>2. UNCHANGED <<customer, sessions, crowded, mishaps>>
    BY <1>7 DEF ItemCreate, row
  <2>3. SameCustomers
    <3>1. CASE UNCHANGED <<stripe, sent, events>>
      BY <3>1 DEF Known, SameCustomers
    <3>2. CASE ~(UNCHANGED <<stripe, sent, events>>)
      <4>1. PICK new : Announces(requests[q].id, {"updated"}, new)
        BY <1>7, <3>2, ItemCreateAnnounces
      <4> QED
        BY <4>1, Changed, ChangesKeepCustomer
    <3> QED
      BY <3>1, <3>2
  <2>4. \A r \in Request : Paying(r)
    BY <2>1 DEF Alone, Paying
  <2> QED
    BY <2>2, <2>3, <2>4, SameOurs
<1>8. CASE ItemDelete(q)
  <2>1. Alone(q) /\ requests'[q].pc \in {"idle", "write"}
    BY <1>8, <1>0, Replied, GotoFields DEF ItemDelete
  <2>2. UNCHANGED <<customer, sessions, crowded, mishaps>>
    BY <1>8 DEF ItemDelete, row, history
  <2>3. SameCustomers
    <3>1. CASE Reply(q) /\ UNCHANGED <<stripe, sent, events>>
      BY <3>1 DEF Known, SameCustomers
    <3>2. CASE ~(Reply(q) /\ UNCHANGED <<stripe, sent, events>>)
      <4>0. PICK s \in 1..MaxSubscriptions : \E new : Announces(s, {"updated"}, new)
        BY <1>8, <3>2, ItemDeleteAnnounces
      <4>1. PICK new : s \in 1..MaxSubscriptions /\ Announces(s, {"updated"}, new)
        BY <4>0
      <4> QED
        BY <4>1, Changed, ChangesKeepCustomer
    <3> QED
      BY <3>1, <3>2
  <2>4. \A r \in Request : Paying(r)
    BY <2>1 DEF Alone, Paying
  <2> QED
    BY <2>2, <2>3, <2>4, SameOurs
<1>9. CASE CancelWrite(q)
  <2>1. Alone(q) /\ requests'[q].pc \notin {"saveCustomer", "session"}
    BY <1>9, <1>0, Replied DEF CancelWrite
  <2>2. UNCHANGED <<customer, sessions, crowded, mishaps>> /\ SameCustomers
    BY <1>9 DEF CancelWrite, Begin, row, atStripe, history, Known, SameCustomers
  <2>3. \A r \in Request : Paying(r)
    BY <2>1 DEF Alone, Paying
  <2> QED
    BY <2>2, <2>3, SameOurs
<1>10. CASE GuardPasses(q)
  <2>1. Alone(q) /\ requests'[q].pc \notin {"saveCustomer", "session"}
    BY <1>10, <1>0, Begins DEF GuardPasses
  <2>2. UNCHANGED <<customer, sessions, crowded, mishaps>> /\ SameCustomers
    BY <1>10
      DEF GuardPasses, Begin, row, atStripe, history, Known, SameCustomers
  <2>3. \A r \in Request : Paying(r)
    BY <2>1 DEF Alone, Paying
  <2> QED
    BY <2>2, <2>3, SameOurs
<1>11. CASE FlowOn(q)
  <2>1. Alone(q) /\ requests'[q].pc \notin {"saveCustomer", "session"}
    BY <1>11, <1>0, Replied DEF FlowOn
  <2>2. UNCHANGED <<customer, sessions, crowded, mishaps>> /\ SameCustomers
    BY <1>11 DEF FlowOn, Begin, row, atStripe, history, Known, SameCustomers
  <2>3. \A r \in Request : Paying(r)
    BY <2>1 DEF Alone, Paying
  <2> QED
    BY <2>2, <2>3, SameOurs
<1>12. CASE RequestFails(q)
  BY <1>12, <1>0 DEF RequestFails, OursInv, TypeOK
<1> QED
  BY <1>1, <1>2, <1>3, <1>4, <1>5, <1>6, <1>7, <1>8, <1>9, <1>10, <1>11, <1>12
    DEF RequestStep

LEMMA HandlerLeaves ==
  ASSUME NEW h \in Handler, HandlerStep(h)
  PROVE  /\ UNCHANGED <<customer, customers, sessions, stripe, sent, requests, crowded>>
         /\ crossed => crossed'
         /\ shuffled => shuffled'
<1>1. ASSUME NEW e \in events, NEW again \in BOOLEAN, Deliver(h, e, again)
      PROVE  /\ UNCHANGED <<customer, customers, sessions, stripe, sent, requests, crowded>>
             /\ crossed => crossed'
             /\ shuffled => shuffled'
  BY <1>1 DEF Deliver, row, atStripe, history
<1>2. CASE PlanWrite(h)
  BY <1>2 DEF PlanWrite, row, atStripe, history
<1>3. CASE RecordTrialConverted(h)
  BY <1>3 DEF RecordTrialConverted, row, atStripe, history
<1>4. CASE StatusWrite(h)
  BY <1>4 DEF StatusWrite, row, atStripe, history
<1>5. CASE AddonsDone(h)
  BY <1>5 DEF AddonsDone, row, atStripe, history
<1>6. CASE \E a \in Addon : AddonRead(h, a)
  BY <1>6 DEF AddonRead, row, atStripe, history
<1>7. CASE AddonActivate(h)
  BY <1>7 DEF AddonActivate, row, atStripe, history
<1>8. CASE AddonCancel(h)
  BY <1>8 DEF AddonCancel, row, atStripe, history
<1>9. CASE DeactivateAutomationFlows(h)
  BY <1>9 DEF DeactivateAutomationFlows, row, atStripe, history
<1>10. CASE RevertWrite(h)
  BY <1>10 DEF RevertWrite, row, atStripe, history
<1>11. CASE PastDueWrite(h)
  BY <1>11 DEF PastDueWrite, row, atStripe, history
<1>12. CASE HandlerFails(h)
  BY <1>12 DEF HandlerFails, row, atStripe, history
<1> QED
  BY <1>1, <1>2, <1>3, <1>4, <1>5, <1>6, <1>7, <1>8, <1>9, <1>10, <1>11, <1>12
    DEF HandlerStep

LEMMA Mishaps ==
  ASSUME TypeInv, NEW h \in Handler, HandlerStep(h)
  PROVE  mishaps' = 0 => mishaps = 0
<1>0. mishaps \in Nat
  BY DEF TypeInv, TypeOK
<1>1. CASE \E e \in events, again \in BOOLEAN : Deliver(h, e, again)
  BY <1>1, <1>0 DEF Deliver
<1>2. CASE PlanWrite(h)
  BY <1>2, <1>0 DEF PlanWrite
<1>3. CASE RecordTrialConverted(h)
  BY <1>3, <1>0 DEF RecordTrialConverted
<1>4. CASE StatusWrite(h)
  BY <1>4, <1>0 DEF StatusWrite
<1>5. CASE AddonsDone(h)
  BY <1>5, <1>0 DEF AddonsDone
<1>6. CASE \E a \in Addon : AddonRead(h, a)
  BY <1>6, <1>0 DEF AddonRead
<1>7. CASE AddonActivate(h)
  BY <1>7, <1>0 DEF AddonActivate
<1>8. CASE AddonCancel(h)
  BY <1>8, <1>0 DEF AddonCancel
<1>9. CASE DeactivateAutomationFlows(h)
  BY <1>9, <1>0 DEF DeactivateAutomationFlows
<1>10. CASE RevertWrite(h)
  BY <1>10, <1>0 DEF RevertWrite
<1>11. CASE PastDueWrite(h)
  BY <1>11, <1>0 DEF PastDueWrite
<1>12. CASE HandlerFails(h)
  BY <1>12, <1>0 DEF HandlerFails
<1> QED
  BY <1>1, <1>2, <1>3, <1>4, <1>5, <1>6, <1>7, <1>8, <1>9, <1>10, <1>11, <1>12
    DEF HandlerStep

LEMMA OursStep == TypeInv /\ OursInv /\ [Next]_vars => OursInv'
<1> SUFFICES ASSUME TypeInv, OursInv, [Next]_vars PROVE OursInv'
  OBVIOUS
<1>1. CASE UNCHANGED vars
  BY <1>1 DEF vars, row, atStripe, history, OursInv, Known
<1>2. ASSUME NEW h \in Handler, HandlerStep(h)
      PROVE  OursInv'
  <2>1. UNCHANGED <<customer, sessions, stripe, requests, crowded>>
    BY <1>2, HandlerLeaves
  <2>2. mishaps' = 0 => mishaps = 0
    BY <1>2, Mishaps
  <2>3. SameCustomers /\ \A q \in Request : Paying(q)
    BY <2>1 DEF Known, SameCustomers, Paying
  <2> QED
    BY <2>1, <2>2, <2>3, SameOurs
<1>3. ASSUME NEW s \in 1..MaxSubscriptions, StripeStep(s)
      PROVE  OursInv'
  <2>1. UNCHANGED <<customer, requests, crowded, mishaps>>
    BY <1>3, StripeAnnounces DEF row, history
  <2>2. CASE \E kinds, new : /\ Announces(s, kinds, new) /\ Changes(s, kinds, new)
                             /\ UNCHANGED sessions
    <3>1. SameCustomers
      BY <2>2, ChangesKeepCustomer
    <3>2. \A q \in Request : Paying(q)
      BY <2>1 DEF Paying
    <3> QED
      BY <2>1, <2>2, <3>1, <3>2, SameOurs
  <2>3. ASSUME NEW x \in sessions, NEW new, Announces(s, {"checkout"}, new),
               new.customer = x.customer, sessions' = sessions \ {x}
        PROVE  OursInv'
    <3>1. /\ stripe'[s] = new
          /\ \A r \in 1..MaxSubscriptions \ {s} : stripe'[r] = stripe[r]
      BY <2>3, SendsFields DEF TypeInv
    <3>2. \A r : Known(r)' => \/ Known(r) /\ stripe'[r].customer = stripe[r].customer
                              \/ stripe'[r].customer = x.customer
      BY <2>3, <3>1 DEF Known
    <3> QED
      BY <2>1, <2>3, <3>2 DEF OursInv
  <2> QED
    BY <2>2, <2>3, <1>3, StripeAnnounces
<1> QED
  BY <1>1, <1>2, <1>3, RequestOurs DEF Next

-----------------------------------------------------------------------------
(* TurnInv: what is sent is younger than all that is pending, and what is  *)
(* delivered in its turn is the oldest.                                    *)
LEMMA Numbers ==
  ASSUME TypeInv, NEW e, Pending(e)
  PROVE  e \in Event /\ e.n \in Nat /\ e.n <= sent /\ sent \in Nat
<1>1. Says(e) /\ sent \in Nat
  BY DEF TypeInv, TypeOK, EventInv
<1> QED
  BY <1>1 DEF Says, Event

LEMMA BusyPends ==
  ASSUME NEW h \in Handler, Busy(h) PROVE Pending(handlers[h].event)
  BY DEF Pending

LEMMA SameTurn ==
  ASSUME TurnInv, shuffled => shuffled', UNCHANGED <<events, handlers>>
  PROVE  TurnInv'
  BY DEF TurnInv, Busy

LEMMA SentTurn ==
  ASSUME TypeInv, TurnInv, NEW s, NEW kinds, NEW new, Announces(s, kinds, new),
         UNCHANGED <<handlers, shuffled>>
  PROVE  TurnInv'
<1> SUFFICES ASSUME ~shuffled PROVE TurnInv'
  BY DEF TurnInv
<1>1. /\ \A g, h \in Handler : Busy(g) /\ Busy(h) => g = h
      /\ \A h \in Handler, f \in events : Busy(h) => handlers[h].event.n < f.n
      /\ \A e, f \in events : e.n = f.n => e = f
  BY DEF TurnInv
<1>2. /\ sent \in Nat
      /\ \A e \in events' \ events : e.n \in Nat /\ e.n > sent
      /\ \A e, f \in events' \ events : e.n = f.n => e = f
  BY SendsFields DEF TypeInv, TypeOK, Event
<1>3. \A e \in events : e.n \in Nat /\ e.n <= sent
  BY Numbers DEF Pending
<1>4. \A h \in Handler : Busy(h) => handlers[h].event.n \in Nat /\ handlers[h].event.n <= sent
  BY Numbers, BusyPends
<1>5. \A h \in Handler, f \in events' : Busy(h) => handlers[h].event.n < f.n
  BY <1>1, <1>2, <1>4
<1>6. \A e, f \in events' : e.n = f.n => e = f
  BY <1>1, <1>2, <1>3
<1> QED
  BY <1>1, <1>5, <1>6 DEF TurnInv, Busy

LEMMA GoesTurn ==
  ASSUME TurnInv, NEW h \in Handler, Goes(h), UNCHANGED <<events, shuffled>>
  PROVE  TurnInv'
  BY DEF TurnInv, Goes, HandlerAlone, Busy

LEMMA DeliverTurn ==
  ASSUME TypeInv, TurnInv, NEW h \in Handler, NEW e \in events, NEW again \in BOOLEAN,
         Deliver(h, e, again)
  PROVE  TurnInv'
<1> SUFFICES ASSUME ~shuffled' PROVE TurnInv'
  BY DEF TurnInv
<1>1. /\ ~shuffled /\ ~again /\ events' = events \ {e} /\ ~Busy(h)
      /\ \A f \in events : ~(f.n < e.n)
      /\ \A g \in Handler \ {h} : ~Busy(g)
  BY DEF Deliver, Busy
<1>2. \A f, g \in events : f.n = g.n => f = g
  BY <1>1 DEF TurnInv
<1>3. \A f \in events : f.n \in Nat
  BY Numbers DEF Pending
<1>4. \A f \in events' : e.n < f.n
  BY <1>1, <1>2, <1>3
<1>5. CASE handlers' = handlers
  BY <1>1, <1>2, <1>5 DEF TurnInv, Busy
<1>6. CASE HandlerAlone(h) /\ handlers'[h].event = e
  BY <1>1, <1>2, <1>4, <1>6 DEF TurnInv, Busy, HandlerAlone
<1> QED
  BY <1>5, <1>6, DeliverFields

LEMMA FailTurn ==
  ASSUME TypeInv, TurnInv, NEW h \in Handler, HandlerFails(h)
  PROVE  TurnInv'
<1> SUFFICES ASSUME ~shuffled' PROVE TurnInv'
  BY DEF TurnInv
<1>1. Busy(h) /\ events' = events \cup {handlers[h].event} /\ ~shuffled /\ Answer(h)
  BY DEF HandlerFails, Busy, history
<1>2. HandlerAlone(h) /\ ~(Busy(h)')
  BY <1>1, AnswerIdles DEF TypeInv, Busy
<1>3. /\ \A g, k \in Handler : Busy(g) /\ Busy(k) => g = k
      /\ \A f \in events : handlers[h].event.n < f.n
      /\ \A e, f \in events : e.n = f.n => e = f
  BY <1>1 DEF TurnInv
<1>4. handlers[h].event.n \in Nat /\ \A f \in events : f.n \in Nat
  BY <1>1, Numbers, BusyPends DEF Pending
<1>5. \A e, f \in events' : e.n = f.n => e = f
  BY <1>1, <1>3, <1>4
<1>6. \A g \in Handler : ~(Busy(g)')
  BY <1>1, <1>2, <1>3 DEF HandlerAlone, Busy
<1> QED
  BY <1>5, <1>6 DEF TurnInv

(* Most steps of a handler leave what Stripe has sent, and the order.      *)
LEMMA HandlerTurn ==
  ASSUME TypeInv, TurnInv, NEW h \in Handler, HandlerStep(h)
  PROVE  TurnInv'
<1>0. TypeOK
  BY DEF TypeInv
<1>1. PlanWrite(h) => Goes(h) /\ UNCHANGED <<events, shuffled>>
  BY <1>0, HandlerGoes DEF PlanWrite, atStripe, history
<1>2. RecordTrialConverted(h) => Goes(h) /\ UNCHANGED <<events, shuffled>>
  BY <1>0, HandlerGoes DEF RecordTrialConverted, atStripe, history
<1>3. StatusWrite(h) => Goes(h) /\ UNCHANGED <<events, shuffled>>
  BY <1>0, HandlerGoes DEF StatusWrite, atStripe, history
<1>4. AddonsDone(h) => Goes(h) /\ UNCHANGED <<events, shuffled>>
  BY <1>0, HandlerGoes DEF AddonsDone, atStripe, history
<1>5. \A a \in Addon : AddonRead(h, a) => Goes(h) /\ UNCHANGED <<events, shuffled>>
  BY <1>0, HandlerGoes DEF AddonRead, atStripe, history
<1>6. AddonActivate(h) => Goes(h) /\ UNCHANGED <<events, shuffled>>
  BY <1>0, HandlerGoes DEF AddonActivate, atStripe, history
<1>7. AddonCancel(h) => Goes(h) /\ UNCHANGED <<events, shuffled>>
  BY <1>0, HandlerGoes DEF AddonCancel, atStripe, history
<1>8. DeactivateAutomationFlows(h) => Goes(h) /\ UNCHANGED <<events, shuffled>>
  BY <1>0, HandlerGoes DEF DeactivateAutomationFlows, atStripe
<1>9. RevertWrite(h) => Goes(h) /\ UNCHANGED <<events, shuffled>>
  BY <1>0, HandlerGoes DEF RevertWrite, atStripe, history
<1>10. PastDueWrite(h) => Goes(h) /\ UNCHANGED <<events, shuffled>>
  BY <1>0, HandlerGoes DEF PastDueWrite, atStripe, history
<1> QED
  BY <1>1, <1>2, <1>3, <1>4, <1>5, <1>6, <1>7, <1>8, <1>9, <1>10, GoesTurn,
     DeliverTurn,
     FailTurn DEF HandlerStep

LEMMA RequestTurn ==
  ASSUME TypeInv, TurnInv, NEW q \in Request, RequestStep(q)
  PROVE  TurnInv'
<1>1. ASSUME ItemCreate(q)
      PROVE  TurnInv'
  <2>1. UNCHANGED <<handlers, shuffled>>
    BY <1>1 DEF ItemCreate
  <2>2. CASE UNCHANGED <<stripe, sent, events>>
    BY <2>1, <2>2, SameTurn
  <2>3. CASE ~(UNCHANGED <<stripe, sent, events>>)
    BY <1>1, <2>1, <2>3, ItemCreateAnnounces, SentTurn
  <2> QED
    BY <2>2, <2>3
<1>2. ASSUME ItemDelete(q)
      PROVE  TurnInv'
  <2>1. UNCHANGED <<handlers, shuffled>>
    BY <1>2 DEF ItemDelete, history
  <2>2. CASE Reply(q) /\ UNCHANGED <<stripe, sent, events>>
    BY <2>1, <2>2, SameTurn
  <2>3. CASE ~(Reply(q) /\ UNCHANGED <<stripe, sent, events>>)
    BY <1>2, <2>1, <2>3, ItemDeleteAnnounces, SentTurn
  <2> QED
    BY <2>2, <2>3
<1>3. \A p \in Plan : CheckoutRead(q, p) => UNCHANGED <<events, handlers, shuffled>>
  BY DEF CheckoutRead, Begin, atStripe, history
<1>4. \A a \in Addon : SubscribeRead(q, a) \/ CancelRead(q, a) =>
        UNCHANGED <<events, handlers, shuffled>>
  BY DEF SubscribeRead, CancelRead, Begin, atStripe, history
<1>5. CustomerCreate(q) \/ CustomerSave(q) \/ SessionCreate(q) =>
        UNCHANGED <<events, handlers, shuffled>>
  BY DEF CustomerCreate, CustomerSave, SessionCreate, atStripe, history
<1>6. CancelWrite(q) \/ GuardPasses(q) \/ FlowOn(q) \/ RequestFails(q) =>
        UNCHANGED <<events, handlers, shuffled>>
  BY
    DEF CancelWrite, GuardPasses, FlowOn, RequestFails, Begin, atStripe, history
<1>7. UNCHANGED <<events, handlers, shuffled>> => TurnInv'
  BY SameTurn
<1> QED
  BY <1>1, <1>2, <1>3, <1>4, <1>5, <1>6, <1>7 DEF RequestStep

LEMMA TurnStep == TypeInv /\ TurnInv /\ [Next]_vars => TurnInv'
<1> SUFFICES ASSUME TypeInv, TurnInv, [Next]_vars PROVE TurnInv'
  OBVIOUS
<1>1. CASE UNCHANGED vars
  BY <1>1, SameTurn DEF vars, atStripe, history
<1>2. ASSUME NEW s \in 1..MaxSubscriptions, StripeStep(s)
      PROVE  TurnInv'
  BY <1>2, StripeAnnounces, SentTurn DEF history
<1> QED
  BY <1>1, <1>2, RequestTurn, HandlerTurn DEF Next

-----------------------------------------------------------------------------
(* MirrorInv, when Stripe announces something about the subscription.      *)
LEMMA OnlyOne ==
  ASSUME TypeInv, NEW s, NEW kinds, NEW new, Announces(s, kinds, new), NEW r, Only(r)'
  PROVE  r = s /\ stripe'[s] = new /\ \A t : Known(t) => t = s
<1>1. Known(s)' /\ Keeps
  BY AnnouncementKeeps
<1>2. stripe'[s] = new
  BY SendsFields DEF TypeInv
<1> QED
  BY <1>1, <1>2 DEF Only, Keeps

LEMMA MirrorChanged ==
  ASSUME TypeInv, MirrorInv, NEW s, NEW kinds, NEW new, Announces(s, kinds, new),
         Changes(s, kinds, new),
         UNCHANGED <<handlers, planType, billingStatus, subscription, addons>>,
         Calm' => Calm, Calm' /\ Only(s) /\ ItemIsOff(s) => ItemIsOff(s)',
         "updated" \in kinds \/ UNCHANGED requests
  PROVE  MirrorInv'
<1> SUFFICES ASSUME Calm', NEW r, Only(r)'
             PROVE  /\ NewestSays(r)' /\ EndIsLast(r)' /\ ItemIsOff(r)'
                    /\ PlanInv(r)' /\ StatusInv(r)' /\ AddonsInv(r)'
  BY DEF MirrorInv
<1>1. r = s /\ stripe'[s] = new /\ \A t : Known(t) => t = s
  BY OnlyOne
<1>2. s \in 1..MaxSubscriptions /\ Known(s) /\ stripe[s].status \in {"active", "past_due"}
  BY DEF Announces, Changes, Known
<1>3. Calm /\ Only(s)
  BY <1>1, <1>2 DEF Only
<1>4. /\ NewestSays(s) /\ EndIsLast(s) /\ ItemIsOff(s)
      /\ PlanInv(s) /\ StatusInv(s) /\ AddonsInv(s)
  BY <1>3 DEF MirrorInv
<1>5. /\ events \subseteq events'
      /\ \A e \in events' \ events : e.n > sent /\ e.n \in Nat /\ e.kind \in kinds /\ e.of = new
      /\ \A k \in kinds : \E e \in events' : e.n > sent /\ e.n \in Nat /\ e.kind = k
      /\ \A e, f \in events' \ events : e.kind = f.kind => e = f
  BY SendsFields DEF TypeInv, Event
<1>6. \A e : Pending(e)' <=> Pending(e) \/ e \in events' \ events
  BY <1>5 DEF Pending, Busy
<1>7. sent \in Nat /\ \A e : Pending(e) => e.n \in Nat /\ e.n <= sent
  BY Numbers DEF TypeInv, TypeOK
<1>8. /\ kinds \in {{"deleted"}, {"updated"}, {"payment_failed", "updated"}}
      /\ kinds = {"deleted"} => new.status = "deleted" /\ new.items = stripe[s].items
      /\ "updated" \in kinds => new.status \in {"active", "past_due"}
      /\ new.plan = stripe[s].plan
  BY DEF Changes
<1>9. NewestSays(s)'
  <2>1. ASSUME NEW e, Pending(e)', \A f : Pending(f)' => f.n <= e.n
        PROVE  e.of = stripe'[s]
    <3>1. PICK f \in events' : f.n > sent /\ f.n \in Nat
      BY <1>5, <1>8
    <3>2. f.n <= e.n
      BY <2>1, <3>1 DEF Pending
    <3>3. ~Pending(e)
      BY <3>1, <3>2, <1>7
    <3> QED
      BY <2>1, <3>3, <1>1, <1>5, <1>6
  <2>2. ASSUME NEW e, Pending(e)', e.kind = "updated",
               \A f : Pending(f)' /\ f.kind = "updated" => f.n <= e.n
        PROVE  e.of.items = stripe'[s].items
    <3>1. CASE "updated" \in kinds
      <4>1. PICK f \in events' : f.n > sent /\ f.n \in Nat /\ f.kind = "updated"
        BY <3>1, <1>5
      <4>2. f.n <= e.n
        BY <2>2, <4>1 DEF Pending
      <4>3. ~Pending(e)
        BY <4>1, <4>2, <1>7
      <4> QED
        BY <2>2, <4>3, <1>1, <1>5, <1>6
    <3>2. CASE kinds = {"deleted"}
      <4>1. Pending(e)
        BY <2>2, <3>2, <1>5, <1>6
      <4>2. \A f : Pending(f) /\ f.kind = "updated" => f.n <= e.n
        BY <2>2, <1>6
      <4>3. e.of.items = stripe[s].items
        BY <2>2, <4>1, <4>2, <1>4 DEF NewestSays
      <4> QED
        BY <4>3, <3>2, <1>1, <1>8
    <3> QED
      BY <3>1, <3>2, <1>8
  <2> QED
    BY <2>1, <2>2 DEF NewestSays
<1>10. EndIsLast(s)'
  <2> SUFFICES ASSUME new.status = "deleted" PROVE EndIsLast(s)'
    BY <1>1 DEF EndIsLast
  <2>1. kinds = {"deleted"}
    BY <1>8
  <2>2. PICK e \in events' : e.n > sent /\ e.n \in Nat /\ e.kind = "deleted"
    BY <2>1, <1>5
  <2>3. Pending(e)' /\ e \in events' \ events
    BY <2>2, <1>7 DEF Pending
  <2>4. \A f : Pending(f)' => f = e \/ f.n < e.n
    <3> SUFFICES ASSUME NEW f, Pending(f)', f # e PROVE f.n < e.n
      OBVIOUS
    <3>1. Pending(f)
      BY <2>1, <2>2, <2>3, <1>5, <1>6
    <3> QED
      BY <3>1, <2>2, <1>7
  <2> QED
    BY <2>2, <2>3, <2>4 DEF EndIsLast
<1>11. ItemIsOff(s)'
  BY <1>3, <1>4
<1>12. PlanInv(s)'
  <2>1. PlanDue => PlanDue'
    BY <1>5 DEF PlanDue
  <2> QED
    BY <2>1, <1>1, <1>2, <1>4, <1>8 DEF PlanInv
<1>13. StatusInv(s)'
  <2>1. StatusDue'
    BY <1>5, <1>8 DEF StatusDue
  <2> QED
    BY <2>1 DEF StatusInv
<1>14. AddonsInv(s)'
  <2>1. CASE "updated" \in kinds
    <3>1. \E e \in events' : e.kind = "updated"
      BY <2>1, <1>5
    <3> QED
      BY <3>1 DEF AddonsInv, AddonDue
  <2>2. CASE kinds = {"deleted"}
    <3>1. UNCHANGED requests /\ new.items = stripe[s].items
      BY <2>2, <1>8
    <3>2. \A a \in Addon : AddonSettled(s, a) => AddonSettled(s, a)'
      BY <3>1, <1>1 DEF AddonSettled
    <3>3. \A a \in Addon : AddonDue(a) => AddonDue(a)'
      BY <1>5 DEF AddonDue, HandlerDue
    <3> QED
      BY <3>2, <3>3, <1>4 DEF AddonsInv
  <2> QED
    BY <2>1, <2>2, <1>8
<1> QED
  BY <1>1, <1>9, <1>10, <1>11, <1>12, <1>13, <1>14

(* A first subscription: its checkout is the only event.                   *)
LEMMA MirrorStarts ==
  ASSUME TypeInv, NEW s, NEW new, Announces(s, {"checkout"}, new),
         Starts(s, {"checkout"}, new), UNCHANGED <<handlers, addons, requests>>
  PROVE  MirrorInv'
<1> SUFFICES ASSUME NEW r, Only(r)'
             PROVE  /\ NewestSays(r)' /\ EndIsLast(r)' /\ ItemIsOff(r)'
                    /\ PlanInv(r)' /\ StatusInv(r)' /\ AddonsInv(r)'
  BY DEF MirrorInv
<1>1. r = s /\ stripe'[s] = new /\ \A t : Known(t) => t = s
  BY OnlyOne
<1>2. /\ new.status = "active" /\ \A a \in Addon : new.items[a] = 0
      /\ \A t : ~Known(t)
  BY <1>1 DEF Starts, NoItems, Known
<1>3. \A e : ~Pending(e)
  BY <1>2 DEF TypeInv, EventInv, Says
<1>4. /\ \A e \in events' \ events : e.kind = "checkout" /\ e.of = new
      /\ \E e \in events' : e.kind = "checkout"
  BY SendsFields DEF TypeInv
<1>5. \A e : Pending(e)' => e.kind = "checkout" /\ e.of = new
  BY <1>3, <1>4 DEF Pending, Busy
<1>6. /\ \A q \in Request : requests[q].pc # "write"
      /\ \A a \in Addon : addons[a].status # "active"
  BY <1>2 DEF TypeInv, Carries
<1>7. NewestSays(s)' /\ EndIsLast(s)'
  BY <1>1, <1>2, <1>5 DEF NewestSays, EndIsLast
<1>8. ItemIsOff(s)'
  BY <1>6 DEF ItemIsOff
<1>9. PlanInv(s)' /\ StatusInv(s)'
  BY <1>4 DEF PlanInv, PlanDue, StatusInv, StatusDue
<1>10. AddonsInv(s)'
  BY <1>1, <1>2, <1>6 DEF AddonsInv, AddonSettled
<1> QED
  BY <1>1, <1>7, <1>8, <1>9, <1>10

(* A request that asks Stripe for nothing new.                             *)
LEMMA MirrorAsked ==
  ASSUME MirrorInv, Calm' => Calm,
         UNCHANGED <<stripe, events, handlers, planType, billingStatus, subscription>>,
         \A q \in Request : requests'[q].pc = "write" => requests'[q] = requests[q],
         Calm' => \A s : Only(s) /\ ItemIsOff(s) /\ AddonsInv(s) => AddonsInv(s)'
  PROVE  MirrorInv'
<1> SUFFICES ASSUME Calm', NEW s, Only(s)'
             PROVE  /\ NewestSays(s)' /\ EndIsLast(s)' /\ ItemIsOff(s)'
                    /\ PlanInv(s)' /\ StatusInv(s)' /\ AddonsInv(s)'
  BY DEF MirrorInv
<1>1. Calm /\ Only(s)
  BY DEF Only, Known
<1>2. /\ NewestSays(s) /\ EndIsLast(s) /\ ItemIsOff(s)
      /\ PlanInv(s) /\ StatusInv(s) /\ AddonsInv(s)
  BY <1>1 DEF MirrorInv
<1>3. \A e : Pending(e)' <=> Pending(e)
  BY DEF Pending, Busy
<1>4. NewestSays(s)' /\ EndIsLast(s)'
  BY <1>2, <1>3 DEF NewestSays, EndIsLast
<1>5. ItemIsOff(s)'
  BY <1>2 DEF ItemIsOff
<1>6. PlanInv(s)' /\ StatusInv(s)'
  BY <1>2 DEF PlanInv, PlanDue, StatusInv, StatusDue
<1> QED
  BY <1>1, <1>2, <1>4, <1>5, <1>6

-----------------------------------------------------------------------------
(* MirrorInv, when a handler is at work on the oldest event.               *)
LEMMA AtOldest ==
  ASSUME TypeInv, TurnInv, Calm, NEW h \in Handler, Goes(h),
         UNCHANGED <<stripe, events>>, NEW s, Only(s)
  PROVE  LET ev == handlers[h].event IN
         /\ Pending(ev) /\ Says(ev) /\ ev.sub = s
         /\ \A f : Pending(f) => f.n \in Nat /\ (f = ev \/ (f \in events /\ ev.n < f.n))
         /\ \A f \in events : Pending(f) /\ Pending(f)' /\ ev.n < f.n
         /\ \A f : Pending(f)' => Pending(f)
         /\ Busy(h)' => Pending(ev)'
         /\ ~Busy(h)' => \A f : Pending(f)' => f \in events
         /\ \A g \in Handler \ {h} : handlers[g].pc = "idle" /\ handlers'[g] = handlers[g]
<1> DEFINE ev == handlers[h].event
<1>1. Busy(h) /\ HandlerAlone(h) /\ (Busy(h)' => handlers'[h].event = ev)
  BY DEF Goes
<1>2. Pending(ev) /\ Says(ev) /\ ev.sub = s
  <2>1. Pending(ev) /\ Says(ev)
    BY <1>1, AtWork
  <2> QED
    BY <2>1 DEF Says, Only
<1>3. /\ \A g \in Handler : Busy(g) => g = h
      /\ \A f \in events : ev.n < f.n
  BY <1>1 DEF TurnInv, Calm
<1>4. \A f : Pending(f) => f \in events \/ f = ev
  BY <1>3 DEF Pending
<1>5. \A f : Pending(f) => f.n \in Nat
  BY Numbers
<1>6. \A f \in events : Pending(f) /\ Pending(f)'
  BY DEF Pending
<1>7. \A g \in Handler \ {h} : handlers[g].pc = "idle" /\ handlers'[g] = handlers[g]
  BY <1>1, <1>3 DEF HandlerAlone, Busy
<1>8. Busy(h)' => Pending(ev)'
  BY <1>1 DEF Pending, Busy
<1>9. \A f : Pending(f)' => f \in events \/ (Busy(h)' /\ f = ev)
  BY <1>1, <1>7 DEF Pending, Busy
<1> QED
  BY <1>2, <1>3, <1>4, <1>5, <1>6, <1>7, <1>8, <1>9

LEMMA NewsKept ==
  ASSUME TypeInv, TurnInv, Calm, NEW h \in Handler, Goes(h),
         UNCHANGED <<stripe, events>>, NEW s, Only(s), NewestSays(s)
  PROVE  NewestSays(s)'
<1> DEFINE ev == handlers[h].event
<1>1. /\ \A f : Pending(f) => f.n \in Nat /\ (f = ev \/ (f \in events /\ ev.n < f.n))
      /\ \A f \in events : Pending(f) /\ Pending(f)'
      /\ \A f : Pending(f)' => Pending(f)
      /\ Busy(h)' => Pending(ev)'
      /\ ~Busy(h)' => \A f : Pending(f)' => f \in events
  BY AtOldest
<1> HIDE DEF ev
<1>2. ASSUME NEW e, Pending(e)', \A f : Pending(f)' => f.n <= e.n
      PROVE  e.of = stripe'[s]
  <2>1. \A f : Pending(f) => f.n <= e.n
    BY <1>1, <1>2
  <2> QED
    BY <2>1, <1>1, <1>2 DEF NewestSays
<1>3. ASSUME NEW e, Pending(e)', e.kind = "updated",
             \A f : Pending(f)' /\ f.kind = "updated" => f.n <= e.n
      PROVE  e.of.items = stripe'[s].items
  <2>1. \A f : Pending(f) /\ f.kind = "updated" => f.n <= e.n
    BY <1>1, <1>3
  <2> QED
    BY <2>1, <1>1, <1>3 DEF NewestSays
<1> QED
  BY <1>2, <1>3 DEF NewestSays

LEMMA EndKept ==
  ASSUME TypeInv, TurnInv, Calm, NEW h \in Handler, Goes(h),
         UNCHANGED <<stripe, events>>, NEW s, Only(s), EndIsLast(s),
         \/ handlers[h].pc # "revert"
         \/ ~Busy(h)' /\ planType' = "trial" /\ billingStatus' = "cancelled"
  PROVE  EndIsLast(s)'
<1> DEFINE ev == handlers[h].event
<1>1. /\ Pending(ev)
      /\ \A f : Pending(f) => f.n \in Nat /\ (f = ev \/ (f \in events /\ ev.n < f.n))
      /\ \A f \in events : Pending(f) /\ Pending(f)' /\ ev.n < f.n
      /\ \A f : Pending(f)' => Pending(f)
      /\ Busy(h)' => Pending(ev)'
      /\ ~Busy(h)' => \A f : Pending(f)' => f \in events
  BY AtOldest
<1>2. ev.kind = "deleted" => handlers[h].pc = "revert"
  <2>1. Handles(h) /\ Busy(h) /\ handlers[h] \in HandlerState
    BY DEF TypeInv, TypeOK, Goes
  <2> QED
    BY <2>1 DEF Handles, Busy, HandlerState
<1> HIDE DEF ev
<1> SUFFICES ASSUME stripe[s].status = "deleted"
             PROVE  EndIsLast(s)'
  BY DEF EndIsLast
<1>3. PICK w : /\ Pending(w) /\ w.kind = "deleted"
               /\ \A f : Pending(f) => f = w \/ f.n < w.n
  BY <1>1 DEF EndIsLast
<1>4. CASE Pending(w)'
  BY <1>1, <1>3, <1>4 DEF EndIsLast
<1>5. CASE ~Pending(w)'
  <2>1. w = ev /\ ~Busy(h)'
    BY <1>1, <1>3, <1>5
  <2>2. \A f \in events : FALSE
    BY <2>1, <1>1, <1>3
  <2>3. planType' = "trial" /\ billingStatus' = "cancelled"
    BY <2>1, <1>2, <1>3
  <2>4. \A f : ~Pending(f)'
    BY <2>1, <2>2, <1>1
  <2> QED
    BY <2>3, <2>4 DEF EndIsLast
<1> QED
  BY <1>4, <1>5

(* What the oldest event says is what Stripe says, when it is the only one *)
(* left to say it.                                                         *)
LEMMA LastWord ==
  ASSUME TypeInv, TurnInv, Calm, NEW h \in Handler, Goes(h),
         UNCHANGED <<stripe, events>>, NEW s, Only(s), NewestSays(s)
  PROVE  LET ev == handlers[h].event IN
         /\ events = {} => ev.of = stripe[s]
         /\ ev.kind = "updated" /\ (\A e \in events : e.kind # "updated")
              => ev.of.items = stripe[s].items
<1> DEFINE ev == handlers[h].event
<1>1. /\ Pending(ev)
      /\ \A f : Pending(f) => f.n \in Nat /\ (f = ev \/ (f \in events /\ ev.n < f.n))
  BY AtOldest
<1> HIDE DEF ev
<1>2. ASSUME events = {}
      PROVE  ev.of = stripe[s]
  <2>1. \A f : Pending(f) => f.n <= ev.n
    BY <1>1, <1>2
  <2> QED
    BY <2>1, <1>1 DEF NewestSays
<1>3. ASSUME ev.kind = "updated", \A e \in events : e.kind # "updated"
      PROVE  ev.of.items = stripe[s].items
  <2>1. \A f : Pending(f) /\ f.kind = "updated" => f.n <= ev.n
    BY <1>1, <1>3
  <2> QED
    BY <2>1, <1>1, <1>3 DEF NewestSays
<1> QED
  BY <1>2, <1>3 DEF ev

LEMMA PlanKept ==
  ASSUME NEW h \in Handler, HandlerAlone(h), handlers[h].pc # "plan",
         UNCHANGED <<stripe, events, planType, subscription>>, NEW s, PlanInv(s)
  PROVE  PlanInv(s)'
  BY DEF PlanInv, PlanDue, HandlerAlone

LEMMA StatusKept ==
  ASSUME NEW h \in Handler, HandlerAlone(h), handlers[h].pc \notin {"plan", "status", "pastDue"},
         UNCHANGED <<stripe, events, billingStatus>>, NEW s, StatusInv(s)
  PROVE  StatusInv(s)'
<1>1. StatusDue => StatusDue'
  BY DEF StatusDue, HandlerAlone
<1> QED
  BY <1>1 DEF StatusInv

LEMMA AddonKept ==
  ASSUME NEW h \in Handler, HandlerAlone(h), UNCHANGED <<stripe, events, requests>>,
         NEW s, NEW a \in Addon, AddonDue(a) \/ AddonSettled(s, a),
         addons'[a] = addons[a], HandlerDue(h, a) => HandlerDue(h, a)'
  PROVE  AddonDue(a)' \/ AddonSettled(s, a)'
<1>1. AddonDue(a) => AddonDue(a)'
  BY DEF AddonDue, HandlerAlone, HandlerDue
<1>2. AddonSettled(s, a) => AddonSettled(s, a)'
  BY DEF AddonSettled
<1> QED
  BY <1>1, <1>2

LEMMA SettledNow ==
  ASSUME UNCHANGED stripe, NEW s, NEW a \in Addon,
         addons'[a].status = "active" <=> stripe[s].items[a] # 0
  PROVE  AddonSettled(s, a)'
  BY DEF AddonSettled

(* What is left to show of a step of a handler.                            *)
LEMMA MirrorWorked ==
  ASSUME TypeInv, TurnInv, MirrorInv, NEW h \in Handler, Goes(h),
         UNCHANGED <<stripe, events, requests>>, Calm' => Calm,
         \/ handlers[h].pc # "revert"
         \/ ~Busy(h)' /\ planType' = "trial" /\ billingStatus' = "cancelled",
         Calm' => \A s :
           Calm /\ Only(s) /\ NewestSays(s) /\ PlanInv(s) /\ StatusInv(s) /\ AddonsInv(s)
             => PlanInv(s)' /\ StatusInv(s)' /\ AddonsInv(s)'
  PROVE  MirrorInv'
<1> SUFFICES ASSUME Calm', NEW s, Only(s)'
             PROVE  /\ NewestSays(s)' /\ EndIsLast(s)' /\ ItemIsOff(s)'
                    /\ PlanInv(s)' /\ StatusInv(s)' /\ AddonsInv(s)'
  BY DEF MirrorInv
<1>1. Calm /\ Only(s)
  BY DEF Only, Known
<1>2. /\ NewestSays(s) /\ EndIsLast(s) /\ ItemIsOff(s)
      /\ PlanInv(s) /\ StatusInv(s) /\ AddonsInv(s)
  BY <1>1 DEF MirrorInv
<1>3. NewestSays(s)' /\ EndIsLast(s)'
  BY <1>1, <1>2, NewsKept, EndKept
<1>4. ItemIsOff(s)'
  BY <1>2 DEF ItemIsOff
<1> QED
  BY <1>1, <1>2, <1>3, <1>4
LEMMA HandlerMirror ==
  ASSUME TypeInv, TurnInv, MirrorInv, NEW h \in Handler, HandlerStep(h),
         \A e \in events, again \in BOOLEAN : ~Deliver(h, e, again), ~HandlerFails(h)
  PROVE  MirrorInv'
<1>0. TypeInv /\ TypeOK
  BY DEF TypeInv
<1>1. CASE PlanWrite(h)
  <2>1. /\ Goes(h) /\ (Calm' => Calm)
        /\ UNCHANGED <<stripe, events, requests, addons>>
        /\ ~(handlers[h].pc = "revert")
    BY <1>1, <1>0, HandlerGoes DEF PlanWrite, row, atStripe, history, Calm
  <2>2. HandlerAlone(h)
    BY <2>1 DEF Goes
  <2>3. Handles(h) /\ Says(handlers[h].event)
    BY <2>1, <1>0, AtWork DEF Goes
  <2>5. ASSUME Calm', Calm, NEW s, Only(s), NewestSays(s), PlanInv(s), StatusInv(s), AddonsInv(s)
        PROVE  PlanInv(s)' /\ StatusInv(s)' /\ AddonsInv(s)'
    <3>1. PlanInv(s)'
      <4>1. handlers[h].event.sub = s /\ planType' = stripe[s].plan /\ subscription' = s
        BY <1>1, <2>3, <2>5 DEF PlanWrite, Says, Only
      <4> QED
        BY <4>1, <2>1 DEF PlanInv
    <3>2. StatusInv(s)'
      <4>1. handlers[h].event.of.status = "active" /\ billingStatus' = "active"
        BY <1>1, <2>3 DEF PlanWrite, Handles, Says
      <4>2. events = {} => stripe[s].status = "active"
        BY <4>1, <2>1, <2>5, <1>0, LastWord
      <4> QED
        BY <4>1, <4>2, <2>1 DEF StatusInv, StatusDue
    <3>3. AddonsInv(s)'
      <4> SUFFICES ASSUME NEW b \in Addon PROVE AddonDue(b)' \/ AddonSettled(s, b)'
        BY DEF AddonsInv
      <4>1. HandlerDue(h, b) => HandlerDue(h, b)'
        BY <1>1, <1>0, HandlerGoes DEF PlanWrite, HandlerDue
      <4>2. addons'[b] = addons[b] /\ (AddonDue(b) \/ AddonSettled(s, b))
        BY <2>1, <2>5 DEF AddonsInv
      <4> QED
        BY <4>1, <4>2, <2>1, <2>2, AddonKept
    <3> QED
      BY <3>1, <3>2, <3>3
  <2> QED
    BY <2>1, <2>5, <1>0, MirrorWorked
<1>2. CASE RecordTrialConverted(h)
  <2>1. /\ Goes(h) /\ (Calm' => Calm)
        /\ UNCHANGED <<stripe, events, requests, planType, billingStatus, subscription, addons>>
        /\ ~(handlers[h].pc = "revert")
    BY <1>2, <1>0, HandlerGoes
      DEF RecordTrialConverted, row, atStripe, history, Calm
  <2>2. HandlerAlone(h)
    BY <2>1 DEF Goes
  <2>5. ASSUME Calm', Calm, NEW s, Only(s), NewestSays(s), PlanInv(s), StatusInv(s), AddonsInv(s)
        PROVE  PlanInv(s)' /\ StatusInv(s)' /\ AddonsInv(s)'
    <3>1. PlanInv(s)'
      <4>1. ~(handlers[h].pc = "plan")
        BY <1>2 DEF RecordTrialConverted
      <4> QED
        BY <4>1, <2>1, <2>2, <2>5, PlanKept
    <3>2. StatusInv(s)'
      <4>1. handlers[h].pc \notin {"plan", "status", "pastDue"}
        BY <1>2 DEF RecordTrialConverted
      <4> QED
        BY <4>1, <2>1, <2>2, <2>5, StatusKept
    <3>3. AddonsInv(s)'
      <4> SUFFICES ASSUME NEW b \in Addon PROVE AddonDue(b)' \/ AddonSettled(s, b)'
        BY DEF AddonsInv
      <4>1. HandlerDue(h, b) => HandlerDue(h, b)'
        BY <1>2, <1>0, HandlerGoes DEF RecordTrialConverted, HandlerDue
      <4>2. addons'[b] = addons[b] /\ (AddonDue(b) \/ AddonSettled(s, b))
        BY <2>1, <2>5 DEF AddonsInv
      <4> QED
        BY <4>1, <4>2, <2>1, <2>2, AddonKept
    <3> QED
      BY <3>1, <3>2, <3>3
  <2> QED
    BY <2>1, <2>5, <1>0, MirrorWorked
<1>3. CASE StatusWrite(h)
  <2>1. /\ Goes(h) /\ (Calm' => Calm)
        /\ UNCHANGED <<stripe, events, requests, planType, subscription, addons>>
        /\ ~(handlers[h].pc = "revert")
    BY <1>3, <1>0, HandlerGoes DEF StatusWrite, row, atStripe, history, Calm
  <2>2. HandlerAlone(h)
    BY <2>1 DEF Goes
  <2>5. ASSUME Calm', Calm, NEW s, Only(s), NewestSays(s), PlanInv(s), StatusInv(s), AddonsInv(s)
        PROVE  PlanInv(s)' /\ StatusInv(s)' /\ AddonsInv(s)'
    <3>1. PlanInv(s)'
      <4>1. ~(handlers[h].pc = "plan")
        BY <1>3 DEF StatusWrite
      <4> QED
        BY <4>1, <2>1, <2>2, <2>5, PlanKept
    <3>2. StatusInv(s)'
      <4>1. billingStatus' = handlers[h].event.of.status
        BY <1>3 DEF StatusWrite
      <4>2. events = {} => handlers[h].event.of = stripe[s]
        BY <2>1, <2>5, <1>0, LastWord
      <4> QED
        BY <4>1, <4>2, <2>1 DEF StatusInv, StatusDue
    <3>3. AddonsInv(s)'
      <4>1. handlers'[h].pc = "addons" /\ handlers'[h].todo = Addon
        BY <1>3, <1>0, HandlerGoes
      <4> QED
        BY <4>1 DEF AddonsInv, AddonDue, HandlerDue
    <3> QED
      BY <3>1, <3>2, <3>3
  <2> QED
    BY <2>1, <2>5, <1>0, MirrorWorked
<1>4. CASE AddonsDone(h)
  <2>1. /\ Goes(h) /\ (Calm' => Calm)
        /\ UNCHANGED <<stripe, events, requests, planType, billingStatus, subscription, addons>>
        /\ ~(handlers[h].pc = "revert")
    BY <1>4, <1>0, HandlerGoes DEF AddonsDone, row, atStripe, history, Calm
  <2>2. HandlerAlone(h)
    BY <2>1 DEF Goes
  <2>5. ASSUME Calm', Calm, NEW s, Only(s), NewestSays(s), PlanInv(s), StatusInv(s), AddonsInv(s)
        PROVE  PlanInv(s)' /\ StatusInv(s)' /\ AddonsInv(s)'
    <3>1. PlanInv(s)'
      <4>1. ~(handlers[h].pc = "plan")
        BY <1>4 DEF AddonsDone
      <4> QED
        BY <4>1, <2>1, <2>2, <2>5, PlanKept
    <3>2. StatusInv(s)'
      <4>1. handlers[h].pc \notin {"plan", "status", "pastDue"}
        BY <1>4 DEF AddonsDone
      <4> QED
        BY <4>1, <2>1, <2>2, <2>5, StatusKept
    <3>3. AddonsInv(s)'
      <4> SUFFICES ASSUME NEW b \in Addon PROVE AddonDue(b)' \/ AddonSettled(s, b)'
        BY DEF AddonsInv
      <4>1. HandlerDue(h, b) => HandlerDue(h, b)'
        BY <1>4, <1>0, HandlerGoes DEF AddonsDone, HandlerDue
      <4>2. addons'[b] = addons[b] /\ (AddonDue(b) \/ AddonSettled(s, b))
        BY <2>1, <2>5 DEF AddonsInv
      <4> QED
        BY <4>1, <4>2, <2>1, <2>2, AddonKept
    <3> QED
      BY <3>1, <3>2, <3>3
  <2> QED
    BY <2>1, <2>5, <1>0, MirrorWorked
<1>5. ASSUME NEW a \in Addon, AddonRead(h, a)
      PROVE  MirrorInv'
  <2>1. /\ Goes(h) /\ (Calm' => Calm)
        /\ UNCHANGED <<stripe, events, requests, planType, billingStatus, subscription, addons>>
        /\ ~(handlers[h].pc = "revert")
    BY <1>5, <1>0, HandlerGoes DEF AddonRead, row, atStripe, history, Calm
  <2>2. HandlerAlone(h)
    BY <2>1 DEF Goes
  <2>3. Handles(h) /\ Says(handlers[h].event)
    BY <2>1, <1>0, AtWork DEF Goes
  <2>5. ASSUME Calm', Calm, NEW s, Only(s), NewestSays(s), PlanInv(s), StatusInv(s), AddonsInv(s)
        PROVE  PlanInv(s)' /\ StatusInv(s)' /\ AddonsInv(s)'
    <3>1. PlanInv(s)'
      <4>1. ~(handlers[h].pc = "plan")
        BY <1>5 DEF AddonRead
      <4> QED
        BY <4>1, <2>1, <2>2, <2>5, PlanKept
    <3>2. StatusInv(s)'
      <4>1. handlers[h].pc \notin {"plan", "status", "pastDue"}
        BY <1>5 DEF AddonRead
      <4> QED
        BY <4>1, <2>1, <2>2, <2>5, StatusKept
    <3>3. AddonsInv(s)'
      <4> SUFFICES ASSUME NEW b \in Addon PROVE AddonDue(b)' \/ AddonSettled(s, b)'
        BY DEF AddonsInv
      <4>1. /\ handlers[h].pc = "addons" /\ handlers'[h].pc = Verdict(h, a)
            /\ handlers'[h].todo = handlers[h].todo \ {a} /\ handlers'[h].addon = a
        BY <1>5, <1>0, HandlerGoes DEF AddonRead
      <4>2. addons'[b] = addons[b] /\ (AddonDue(b) \/ AddonSettled(s, b))
        BY <2>1, <2>5 DEF AddonsInv
      <4>3. CASE ~(b = a)
        <5>1. HandlerDue(h, b) => HandlerDue(h, b)'
          BY <4>1, <4>3 DEF HandlerDue, Verdict
        <5> QED
          BY <5>1, <4>2, <2>1, <2>2, AddonKept
      <4>4. CASE b = a /\ handlers'[h].pc \in {"activate", "cancel"}
        <5>1. HandlerDue(h, b)'
          BY <4>1, <4>4 DEF HandlerDue
        <5> QED
          BY <5>1 DEF AddonDue
      <4>5. CASE b = a /\ handlers'[h].pc \notin {"activate", "cancel"}
        <5>1. addons[b].status = "active" <=> ~(Item(h, b) = 0)
          BY <4>1, <4>5 DEF Verdict
        <5>2. CASE \E e \in events : e.kind = "updated"
          BY <5>2, <2>1 DEF AddonDue
        <5>3. CASE \A e \in events : ~(e.kind = "updated")
          <6>1. handlers[h].event.kind = "updated"
            BY <4>1, <2>3 DEF Handles
          <6>2. Item(h, b) = stripe[s].items[b]
            BY <6>1, <5>3, <2>1, <2>5, <1>0, LastWord DEF Item
          <6> QED
            BY <6>2, <5>1, <4>2, <2>1, SettledNow
        <5> QED
          BY <5>2, <5>3
      <4> QED
        BY <4>3, <4>4, <4>5
    <3> QED
      BY <3>1, <3>2, <3>3
  <2> QED
    BY <2>1, <2>5, <1>0, MirrorWorked
<1>6. CASE AddonActivate(h)
  <2>1. /\ Goes(h) /\ (Calm' => Calm)
        /\ UNCHANGED <<stripe, events, requests, planType, billingStatus, subscription>>
        /\ ~(handlers[h].pc = "revert")
    BY <1>6, <1>0, HandlerGoes DEF AddonActivate, row, atStripe, history, Calm
  <2>2. HandlerAlone(h)
    BY <2>1 DEF Goes
  <2>3. Handles(h) /\ Says(handlers[h].event)
    BY <2>1, <1>0, AtWork DEF Goes
  <2>4. /\ addons'[handlers[h].addon].status = "active" <=> ~(Item(h, handlers[h].addon) = 0)
        /\ \A b \in Addon : ~(b = handlers[h].addon) => addons'[b] = addons[b]
    <3> DEFINE c == handlers[h].addon
               r == [status |-> "active", item |-> Item(h, c)]
    <3>1. c \in Addon /\ ~(Item(h, c) = 0) /\ addons' = [addons EXCEPT ![c] = r]
      BY <1>6, <2>3 DEF Handles, AddonActivate
    <3>2. r.status = "active" /\ addons \in [Addon -> AddonRow]
      BY <1>0 DEF TypeOK
    <3> HIDE DEF r
    <3> QED
      BY <3>1, <3>2
  <2>5. ASSUME Calm', Calm, NEW s, Only(s), NewestSays(s), PlanInv(s), StatusInv(s), AddonsInv(s)
        PROVE  PlanInv(s)' /\ StatusInv(s)' /\ AddonsInv(s)'
    <3>1. PlanInv(s)'
      <4>1. ~(handlers[h].pc = "plan")
        BY <1>6 DEF AddonActivate
      <4> QED
        BY <4>1, <2>1, <2>2, <2>5, PlanKept
    <3>2. StatusInv(s)'
      <4>1. handlers[h].pc \notin {"plan", "status", "pastDue"}
        BY <1>6 DEF AddonActivate
      <4> QED
        BY <4>1, <2>1, <2>2, <2>5, StatusKept
    <3>3. AddonsInv(s)'
      <4> SUFFICES ASSUME NEW b \in Addon PROVE AddonDue(b)' \/ AddonSettled(s, b)'
        BY DEF AddonsInv
      <4>1. /\ handlers'[h].todo = handlers[h].todo
            /\ handlers'[h].pc \in {"addons", "flows"}
        BY <1>6, <1>0, HandlerGoes
      <4>2. AddonDue(b) \/ AddonSettled(s, b)
        BY <2>5 DEF AddonsInv
      <4>3. CASE ~(b = handlers[h].addon)
        <5>1. HandlerDue(h, b) => HandlerDue(h, b)'
          BY <1>6, <4>1, <4>3 DEF HandlerDue, AddonActivate
        <5>2. addons'[b] = addons[b]
          BY <2>4, <4>3
        <5> QED
          BY <5>1, <5>2, <4>2, <2>1, <2>2, AddonKept
      <4>4. CASE b = handlers[h].addon
        <5>1. addons'[b].status = "active" <=> ~(Item(h, b) = 0)
          BY <2>4, <4>4
        <5>2. CASE \E e \in events : e.kind = "updated"
          BY <5>2, <2>1 DEF AddonDue
        <5>3. CASE \A e \in events : ~(e.kind = "updated")
          <6>1. handlers[h].event.kind = "updated"
            BY <1>6, <2>3 DEF Handles, AddonActivate
          <6>2. Item(h, b) = stripe[s].items[b]
            BY <6>1, <5>3, <2>1, <2>5, <1>0, LastWord DEF Item
          <6> QED
            BY <6>2, <5>1, <2>1, SettledNow
        <5> QED
          BY <5>2, <5>3
      <4> QED
        BY <4>3, <4>4
    <3> QED
      BY <3>1, <3>2, <3>3
  <2> QED
    BY <2>1, <2>5, <1>0, MirrorWorked
<1>7. CASE AddonCancel(h)
  <2>1. /\ Goes(h) /\ (Calm' => Calm)
        /\ UNCHANGED <<stripe, events, requests, planType, billingStatus, subscription>>
        /\ ~(handlers[h].pc = "revert")
    BY <1>7, <1>0, HandlerGoes DEF AddonCancel, row, atStripe, history, Calm
  <2>2. HandlerAlone(h)
    BY <2>1 DEF Goes
  <2>3. Handles(h) /\ Says(handlers[h].event)
    BY <2>1, <1>0, AtWork DEF Goes
  <2>4. /\ addons'[handlers[h].addon].status = "active" <=> ~(Item(h, handlers[h].addon) = 0)
        /\ \A b \in Addon : ~(b = handlers[h].addon) => addons'[b] = addons[b]
    <3> DEFINE c == handlers[h].addon
    <3>1. c \in Addon /\ Item(h, c) = 0 /\ addons' = [addons EXCEPT ![c].status = "cancelled"]
      BY <1>7, <2>3 DEF Handles, AddonCancel
    <3> QED
      BY <3>1, <1>0, CancelledRow
  <2>5. ASSUME Calm', Calm, NEW s, Only(s), NewestSays(s), PlanInv(s), StatusInv(s), AddonsInv(s)
        PROVE  PlanInv(s)' /\ StatusInv(s)' /\ AddonsInv(s)'
    <3>1. PlanInv(s)'
      <4>1. ~(handlers[h].pc = "plan")
        BY <1>7 DEF AddonCancel
      <4> QED
        BY <4>1, <2>1, <2>2, <2>5, PlanKept
    <3>2. StatusInv(s)'
      <4>1. handlers[h].pc \notin {"plan", "status", "pastDue"}
        BY <1>7 DEF AddonCancel
      <4> QED
        BY <4>1, <2>1, <2>2, <2>5, StatusKept
    <3>3. AddonsInv(s)'
      <4> SUFFICES ASSUME NEW b \in Addon PROVE AddonDue(b)' \/ AddonSettled(s, b)'
        BY DEF AddonsInv
      <4>1. /\ handlers'[h].todo = handlers[h].todo
            /\ handlers'[h].pc \in {"addons", "flows"}
        BY <1>7, <1>0, HandlerGoes
      <4>2. AddonDue(b) \/ AddonSettled(s, b)
        BY <2>5 DEF AddonsInv
      <4>3. CASE ~(b = handlers[h].addon)
        <5>1. HandlerDue(h, b) => HandlerDue(h, b)'
          BY <1>7, <4>1, <4>3 DEF HandlerDue, AddonCancel
        <5>2. addons'[b] = addons[b]
          BY <2>4, <4>3
        <5> QED
          BY <5>1, <5>2, <4>2, <2>1, <2>2, AddonKept
      <4>4. CASE b = handlers[h].addon
        <5>1. addons'[b].status = "active" <=> ~(Item(h, b) = 0)
          BY <2>4, <4>4
        <5>2. CASE \E e \in events : e.kind = "updated"
          BY <5>2, <2>1 DEF AddonDue
        <5>3. CASE \A e \in events : ~(e.kind = "updated")
          <6>1. handlers[h].event.kind = "updated"
            BY <1>7, <2>3 DEF Handles, AddonCancel
          <6>2. Item(h, b) = stripe[s].items[b]
            BY <6>1, <5>3, <2>1, <2>5, <1>0, LastWord DEF Item
          <6> QED
            BY <6>2, <5>1, <2>1, SettledNow
        <5> QED
          BY <5>2, <5>3
      <4> QED
        BY <4>3, <4>4
    <3> QED
      BY <3>1, <3>2, <3>3
  <2> QED
    BY <2>1, <2>5, <1>0, MirrorWorked
<1>8. CASE DeactivateAutomationFlows(h)
  <2>1. /\ Goes(h) /\ (Calm' => Calm)
        /\ UNCHANGED <<stripe, events, requests, planType, billingStatus, subscription, addons>>
        /\ ~(handlers[h].pc = "revert")
    BY <1>8, <1>0, HandlerGoes
      DEF DeactivateAutomationFlows, row, atStripe, Calm
  <2>2. HandlerAlone(h)
    BY <2>1 DEF Goes
  <2>5. ASSUME Calm', Calm, NEW s, Only(s), NewestSays(s), PlanInv(s), StatusInv(s), AddonsInv(s)
        PROVE  PlanInv(s)' /\ StatusInv(s)' /\ AddonsInv(s)'
    <3>1. PlanInv(s)'
      <4>1. ~(handlers[h].pc = "plan")
        BY <1>8 DEF DeactivateAutomationFlows
      <4> QED
        BY <4>1, <2>1, <2>2, <2>5, PlanKept
    <3>2. StatusInv(s)'
      <4>1. handlers[h].pc \notin {"plan", "status", "pastDue"}
        BY <1>8 DEF DeactivateAutomationFlows
      <4> QED
        BY <4>1, <2>1, <2>2, <2>5, StatusKept
    <3>3. AddonsInv(s)'
      <4> SUFFICES ASSUME NEW b \in Addon PROVE AddonDue(b)' \/ AddonSettled(s, b)'
        BY DEF AddonsInv
      <4>1. HandlerDue(h, b) => HandlerDue(h, b)'
        BY <1>8, <1>0, HandlerGoes DEF DeactivateAutomationFlows, HandlerDue
      <4>2. addons'[b] = addons[b] /\ (AddonDue(b) \/ AddonSettled(s, b))
        BY <2>1, <2>5 DEF AddonsInv
      <4> QED
        BY <4>1, <4>2, <2>1, <2>2, AddonKept
    <3> QED
      BY <3>1, <3>2, <3>3
  <2> QED
    BY <2>1, <2>5, <1>0, MirrorWorked
<1>9. CASE RevertWrite(h)
  <2>1. /\ Goes(h) /\ (Calm' => Calm)
        /\ UNCHANGED <<stripe, events, requests, subscription, addons>>
        /\ ~Busy(h)' /\ planType' = "trial" /\ billingStatus' = "cancelled"
    BY <1>9, <1>0, HandlerGoes
      DEF RevertWrite, row, atStripe, history, Calm, Busy
  <2>2. HandlerAlone(h)
    BY <2>1 DEF Goes
  <2>3. Handles(h) /\ Says(handlers[h].event)
    BY <2>1, <1>0, AtWork DEF Goes
  <2>5. ASSUME Calm', Calm, NEW s, Only(s), NewestSays(s), PlanInv(s), StatusInv(s), AddonsInv(s)
        PROVE  PlanInv(s)' /\ StatusInv(s)' /\ AddonsInv(s)'
    <3>0. stripe[s].status = "deleted"
      BY <1>9, <2>3, <2>5 DEF RevertWrite, Handles, Says, Only
    <3>1. PlanInv(s)'
      <4>1. PlanDue => PlanDue'
        BY <1>9, <2>1, <2>2 DEF PlanDue, HandlerAlone, RevertWrite
      <4> QED
        BY <4>1, <3>0, <2>1, <2>5 DEF PlanInv
    <3>2. StatusInv(s)'
      BY <3>0, <2>1 DEF StatusInv
    <3>3. AddonsInv(s)'
      <4> SUFFICES ASSUME NEW b \in Addon PROVE AddonDue(b)' \/ AddonSettled(s, b)'
        BY DEF AddonsInv
      <4>1. HandlerDue(h, b) => HandlerDue(h, b)'
        BY <1>9, <1>0, HandlerGoes DEF RevertWrite, HandlerDue
      <4>2. addons'[b] = addons[b] /\ (AddonDue(b) \/ AddonSettled(s, b))
        BY <2>1, <2>5 DEF AddonsInv
      <4> QED
        BY <4>1, <4>2, <2>1, <2>2, AddonKept
    <3> QED
      BY <3>1, <3>2, <3>3
  <2> QED
    BY <2>1, <2>5, <1>0, MirrorWorked
<1>10. CASE PastDueWrite(h)
  <2>1. /\ Goes(h) /\ (Calm' => Calm)
        /\ UNCHANGED <<stripe, events, requests, planType, subscription, addons>>
        /\ ~(handlers[h].pc = "revert")
    BY <1>10, <1>0, HandlerGoes DEF PastDueWrite, row, atStripe, history, Calm
  <2>2. HandlerAlone(h)
    BY <2>1 DEF Goes
  <2>3. Handles(h) /\ Says(handlers[h].event)
    BY <2>1, <1>0, AtWork DEF Goes
  <2>5. ASSUME Calm', Calm, NEW s, Only(s), NewestSays(s), PlanInv(s), StatusInv(s), AddonsInv(s)
        PROVE  PlanInv(s)' /\ StatusInv(s)' /\ AddonsInv(s)'
    <3>1. PlanInv(s)'
      <4>1. ~(handlers[h].pc = "plan")
        BY <1>10 DEF PastDueWrite
      <4> QED
        BY <4>1, <2>1, <2>2, <2>5, PlanKept
    <3>2. StatusInv(s)'
      <4>1. handlers[h].event.of.status = "past_due" /\ billingStatus' = "past_due"
        BY <1>10, <2>3 DEF PastDueWrite, Handles, Says
      <4>2. events = {} => stripe[s].status = "past_due"
        BY <4>1, <2>1, <2>5, <1>0, LastWord
      <4> QED
        BY <4>1, <4>2, <2>1 DEF StatusInv, StatusDue
    <3>3. AddonsInv(s)'
      <4> SUFFICES ASSUME NEW b \in Addon PROVE AddonDue(b)' \/ AddonSettled(s, b)'
        BY DEF AddonsInv
      <4>1. HandlerDue(h, b) => HandlerDue(h, b)'
        BY <1>10, <1>0, HandlerGoes DEF PastDueWrite, HandlerDue
      <4>2. addons'[b] = addons[b] /\ (AddonDue(b) \/ AddonSettled(s, b))
        BY <2>1, <2>5 DEF AddonsInv
      <4> QED
        BY <4>1, <4>2, <2>1, <2>2, AddonKept
    <3> QED
      BY <3>1, <3>2, <3>3
  <2> QED
    BY <2>1, <2>5, <1>0, MirrorWorked
<1> QED
  BY <1>1, <1>2, <1>3, <1>4, <1>5, <1>6, <1>7, <1>8, <1>9, <1>10 DEF HandlerStep

(* A delivery in its turn: the handler takes the oldest event.             *)
LEMMA DeliverMirror ==
  ASSUME TypeInv, OursInv, MirrorInv, NEW h \in Handler, NEW e \in events,
         NEW again \in BOOLEAN, Deliver(h, e, again)
  PROVE  MirrorInv'
<1> SUFFICES ASSUME Calm', NEW s, Only(s)'
             PROVE  /\ NewestSays(s)' /\ EndIsLast(s)' /\ ItemIsOff(s)'
                    /\ PlanInv(s)' /\ StatusInv(s)' /\ AddonsInv(s)'
  BY DEF MirrorInv
<1>1. /\ UNCHANGED <<stripe, requests, customer, planType, billingStatus, subscription, addons>>
      /\ handlers[h].pc = "idle" /\ ~again /\ events' = events \ {e}
  <2>1. mishaps \in Nat /\ mishaps' = 0
    BY DEF Calm, TypeInv, TypeOK
  <2> QED
    BY <2>1 DEF Deliver, row
<1>2. Calm /\ Only(s)
  <2>1. Only(s)
    BY <1>1 DEF Only, Known
  <2>2. Calm
    BY <1>1 DEF Calm, Deliver
  <2> QED
    BY <2>1, <2>2
<1>3. /\ NewestSays(s) /\ EndIsLast(s) /\ ItemIsOff(s)
      /\ PlanInv(s) /\ StatusInv(s) /\ AddonsInv(s)
  BY <1>2 DEF MirrorInv
<1>4. Pending(e) /\ Says(e) /\ e.sub = s
  <2>1. Pending(e) /\ Says(e)
    BY DEF TypeInv, EventInv, Pending
  <2> QED
    BY <2>1, <1>2 DEF Says, Only
<1>5. e.of.customer = customer
  BY <1>2, <1>4 DEF OursInv, Calm, Says
<1>6. HandlerAlone(h) /\ handlers'[h].pc = FirstStep(e.kind) /\ handlers'[h].event = e
  BY <1>5, DeliverFields
<1>7. /\ e.kind \in {"checkout", "updated", "deleted", "payment_failed"}
      /\ e.kind = "checkout" => handlers'[h].pc = "plan"
      /\ e.kind = "updated" => handlers'[h].pc = "status"
      /\ e.kind = "payment_failed" => handlers'[h].pc = "pastDue"
      /\ handlers'[h].pc # "idle"
  <2>1. e.kind \in {"checkout", "updated", "deleted", "payment_failed"}
    BY <1>4 DEF Says, Event
  <2> QED
    BY <2>1, <1>6 DEF FirstStep
<1>8. \A f : Pending(f)' <=> Pending(f)
  BY <1>1, <1>6, <1>7 DEF Pending, Busy, HandlerAlone
<1>9. NewestSays(s)'
  BY <1>1, <1>3, <1>8 DEF NewestSays
<1>10. EndIsLast(s)'
  BY <1>1, <1>3, <1>4, <1>8 DEF EndIsLast
<1>11. ItemIsOff(s)'
  BY <1>1, <1>3 DEF ItemIsOff
<1>12. PlanInv(s)'
  <2>1. PlanDue => PlanDue'
    BY <1>1, <1>6, <1>7 DEF PlanDue, HandlerAlone
  <2> QED
    BY <2>1, <1>1, <1>3 DEF PlanInv
<1>13. StatusInv(s)'
  <2>1. stripe[s].status # "deleted" => StatusDue'
    BY <1>4, <1>6, <1>7 DEF StatusDue, Says
  <2> QED
    BY <2>1, <1>1 DEF StatusInv
<1>14. AddonsInv(s)'
  <2> SUFFICES ASSUME NEW a \in Addon PROVE AddonDue(a)' \/ AddonSettled(s, a)'
    BY DEF AddonsInv
  <2>1. AddonDue(a) => AddonDue(a)'
    BY <1>1, <1>6, <1>7 DEF AddonDue, HandlerDue, HandlerAlone
  <2>2. AddonSettled(s, a) => AddonSettled(s, a)'
    BY <1>1 DEF AddonSettled
  <2> QED
    BY <2>1, <2>2, <1>3 DEF AddonsInv
<1> QED
  BY <1>9, <1>10, <1>11, <1>12, <1>13, <1>14

-----------------------------------------------------------------------------
(* MirrorInv, when a request takes a step.                                 *)
LEMMA RequestMirror ==
  ASSUME TypeInv, MirrorInv, NEW q \in Request, RequestStep(q)
  PROVE  MirrorInv'
<1>0. TypeOK /\ mishaps \in Nat
  BY DEF TypeInv, TypeOK
<1>1. ASSUME Alone(q), requests'[q].pc # "write", Calm' => Calm,
             UNCHANGED <<stripe, events, handlers, planType, billingStatus, subscription>>,
             requests[q].pc # "write", UNCHANGED addons
      PROVE  MirrorInv'
  <2>1. \A r \in Request : requests'[r].pc = "write" => requests'[r] = requests[r]
    BY <1>1 DEF Alone
  <2>2. ASSUME NEW s, AddonsInv(s)
        PROVE  AddonsInv(s)'
    <3>1. \A a \in Addon : AddonSettled(s, a) => AddonSettled(s, a)'
      BY <1>1 DEF AddonSettled, Alone
    <3>2. \A a \in Addon : AddonDue(a) => AddonDue(a)'
      BY <1>1 DEF AddonDue, HandlerDue
    <3> QED
      BY <2>2, <3>1, <3>2 DEF AddonsInv
  <2> QED
    BY <1>1, <2>1, <2>2, MirrorAsked
<1>2. ASSUME NEW p \in Plan, CheckoutRead(q, p)
      PROVE  MirrorInv'
  <2>1. Alone(q) /\ requests'[q].pc # "write"
    BY <1>0, <1>2, Begins
  <2>2. /\ UNCHANGED <<stripe, events, handlers, planType, billingStatus, subscription, addons>>
        /\ Calm' => Calm /\ requests[q].pc # "write"
    BY <1>2 DEF CheckoutRead, Begin, row, atStripe, history, Calm
  <2>3. requests[q].pc # "write"
    BY <1>2 DEF CheckoutRead, Begin
  <2> QED
    BY <2>1, <2>2, <2>3, <1>1
<1>3. ASSUME NEW a \in Addon, SubscribeRead(q, a)
      PROVE  MirrorInv'
  <2>1. Alone(q) /\ requests'[q].pc # "write"
    BY <1>0, <1>3, Begins
  <2>2. /\ UNCHANGED <<stripe, events, handlers, planType, billingStatus, subscription, addons>>
        /\ Calm' => Calm
        /\ requests[q].pc # "write"
    BY <1>3 DEF SubscribeRead, Begin, row, atStripe, history, Calm
  <2> QED
    BY <2>1, <2>2, <1>1
<1>4. ASSUME NEW a \in Addon, CancelRead(q, a)
      PROVE  MirrorInv'
  <2>1. Alone(q) /\ requests'[q].pc # "write"
    BY <1>0, <1>4, Begins
  <2>2. /\ UNCHANGED <<stripe, events, handlers, planType, billingStatus, subscription, addons>>
        /\ Calm' => Calm
        /\ requests[q].pc # "write"
    BY <1>4 DEF CancelRead, Begin, row, atStripe, history, Calm
  <2> QED
    BY <2>1, <2>2, <1>1
<1>5. CASE GuardPasses(q)
  <2>1. Alone(q) /\ requests'[q].pc # "write"
    BY <1>0, <1>5, Begins
  <2>2. /\ UNCHANGED <<stripe, events, handlers, planType, billingStatus, subscription, addons>>
        /\ Calm' => Calm
        /\ requests[q].pc # "write"
    BY <1>5 DEF GuardPasses, Begin, row, atStripe, history, Calm
  <2> QED
    BY <2>1, <2>2, <1>1
<1>6. CASE CustomerCreate(q)
  <2>1. Alone(q) /\ requests'[q].pc # "write"
    BY <1>0, <1>6, CreateFields
  <2>2. /\ UNCHANGED <<stripe, events, handlers, planType, billingStatus, subscription, addons>>
        /\ Calm' => Calm
        /\ requests[q].pc # "write"
    BY <1>6 DEF CustomerCreate, At, row, Calm
  <2> QED
    BY <2>1, <2>2, <1>1
<1>7. CASE CustomerSave(q)
  <2>1. Alone(q) /\ requests'[q].pc # "write"
    BY <1>0, <1>7, GotoFields DEF CustomerSave
  <2>2. /\ UNCHANGED <<stripe, events, handlers, planType, billingStatus, subscription, addons>>
        /\ Calm' => Calm
        /\ requests[q].pc # "write"
    BY <1>7 DEF CustomerSave, At, atStripe, history, Calm
  <2> QED
    BY <2>1, <2>2, <1>1
<1>8. CASE SessionCreate(q)
  <2>1. Alone(q) /\ requests'[q].pc # "write"
    BY <1>0, <1>8, Replied DEF SessionCreate
  <2>2. /\ UNCHANGED <<stripe, events, handlers, planType, billingStatus, subscription, addons>>
        /\ Calm' => Calm
        /\ requests[q].pc # "write"
    BY <1>8 DEF SessionCreate, At, row, history, Calm
  <2> QED
    BY <2>1, <2>2, <1>1
<1>9. CASE FlowOn(q)
  <2>1. Alone(q) /\ requests'[q].pc # "write"
    BY <1>0, <1>9, Replied DEF FlowOn
  <2>2. /\ UNCHANGED <<stripe, events, handlers, planType, billingStatus, subscription, addons>>
        /\ Calm' => Calm
        /\ requests[q].pc # "write"
    BY <1>9 DEF FlowOn, At, row, atStripe, history, Calm
  <2> QED
    BY <2>1, <2>2, <1>1
<1>10. CASE RequestFails(q)
  BY <1>10, <1>0 DEF RequestFails, MirrorInv, Calm
<1>11. CASE CancelWrite(q)
  <2>1. /\ Alone(q) /\ requests'[q].pc = "idle" /\ requests[q].pc = "write"
        /\ requests[q].addon \in Addon
    BY <1>0, <1>11, Replied DEF CancelWrite, At, TypeInv, Carries
  <2>2. /\ UNCHANGED <<stripe, events, handlers, planType, billingStatus, subscription>>
        /\ Calm' => Calm
    BY <1>11 DEF CancelWrite, row, atStripe, Calm
  <2>3. /\ addons'[requests[q].addon].status # "active"
        /\ \A a \in Addon \ {requests[q].addon} : addons'[a] = addons[a]
    <3>1. addons' = [addons EXCEPT ![requests[q].addon].status = "cancelled"]
      BY <1>11 DEF CancelWrite
    <3> QED
      BY <3>1, <2>1, <1>0, CancelledRow
  <2>4. \A r \in Request : requests'[r].pc = "write" => requests'[r] = requests[r]
    BY <2>1 DEF Alone
  <2>5. ASSUME NEW s, ItemIsOff(s), AddonsInv(s)
        PROVE  AddonsInv(s)'
    <3>1. stripe[s].items[requests[q].addon] = 0
      BY <2>5, <2>1 DEF ItemIsOff
    <3>2. \A a \in Addon : AddonDue(a) => AddonDue(a)'
      BY <2>2 DEF AddonDue, HandlerDue
    <3>3. \A a \in Addon : AddonSettled(s, a) => AddonSettled(s, a)'
      BY <2>1, <2>2, <2>3, <3>1 DEF AddonSettled, Alone
    <3> QED
      BY <2>5, <3>2, <3>3 DEF AddonsInv
  <2> QED
    BY <2>2, <2>4, <2>5, MirrorAsked
<1>12. CASE ItemCreate(q)
  <2>1. /\ Alone(q) /\ requests'[q].pc # "write" /\ requests[q].pc # "write"
        /\ UNCHANGED <<handlers, planType, billingStatus, subscription, addons>>
        /\ Calm' => Calm
        /\ Calm' => \A r \in Request : requests[r].pc = "write" => requests[r].op # "cancel"
    BY <1>0, <1>12, Replied DEF ItemCreate, At, row, Calm
  <2>2. CASE UNCHANGED <<stripe, sent, events>>
    BY <2>1, <2>2, <1>1
  <2>3. CASE ~(UNCHANGED <<stripe, sent, events>>)
    <3>1. PICK s, new : Announces(s, {"updated"}, new)
      BY <1>12, <2>3, ItemCreateAnnounces
    <3>2. Changes(s, {"updated"}, new)
      BY <3>1, Changed
    <3>3. Calm' => \A r \in Request : requests'[r].pc # "write"
      BY <2>1 DEF Alone, TypeInv, Carries
    <3>4. Calm' => ItemIsOff(s)'
      BY <3>3 DEF ItemIsOff
    <3> QED
      BY <2>1, <3>1, <3>2, <3>4, MirrorChanged
  <2> QED
    BY <2>2, <2>3
<1>13. CASE ItemDelete(q)
  <2>1. /\ requests[q].pc # "write"
        /\ UNCHANGED <<handlers, planType, billingStatus, subscription, addons>>
        /\ Calm' => Calm
    BY <1>13 DEF ItemDelete, At, row, history, Calm
  <2>2. CASE Reply(q) /\ UNCHANGED <<stripe, sent, events>>
    BY <1>0, <2>1, <2>2, <1>1, Replied
  <2>3. CASE ~(Reply(q) /\ UNCHANGED <<stripe, sent, events>>)
    <3>0. PICK s \in 1..MaxSubscriptions : \E new :
            /\ Announces(s, {"updated"}, new) /\ Goto(q, "write")
            /\ new.items[requests[q].addon] = 0
            /\ \A b \in Addon \ {requests[q].addon} : new.items[b] = stripe[s].items[b]
      BY <1>13, <2>3, ItemDeleteAnnounces
    <3>1. PICK new :
            /\ s \in 1..MaxSubscriptions
            /\ Announces(s, {"updated"}, new) /\ Goto(q, "write")
            /\ new.items[requests[q].addon] = 0
            /\ \A b \in Addon \ {requests[q].addon} : new.items[b] = stripe[s].items[b]
      BY <3>0
    <3>2. Changes(s, {"updated"}, new) /\ stripe'[s] = new
      BY <3>1, <1>0, Changed, SendsFields
    <3>3. Alone(q) /\ requests'[q].addon = requests[q].addon
      BY <3>1, <1>0, GotoFields
    <3>4. \A r \in Request : requests[r].pc = "write" => requests[r].addon \in Addon
      BY DEF TypeInv, Carries
    <3>5. ItemIsOff(s) => ItemIsOff(s)'
      BY <3>1, <3>2, <3>3, <3>4 DEF ItemIsOff, Alone
    <3> QED
      BY <2>1, <3>1, <3>2, <3>5, MirrorChanged
  <2> QED
    BY <2>2, <2>3
<1> QED
  BY <1>2, <1>3, <1>4, <1>5, <1>6, <1>7, <1>8, <1>9, <1>10, <1>11, <1>12, <1>13
  DEF RequestStep

LEMMA MirrorStep == TypeInv /\ OursInv /\ TurnInv /\ MirrorInv /\ [Next]_vars => MirrorInv'
<1> SUFFICES ASSUME TypeInv, OursInv, TurnInv, MirrorInv, [Next]_vars PROVE MirrorInv'
  OBVIOUS
<1>1. CASE UNCHANGED vars
  <2>1. UNCHANGED <<stripe, events, handlers, planType, billingStatus, subscription, requests,
                    addons, crowded, crossed, shuffled, mishaps>>
    BY <1>1 DEF vars, row, atStripe, history
  <2>2. \A s : AddonsInv(s) => AddonsInv(s)'
    BY <2>1 DEF AddonsInv, AddonDue, HandlerDue, AddonSettled
  <2>3. Calm' => Calm
    BY <2>1 DEF Calm
  <2> QED
    BY <2>1, <2>2, <2>3, MirrorAsked
<1>2. ASSUME NEW h \in Handler, HandlerStep(h)
      PROVE  MirrorInv'
  <2>1. ASSUME HandlerFails(h)
        PROVE  MirrorInv'
    BY <2>1 DEF HandlerFails, MirrorInv, Calm, TypeInv, TypeOK
  <2> QED
    BY <1>2, <2>1, DeliverMirror, HandlerMirror
<1>3. ASSUME NEW s \in 1..MaxSubscriptions, StripeStep(s)
      PROVE  MirrorInv'
  <2>1. /\ UNCHANGED <<planType, billingStatus, subscription, addons, requests, handlers>>
        /\ Calm' => Calm
    BY <1>3, StripeAnnounces DEF row, history, Calm
  <2>2. ASSUME NEW kinds, NEW new, Announces(s, kinds, new), Changes(s, kinds, new),
               \A a \in Addon : new.items[a] = stripe[s].items[a] \/ new.items[a] = 0
        PROVE  MirrorInv'
    <3>1. stripe'[s] = new
      BY <2>2, SendsFields DEF TypeInv
    <3>2. \A r \in Request : requests[r].pc = "write" => requests[r].addon \in Addon
      BY DEF TypeInv, Carries
    <3>3. ItemIsOff(s) => ItemIsOff(s)'
      BY <2>1, <2>2, <3>1, <3>2 DEF ItemIsOff
    <3> QED
      BY <2>1, <2>2, <3>3, MirrorChanged
  <2> QED
    BY <1>3, <2>1, <2>2, StripeAnnounces, MirrorStarts
<1> QED
  BY <1>1, <1>2, <1>3, RequestMirror DEF Next

-----------------------------------------------------------------------------
(* The inductive invariant.                                                *)
IInv == TypeInv /\ FlowsInv /\ OursInv /\ TurnInv /\ MirrorInv

LEMMA InitTypes == Init => TypeInv
<1> SUFFICES ASSUME Init PROVE TypeInv
  OBVIOUS
<1>1. NoItems \in [Addon -> Nat] /\ Absent \in AddonRow /\ Absent.status = "absent"
  BY DEF NoItems, Absent, AddonRow
<1>2. NoSubscription \in StripeSubscription /\ NoSubscription.status = "none"
  BY <1>1 DEF NoSubscription, StripeSubscription
<1>3. Idle.pc = "idle" /\ HandlerIdle.pc = "idle"
  BY DEF Idle, HandlerIdle
<1>4. /\ addons = [a \in Addon |-> Absent] /\ sessions = {} /\ sent = 0 /\ events = {}
      /\ requests = [q \in Request |-> Idle] /\ handlers = [h \in Handler |-> HandlerIdle]
  BY DEF Init
<1> DEFINE First == [customer |-> 1, plan |-> planType, status |-> "active", items |-> NoItems]
<1>5. /\ customer \in 0..customers /\ subscription \in 0..MaxSubscriptions /\ customers \in Nat
      /\ conversions \in Nat /\ planType \in Plan \cup {"trial"}
      /\ \/ subscription = 0 /\ \A s \in 1..MaxSubscriptions : stripe[s] = NoSubscription
         \/ /\ subscription = 1 /\ planType \in Plan /\ stripe[1] = First
            /\ \A s \in 1..MaxSubscriptions : s # 1 => stripe[s] = NoSubscription
      /\ stripe = [s \in 1..MaxSubscriptions |-> stripe[s]]
  BY DEF Init
<1>6. planType \in Plan => /\ First \in StripeSubscription /\ First.status = "active"
                           /\ First.plan \in Plan
  BY <1>1 DEF StripeSubscription
<1> HIDE DEF First
<1>7. /\ stripe \in [1..MaxSubscriptions -> StripeSubscription] /\ SubscriptionInv
      /\ subscription # 0 => Known(subscription)
  BY <1>2, <1>5, <1>6 DEF SubscriptionInv, Known
<1>8. addons \in [Addon -> AddonRow] /\ \A a \in Addon : addons[a].status # "active"
  BY <1>1, <1>4
<1>9. /\ requests \in [Request -> RequestState] /\ handlers \in [Handler -> HandlerState]
      /\ \A q \in Request : requests[q].pc = "idle"
      /\ \A h \in Handler : handlers[h].pc = "idle"
  BY <1>3, <1>4, IdleType
<1>10. /\ billingStatus \in BillingStatus /\ flowsActive \in BOOLEAN /\ crowded \in BOOLEAN
       /\ crossed \in BOOLEAN /\ shuffled \in BOOLEAN /\ mishaps \in Nat
  BY DEF Init, BillingStatus
<1>11. TypeOK
  BY <1>4, <1>5, <1>7, <1>8, <1>9, <1>10 DEF TypeOK
<1>12. EventInv /\ (\A h \in Handler : Handles(h)) /\ (\A q \in Request : Carries(q))
  BY <1>4, <1>9 DEF EventInv, Pending, Busy, Handles, Carries
<1> QED
  BY <1>7, <1>8, <1>11, <1>12 DEF TypeInv

LEMMA InitMirrors == Init /\ TypeInv => FlowsInv /\ OursInv /\ TurnInv /\ MirrorInv
<1> SUFFICES ASSUME Init, TypeInv PROVE FlowsInv /\ OursInv /\ TurnInv /\ MirrorInv
  OBVIOUS
<1>1. Idle.pc = "idle" /\ HandlerIdle.pc = "idle" /\ Absent.status = "absent"
  BY DEF Idle, HandlerIdle, Absent
<1>2. /\ addons = [a \in Addon |-> Absent] /\ sessions = {} /\ events = {} /\ ~flowsActive
      /\ requests = [q \in Request |-> Idle] /\ handlers = [h \in Handler |-> HandlerIdle]
      /\ billingStatus = "active"
  BY DEF Init
<1>3. /\ \A q \in Request : requests[q].pc = "idle"
      /\ \A h \in Handler : handlers[h].pc = "idle"
      /\ \A a \in Addon : addons[a].status # "active"
  BY <1>1, <1>2
<1>4. \A s : Known(s) =>
        /\ s = 1 /\ subscription = 1 /\ customer = 1
        /\ stripe[s].customer = 1 /\ stripe[s].plan = planType /\ stripe[s].status = "active"
        /\ stripe[s].items = NoItems
  <2> SUFFICES ASSUME NEW s, Known(s)
               PROVE  /\ s = 1 /\ subscription = 1 /\ customer = 1
                      /\ stripe[s].customer = 1 /\ stripe[s].plan = planType
                      /\ stripe[s].status = "active" /\ stripe[s].items = NoItems
    OBVIOUS
  <2>1. NoSubscription.status = "none"
    BY DEF NoSubscription
  <2>2. s \in 1..MaxSubscriptions /\ stripe[s] # NoSubscription
    BY <2>1 DEF Known
  <2> QED
    BY <2>2 DEF Init
<1>5. \A e : ~Pending(e)
  BY <1>2, <1>3 DEF Pending, Busy
<1>6. FlowsInv
  BY <1>2, <1>3 DEF FlowsInv, FlowPassed
<1>7. OursInv
  BY <1>2, <1>3, <1>4 DEF OursInv
<1>8. TurnInv
  BY <1>2, <1>3 DEF TurnInv, Busy
<1>9. ASSUME NEW s, Only(s)
      PROVE  /\ NewestSays(s) /\ EndIsLast(s) /\ ItemIsOff(s)
             /\ PlanInv(s) /\ StatusInv(s) /\ AddonsInv(s)
  <2>1. /\ subscription = s /\ stripe[s].plan = planType /\ stripe[s].status = "active"
        /\ \A a \in Addon : stripe[s].items[a] = 0
    BY <1>4, <1>9 DEF Only, NoItems
  <2>2. NewestSays(s) /\ EndIsLast(s) /\ ItemIsOff(s)
    BY <2>1, <1>3, <1>5 DEF NewestSays, EndIsLast, ItemIsOff
  <2>3. PlanInv(s) /\ StatusInv(s)
    BY <2>1, <1>2 DEF PlanInv, StatusInv
  <2>4. AddonsInv(s)
    BY <2>1, <1>3 DEF AddonsInv, AddonSettled
  <2> QED
    BY <2>2, <2>3, <2>4
<1> QED
  BY <1>6, <1>7, <1>8, <1>9 DEF MirrorInv

LEMMA Initially == Init => IInv
  BY InitTypes, InitMirrors DEF IInv

LEMMA Inductive == IInv /\ [Next]_vars => IInv'
  BY TypeStep, FlowsStep, OursStep, TurnStep, MirrorStep DEF IInv

LEMMA Invariant == Spec => []IInv
  BY Initially, Inductive, PTL DEF Spec

-----------------------------------------------------------------------------
(* Rows, requests, handlers and what Stripe holds keep their types.        *)
THEOREM BillingTypes == Spec => []TypeOK
<1>1. IInv => TypeOK
  BY DEF IInv, TypeInv
<1> QED
  BY <1>1, Invariant, PTL

(* Cancelling the add-on switches the flows off: when they stay on, either *)
(* a handler is about to, or a flow request crossed the cancellation.      *)
THEOREM FlowsStopWithAddon == Spec => []CancelledStopsFlows
<1>1. IInv => CancelledStopsFlows
  BY DEF IInv, FlowsInv, CancelledStopsFlows
<1> QED
  BY <1>1, Invariant, PTL

(* A subscription paid at Stripe is the workspace's, whoever asked for it, *)
(* unless two first checkouts crowded each other or a call failed.         *)
THEOREM PaidIsOurs == Spec => []SubscriptionIsOurs
<1>1. IInv => SubscriptionIsOurs
  <2> SUFFICES ASSUME IInv, ~crowded, ~(mishaps > 0), NEW s \in Subscriptions
               PROVE  stripe[s].customer = customer
    BY DEF SubscriptionIsOurs
  <2>1. mishaps = 0 /\ Known(s)
    BY DEF IInv, TypeInv, TypeOK, Subscriptions, Known
  <2> QED
    BY <2>1 DEF IInv, OursInv
<1> QED
  BY <1>1, Invariant, PTL

(* Once everything sent is handled, in order and without faults, the rows  *)
(* mirror the only subscription: its status, its plan and its add-ons.     *)
THEOREM RowsMirrorStripe == Spec => []SettledMirrors
<1>1. IInv => SettledMirrors
  <2> SUFFICES ASSUME IInv, Quiet, Calm, Cardinality(Subscriptions) = 1,
                      NEW s \in Subscriptions
               PROVE  Mirrors(s)
    BY DEF SettledMirrors, Calm
  <2>1. \A r \in Subscriptions : r = s
    <3>1. IsFiniteSet(1..MaxSubscriptions)
      BY FS_Interval
    <3>2. IsFiniteSet(Subscriptions)
      BY <3>1, FS_Subset DEF Subscriptions
    <3>3. PICK x : Subscriptions = {x}
      BY <3>2, FS_Singleton
    <3> QED
      BY <3>3
  <2>2. Only(s)
    BY <2>1 DEF Only, Known, Subscriptions
  <2>3. EndIsLast(s) /\ PlanInv(s) /\ StatusInv(s) /\ AddonsInv(s)
    BY <2>2 DEF IInv, MirrorInv
  <2>4. /\ events = {} /\ \A h \in Handler : handlers[h].pc = "idle"
        /\ \A q \in Request : requests[q].pc # "write"
    BY DEF Quiet
  <2>5. \A e : ~Pending(e)
    BY <2>4 DEF Pending, Busy
  <2>6. subscription = s /\ (stripe[s].status # "deleted" => planType = stripe[s].plan)
    BY <2>3, <2>4 DEF PlanInv, PlanDue
  <2>7. stripe[s].status # "deleted" => billingStatus = stripe[s].status
    BY <2>3, <2>4 DEF StatusInv, StatusDue
  <2>8. \A a \in Addon : addons[a].status = "active" <=> stripe[s].items[a] # 0
    BY <2>3, <2>4 DEF AddonsInv, AddonDue, HandlerDue, AddonSettled
  <2>9. stripe[s].status = "deleted" => planType = "trial" /\ billingStatus = "cancelled"
    BY <2>3, <2>5 DEF EndIsLast
  <2>10. stripe[s].status \in {"active", "past_due", "deleted"}
    BY <2>2 DEF Only, Known, IInv, TypeInv, TypeOK, StripeSubscription
  <2> QED
    BY <2>6, <2>7, <2>8, <2>9, <2>10 DEF Mirrors, Alive
<1> QED
  BY <1>1, Invariant, PTL
=============================================================================
