-------------------------- MODULE BillingWebhooks --------------------------
(***************************************************************************)
(* The subscription row of one user (api/routers/billing.py and            *)
(* api/services/billing_service.py), the checkouts and usage requests that *)
(* create it, and the Stripe webhooks that keep it up to date.             *)
(*                                                                         *)
(* Stripe is external: it holds the true subscriptions and sends one event *)
(* per change, which arrive late, twice or in another order, several at a  *)
(* time.  A webhook handler reads the row in one step.  In a later one it  *)
(* writes the columns whose value it changed and inserts the event, in one *)
(* transaction: the UPDATE locks the row until the COMMIT, and the unique  *)
(* stripe_event_id of billing_events refuses an event a second time.       *)
(***************************************************************************)
EXTENDS Naturals, Sequences, FiniteSets

CONSTANTS
  Clients,        \* the user's requests in flight
  Handlers,       \* webhooks in flight
  Subs,           \* Stripe subscriptions
  Plans,          \* plans with a price at Stripe
  Starter,        \* the plan without a price: PlanTier.STARTER
  MaxEvents,      \* bound: events Stripe sends
  MaxDeliveries,  \* bound: deliveries of one event
  MaxCustomers,   \* bound: customers made at Stripe
  MaxFailures     \* bound: exceptions in a webhook handler

ASSUME BillingAssumption ==
  /\ Clients \cap Handlers = {}
  /\ Starter \notin Plans
  /\ MaxEvents \in Nat
  /\ MaxDeliveries \in Nat
  /\ MaxCustomers \in Nat
  /\ MaxFailures \in Nat
  /\ "none" \notin Subs

VARIABLES
  row,        \* the user's row of subscriptions
  inserting,  \* a transaction has inserted a row and not committed
  log,        \* numbers of the events in billing_events
  proc,       \* what each coroutine is in the middle of
  stripe,     \* the subscriptions at Stripe
  events,     \* the events Stripe has sent, in order
  delivered,  \* how often each event was delivered
  acked,      \* the events that were answered with 200
  customers,  \* customers made at Stripe: 1..customers
  failures,   \* exceptions so far
  orderly     \* no failure yet, and events came in their order (history)

Procs == Clients \cup Handlers

vars == <<row, inserting, log, proc, stripe, events, delivered, acked,
          customers, failures, orderly>>

Events == 1..MaxEvents
AllPlans == Plans \cup {Starter}
Kinds == {"created", "updated", "deleted", "paid", "failed"}
Statuses == {"active", "past_due", "canceled"}

\* customer = 0: none yet
EmptyRow(exists) ==
  [exists |-> exists, customer |-> 0, sub |-> "none", status |-> "active", plan |-> Starter]
NoRow == EmptyRow(FALSE)
NewRow == EmptyRow(TRUE)
Rows == [exists : BOOLEAN, customer : 0..MaxCustomers, sub : Subs \cup {"none"},
         status : Statuses, plan : AllPlans]
Event(kind, sub, customer, status, plan) ==
  [kind |-> kind, sub |-> sub, customer |-> customer, status |-> status, plan |-> plan]
Idle == [pc |-> "idle", event |-> 0, seen |-> NoRow, found |-> FALSE]
NoSub == [state |-> "none", customer |-> 0, plan |-> Starter]

Init ==
  /\ row = NoRow
  /\ inserting = FALSE
  /\ log = {}
  /\ proc = [p \in Procs |-> Idle]
  /\ stripe = [s \in Subs |-> NoSub]
  /\ events = <<>>
  /\ delivered = [e \in Events |-> 0]
  /\ acked = {}
  /\ customers = 0
  /\ failures = 0
  /\ orderly = TRUE

At(p, pc) == proc[p].pc = pc
Done(p) == proc' = [proc EXCEPT ![p] = Idle]
AtStripe == <<stripe, events>>
Delivery == <<delivered, acked>>

\* SQLAlchemy's UPDATE holds only the columns that differ from what was loaded.
Changed(now, seen, new) ==
  [column \in DOMAIN now |-> IF new[column] # seen[column] THEN new[column] ELSE now[column]]

-----------------------------------------------------------------------------
\* get_or_create_subscription, for a checkout ("coCustomer" follows) or for a
\* usage request.  Two INSERTs of one user_id: the second waits for the first.

InsertFor(goal) == IF goal = "usage" THEN "usageInsert" ELSE "checkoutInsert"

Request(p, goal) ==
  /\ At(p, "idle")
  /\ proc' = [proc EXCEPT ![p] = [Idle EXCEPT !.pc = IF row.exists THEN goal ELSE InsertFor(goal),
                                              !.seen = row]]
  /\ UNCHANGED <<row, inserting, log, AtStripe, Delivery, customers, failures, orderly>>

\* The unique user_id refuses the row of the slower request, which fails.
Insert(p, goal) ==
  /\ At(p, InsertFor(goal))
  /\ ~inserting
  /\ IF row.exists
     THEN Done(p) /\ UNCHANGED inserting
     ELSE /\ inserting' = TRUE
          /\ proc' = [proc EXCEPT ![p].pc = goal]
  /\ UNCHANGED <<row, log, AtStripe, Delivery, customers, failures, orderly>>

Inserts(p) == ~proc[p].seen.exists

\* The usage is read, and get_db commits the row that was made on the way.
UsageCommit(p) ==
  /\ At(p, "usage")
  /\ row' = IF Inserts(p) THEN NewRow ELSE row
  /\ inserting' = (inserting /\ ~Inserts(p))
  /\ Done(p)
  /\ UNCHANGED <<log, AtStripe, Delivery, customers, failures, orderly>>

\* create_checkout_session: a row without a customer gets a new one, and that
\* is committed; a second checkout at the same time replaces it.
CheckoutCommit(p) ==
  /\ At(p, "checkout")
  /\ LET base == IF Inserts(p) THEN NewRow ELSE row IN
     IF proc[p].seen.customer # 0
     THEN UNCHANGED <<row, customers>>
     ELSE /\ customers < MaxCustomers
          /\ customers' = customers + 1
          /\ row' = [base EXCEPT !.customer = customers + 1]
  /\ inserting' = (inserting /\ ~Inserts(p))
  /\ Done(p)
  /\ UNCHANGED <<log, AtStripe, Delivery, failures, orderly>>

\* Stripe refuses to make the customer: 502, and the new row is rolled back.
CheckoutFails(p) ==
  /\ At(p, "checkout")
  /\ proc[p].seen.customer = 0
  /\ inserting' = (inserting /\ ~Inserts(p))
  /\ Done(p)
  /\ UNCHANGED <<row, log, AtStripe, Delivery, customers, failures, orderly>>

-----------------------------------------------------------------------------
\* Stripe.

Send(new) ==
  /\ Len(events) < MaxEvents
  /\ events' = Append(events, new)
StripeStep == UNCHANGED <<row, inserting, log, proc, Delivery, customers, failures, orderly>>
Carry(kind, s, status, plan) == Event(kind, s, stripe[s].customer, status, plan)

\* The user pays the checkout session of a customer that was made for them.
Subscribe(s, c, plan) ==
  /\ stripe[s].state = "none"
  /\ c \in 1..customers
  /\ stripe' = [stripe EXCEPT ![s] = [state |-> "active", customer |-> c, plan |-> plan]]
  /\ Send(Event("created", s, c, "active", plan))
  /\ StripeStep

SwitchPlan(s, plan) ==
  /\ stripe[s].state \in {"active", "past_due"}
  /\ plan # stripe[s].plan
  /\ stripe' = [stripe EXCEPT ![s].plan = plan]
  /\ Send(Carry("updated", s, stripe[s].state, plan))
  /\ StripeStep

PaymentFails(s) ==
  /\ stripe[s].state = "active"
  /\ stripe' = [stripe EXCEPT ![s].state = "past_due"]
  /\ Send(Carry("failed", s, "past_due", stripe[s].plan))
  /\ StripeStep

PaymentSucceeds(s) ==
  /\ stripe[s].state \in {"active", "past_due"}
  /\ stripe' = [stripe EXCEPT ![s].state = "active"]
  /\ Send(Carry("paid", s, "active", stripe[s].plan))
  /\ StripeStep

\* An update tells of a new period, or again of what an invoice has told.
Renew(s) ==
  /\ stripe[s].state \in {"active", "past_due"}
  /\ Send(Carry("updated", s, stripe[s].state, stripe[s].plan))
  /\ UNCHANGED stripe
  /\ StripeStep

EndSubscription(s) ==
  /\ stripe[s].state \in {"active", "past_due"}
  /\ stripe' = [stripe EXCEPT ![s].state = "canceled"]
  /\ Send(Carry("deleted", s, "canceled", stripe[s].plan))
  /\ StripeStep

-----------------------------------------------------------------------------
\* stripe_webhook

\* Mutant: a creation is looked up by the subscription as well.
MatchesSubscription(e, r) == r.exists /\ r.sub = e.sub

\* A creation is looked up by the customer, everything else by the subscription.
Matches(e, r) ==
  /\ r.exists
  /\ IF e.kind = "created" THEN r.customer = e.customer ELSE r.sub = e.sub

\* What each handler makes of the row it loaded.
Created(e, seen) == [seen EXCEPT !.sub = e.sub, !.status = e.status, !.plan = e.plan]
Updated(e, seen) == [seen EXCEPT !.status = e.status, !.plan = e.plan]
Deleted(seen) == [seen EXCEPT !.status = "canceled", !.plan = Starter]
InvoicePaid(seen) == [seen EXCEPT !.status = IF @ = "past_due" THEN "active" ELSE @]
InvoiceFailed(seen) == [seen EXCEPT !.status = "past_due"]

\* Mutant: the plan of a subscription that ended is kept.
HandledKeepsPlan(e, seen) ==
  IF e.kind = "deleted" THEN [seen EXCEPT !.status = "canceled"]
  ELSE IF e.kind = "created" THEN Created(e, seen)
  ELSE IF e.kind = "updated" THEN Updated(e, seen)
  ELSE IF e.kind = "paid" THEN InvoicePaid(seen)
  ELSE InvoiceFailed(seen)

Handled(e, seen) ==
  IF e.kind = "created" THEN Created(e, seen)
  ELSE IF e.kind = "updated" THEN Updated(e, seen)
  ELSE IF e.kind = "deleted" THEN Deleted(seen)
  ELSE IF e.kind = "paid" THEN InvoicePaid(seen)
  ELSE InvoiceFailed(seen)

\* The event is the oldest that was not answered and no other new event is being
\* handled, or it was answered before: each comes in the order Stripe sent
\* them, and may come again at any time.
InTurn(e) ==
  \/ e \in acked
  \/ 1..(e - 1) \subseteq acked /\ \A p \in Procs : proc[p].event \in {0, e} \cup acked

\* The signature is right; the handler looks for the row.
Deliver(p, e) ==
  /\ At(p, "idle")
  /\ e \in 1..Len(events)
  /\ delivered[e] < MaxDeliveries
  /\ delivered' = [delivered EXCEPT ![e] = @ + 1]
  /\ proc' = [proc EXCEPT ![p] = [pc |-> "webhook", event |-> e, seen |-> row,
                                  found |-> Matches(events[e], row)]]
  /\ orderly' = (orderly /\ InTurn(e))
  /\ UNCHANGED <<row, inserting, log, AtStripe, acked, customers, failures>>

Acknowledge(p) ==
  /\ acked' = acked \cup {proc[p].event}
  /\ Done(p)

Webhook(p) == At(p, "webhook") /\ UNCHANGED <<inserting, AtStripe, delivered, customers>>

\* No row: nothing is written, not even to the log.
DropEvent(p) ==
  /\ Webhook(p)
  /\ ~proc[p].found
  /\ Acknowledge(p)
  /\ UNCHANGED <<row, log, failures, orderly>>

\* Mutant: the column stripe_event_id without its unique index.
CommitEventTwice(p) ==
  /\ Webhook(p)
  /\ proc[p].found
  /\ LET e == proc[p].event IN
     /\ log' = log \cup {e}
     /\ row' = Changed(row, proc[p].seen, Handled(events[e], proc[p].seen))
  /\ Acknowledge(p)
  /\ UNCHANGED <<failures, orderly>>

CommitEvent(p) ==
  /\ Webhook(p)
  /\ proc[p].found
  /\ LET e == proc[p].event IN
     /\ e \notin log
     /\ log' = log \cup {e}
     /\ row' = Changed(row, proc[p].seen, Handled(events[e], proc[p].seen))
  /\ Acknowledge(p)
  /\ UNCHANGED <<failures, orderly>>

\* The INSERT of a known event raises: all is rolled back, and 200 is answered.
RefuseEvent(p) ==
  /\ Webhook(p)
  /\ proc[p].found
  /\ proc[p].event \in log
  /\ Acknowledge(p)
  /\ UNCHANGED <<row, log, failures, orderly>>

\* What a handler has assigned to the row where the data of the event, a price
\* or a date, may raise: before it adds the event.
Assigned(e, seen) ==
  IF e.kind = "created" THEN {[seen EXCEPT !.sub = e.sub, !.status = e.status], Created(e, seen)}
  ELSE IF e.kind = "updated" THEN {[seen EXCEPT !.status = e.status], Updated(e, seen)}
  ELSE {}

\* Any other exception of the handler is swallowed as well, without a rollback:
\* get_db commits what was assigned so far, and no event with it.
SwallowException(p) ==
  /\ Webhook(p)
  /\ failures < MaxFailures
  /\ failures' = failures + 1
  /\ orderly' = FALSE
  /\ \/ UNCHANGED row
     \/ /\ proc[p].found
        /\ \E new \in Assigned(events[proc[p].event], proc[p].seen) :
             row' = Changed(row, proc[p].seen, new)
  /\ Acknowledge(p)
  /\ UNCHANGED log

-----------------------------------------------------------------------------
Answer(c) ==
  \/ \E goal \in {"checkout", "usage"} : Insert(c, goal)
  \/ UsageCommit(c) \/ CheckoutCommit(c) \/ CheckoutFails(c)
Handle(h) == DropEvent(h) \/ CommitEvent(h) \/ RefuseEvent(h)
Stripe ==
  \E s \in Subs :
    \/ \E c \in 1..MaxCustomers, plan \in Plans : Subscribe(s, c, plan)
    \/ \E plan \in Plans : SwitchPlan(s, plan)
    \/ PaymentFails(s) \/ PaymentSucceeds(s) \/ Renew(s) \/ EndSubscription(s)
Next ==
  \/ Stripe
  \/ \E c \in Clients : Answer(c) \/ \E goal \in {"checkout", "usage"} : Request(c, goal)
  \/ \E h \in Handlers :
       Handle(h) \/ SwallowException(h) \/ \E e \in Events : Deliver(h, e)

Spec == Init /\ [][Next]_vars

-----------------------------------------------------------------------------
\* Properties.

TypeOK ==
  /\ row \in Rows
  /\ inserting \in BOOLEAN
  /\ log \subseteq Events
  /\ proc \in [Procs -> [pc : {"idle", "usage", "usageInsert", "checkout", "checkoutInsert", "webhook"},
                         event : 0..MaxEvents, seen : Rows, found : BOOLEAN]]
  /\ stripe \in [Subs -> [state : Statuses \cup {"none"}, customer : 0..MaxCustomers, plan : AllPlans]]
  /\ events \in Seq([kind : Kinds, sub : Subs, customer : 1..MaxCustomers,
                     status : Statuses, plan : Plans])
  /\ Len(events) <= MaxEvents
  /\ delivered \in [Events -> 0..MaxDeliveries]
  /\ acked \subseteq 1..Len(events)
  /\ customers \in 0..MaxCustomers
  /\ failures \in 0..MaxFailures
  /\ orderly \in BOOLEAN

\* A change of status, plan or subscription comes with exactly one event that
\* was not in the log, so an event delivered twice, even to two handlers at a
\* time, counts once.  Only a creation or an update that failed half-way is
\* written without its event: the end of a subscription and what an invoice
\* tells never are.
FailedHalfway ==
  /\ failures' = failures + 1
  /\ \E h \in Handlers : /\ At(h, "webhook") /\ ~At(h, "webhook")'
                        /\ events[proc[h].event].kind \in {"created", "updated"}
EffectWithItsEvent ==
  [][ LET billed(r) == <<r.sub, r.status, r.plan>> IN
      billed(row') # billed(row) /\ row.exists =>
        Cardinality(log' \ log) = 1 \/ (log' = log /\ FailedHalfway) ]_vars

\* The subscription that Stripe told us of last.
Newest(s) ==
  \E j \in 1..Len(events) :
    /\ events[j].kind = "created" /\ events[j].sub = s
    /\ \A i \in j + 1..Len(events) : events[i].kind # "created"
Settled == acked = 1..Len(events) /\ \A p \in Procs : At(p, "idle")

\* A log of every event: when events come in order, none is dropped, however
\* often each of them comes and whatever checkouts and usage requests do
\* meanwhile, provided the user was made only one customer.
OneSubscription ==
  \A s, t \in Subs : stripe[s].state # "none" /\ stripe[t].state # "none" => s = t
NothingDropped == orderly /\ customers <= 1 /\ OneSubscription => acked = log

\* Events in order leave the row as Stripe has the newest subscription, with the
\* starter plan once that has ended.
RowFollowsStripe ==
  orderly /\ Settled /\ customers <= 1 =>
    \A s \in Subs : Newest(s) =>
       /\ row.sub = s
       /\ row.status = stripe[s].state
       /\ row.plan = IF stripe[s].state = "canceled" THEN Starter ELSE stripe[s].plan

\* However the events cross and wherever their handlers fail, each column of
\* the row is as it was made or as an answered event of the right kind told.
SubTold == row.sub # "none" =>
  \E e \in acked : events[e].kind = "created" /\ events[e].sub = row.sub
StatusTold == row.status # "active" => \E e \in acked : events[e].status = row.status
PlanTold == row.plan # Starter =>
  \E e \in acked : events[e].kind \in {"created", "updated"} /\ events[e].plan = row.plan

\* A logged event has found a row with a subscription, and no customer made at
\* Stripe is forgotten.
RowIsExplained ==
  /\ TypeOK
  /\ SubTold /\ StatusTold /\ PlanTold
  /\ log # {} => row.exists /\ row.sub # "none"
  /\ row.customer = 0 => customers = 0 \/ ~row.exists

\* The row is that of the user's subscription at Stripe, or of how it came to be.
RowIsSound == RowIsExplained /\ RowFollowsStripe
=============================================================================
