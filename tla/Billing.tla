------------------------------ MODULE Billing ------------------------------
(***************************************************************************)
(* How one account gets and loses Pro: RazorpayService (a pass is one      *)
(* payment for some days), BillingService (a Stripe subscription), the     *)
(* expiry of a pass that AuthService applies when it reads a session, and  *)
(* an admin's hand.  The first three write the same fields of the user     *)
(* row, and none of them in the statement that read it; the admin writes   *)
(* the plan alone.                                                         *)
(*                                                                         *)
(* A request is served in steps, one per database statement whose result   *)
(* another request can invalidate; Requests are those in flight at once.   *)
(* Razorpay and Stripe are external: what they do is what the handlers     *)
(* can observe of it.                                                      *)
(***************************************************************************)
EXTENDS Naturals, FiniteSets, FiniteSetsExt

CONSTANTS
  Orders,         \* Razorpay orders the account may open
  Subs,           \* Stripe subscriptions the account may start
  Requests,       \* requests served at the same time (a bound of the model)
  None,
  Passes,         \* the lengths of pass on sale
  Period,         \* the length of a Stripe billing period
  MaxTime,        \* the clock stops here (bound)
  MaxEvents,      \* events Stripe sends (bound)
  MaxRare         \* restarts of the backend, failed statements, rejected verifications, returns from
                  \* Stripe's checkout page and plans set by hand, all together (bound)

ProStatuses == {"active", "past_due"}
SubStatuses == ProStatuses \cup {"canceled"}

\* The two webhooks Razorpay sends of a captured payment.
Hooks == {"payment.captured", "order.paid"}

ASSUME BillingAssumption ==
  /\ None \notin Orders \cup Subs \cup SubStatuses \cup Hooks
  /\ Passes \subseteq Nat \ {0}
  /\ {Period, MaxTime, MaxEvents, MaxRare} \subseteq Nat

\* What Stripe says of a subscription when an event is read; id 0 is an answer, not an event.
Report == [id : Nat, sub : Subs, status : SubStatuses, renews : Nat]

NoRequest == [step |-> "idle", order |-> None, hook |-> None, renews |-> 0, report |-> None]

VARIABLES
  now,
  user,       \* the user row: plan, provider, renews, sub, status
  orders,     \* the payment_orders table: each order's status and days
  paid,       \* Razorpay: what has been paid for each order
  due,        \* Razorpay: the webhooks of each payment not answered yet
  stripe,     \* Stripe: each subscription's status and period end
  events,     \* Stripe: the events sent
  recorded,   \* the billing_events table
  requests,   \* what each request in flight is doing
  rare,       \* how much of MaxRare was used
  \* history, read by no action
  claimed,    \* how often each order was claimed
  granted,    \* how often each order's days were written to the user
  reopened,   \* how often each order was settled, and then failed by a verification that was refused
  applied,    \* events written to the user, or superseded
  broken,     \* orders that a restart or a failed statement caught between their claim and the user's row
  byHand      \* the plan was set by an admin, and by none of the three services since

account  == <<user, orders, recorded>>
razorpay == <<paid, due>>
stripes  == <<stripe, events>>
bounds   == <<now, rare>>
history  == <<claimed, granted, reopened, applied, broken, byHand>>
vars     == <<account, razorpay, stripes, bounds, requests, history>>

Init ==
  /\ now = 0
  /\ user = [plan |-> "free", provider |-> None, renews |-> 0, sub |-> None, status |-> None]
  /\ orders = [o \in Orders |-> [status |-> "none", days |-> 0]]
  /\ paid = [o \in Orders |-> "nothing"]
  /\ due = [o \in Orders |-> {}]
  /\ stripe = [s \in Subs |-> [status |-> "none", renews |-> 0]]
  /\ events = {}
  /\ recorded = {}
  /\ requests = [r \in Requests |-> NoRequest]
  /\ rare = 0
  /\ claimed = [o \in Orders |-> 0]
  /\ granted = [o \in Orders |-> 0]
  /\ reopened = [o \in Orders |-> 0]
  /\ applied = {}
  /\ broken = {} /\ byHand = FALSE

Idle(r)       == requests[r].step = "idle"
Begin(r, q)   == requests' = [requests EXCEPT ![r] = q]
End(r)        == Begin(r, NoRequest)
Advance(r, s) == requests' = [requests EXCEPT ![r].step = s]
Rarely        == rare < MaxRare /\ rare' = rare + 1

-----------------------------------------------------------------------------
(* Razorpay passes *)

\* createOrder refuses while a Stripe subscription pays for Pro.
PaidByStripe == user.plan = "pro" /\ user.provider = "stripe" /\ user.status # "canceled"

\* createOrder: the order at Razorpay and its row.  The price, with its promo code, is abstracted.
CreateOrder(o, days) ==
  /\ orders[o].status = "none"
  /\ ~PaidByStripe
  /\ orders' = [orders EXCEPT ![o] = [status |-> "created", days |-> days]]
  /\ UNCHANGED <<user, recorded, razorpay, stripes, bounds, requests, history>>

\* Razorpay collects the payment, and owes its webhooks until each is answered.
Pay(o, amount) ==
  /\ orders[o].status # "none"
  /\ paid[o] = "nothing"
  /\ paid' = [paid EXCEPT ![o] = amount]
  /\ due' = [due EXCEPT ![o] = Hooks]
  /\ UNCHANGED <<account, stripes, bounds, requests, history>>

\* Mutant: the update that claims an order does not look at its status.
EverClaimable(o) == orders[o].status # "none"

\* Mutant: an order whose verification failed once is never settled.
OnlyCreated(o) == orders[o].status = "created"

\* An order that is not settled.
Claimable(o) == orders[o].status \in {"created", "failed"}

\* applyPayment's updateMany: the order's status is the lock.
Claim(r, o, hook) ==
  /\ Claimable(o)
  /\ orders' = [orders EXCEPT ![o].status = "paid"]
  /\ claimed' = [claimed EXCEPT ![o] = @ + 1]
  /\ Begin(r, [NoRequest EXCEPT !.step = "read", !.order = o, !.hook = hook])
  /\ UNCHANGED <<user, recorded, granted, reopened, applied, broken, byHand>>

\* verify with the signature Razorpay's modal gave; on a settled order it changes nothing.
Verify(r, o) ==
  /\ Idle(r)
  /\ paid[o] = "full"
  /\ Claim(r, o, None)
  /\ UNCHANGED <<razorpay, stripes, bounds>>

\* verify with a signature that does not match: the order is failed, whatever it was.
RejectVerification(o) ==
  /\ Rarely
  /\ orders[o].status # "none"
  /\ orders' = [orders EXCEPT ![o].status = "failed"]
  /\ reopened' = [reopened EXCEPT ![o] = IF orders[o].status = "paid" THEN @ + 1 ELSE @]
  /\ UNCHANGED <<user, recorded, razorpay, stripes, now, requests, claimed, granted, applied, broken, byHand>>

Answer(o, hook) == due' = [due EXCEPT ![o] = @ \ {hook}]

\* Mutant: the amount of the payment is not compared with the order's.
WebhookOfAnyAmount(r, o, hook) ==
  /\ Idle(r)
  /\ hook \in due[o]
  /\ \/ /\ Claim(r, o, hook)
        /\ UNCHANGED <<razorpay, stripes, bounds>>
     \/ /\ ~Claimable(o)
        /\ Answer(o, hook)
        /\ UNCHANGED <<account, paid, stripes, bounds, requests, history>>

\* handleWebhook: a short payment and a settled order are answered, any other order is claimed.
Webhook(r, o, hook) ==
  /\ Idle(r)
  /\ hook \in due[o]
  /\ \/ /\ paid[o] = "full"
        /\ Claim(r, o, hook)
        /\ UNCHANGED <<razorpay, stripes, bounds>>
     \/ /\ paid[o] # "full" \/ ~Claimable(o)
        /\ Answer(o, hook)
        /\ UNCHANGED <<account, paid, stripes, bounds, requests, history>>

\* A pass adds to the time that is left, if any is.
ExtendedBy(days) ==
  (IF user.plan = "pro" /\ user.renews > now THEN user.renews ELSE now) + days

\* Mutant: an account that is on Pro is answered as if it had this pass already.
ReadFreeUser(r) ==
  LET q == requests[r] IN
  /\ q.step = "read"
  /\ requests' = [requests EXCEPT ![r] =
       IF user.plan = "pro" THEN NoRequest
       ELSE [q EXCEPT !.step = "write", !.renews = ExtendedBy(orders[q.order].days)]]
  /\ UNCHANGED <<account, razorpay, stripes, bounds, history>>

\* applyPayment reads the user and works out the new end of the plan ...
ReadUser(r) ==
  /\ requests[r].step = "read"
  /\ requests' = [requests EXCEPT ![r].step = "write",
                                  ![r].renews = ExtendedBy(orders[requests[r].order].days)]
  /\ UNCHANGED <<account, razorpay, stripes, bounds, history>>

\* Mutant: the days are added to the new end again.
WriteUserAgain(r) ==
  LET q == requests[r] IN
  /\ q.step = "write"
  /\ user' = [user EXCEPT !.plan = "pro", !.provider = "razorpay",
                          !.renews = q.renews + orders[q.order].days, !.status = "active"]
  /\ granted' = [granted EXCEPT ![q.order] = @ + 1]
  /\ byHand' = FALSE
  /\ Answer(q.order, q.hook)
  /\ End(r)
  /\ UNCHANGED <<orders, recorded, paid, stripes, bounds, claimed, reopened, applied, broken>>

\* ... then writes it, and the request is answered.
WriteUser(r) ==
  LET q == requests[r] IN
  /\ q.step = "write"
  /\ user' = [user EXCEPT !.plan = "pro", !.provider = "razorpay",
                          !.renews = q.renews, !.status = "active"]
  /\ granted' = [granted EXCEPT ![q.order] = @ + 1]
  /\ byHand' = FALSE
  /\ Answer(q.order, q.hook)
  /\ End(r)
  /\ UNCHANGED <<orders, recorded, paid, stripes, bounds, claimed, reopened, applied, broken>>

\* razorpayPlanExpired
Expired == user.plan = "pro" /\ user.provider = "razorpay" /\ user.renews <= now

\* userFromSession, on any signed-in request: reads the user ...
ReadSession(r) ==
  /\ Idle(r)
  /\ Expired
  /\ Begin(r, [NoRequest EXCEPT !.step = "expire"])
  /\ UNCHANGED <<account, razorpay, stripes, bounds, history>>

\* Mutant: the status of the plan that ended is left behind.
ExpirePlanOnly(r) ==
  /\ requests[r].step = "expire"
  /\ user' = [user EXCEPT !.plan = "free", !.provider = None]
  /\ byHand' = FALSE
  /\ End(r)
  /\ UNCHANGED <<orders, recorded, razorpay, stripes, bounds, claimed, granted, reopened, applied, broken>>

\* ... and ends the plan it saw expired.
ExpirePlan(r) ==
  /\ requests[r].step = "expire"
  /\ user' = [user EXCEPT !.plan = "free", !.provider = None, !.status = None]
  /\ byHand' = FALSE
  /\ End(r)
  /\ UNCHANGED <<orders, recorded, razorpay, stripes, bounds, claimed, granted, reopened, applied, broken>>

-----------------------------------------------------------------------------
(* Stripe subscriptions *)

\* checkout: a session is opened only for an account that is not on Pro.
OpenCheckout(s) ==
  /\ stripe[s].status = "none"
  /\ user.plan # "pro"
  /\ stripe' = [stripe EXCEPT ![s].status = "open"]
  /\ UNCHANGED <<account, razorpay, events, bounds, requests, history>>

Event(type, s) ==
  [id |-> Cardinality(events) + 1, type |-> type, sub |-> s,
   status |-> stripe'[s].status, renews |-> stripe'[s].renews]

\* Stripe sends an event of type for what has just become of a subscription.
Send(type, s) ==
  /\ Cardinality(events) < MaxEvents
  /\ events' = events \cup {Event(type, s)}

\* The checkout page is completed.
Subscribe(s) ==
  /\ stripe[s].status = "open"
  /\ stripe' = [stripe EXCEPT ![s] = [status |-> "active", renews |-> now + Period]]
  /\ Send("completed", s)
  /\ UNCHANGED <<account, razorpay, bounds, requests, history>>

\* A renewal, a payment that failed and is retried, or the end.
ChangeSubscription(s, status) ==
  /\ stripe[s].status \in ProStatuses
  /\ stripe' = [stripe EXCEPT ![s].status = status,
                              ![s].renews = IF status = "active" THEN now + Period ELSE @]
  /\ Send("changed", s)
  /\ UNCHANGED <<account, razorpay, bounds, requests, history>>

\* A checkout.session.completed asks Stripe for the subscription; the others carry it.
ReportOf(e) ==
  IF e.type = "completed"
    THEN [id |-> e.id, sub |-> e.sub, status |-> stripe[e.sub].status, renews |-> stripe[e.sub].renews]
    ELSE [id |-> e.id, sub |-> e.sub, status |-> e.status, renews |-> e.renews]

\* An old subscription ending says nothing of an account that is on a newer one.
Superseded(report) ==
  user.sub \notin {None, report.sub} /\ report.status \notin ProStatuses

\* handleWebhook, up to applySubscription's guard: a recorded event is a duplicate.
ReadEvent(r, e) ==
  LET report == ReportOf(e) IN
  /\ Idle(r)
  /\ e.id \notin recorded
  /\ IF Superseded(report)
       THEN /\ Begin(r, [NoRequest EXCEPT !.step = "record", !.report = report])
            /\ applied' = applied \cup {e.id}
       ELSE /\ Begin(r, [NoRequest EXCEPT !.step = "update", !.report = report])
            /\ UNCHANGED applied
  /\ UNCHANGED <<account, razorpay, stripes, bounds, claimed, granted, reopened, broken, byHand>>

\* Mutant: the session is not checked to be complete.
ConfirmAnyway(r, s) ==
  LET report == [id |-> 0, sub |-> s, status |-> stripe[s].status, renews |-> stripe[s].renews] IN
  /\ Idle(r)
  /\ Rarely
  /\ ~Superseded(report)
  /\ Begin(r, [NoRequest EXCEPT !.step = "update", !.report = report])
  /\ UNCHANGED <<account, razorpay, stripes, now, history>>

\* confirm: the user is back from the checkout page, and Stripe is asked.
Confirm(r, s) ==
  LET report == [id |-> 0, sub |-> s, status |-> stripe[s].status, renews |-> stripe[s].renews] IN
  /\ Idle(r)
  /\ Rarely
  /\ stripe[s].status \in SubStatuses
  /\ ~Superseded(report)
  /\ Begin(r, [NoRequest EXCEPT !.step = "update", !.report = report])
  /\ UNCHANGED <<account, razorpay, stripes, now, history>>

\* applySubscription's update; who paid is not written.
UpdateUser(r) ==
  LET report == requests[r].report IN
  /\ requests[r].step = "update"
  /\ user' = [user EXCEPT !.plan = IF report.status \in ProStatuses THEN "pro" ELSE "free",
                          !.sub = report.sub, !.status = report.status, !.renews = report.renews]
  /\ IF report.id = 0
       THEN End(r) /\ UNCHANGED applied
       ELSE Advance(r, "record") /\ applied' = applied \cup {report.id}
  /\ byHand' = FALSE
  /\ UNCHANGED <<orders, recorded, razorpay, stripes, bounds, claimed, granted, reopened, broken>>

\* Mutant: the events seen are remembered as the number of the last one.
RecordUpTo(r) ==
  /\ requests[r].step = "record"
  /\ recorded' = recorded \cup 1..requests[r].report.id
  /\ End(r)
  /\ UNCHANGED <<user, orders, razorpay, stripes, bounds, history>>

\* The event is recorded last, so that a crash before this has it delivered again.
RecordEvent(r) ==
  /\ requests[r].step = "record"
  /\ recorded' = recorded \cup {requests[r].report.id}
  /\ End(r)
  /\ UNCHANGED <<user, orders, razorpay, stripes, bounds, history>>

-----------------------------------------------------------------------------
\* setPlan: an admin gives or takes away Pro, whatever the rest of the row says.
SetPlan(plan) ==
  /\ user.plan # plan
  /\ Rarely
  /\ user' = [user EXCEPT !.plan = plan]
  /\ byHand' = TRUE
  /\ UNCHANGED <<orders, recorded, razorpay, stripes, now, requests, claimed, granted, reopened, applied, broken>>

InFlight(o) == {r \in Requests : requests[r].order = o}

\* A statement fails, and the request with it: no webhook of it is answered, no event recorded.
StatementFails(r) ==
  /\ ~Idle(r)
  /\ Rarely
  /\ End(r)
  /\ broken' = broken \cup ({requests[r].order} \cap Orders)
  /\ UNCHANGED <<account, razorpay, stripes, now, claimed, granted, reopened, applied, byHand>>

\* The backend stops, and every request in flight with it.
Crash ==
  /\ Rarely
  /\ \E r \in Requests : ~Idle(r)
  /\ requests' = [r \in Requests |-> NoRequest]
  /\ broken' = broken \cup {o \in Orders : InFlight(o) # {}}
  /\ UNCHANGED <<account, razorpay, stripes, now, claimed, granted, reopened, applied, byHand>>

Tick ==
  /\ now < MaxTime
  /\ now' = now + 1
  /\ UNCHANGED <<account, razorpay, stripes, rare, requests, history>>

External ==
  \/ Tick
  \/ Crash \/ \E r \in Requests : StatementFails(r)
  \/ \E plan \in {"free", "pro"} : SetPlan(plan)
  \/ \E o \in Orders, amount \in {"short", "full"} : Pay(o, amount)
  \/ \E s \in Subs : Subscribe(s) \/ \E status \in SubStatuses : ChangeSubscription(s, status)

\* What the account's owner asks for.
Ask ==
  \/ \E o \in Orders : (\E days \in Passes : CreateOrder(o, days)) \/ RejectVerification(o)
  \/ \E s \in Subs : OpenCheckout(s)
  \/ \E r \in Requests : \/ ReadSession(r)
                         \/ \E o \in Orders : Verify(r, o)
                         \/ \E s \in Subs : Confirm(r, s)

\* What Razorpay and Stripe deliver until it is answered.
Deliver ==
  \E r \in Requests : \/ \E o \in Orders, hook \in Hooks : Webhook(r, o, hook)
                      \/ \E e \in events : ReadEvent(r, e)

Continue(r) == ReadUser(r) \/ WriteUser(r) \/ ExpirePlan(r) \/ UpdateUser(r) \/ RecordEvent(r)

Next == External \/ Ask \/ Deliver \/ \E r \in Requests : Continue(r)

Spec == Init /\ [][Next]_vars

-----------------------------------------------------------------------------
(* Properties *)

Steps == {"idle", "read", "write", "expire", "update", "record"}

User == [plan : {"free", "pro"}, provider : {None, "razorpay", "stripe"}, renews : Nat,
         sub : Subs \cup {None}, status : SubStatuses \cup {None}]
Order == [status : {"none", "created", "paid", "failed"}, days : Nat]
Subscription == [status : SubStatuses \cup {"none", "open"}, renews : Nat]
StripeEvent == [id : Nat, type : {"completed", "changed"}, sub : Subs,
                status : SubStatuses, renews : Nat]
Request == [step : Steps, order : Orders \cup {None}, hook : Hooks \cup {None},
            renews : Nat, report : Report \cup {None}]

TypeOK ==
  /\ now \in Nat /\ rare \in Nat /\ byHand \in BOOLEAN /\ broken \subseteq Orders
  /\ user \in User
  /\ orders \in [Orders -> Order]
  /\ paid \in [Orders -> {"nothing", "short", "full"}]
  /\ due \in [Orders -> SUBSET Hooks]
  /\ stripe \in [Subs -> Subscription]
  /\ events \subseteq StripeEvent
  /\ recorded \subseteq Nat /\ applied \subseteq Nat
  /\ requests \in [Requests -> Request]
  /\ claimed \in [Orders -> Nat] /\ granted \in [Orders -> Nat] /\ reopened \in [Orders -> Nat]

\* "Settle an order exactly once": however often the browser and the two webhooks confirm a payment, its order is
\* claimed once, and once more only for each time that a refused verification failed it after it was settled.
SettledOnce == \A o \in Orders : claimed[o] <= 1 + reopened[o]

\* A payment smaller than the order never settles it.
ShortPaymentBuysNothing == \A o \in Orders : claimed[o] > 0 => paid[o] = "full"

\* Razorpay stops retrying a payment only when its order was settled: no webhook is answered
\* before the claim, whichever of the two it is and whatever else was in flight.
AnsweredIsSettled == \A o \in Orders : paid[o] = "full" /\ due[o] # Hooks => claimed[o] > 0

\* The days that a claimed order bought reach the user, in every order of its requests, unless a restart or a failed
\* statement came between that order's claim and the user's row; what interrupts one order costs no other its days.
OnlyAFaultLosesAGrant ==
  \A o \in Orders \ broken : claimed[o] = granted[o] + Cardinality(InFlight(o))

\* The end of the plan is never further than the days of the orders that were paid in full, each once, and once more for
\* each time that a refused verification failed it after it was settled (that lets it be claimed again), and a period of
\* Stripe's: in whatever order passes and subscriptions are bought and their requests interleave.
TimeIsPaidFor ==
  user.renews <= now + MapThenSumSet(LAMBDA o : IF paid[o] = "full" THEN (1 + reopened[o]) * orders[o].days ELSE 0, Orders)
                     + (IF \E s \in Subs : stripe[s].renews > 0 THEN Period ELSE 0)

\* Three services write the plan and the status, each having read the row before; they never leave a Pro account with a
\* status that does not pay for it, or a Free account with one that does.  Only an admin's hand does, and only until one
\* of them writes again.
PlanMatchesStatus == byHand \/ (user.plan = "pro" <=> user.status \in ProStatuses)

\* An event Stripe will not deliver again has had its effect, across crashes and duplicates.
RecordedIsApplied == recorded \subseteq applied

\* razorpay.service.ts:158-159: "Razorpay retries it for hours, so a captured payment is granted
\* whether or not anyone is still watching" - once both webhooks of a payment are answered, and
\* nothing is in flight for it, its days have been written to the user.
PaidIsGranted ==
  \A o \in Orders : paid[o] = "full" /\ due[o] = {} /\ InFlight(o) = {} => granted[o] > 0

\* billing.service.ts:22: "a plan is exactly what Stripe says it is" - once every event Stripe sent
\* is recorded, nothing is in flight and no pass was bought, the account is on Pro if and only if
\* one of its subscriptions is paid for.
PlanIsWhatStripeSays ==
  /\ \A e \in events : e.id \in recorded
  /\ \A r \in Requests : Idle(r)
  /\ \A o \in Orders : claimed[o] = 0
  => (user.plan = "pro" <=> \E s \in Subs : stripe[s].status \in ProStatuses)

=============================================================================
