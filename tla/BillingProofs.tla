--------------------------- MODULE BillingProofs ---------------------------
(***************************************************************************)
(* What Billing promises for every number of orders, subscriptions,        *)
(* requests, restarts, failed statements and refused verifications.        *)
(***************************************************************************)
EXTENDS Billing, TLAPS, FiniteSetTheorems, WellFoundedInduction

(***************************************************************************)
(* A request carries what its next step reads, and nothing when idle.      *)
(***************************************************************************)
RequestFits(r) ==
  /\ requests[r].step \in {"read", "write"} <=> requests[r].order \in Orders
  /\ requests[r].step \in {"update", "record"} => requests[r].report \in Report

(***************************************************************************)
(* The inductive type invariant: TypeOK alone does not say that a          *)
(* completed checkout's subscription has begun, nor what a request holds.  *)
(***************************************************************************)
TInv ==
  /\ TypeOK
  /\ IsFiniteSet(events)
  /\ \A e \in events : stripe[e.sub].status \in SubStatuses
  /\ \A r \in Requests : RequestFits(r)

\* What the proofs need of the constants: None is no order, and passes have a length.
LEMMA Constants ==
  /\ None \notin Orders
  /\ \A days \in Passes : days \in Nat
  /\ Period \in Nat
  /\ None \notin SubStatuses \cup Hooks
PROOF BY BillingAssumption

LEMMA NoRequestType == NoRequest \in Request /\ None \notin Orders
PROOF BY Constants DEF NoRequest, Request, Steps

\* The type invariant with the fit of the requests holds initially.
LEMMA TInit == Init => TInv
<1> SUFFICES ASSUME Init PROVE TInv
  OBVIOUS
<1>1. TypeOK
  BY NoRequestType DEF Init, TypeOK, User, Order, Subscription
<1>2. IsFiniteSet(events) /\ \A e \in events : stripe[e.sub].status \in SubStatuses
  BY FS_EmptySet DEF Init
<1>3. ASSUME NEW r \in Requests PROVE RequestFits(r)
  BY NoRequestType, <1>3 DEF Init, RequestFits, NoRequest
<1> QED
  BY <1>1, <1>2, <1>3 DEF TInv

-----------------------------------------------------------------------------
(* Steps of a request *)

\* A request that begins with what fits its step leaves every request fitting.
LEMMA BeginFits ==
  ASSUME TInv, NEW r \in Requests, NEW q \in Request, Begin(r, q),
         q.step \in {"read", "write"} <=> q.order \in Orders,
         q.step \in {"update", "record"} => q.report \in Report
  PROVE  requests' \in [Requests -> Request] /\ \A x \in Requests : RequestFits(x)'
PROOF BY DEF TInv, TypeOK, Begin, RequestFits

LEMMA EndFits ==
  ASSUME TInv, NEW r \in Requests, End(r)
  PROVE  requests' \in [Requests -> Request] /\ \A x \in Requests : RequestFits(x)'
<1>1. NoRequest.step = "idle" /\ NoRequest.order = None
  BY DEF NoRequest
<1> QED
  BY <1>1, NoRequestType, BeginFits DEF End

LEMMA AdvanceFits ==
  ASSUME TInv, NEW r \in Requests, requests[r].step = "update", Advance(r, "record")
  PROVE  requests' \in [Requests -> Request] /\ \A x \in Requests : RequestFits(x)'
<1>1. requests[r] \in Request
  BY DEF TInv, TypeOK
<1>2. [requests[r] EXCEPT !.step = "record"] \in Request
  BY <1>1 DEF Request, Steps
<1>3. requests' = [requests EXCEPT ![r] = [requests[r] EXCEPT !.step = "record"]]
  BY DEF Advance, TInv, TypeOK
<1>4. Begin(r, [requests[r] EXCEPT !.step = "record"])
  BY <1>3 DEF Begin
<1>5. RequestFits(r)
  BY DEF TInv
<1> DEFINE q == [requests[r] EXCEPT !.step = "record"]
<1>6. q.step = "record" /\ q.order = requests[r].order /\ q.report = requests[r].report
  BY <1>1 DEF Request
<1> QED
  BY <1>2, <1>4, <1>5, <1>6, BeginFits DEF RequestFits

LEMMA ClaimTypes ==
  ASSUME TInv, NEW r \in Requests, NEW o \in Orders, NEW hook \in Hooks \cup {None},
         Claim(r, o, hook)
  PROVE  /\ requests' \in [Requests -> Request] /\ \A x \in Requests : RequestFits(x)'
         /\ orders' \in [Orders -> Order]
         /\ claimed' \in [Orders -> Nat]
<1> DEFINE q == [NoRequest EXCEPT !.step = "read", !.order = o, !.hook = hook]
<1>1. q \in Request /\ q.step = "read" /\ q.order = o
  BY DEF NoRequest, Request, Steps
<1>2. requests' \in [Requests -> Request] /\ \A x \in Requests : RequestFits(x)'
  <2>1. Begin(r, q)
    BY DEF Claim
  <2> QED
    BY <1>1, <2>1, BeginFits
<1>3. orders' \in [Orders -> Order] /\ claimed' \in [Orders -> Nat]
  BY DEF Claim, TInv, TypeOK, Order
<1> QED
  BY <1>2, <1>3

-----------------------------------------------------------------------------
(* Type correctness *)

LEMMA UserFields ==
  ASSUME TInv
  PROVE  /\ user.plan \in {"free", "pro"}
         /\ user.renews \in Nat
         /\ user.sub \in Subs \cup {None}
         /\ user.status \in SubStatuses \cup {None}
PROOF BY DEF TInv, TypeOK, User

\* The steps of Razorpay and of the browser.
LEMMA RazorpayTypes ==
  ASSUME TInv,
         \/ \E o \in Orders : \/ \E days \in Passes : CreateOrder(o, days)
                              \/ RejectVerification(o)
                              \/ \E amount \in {"short", "full"} : Pay(o, amount)
         \/ \E r \in Requests, o \in Orders :
              Verify(r, o) \/ \E hook \in Hooks : Webhook(r, o, hook)
  PROVE  TInv'
<1>1. ASSUME NEW o \in Orders, NEW days \in Passes, CreateOrder(o, days) PROVE TInv'
  <2>1. orders' \in [Orders -> Order]
    BY <1>1, Constants DEF CreateOrder, TInv, TypeOK, Order
  <2> QED
    BY <1>1, <2>1 DEF CreateOrder, TInv, TypeOK, RequestFits, razorpay, stripes, bounds, history
<1>2. ASSUME NEW o \in Orders, RejectVerification(o) PROVE TInv'
  <2>1. orders' \in [Orders -> Order] /\ reopened' \in [Orders -> Nat] /\ rare' \in Nat
    BY <1>2 DEF RejectVerification, Rarely, TInv, TypeOK, Order
  <2> QED
    BY <1>2, <2>1 DEF RejectVerification, TInv, TypeOK, RequestFits, razorpay, stripes
<1>3. ASSUME NEW o \in Orders, NEW amount \in {"short", "full"}, Pay(o, amount) PROVE TInv'
  BY <1>3 DEF Pay, TInv, TypeOK, RequestFits, account, stripes, bounds, history
<1>4. ASSUME NEW r \in Requests, NEW o \in Orders, NEW hook \in Hooks \cup {None}, Claim(r, o, hook),
             UNCHANGED <<razorpay, stripes, bounds>>
      PROVE  TInv'
  <2>1. UNCHANGED <<user, recorded, granted, reopened, applied, broken, byHand, paid, due, stripe, events, now, rare>>
    BY <1>4 DEF Claim, razorpay, stripes, bounds
  <2> QED
    BY <1>4, <2>1, ClaimTypes DEF TInv, TypeOK
<1>5. ASSUME NEW r \in Requests, NEW o \in Orders, Verify(r, o) PROVE TInv'
  BY <1>4, <1>5 DEF Verify
<1>6. ASSUME NEW r \in Requests, NEW o \in Orders, NEW hook \in Hooks, Webhook(r, o, hook) PROVE TInv'
  <2>1. CASE Claim(r, o, hook) /\ UNCHANGED <<razorpay, stripes, bounds>>
    BY <1>4, <2>1
  <2>2. CASE Answer(o, hook) /\ UNCHANGED <<account, paid, stripes, bounds, requests, history>>
    <3>1. due' \in [Orders -> SUBSET Hooks]
      BY <2>2 DEF Answer, TInv, TypeOK
    <3> QED
      BY <2>2, <3>1 DEF TInv, TypeOK, RequestFits, account, stripes, bounds, history
  <2> QED
    BY <1>6, <2>1, <2>2 DEF Webhook
<1> QED
  BY <1>1, <1>2, <1>3, <1>5, <1>6

\* The steps of a request that settles an order or ends a plan.
LEMMA PassTypes ==
  ASSUME TInv, NEW r \in Requests,
         ReadUser(r) \/ WriteUser(r) \/ ReadSession(r) \/ ExpirePlan(r)
  PROVE  TInv'
<1> requests[r] \in Request /\ RequestFits(r)
  BY DEF TInv, TypeOK
<1>1. CASE ReadUser(r)
  <2> DEFINE q == requests[r]
             renews == ExtendedBy(orders[q.order].days)
             next == [q EXCEPT !.step = "write", !.renews = renews]
  <2>1. q.order \in Orders /\ q.step = "read"
    BY <1>1 DEF ReadUser, RequestFits
  <2>2. orders[q.order].days \in Nat /\ now \in Nat
    BY <2>1 DEF TInv, TypeOK, Order
  <2>3. renews \in Nat
    BY <2>2, UserFields DEF ExtendedBy
  <2>4. next \in Request /\ next.step = "write" /\ next.order = q.order
    BY <2>3 DEF Request, Steps
  <2>5. Begin(r, next)
    BY <1>1 DEF ReadUser, Begin, TInv, TypeOK
  <2>6. requests' \in [Requests -> Request] /\ \A x \in Requests : RequestFits(x)'
    <3> HIDE DEF next
    <3> QED
      BY <2>1, <2>4, <2>5, BeginFits
  <2> QED
    BY <1>1, <2>6 DEF ReadUser, TInv, TypeOK, account, razorpay, stripes, bounds, history
<1>2. CASE WriteUser(r)
  <2>1. requests' \in [Requests -> Request] /\ \A x \in Requests : RequestFits(x)'
    BY <1>2, EndFits DEF WriteUser
  <2>2. requests[r].order \in Orders
    BY <1>2 DEF WriteUser, RequestFits
  <2>3. due' \in [Orders -> SUBSET Hooks] /\ granted' \in [Orders -> Nat]
    BY <1>2, <2>2 DEF WriteUser, Answer, TInv, TypeOK
  <2>4. user' \in User
    BY <1>2 DEF WriteUser, TInv, TypeOK, User, Request, SubStatuses, ProStatuses
  <2> QED
    BY <1>2, <2>1, <2>3, <2>4 DEF WriteUser, TInv, TypeOK, stripes, bounds
<1>3. CASE ReadSession(r)
  <2> DEFINE q == [NoRequest EXCEPT !.step = "expire"]
  <2>1. q \in Request /\ q.step = "expire" /\ q.order = None
    BY DEF NoRequest, Request, Steps
  <2>2. Begin(r, q)
    BY <1>3 DEF ReadSession
  <2>3. requests' \in [Requests -> Request] /\ \A x \in Requests : RequestFits(x)'
    BY <2>1, <2>2, BeginFits, NoRequestType
  <2> QED
    BY <1>3, <2>3 DEF ReadSession, TInv, TypeOK, account, razorpay, stripes, bounds, history
<1>4. CASE ExpirePlan(r)
  <2>1. requests' \in [Requests -> Request] /\ \A x \in Requests : RequestFits(x)'
    BY <1>4, EndFits DEF ExpirePlan
  <2>2. user' \in User
    BY <1>4 DEF ExpirePlan, TInv, TypeOK, User
  <2> QED
    BY <1>4, <2>1, <2>2 DEF ExpirePlan, TInv, TypeOK, razorpay, stripes, bounds
<1> QED
  BY <1>1, <1>2, <1>3, <1>4

\* What becomes of a subscription, and the event Stripe sends of it.
LEMMA SendTypes ==
  ASSUME TInv, NEW s \in Subs, NEW type \in {"completed", "changed"}, Send(type, s),
         stripe' \in [Subs -> Subscription], stripe'[s].status \in SubStatuses,
         \A x \in Subs \ {s} : stripe'[x] = stripe[x]
  PROVE  /\ events' \subseteq StripeEvent
         /\ IsFiniteSet(events')
         /\ \A e \in events' : stripe'[e.sub].status \in SubStatuses
<1>1. Cardinality(events) + 1 \in Nat
  BY FS_CardinalityType DEF TInv
<1>2. stripe'[s].renews \in Nat
  BY DEF Subscription
<1>3. Event(type, s) \in StripeEvent /\ Event(type, s).sub = s
  BY <1>1, <1>2 DEF Event, StripeEvent
<1>4. \A e \in events : e.sub \in Subs
  BY DEF TInv, TypeOK, StripeEvent
<1>5. events' = events \cup {Event(type, s)}
  BY DEF Send
<1>6. IsFiniteSet(events')
  BY <1>5, FS_AddElement DEF TInv
<1> HIDE DEF Event
<1> QED
  BY <1>3, <1>4, <1>5, <1>6 DEF TInv, TypeOK

LEMMA SubscriptionTypes ==
  ASSUME TInv, NEW s \in Subs,
         OpenCheckout(s) \/ Subscribe(s) \/ \E status \in SubStatuses : ChangeSubscription(s, status)
  PROVE  TInv'
<1> now + Period \in Nat /\ stripe[s] \in Subscription
  BY Constants DEF TInv, TypeOK
<1>1. CASE OpenCheckout(s)
  <2>1. stripe' \in [Subs -> Subscription]
    BY <1>1 DEF OpenCheckout, TInv, TypeOK, Subscription
  <2>2. \A e \in events : e.sub \in Subs /\ e.sub # s
    BY <1>1 DEF OpenCheckout, TInv, TypeOK, StripeEvent, SubStatuses, ProStatuses
  <2>3. \A e \in events : stripe'[e.sub].status \in SubStatuses
    BY <1>1, <2>2 DEF OpenCheckout, TInv, TypeOK
  <2> QED
    BY <1>1, <2>1, <2>3 DEF OpenCheckout, TInv, TypeOK, RequestFits, account, razorpay, bounds, history
<1>2. ASSUME stripe' \in [Subs -> Subscription], stripe'[s].status \in SubStatuses,
             \A x \in Subs \ {s} : stripe'[x] = stripe[x],
             Send("completed", s) \/ Send("changed", s),
             UNCHANGED <<account, razorpay, bounds, requests, history>>
      PROVE  TInv'
  <2>1. /\ events' \subseteq StripeEvent
        /\ IsFiniteSet(events')
        /\ \A e \in events' : stripe'[e.sub].status \in SubStatuses
    BY <1>2, SendTypes
  <2> QED
    BY <1>2, <2>1 DEF TInv, TypeOK, RequestFits, account, razorpay, bounds, history
<1>3. CASE Subscribe(s)
  <2>1. stripe' \in [Subs -> Subscription] /\ stripe'[s].status \in SubStatuses
    BY <1>3 DEF Subscribe, TInv, TypeOK, Subscription, SubStatuses, ProStatuses
  <2>2. \A x \in Subs \ {s} : stripe'[x] = stripe[x]
    BY <1>3 DEF Subscribe, TInv, TypeOK
  <2> QED
    BY <1>2, <1>3, <2>1, <2>2 DEF Subscribe
<1>4. ASSUME NEW status \in SubStatuses, ChangeSubscription(s, status) PROVE TInv'
  <2> DEFINE new == [stripe[s] EXCEPT !.status = status,
                                      !.renews = IF status = "active" THEN now + Period ELSE @]
  <2>1. new \in Subscription /\ new.status = status
    BY DEF Subscription
  <2>2. stripe' = [stripe EXCEPT ![s] = new]
    BY <1>4 DEF ChangeSubscription, TInv, TypeOK
  <2> HIDE DEF new
  <2>3. /\ stripe' \in [Subs -> Subscription] /\ stripe'[s].status \in SubStatuses
        /\ \A x \in Subs \ {s} : stripe'[x] = stripe[x]
    BY <2>1, <2>2 DEF TInv, TypeOK
  <2> QED
    BY <1>2, <1>4, <2>3 DEF ChangeSubscription
<1> QED
  BY <1>1, <1>3, <1>4

\* The steps of a request that reads what Stripe says.
LEMMA StripeTypes ==
  ASSUME TInv, NEW r \in Requests,
         \/ \E e \in events : ReadEvent(r, e)
         \/ \E s \in Subs : Confirm(r, s)
         \/ UpdateUser(r)
         \/ RecordEvent(r)
  PROVE  TInv'
<1>1. ASSUME NEW report \in Report, NEW step \in {"update", "record"},
             Begin(r, [NoRequest EXCEPT !.step = step, !.report = report])
      PROVE  requests' \in [Requests -> Request] /\ \A x \in Requests : RequestFits(x)'
  <2> DEFINE q == [NoRequest EXCEPT !.step = step, !.report = report]
  <2>1. q \in Request /\ q.step = step /\ q.order = None /\ q.report = report
    BY DEF NoRequest, Request, Steps
  <2>2. Begin(r, q)
    BY <1>1
  <2> HIDE DEF q
  <2> QED
    BY <2>1, <2>2, BeginFits, NoRequestType
<1>2. ASSUME NEW e \in events, ReadEvent(r, e) PROVE TInv'
  <2>1. e \in StripeEvent /\ stripe[e.sub].status \in SubStatuses /\ stripe[e.sub].renews \in Nat
    BY DEF TInv, TypeOK, StripeEvent, Subscription
  <2>2. ReportOf(e) \in Report /\ e.id \in Nat
    BY <2>1 DEF ReportOf, Report, StripeEvent
  <2>3. requests' \in [Requests -> Request] /\ \A x \in Requests : RequestFits(x)'
    BY <1>1, <1>2, <2>2 DEF ReadEvent
  <2>4. applied' \subseteq Nat
    BY <1>2, <2>2 DEF ReadEvent, TInv, TypeOK
  <2> QED
    BY <1>2, <2>3, <2>4 DEF ReadEvent, TInv, TypeOK, account, razorpay, stripes, bounds
<1>3. ASSUME NEW s \in Subs, Confirm(r, s) PROVE TInv'
  <2> DEFINE report == [id |-> 0, sub |-> s, status |-> stripe[s].status, renews |-> stripe[s].renews]
  <2>1. report \in Report
    BY <1>3 DEF Confirm, Report, TInv, TypeOK, Subscription
  <2>2. Begin(r, [NoRequest EXCEPT !.step = "update", !.report = report])
    BY <1>3 DEF Confirm
  <2>3. requests' \in [Requests -> Request] /\ \A x \in Requests : RequestFits(x)'
    <3> HIDE DEF report
    <3> QED
      BY <1>1, <2>1, <2>2
  <2>4. rare' \in Nat
    <3>1. Rarely
      BY <1>3 DEF Confirm
    <3> QED
      BY <3>1 DEF Rarely, TInv, TypeOK
  <2>5. UNCHANGED <<account, razorpay, stripes, now, history>>
    BY <1>3 DEF Confirm
  <2> QED
    BY <2>3, <2>4, <2>5 DEF TInv, TypeOK, account, razorpay, stripes, history
<1>4. CASE UpdateUser(r)
  <2> DEFINE report == requests[r].report
  <2>1. report \in Report
    BY <1>4 DEF UpdateUser, TInv, RequestFits
  <2>2. user' \in User
    BY <1>4, <2>1 DEF UpdateUser, TInv, TypeOK, User, Report
  <2>3. requests' \in [Requests -> Request] /\ \A x \in Requests : RequestFits(x)'
    BY <1>4, EndFits, AdvanceFits DEF UpdateUser
  <2>4. applied' \subseteq Nat
    BY <1>4, <2>1 DEF UpdateUser, TInv, TypeOK, Report
  <2> QED
    BY <1>4, <2>2, <2>3, <2>4 DEF UpdateUser, TInv, TypeOK, razorpay, stripes, bounds
<1>5. CASE RecordEvent(r)
  <2>1. requests[r].report.id \in Nat
    BY <1>5 DEF RecordEvent, TInv, RequestFits, Report
  <2>2. requests' \in [Requests -> Request] /\ \A x \in Requests : RequestFits(x)'
    BY <1>5, EndFits DEF RecordEvent
  <2> QED
    BY <1>5, <2>1, <2>2 DEF RecordEvent, TInv, TypeOK, razorpay, stripes, bounds, history
<1> QED
  BY <1>2, <1>3, <1>4, <1>5

\* An admin's hand, and what a failure does to the requests in flight.
LEMMA HandTypes ==
  ASSUME TInv,
         (\E plan \in {"free", "pro"} : SetPlan(plan)) \/ (\E r \in Requests : StatementFails(r))
  PROVE  TInv'
<1>1. ASSUME NEW plan \in {"free", "pro"}, SetPlan(plan) PROVE TInv'
  <2>1. user' \in User /\ byHand' = TRUE
    BY <1>1 DEF SetPlan, TInv, TypeOK, User
  <2>2. rare' \in Nat
    BY <1>1 DEF SetPlan, Rarely, TInv, TypeOK
  <2> QED
    BY <1>1, <2>1, <2>2 DEF SetPlan, TInv, TypeOK, RequestFits, razorpay, stripes
<1>2. ASSUME NEW r \in Requests, StatementFails(r) PROVE TInv'
  <2>1. requests' \in [Requests -> Request] /\ \A x \in Requests : RequestFits(x)'
    BY <1>2, EndFits DEF StatementFails
  <2>2. rare' \in Nat /\ broken' \subseteq Orders
    BY <1>2 DEF StatementFails, Rarely, TInv, TypeOK
  <2> QED
    BY <1>2, <2>1, <2>2 DEF StatementFails, TInv, TypeOK, account, razorpay, stripes
<1> QED
  BY <1>1, <1>2

LEMMA ClockTypes ==
  ASSUME TInv, Tick \/ Crash \/ UNCHANGED vars
  PROVE  TInv'
<1>1. CASE Tick
  BY <1>1 DEF Tick, TInv, TypeOK, RequestFits, account, razorpay, stripes, history
<1>2. CASE Crash
  <2>1. NoRequest.step = "idle" /\ NoRequest.order = None
    BY DEF NoRequest
  <2>2. requests' \in [Requests -> Request] /\ \A x \in Requests : RequestFits(x)'
    BY <1>2, <2>1, NoRequestType DEF Crash, RequestFits
  <2> QED
    BY <1>2, <2>2 DEF Crash, Rarely, TInv, TypeOK, account, razorpay, stripes
<1>3. CASE UNCHANGED vars
  BY <1>3 DEF vars, TInv, TypeOK, RequestFits, account, razorpay, stripes, bounds, history
<1> QED
  BY <1>1, <1>2, <1>3

LEMMA TStep == TInv /\ [Next]_vars => TInv'
<1> SUFFICES ASSUME TInv, [Next]_vars PROVE TInv'
  OBVIOUS
<1>1. CASE External
  BY <1>1, ClockTypes, HandTypes, RazorpayTypes, SubscriptionTypes DEF External
<1>2. CASE Ask
  BY <1>2, RazorpayTypes, SubscriptionTypes, PassTypes, StripeTypes DEF Ask
<1>3. CASE Deliver
  BY <1>3, RazorpayTypes, StripeTypes DEF Deliver
<1>4. ASSUME NEW r \in Requests, Continue(r) PROVE TInv'
  BY <1>4, PassTypes, StripeTypes DEF Continue
<1> QED
  BY <1>1, <1>2, <1>3, <1>4, ClockTypes DEF Next

\* Every variable keeps its type, and a request holds what its next step reads.
THEOREM BillingTypes == Spec => []TInv
<1> QED
  BY TInit, TStep, PTL DEF Spec

\* TypeOK, for every value of the constants.
THEOREM BillingTypeCorrect == Spec => []TypeOK
<1>1. TInv => TypeOK
  BY DEF TInv
<1> QED
  BY <1>1, BillingTypes, PTL

-----------------------------------------------------------------------------
(***************************************************************************)
(* The ledger of payments.  None of the three properties is inductive:     *)
(* that a claim is the first one rests on an order being claimable only as *)
(* often as it was reopened, and that an answered payment was claimed      *)
(* rests on a request in flight having claimed its order.                  *)
(***************************************************************************)
Ledger(o) ==
  /\ orders[o].status = "none" => paid[o] = "nothing"
  /\ orders[o].status = "paid" => claimed[o] > 0
  /\ Claimable(o) => claimed[o] <= reopened[o]
  /\ claimed[o] <= 1 + reopened[o]
  /\ claimed[o] > 0 => paid[o] = "full"
  /\ paid[o] = "full" /\ due[o] # Hooks => claimed[o] > 0

HasClaimed(r) == requests[r].order \in Orders => claimed[requests[r].order] > 0

LInv ==
  /\ TInv
  /\ \A o \in Orders : Ledger(o)
  /\ \A r \in Requests : HasClaimed(r)

LEMMA LInit == Init => LInv
<1> SUFFICES ASSUME Init PROVE LInv
  OBVIOUS
<1>1. TInv
  BY TInit
<1>2. ASSUME NEW o \in Orders PROVE Ledger(o)
  BY <1>2 DEF Init, Ledger, Claimable
<1>3. ASSUME NEW r \in Requests PROVE HasClaimed(r)
  BY <1>3, NoRequestType DEF Init, HasClaimed, NoRequest
<1> QED
  BY <1>1, <1>2, <1>3 DEF LInv

\* Numbers of the ledger, for the solver.
LEMMA LedgerTypes ==
  ASSUME TInv, NEW o \in Orders
  PROVE  /\ claimed[o] \in Nat /\ reopened[o] \in Nat
         /\ orders[o].status \in {"none", "created", "paid", "failed"}
         /\ paid[o] \in {"nothing", "short", "full"}
         /\ due[o] \subseteq Hooks
PROOF BY DEF TInv, TypeOK, Order

\* A step that leaves the ledger alone, and gives no request a new order.
LEMMA LedgerUnchanged ==
  ASSUME LInv, TInv', UNCHANGED <<orders, paid, due, claimed, reopened>>,
         \A r \in Requests : requests'[r].order \in {requests[r].order, None}
  PROVE  LInv'
<1>1. ASSUME NEW o \in Orders PROVE Ledger(o)'
  BY <1>1 DEF LInv, Ledger, Claimable
<1>2. ASSUME NEW r \in Requests PROVE HasClaimed(r)'
  BY <1>2, NoRequestType DEF LInv, HasClaimed
<1> QED
  BY <1>1, <1>2 DEF LInv

LEMMA OrderSteps ==
  ASSUME LInv, TInv', NEW o \in Orders,
         \/ \E days \in Passes : CreateOrder(o, days)
         \/ RejectVerification(o)
         \/ \E amount \in {"short", "full"} : Pay(o, amount)
  PROVE  LInv'
<1> USE DEF LInv
<1>0. claimed' = claimed /\ requests' = requests
  BY DEF CreateOrder, RejectVerification, Pay, history
<1>1. ASSUME NEW x \in Orders, x # o PROVE Ledger(x)'
  <2>1. /\ orders'[x] = orders[x] /\ paid'[x] = paid[x] /\ due'[x] = due[x]
        /\ claimed'[x] = claimed[x] /\ reopened'[x] = reopened[x]
    BY <1>1 DEF CreateOrder, RejectVerification, Pay, TInv, TypeOK, account, razorpay, history
  <2>2. Ledger(x)
    OBVIOUS
  <2> QED
    BY <2>1, <2>2 DEF Ledger, Claimable
<1>2. Ledger(o)'
  <2> Ledger(o)
    OBVIOUS
  <2>1. ASSUME NEW days \in Passes, CreateOrder(o, days) PROVE Ledger(o)'
    <3>1. /\ orders'[o].status = "created" /\ orders[o].status = "none"
          /\ UNCHANGED <<paid, due, claimed, reopened>>
      BY <2>1 DEF CreateOrder, razorpay, history, TInv, TypeOK
    <3> QED
      BY <3>1, LedgerTypes DEF Ledger, Claimable
  <2>2. CASE RejectVerification(o)
    <3>1. /\ orders'[o].status = "failed" /\ orders[o].status # "none"
          /\ reopened'[o] = IF orders[o].status = "paid" THEN reopened[o] + 1 ELSE reopened[o]
          /\ UNCHANGED <<paid, due, claimed>>
      BY <2>2 DEF RejectVerification, razorpay, TInv, TypeOK, Order
    <3>2. CASE orders[o].status = "paid"
      BY <3>1, <3>2, LedgerTypes DEF Ledger, Claimable
    <3>3. CASE Claimable(o)
      BY <3>1, <3>3, LedgerTypes DEF Ledger, Claimable
    <3> QED
      BY <3>1, <3>2, <3>3, LedgerTypes DEF Claimable
  <2>3. ASSUME NEW amount \in {"short", "full"}, Pay(o, amount) PROVE Ledger(o)'
    <3>1. /\ paid[o] = "nothing" /\ paid'[o] = amount /\ due'[o] = Hooks
          /\ orders[o].status # "none"
          /\ UNCHANGED <<orders, claimed, reopened>>
      BY <2>3 DEF Pay, account, history, TInv, TypeOK
    <3> QED
      BY <3>1, LedgerTypes DEF Ledger, Claimable
  <2> QED
    BY <2>1, <2>2, <2>3
<1>3. ASSUME NEW r \in Requests PROVE HasClaimed(r)'
  BY <1>0, <1>3 DEF HasClaimed
<1> QED
  BY <1>1, <1>2, <1>3

LEMMA ClaimStep ==
  ASSUME LInv, TInv', NEW r \in Requests, NEW o \in Orders, NEW hook \in Hooks \cup {None},
         Claim(r, o, hook), paid[o] = "full", UNCHANGED <<paid, due>>
  PROVE  LInv'
<1> USE DEF LInv
<1>0. claimed' = [claimed EXCEPT ![o] = claimed[o] + 1] /\ claimed'[o] = claimed[o] + 1
  BY DEF Claim, TInv, TypeOK
<1>1. ASSUME NEW x \in Orders, x # o PROVE Ledger(x)'
  <2>1. /\ orders'[x] = orders[x] /\ claimed'[x] = claimed[x] /\ reopened' = reopened
    BY <1>1 DEF Claim, TInv, TypeOK
  <2>2. Ledger(x)
    OBVIOUS
  <2> QED
    BY <2>1, <2>2 DEF Ledger, Claimable
<1>2. Ledger(o)'
  <2>1. orders'[o].status = "paid" /\ reopened' = reopened /\ Claimable(o)
    BY DEF Claim, TInv, TypeOK, Order
  <2>2. Ledger(o)
    OBVIOUS
  <2> QED
    BY <1>0, <2>1, <2>2, LedgerTypes DEF Ledger, Claimable
<1>3. ASSUME NEW x \in Requests PROVE HasClaimed(x)'
  <2>1. HasClaimed(x)
    BY <1>3
  <2>2. CASE x = r
    <3>1. requests'[r].order = o
      BY DEF Claim, Begin, NoRequest, TInv, TypeOK
    <3> QED
      BY <1>0, <2>2, <3>1, LedgerTypes DEF HasClaimed
  <2>3. CASE x # r
    <3>1. requests'[x] = requests[x]
      BY <2>3 DEF Claim, Begin, TInv, TypeOK
    <3>2. \A y \in Orders : claimed'[y] >= claimed[y]
      BY <1>0, LedgerTypes DEF TInv, TypeOK
    <3> QED
      BY <2>1, <3>1, <3>2, LedgerTypes DEF HasClaimed, TInv, TypeOK
  <2> QED
    BY <2>2, <2>3
<1> QED
  BY <1>1, <1>2, <1>3

\* An answer is safe for an order that was claimed, and for one that was not paid in full.
LEMMA AnswerStep ==
  ASSUME LInv, TInv', NEW o \in Orders, NEW hook, Answer(o, hook),
         UNCHANGED <<orders, paid, claimed, reopened>>,
         claimed[o] > 0 \/ paid[o] # "full",
         \A r \in Requests : requests'[r].order \in {requests[r].order, None}
  PROVE  LInv'
<1>1. ASSUME NEW x \in Orders PROVE Ledger(x)'
  <2>1. x # o => due'[x] = due[x]
    BY DEF Answer, LInv, TInv, TypeOK
  <2> QED
    BY <1>1, <2>1 DEF LInv, Ledger, Claimable
<1>2. ASSUME NEW r \in Requests PROVE HasClaimed(r)'
  BY <1>2, NoRequestType DEF LInv, HasClaimed
<1> QED
  BY <1>1, <1>2 DEF LInv

LEMMA LStep == LInv /\ [Next]_vars => LInv'
<1> SUFFICES ASSUME LInv, [Next]_vars PROVE LInv'
  OBVIOUS
<1>0. TInv /\ TInv'
  BY TStep DEF LInv
<1>1. ASSUME NEW o \in Orders,
             \/ \E days \in Passes : CreateOrder(o, days)
             \/ RejectVerification(o)
             \/ \E amount \in {"short", "full"} : Pay(o, amount)
      PROVE  LInv'
  BY <1>0, <1>1, OrderSteps
<1>2. ASSUME NEW r \in Requests, NEW o \in Orders, Verify(r, o) PROVE LInv'
  BY <1>0, <1>2, ClaimStep DEF Verify, razorpay
<1>3. ASSUME NEW r \in Requests, NEW o \in Orders, NEW hook \in Hooks, Webhook(r, o, hook) PROVE LInv'
  <2>1. CASE paid[o] = "full" /\ Claim(r, o, hook) /\ UNCHANGED <<razorpay, stripes, bounds>>
    BY <1>0, <2>1, ClaimStep DEF razorpay
  <2>2. CASE /\ paid[o] # "full" \/ ~Claimable(o)
             /\ Answer(o, hook)
             /\ UNCHANGED <<account, paid, stripes, bounds, requests, history>>
    <3>1. claimed[o] > 0 \/ paid[o] # "full"
      BY <1>0, <2>2, LedgerTypes DEF LInv, Ledger, Claimable
    <3> QED
      BY <1>0, <2>2, <3>1, AnswerStep DEF account, history
  <2> QED
    BY <1>3, <2>1, <2>2 DEF Webhook
<1>4. ASSUME NEW r \in Requests, WriteUser(r) PROVE LInv'
  <2>1. requests[r].order \in Orders
    BY <1>0, <1>4 DEF WriteUser, TInv, RequestFits
  <2>2. claimed[requests[r].order] > 0
    BY <2>1 DEF LInv, HasClaimed
  <2>3. \A x \in Requests : requests'[x].order \in {requests[x].order, None}
    BY <1>0, <1>4 DEF WriteUser, End, Begin, NoRequest, TInv, TypeOK
  <2> QED
    BY <1>0, <1>4, <2>1, <2>2, <2>3, AnswerStep DEF WriteUser
<1>5. ASSUME UNCHANGED <<orders, paid, due, claimed, reopened>>,
             \/ requests' = requests
             \/ requests' = [r \in Requests |-> NoRequest]
             \/ \E r \in Requests : \/ End(r) \/ Advance(r, "record") \/ ReadUser(r)
                                     \/ Begin(r, [NoRequest EXCEPT !.step = "expire"])
                                     \/ \E report \in Report, step \in {"update", "record"} :
                                          Begin(r, [NoRequest EXCEPT !.step = step, !.report = report])
      PROVE  LInv'
  <2>1. \A r \in Requests : requests'[r].order \in {requests[r].order, None}
    <3>1. CASE requests' = requests
      BY <3>1
    <3>2. CASE requests' = [r \in Requests |-> NoRequest]
      BY <3>2 DEF NoRequest
    <3>3. ASSUME NEW r \in Requests, End(r) \/ Begin(r, [NoRequest EXCEPT !.step = "expire"])
          PROVE  \A x \in Requests : requests'[x].order \in {requests[x].order, None}
      BY <1>0, <3>3 DEF End, Begin, NoRequest, TInv, TypeOK
    <3>4. ASSUME NEW r \in Requests, Advance(r, "record") \/ ReadUser(r)
          PROVE  \A x \in Requests : requests'[x].order \in {requests[x].order, None}
      <4>1. requests \in [Requests -> Request]
        BY <1>0 DEF TInv, TypeOK
      <4>2. PICK q : /\ requests' = [requests EXCEPT ![r] = q]
                     /\ q.order = requests[r].order
        <5>1. "order" \in DOMAIN requests[r]
          BY <4>1 DEF Request
        <5>2. CASE Advance(r, "record")
          <6>1. requests' = [requests EXCEPT ![r] = [requests[r] EXCEPT !.step = "record"]]
            BY <5>2 DEF Advance
          <6>2. [requests[r] EXCEPT !.step = "record"].order = requests[r].order
            BY <5>1
          <6> QED
            BY <6>1, <6>2
        <5>3. CASE ReadUser(r)
          <6> DEFINE renews == ExtendedBy(orders[requests[r].order].days)
          <6>1. requests' = [requests EXCEPT ![r] = [requests[r] EXCEPT !.step = "write", !.renews = renews]]
            BY <5>3, <4>1 DEF ReadUser
          <6> HIDE DEF renews
          <6>2. [requests[r] EXCEPT !.step = "write", !.renews = renews].order = requests[r].order
            BY <5>1
          <6> QED
            BY <6>1, <6>2
        <5> QED
          BY <3>4, <5>2, <5>3
      <4> QED
        BY <4>1, <4>2
    <3>5. ASSUME NEW r \in Requests, NEW report \in Report, NEW step \in {"update", "record"},
                 Begin(r, [NoRequest EXCEPT !.step = step, !.report = report])
          PROVE  \A x \in Requests : requests'[x].order \in {requests[x].order, None}
      BY <1>0, <3>5 DEF Begin, NoRequest, TInv, TypeOK
    <3> QED
      BY <1>5, <3>1, <3>2, <3>3, <3>4, <3>5
  <2> QED
    BY <1>0, <1>5, <2>1, LedgerUnchanged
<1>6. ASSUME NEW r \in Requests,
             \/ ReadUser(r) \/ ReadSession(r) \/ ExpirePlan(r) \/ UpdateUser(r) \/ RecordEvent(r)
             \/ StatementFails(r)
      PROVE  LInv'
  <2>1. UNCHANGED <<orders, paid, due, claimed, reopened>>
    BY <1>6 DEF ReadUser, ReadSession, ExpirePlan, UpdateUser, RecordEvent, StatementFails, account, razorpay, history
  <2>2. \/ End(r) \/ Advance(r, "record") \/ ReadUser(r)
        \/ Begin(r, [NoRequest EXCEPT !.step = "expire"])
    BY <1>6 DEF ReadSession, ExpirePlan, UpdateUser, RecordEvent, StatementFails
  <2> QED
    BY <1>5, <2>1, <2>2
<1>7. ASSUME NEW r \in Requests, NEW e \in events, ReadEvent(r, e) PROVE LInv'
  <2>1. ReportOf(e) \in Report
    BY <1>0 DEF ReportOf, Report, TInv, TypeOK, StripeEvent, Subscription
  <2>2. UNCHANGED <<orders, paid, due, claimed, reopened>>
    BY <1>7 DEF ReadEvent, account, razorpay
  <2>3. \E step \in {"update", "record"} :
          Begin(r, [NoRequest EXCEPT !.step = step, !.report = ReportOf(e)])
    BY <1>7 DEF ReadEvent
  <2> QED
    BY <1>5, <2>1, <2>2, <2>3
<1>8. ASSUME NEW r \in Requests, NEW s \in Subs, Confirm(r, s) PROVE LInv'
  <2> DEFINE report == [id |-> 0, sub |-> s, status |-> stripe[s].status, renews |-> stripe[s].renews]
  <2>1. report \in Report
    BY <1>0, <1>8 DEF Confirm, Report, TInv, TypeOK, Subscription
  <2>2. UNCHANGED <<orders, paid, due, claimed, reopened>>
    BY <1>8 DEF Confirm, account, razorpay, history
  <2>3. Begin(r, [NoRequest EXCEPT !.step = "update", !.report = report])
    BY <1>8 DEF Confirm
  <2> HIDE DEF report
  <2> QED
    BY <1>5, <2>1, <2>2, <2>3
<1>9. ASSUME \/ Tick \/ Crash \/ UNCHANGED vars
             \/ \E plan \in {"free", "pro"} : SetPlan(plan)
             \/ \E s \in Subs : \/ OpenCheckout(s) \/ Subscribe(s)
                                 \/ \E status \in SubStatuses : ChangeSubscription(s, status)
      PROVE  LInv'
  <2>1. UNCHANGED <<orders, paid, due, claimed, reopened>>
    BY <1>9 DEF Tick, Crash, SetPlan, OpenCheckout, Subscribe, ChangeSubscription, vars, account, razorpay, history
  <2>2. requests' = requests \/ requests' = [r \in Requests |-> NoRequest]
    BY <1>9 DEF Tick, Crash, SetPlan, OpenCheckout, Subscribe, ChangeSubscription, vars
  <2> QED
    BY <1>5, <2>1, <2>2
<1> QED
  BY <1>1, <1>2, <1>3, <1>4, <1>6, <1>7, <1>8, <1>9 DEF Next, External, Ask, Deliver, Continue

\* The strengthened ledger holds throughout.
THEOREM LedgerHolds == Spec => []LInv
<1> QED
  BY LInit, LStep, PTL DEF Spec

\* An order is claimed once, and once more only for each time that a refused verification failed it after it was settled.
THEOREM SettlesOnce == Spec => []SettledOnce
<1>1. LInv => SettledOnce
  BY DEF LInv, Ledger, SettledOnce
<1> QED
  BY <1>1, LedgerHolds, PTL

\* A payment smaller than the order never settles it.
THEOREM ShortIsRefused == Spec => []ShortPaymentBuysNothing
<1>1. LInv => ShortPaymentBuysNothing
  BY DEF LInv, Ledger, ShortPaymentBuysNothing
<1> QED
  BY <1>1, LedgerHolds, PTL

\* Razorpay is never told that a payment was taken in before its order was settled.
THEOREM AnswersAreTrue == Spec => []AnsweredIsSettled
<1>1. LInv => AnsweredIsSettled
  BY DEF LInv, Ledger, AnsweredIsSettled
<1> QED
  BY <1>1, LedgerHolds, PTL

-----------------------------------------------------------------------------
(* The user row *)

\* The steps that write the user row.
Writes(r) == WriteUser(r) \/ ExpirePlan(r) \/ UpdateUser(r)

LEMMA OthersLeaveUser ==
  ASSUME [Next]_vars, \A r \in Requests : ~Writes(r), \A plan \in {"free", "pro"} : ~SetPlan(plan)
  PROVE  user' = user /\ byHand' = byHand
<1>1. CASE External
  BY <1>1 DEF External, Tick, Crash, StatementFails, Pay, Subscribe, ChangeSubscription, account, history
<1>2. CASE Ask
  BY <1>2 DEF Ask, CreateOrder, RejectVerification, OpenCheckout, ReadSession, Verify, Claim, Confirm, account, history
<1>3. CASE Deliver
  BY <1>3 DEF Deliver, Webhook, Claim, ReadEvent, account, history
<1>4. CASE \E r \in Requests : Continue(r)
  BY <1>4 DEF Continue, Writes, ReadUser, RecordEvent, account, history
<1>5. CASE UNCHANGED vars
  BY <1>5 DEF vars, account, history
<1> QED
  BY <1>1, <1>2, <1>3, <1>4, <1>5 DEF Next

LEMMA PlanStep ==
  ASSUME TInv, PlanMatchesStatus, [Next]_vars
  PROVE  PlanMatchesStatus'
<1>1. ASSUME NEW r \in Requests, WriteUser(r) PROVE PlanMatchesStatus'
  <2>1. user'.plan = "pro" /\ user'.status = "active"
    BY <1>1 DEF WriteUser, TInv, TypeOK, User
  <2> QED
    BY <2>1 DEF PlanMatchesStatus, ProStatuses
<1>2. ASSUME NEW r \in Requests, ExpirePlan(r) PROVE PlanMatchesStatus'
  <2>1. user'.plan = "free" /\ user'.status = None
    BY <1>2 DEF ExpirePlan, TInv, TypeOK, User
  <2> QED
    BY <2>1, Constants DEF PlanMatchesStatus, SubStatuses
<1>3. ASSUME NEW r \in Requests, UpdateUser(r) PROVE PlanMatchesStatus'
  <2>1. /\ user'.plan = (IF requests[r].report.status \in ProStatuses THEN "pro" ELSE "free")
        /\ user'.status = requests[r].report.status
    BY <1>3 DEF UpdateUser, TInv, TypeOK, User
  <2> QED
    BY <2>1 DEF PlanMatchesStatus
<1>4. CASE user' = user /\ byHand' = byHand
  BY <1>4 DEF PlanMatchesStatus
<1>5. ASSUME NEW plan \in {"free", "pro"}, SetPlan(plan) PROVE PlanMatchesStatus'
  BY <1>5 DEF SetPlan, PlanMatchesStatus
<1> QED
  BY <1>1, <1>2, <1>3, <1>4, <1>5, OthersLeaveUser DEF Writes

\* However the three services and the admins interleave, an account is on Pro if and only if its status pays for it,
\* or the plan was set by an admin's hand, and by none of the services since.
THEOREM PlanFollowsStatus == Spec => []PlanMatchesStatus
<1>1. Init => PlanMatchesStatus
  BY Constants DEF Init, PlanMatchesStatus, SubStatuses
<1> QED
  BY <1>1, PlanStep, BillingTypes, PTL DEF Spec

-----------------------------------------------------------------------------
(* Stripe's events *)

(***************************************************************************)
(* An event about to be recorded has had its effect, and so has every      *)
(* recorded one; what was applied stays applied.                           *)
(***************************************************************************)
EInv ==
  /\ RecordedIsApplied
  /\ \A r \in Requests : requests[r].step = "record" => requests[r].report.id \in applied

LEMMA EStep ==
  ASSUME TInv, EInv, [Next]_vars
  PROVE  EInv'
<1> USE DEF EInv, RecordedIsApplied
<1>1. ASSUME NEW r \in Requests, RecordEvent(r) PROVE EInv'
  <2>1. recorded' = recorded \cup {requests[r].report.id} /\ applied' = applied
    BY <1>1 DEF RecordEvent, history
  <2>2. \A x \in Requests : requests'[x].step = "record" => requests'[x] = requests[x]
    BY <1>1 DEF RecordEvent, End, Begin, NoRequest, TInv, TypeOK
  <2>3. requests[r].report.id \in applied
    BY <1>1 DEF RecordEvent
  <2> QED
    BY <2>1, <2>2, <2>3
<1>2. ASSUME recorded' = recorded, applied \subseteq applied',
             \A x \in Requests : requests'[x].step = "record" =>
               requests'[x] = requests[x] \/ requests'[x].report.id \in applied'
      PROVE  EInv'
  BY <1>2
<1>3. ASSUME NEW r \in Requests, NEW e \in events, ReadEvent(r, e) PROVE EInv'
  <2>1. recorded' = recorded /\ applied \subseteq applied'
    BY <1>3 DEF ReadEvent, account
  <2>2. \A x \in Requests \ {r} : requests'[x] = requests[x]
    BY <1>3 DEF ReadEvent, Begin, TInv, TypeOK
  <2>3. requests'[r].step = "record" => requests'[r].report.id \in applied'
    <3>1. CASE Superseded(ReportOf(e))
      <4>1. Begin(r, [NoRequest EXCEPT !.step = "record", !.report = ReportOf(e)])
            /\ applied' = applied \cup {e.id}
        BY <1>3, <3>1 DEF ReadEvent
      <4>2. requests'[r].report = ReportOf(e)
        BY <4>1 DEF Begin, NoRequest, TInv, TypeOK
      <4>3. ReportOf(e).id = e.id
        BY DEF ReportOf
      <4> QED
        BY <4>1, <4>2, <4>3
    <3>2. CASE ~Superseded(ReportOf(e))
      <4>1. Begin(r, [NoRequest EXCEPT !.step = "update", !.report = ReportOf(e)])
        BY <1>3, <3>2 DEF ReadEvent
      <4>2. requests'[r].step = "update"
        BY <4>1 DEF Begin, NoRequest, TInv, TypeOK
      <4> QED
        BY <4>2
    <3> QED
      BY <3>1, <3>2
  <2> QED
    BY <1>2, <2>1, <2>2, <2>3
<1>4. ASSUME NEW r \in Requests, UpdateUser(r) PROVE EInv'
  <2>1. recorded' = recorded /\ applied \subseteq applied'
    BY <1>4 DEF UpdateUser
  <2>2. \A x \in Requests \ {r} : requests'[x] = requests[x]
    BY <1>4 DEF UpdateUser, End, Begin, Advance, TInv, TypeOK
  <2>3. requests'[r].step = "record" => requests'[r].report.id \in applied'
    <3>1. CASE requests[r].report.id = 0
      BY <1>4, <3>1 DEF UpdateUser, End, Begin, NoRequest, TInv, TypeOK
    <3>2. CASE requests[r].report.id # 0
      <4>1. applied' = applied \cup {requests[r].report.id}
        BY <1>4, <3>2 DEF UpdateUser
      <4>2. requests'[r].report = requests[r].report
        BY <1>4, <3>2 DEF UpdateUser, Advance, TInv, TypeOK, Request
      <4> QED
        BY <4>1, <4>2
    <3> QED
      BY <3>1, <3>2
  <2> QED
    BY <1>2, <2>1, <2>2, <2>3
<1>5. ASSUME recorded' = recorded, applied' = applied,
             \A x \in Requests : requests'[x] = requests[x] \/ requests'[x].step # "record"
      PROVE  EInv'
  BY <1>2, <1>5
<1>6. CASE External
  <2>1. recorded' = recorded /\ applied' = applied
    BY <1>6 DEF External, Tick, Crash, StatementFails, SetPlan, Pay, Subscribe, ChangeSubscription, account, history
  <2>2. CASE Crash
    BY <1>5, <2>1, <2>2 DEF Crash, NoRequest
  <2>3. ASSUME NEW r \in Requests, StatementFails(r) PROVE EInv'
    <3>1. End(r)
      BY <2>3 DEF StatementFails
    <3>2. \A x \in Requests : requests'[x] = requests[x] \/ requests'[x].step # "record"
      BY <3>1 DEF End, Begin, NoRequest, TInv, TypeOK
    <3> QED
      BY <1>5, <2>1, <3>2
  <2>4. CASE ~Crash /\ \A r \in Requests : ~StatementFails(r)
    <3>1. requests' = requests
      BY <1>6, <2>4 DEF External, Tick, SetPlan, Pay, Subscribe, ChangeSubscription
    <3> QED
      BY <1>5, <2>1, <3>1
  <2> QED
    BY <2>2, <2>3, <2>4
<1>7. ASSUME NEW r \in Requests, NEW q, Begin(r, q), q.step # "record",
             recorded' = recorded, applied' = applied
      PROVE  EInv'
  <2>1. \A x \in Requests : requests'[x] = requests[x] \/ requests'[x].step # "record"
    BY <1>7 DEF Begin, TInv, TypeOK
  <2> QED
    BY <1>5, <1>7, <2>1
<1>8. ASSUME NEW r \in Requests, NEW o \in Orders, NEW hook, Claim(r, o, hook) PROVE EInv'
  <2> DEFINE q == [NoRequest EXCEPT !.step = "read", !.order = o, !.hook = hook]
  <2>1. Begin(r, q) /\ recorded' = recorded /\ applied' = applied
    BY <1>8 DEF Claim
  <2>2. q.step # "record"
    BY DEF NoRequest
  <2> HIDE DEF q
  <2> QED
    BY <1>7, <2>1, <2>2
<1>9. CASE Ask
  <2>1. ASSUME NEW r \in Requests, ReadSession(r) PROVE EInv'
    <3> DEFINE q == [NoRequest EXCEPT !.step = "expire"]
    <3>1. Begin(r, q) /\ recorded' = recorded /\ applied' = applied
      BY <2>1 DEF ReadSession, account, history
    <3>2. q.step # "record"
      BY DEF NoRequest
    <3> HIDE DEF q
    <3> QED
      BY <1>7, <3>1, <3>2
  <2>2. ASSUME NEW r \in Requests, NEW s \in Subs, Confirm(r, s) PROVE EInv'
    <3> DEFINE q == [NoRequest EXCEPT !.step = "update", !.report =
             [id |-> 0, sub |-> s, status |-> stripe[s].status, renews |-> stripe[s].renews]]
    <3>1. Begin(r, q) /\ recorded' = recorded /\ applied' = applied
      BY <2>2 DEF Confirm, account, history
    <3>2. q.step # "record"
      BY DEF NoRequest
    <3> HIDE DEF q
    <3> QED
      BY <1>7, <3>1, <3>2
  <2>3. ASSUME NEW o \in Orders, NEW r \in Requests, Verify(r, o) PROVE EInv'
    BY <1>8, <2>3 DEF Verify
  <2>4. ASSUME \/ \E o \in Orders : RejectVerification(o) \/ \E days \in Passes : CreateOrder(o, days)
               \/ \E s \in Subs : OpenCheckout(s)
        PROVE  EInv'
    BY <1>5, <2>4 DEF CreateOrder, RejectVerification, OpenCheckout, account, history
  <2> QED
    BY <1>9, <2>1, <2>2, <2>3, <2>4 DEF Ask
<1>10. ASSUME NEW r \in Requests, NEW o \in Orders, NEW hook \in Hooks, Webhook(r, o, hook) PROVE EInv'
  <2>1. CASE Claim(r, o, hook)
    BY <1>8, <2>1
  <2>2. CASE UNCHANGED <<account, paid, stripes, bounds, requests, history>>
    BY <1>5, <2>2 DEF account, history
  <2> QED
    BY <1>10, <2>1, <2>2 DEF Webhook
<1>11. ASSUME NEW r \in Requests, ReadUser(r) \/ WriteUser(r) \/ ExpirePlan(r) PROVE EInv'
  <2>1. recorded' = recorded /\ applied' = applied
    BY <1>11 DEF ReadUser, WriteUser, ExpirePlan, account, history
  <2>2. \A x \in Requests : requests'[x] = requests[x] \/ requests'[x].step # "record"
    BY <1>11 DEF ReadUser, WriteUser, ExpirePlan, End, Begin, NoRequest, TInv, TypeOK, Request
  <2> QED
    BY <1>5, <2>1, <2>2
<1>12. CASE UNCHANGED vars
  BY <1>5, <1>12 DEF vars, account, history
<1> QED
  BY <1>1, <1>3, <1>4, <1>6, <1>9, <1>10, <1>11, <1>12 DEF Next, Deliver, Continue

\* Stripe is never told that an event was taken in before its effect was written, across
\* restarts and duplicate deliveries.
THEOREM EventsAreNotLost == Spec => []RecordedIsApplied
<1>1. Init => EInv
  BY DEF Init, EInv, RecordedIsApplied, NoRequest
<1>2. EInv => RecordedIsApplied
  BY DEF EInv
<1> QED
  BY <1>1, <1>2, EStep, BillingTypes, PTL DEF Spec

-----------------------------------------------------------------------------
(* Grants *)

(***************************************************************************)
(* Unless a restart or a failed statement broke one of an order's          *)
(* requests, every claim of it was granted or has the one request that     *)
(* claimed it still in flight.  To count the requests the proof carries    *)
(* that they are finitely many: what is in flight for an order grows by    *)
(* the request that claims it, shrinks by the one that writes the user or  *)
(* fails, and no other step touches it.                                    *)
(***************************************************************************)
Granted(o) ==
  /\ IsFiniteSet(InFlight(o))
  /\ o \notin broken => claimed[o] = granted[o] + Cardinality(InFlight(o))

GInv == \A o \in Orders : Granted(o)

\* A step that grants and claims nothing, and leaves each request at its order, or at no order.
LEMMA FlightsUnchanged ==
  ASSUME TInv, TInv', GInv, UNCHANGED <<claimed, granted, broken>>,
         \A x \in Requests : \/ requests'[x].order = requests[x].order
                             \/ {requests[x].step, requests'[x].step} \cap {"read", "write"} = {}
  PROVE  GInv'
<1>1. ASSUME NEW x \in Requests, NEW o \in Orders
      PROVE  requests'[x].order = o <=> requests[x].order = o
  BY <1>1 DEF TInv, RequestFits
<1>2. ASSUME NEW o \in Orders PROVE InFlight(o)' = InFlight(o)
  BY <1>1, <1>2 DEF InFlight
<1> QED
  BY <1>2 DEF GInv, Granted

\* A claim puts its request in flight, for its order and for no other.
LEMMA ClaimGrants ==
  ASSUME TInv, GInv, NEW r \in Requests, NEW o \in Orders, NEW hook \in Hooks \cup {None},
         Idle(r), Claim(r, o, hook)
  PROVE  GInv'
<1>1. requests[r].order \notin Orders
  BY DEF TInv, RequestFits, Idle
<1>2. requests'[r].order = o /\ \A x \in Requests \ {r} : requests'[x] = requests[x]
  BY DEF Claim, Begin, NoRequest, TInv, TypeOK
<1>3. InFlight(o)' = InFlight(o) \cup {r} /\ r \notin InFlight(o)
  BY <1>1, <1>2 DEF InFlight
<1>4. ASSUME NEW x \in Orders \ {o} PROVE InFlight(x)' = InFlight(x)
  BY <1>1, <1>2, <1>4 DEF InFlight
<1>5. claimed'[o] = claimed[o] + 1 /\ \A x \in Orders \ {o} : claimed'[x] = claimed[x]
  BY DEF Claim, TInv, TypeOK
<1>6. granted' = granted /\ broken' = broken
  BY DEF Claim
<1>7. ASSUME NEW x \in Orders PROVE Granted(x)'
  <2>1. IsFiniteSet(InFlight(x)) /\ (x \notin broken => claimed[x] = granted[x] + Cardinality(InFlight(x)))
    BY <1>7 DEF GInv, Granted
  <2>2. CASE x = o
    <3>1. /\ IsFiniteSet(InFlight(o) \cup {r})
          /\ Cardinality(InFlight(o) \cup {r}) = Cardinality(InFlight(o)) + 1
      BY <1>3, <2>1, <2>2, FS_AddElement
    <3>2. Cardinality(InFlight(o)) \in Nat /\ granted[o] \in Nat
      BY <2>1, <2>2, FS_CardinalityType DEF TInv, TypeOK
    <3>3. Granted(o)'
      BY <1>3, <1>5, <1>6, <2>1, <2>2, <3>1, <3>2 DEF Granted
    <3> QED
      BY <2>2, <3>3
  <2>3. CASE x # o
    <3>1. InFlight(x)' = InFlight(x)
      BY <1>4, <1>7, <2>3
    <3> QED
      BY <1>5, <1>6, <1>7, <2>1, <2>3, <3>1 DEF Granted
  <2> QED
    BY <2>2, <2>3
<1> QED
  BY <1>7 DEF GInv

\* The write of the user takes its request out of flight, and grants what it claimed.
LEMMA WriteGrants ==
  ASSUME TInv, GInv, NEW r \in Requests, WriteUser(r)
  PROVE  GInv'
<1> DEFINE o == requests[r].order
<1>1. o \in Orders
  BY DEF WriteUser, TInv, RequestFits
<1>2. requests'[r].order = None /\ \A x \in Requests \ {r} : requests'[x] = requests[x]
  BY DEF WriteUser, End, Begin, NoRequest, TInv, TypeOK
<1>4. PICK p \in Orders : p = o
  BY <1>1
<1>5. {x \in Requests : requests'[x].order = p} = InFlight(p) \ {r} /\ r \in InFlight(p)
  BY <1>2, <1>4, Constants DEF InFlight
<1>6. ASSUME NEW x \in Orders \ {p}
      PROVE  {y \in Requests : requests'[y].order = x} = InFlight(x)
  BY <1>2, <1>4, <1>6, Constants DEF InFlight
<1>7. /\ granted'[p] = granted[p] + 1 /\ \A x \in Orders \ {p} : granted'[x] = granted[x]
      /\ claimed' = claimed /\ broken' = broken
  BY <1>4 DEF WriteUser, TInv, TypeOK
<1>8. ASSUME NEW x \in Orders PROVE Granted(x)'
  <2>0. InFlight(x)' = {y \in Requests : requests'[y].order = x}
    BY DEF InFlight
  <2>1. IsFiniteSet(InFlight(x)) /\ (x \notin broken => claimed[x] = granted[x] + Cardinality(InFlight(x)))
    BY <1>8 DEF GInv, Granted
  <2>2. CASE x = p
    <3>1. /\ IsFiniteSet(InFlight(p) \ {r})
          /\ Cardinality(InFlight(p) \ {r}) = Cardinality(InFlight(p)) - 1
      BY <1>5, <2>1, <2>2, FS_RemoveElement
    <3>2. Cardinality(InFlight(p)) \in Nat /\ granted[p] \in Nat /\ claimed[p] \in Nat
      BY <2>1, <2>2, FS_CardinalityType DEF TInv, TypeOK
    <3>3. InFlight(p)' = InFlight(p) \ {r}
      BY <1>5, <2>0, <2>2
    <3>4. p \notin broken => claimed[p] = granted[p] + 1 + (Cardinality(InFlight(p)) - 1)
      BY <2>1, <2>2, <3>2
    <3>5. p \notin broken' => claimed'[p] = granted'[p] + Cardinality(InFlight(p) \ {r})
      BY <1>7, <3>1, <3>4
    <3>6. Granted(p)'
      BY <3>1, <3>3, <3>5 DEF Granted
    <3> QED
      BY <2>2, <3>6
  <2>3. CASE x # p
    BY <1>6, <1>7, <1>8, <2>0, <2>1, <2>3 DEF Granted
  <2> QED
    BY <2>2, <2>3
<1> QED
  BY <1>8 DEF GInv

\* A restart leaves nothing in flight, and breaks every order that had something there.
LEMMA CrashGrants ==
  ASSUME TInv, GInv, Crash
  PROVE  GInv'
<1>1. /\ broken' = broken \cup {o \in Orders : InFlight(o) # {}}
      /\ requests' = [r \in Requests |-> NoRequest]
      /\ claimed' = claimed /\ granted' = granted
  BY DEF Crash
<1>2. ASSUME NEW o \in Orders PROVE InFlight(o)' = {}
  BY <1>1, <1>2, NoRequestType DEF InFlight, NoRequest
<1>3. ASSUME NEW o \in Orders, o \notin broken' PROVE o \notin broken /\ InFlight(o) = {}
  BY <1>1, <1>3
<1>4. ASSUME NEW o \in Orders PROVE Granted(o)'
  <2>1. o \notin broken => claimed[o] = granted[o] + Cardinality(InFlight(o))
    BY DEF GInv, Granted
  <2> QED
    BY <1>1, <1>2, <1>3, <2>1, FS_EmptySet DEF Granted
<1> QED
  BY <1>4 DEF GInv

\* A request that fails leaves the order it was serving broken, and every other as it was.
LEMMA FailureGrants ==
  ASSUME TInv, GInv, NEW r \in Requests, StatementFails(r)
  PROVE  GInv'
<1>1. /\ broken' = broken \cup ({requests[r].order} \cap Orders)
      /\ claimed' = claimed /\ granted' = granted
  BY DEF StatementFails
<1>2. requests'[r].order = None /\ \A x \in Requests \ {r} : requests'[x] = requests[x]
  BY DEF StatementFails, End, Begin, NoRequest, TInv, TypeOK
<1>3. ASSUME NEW o \in Orders PROVE Granted(o)'
  <2>1. IsFiniteSet(InFlight(o)) /\ (o \notin broken => claimed[o] = granted[o] + Cardinality(InFlight(o)))
    BY DEF GInv, Granted
  <2>2. InFlight(o)' = InFlight(o) \ {r}
    BY <1>2, Constants DEF InFlight
  <2>3. IsFiniteSet(InFlight(o)')
    BY <2>1, <2>2, FS_RemoveElement
  <2>4. CASE r \in InFlight(o)
    <3>1. o \in broken'
      BY <1>1, <2>4 DEF InFlight
    <3> QED
      BY <2>3, <3>1 DEF Granted
  <2>5. CASE r \notin InFlight(o)
    <3>1. InFlight(o)' = InFlight(o)
      BY <2>2, <2>5
    <3> QED
      BY <1>1, <2>1, <3>1 DEF Granted
  <2> QED
    BY <2>4, <2>5
<1> QED
  BY <1>3 DEF GInv

LEMMA GStep ==
  ASSUME TInv, GInv, [Next]_vars
  PROVE  GInv'
<1>0. TInv'
  BY TStep
<1>1. ASSUME NEW r \in Requests, NEW o \in Orders, Verify(r, o) PROVE GInv'
  BY <1>1, ClaimGrants DEF Verify
<1>2. ASSUME NEW r \in Requests, NEW o \in Orders, NEW hook \in Hooks, Webhook(r, o, hook) PROVE GInv'
  <2>1. CASE Claim(r, o, hook)
    BY <1>2, <2>1, ClaimGrants DEF Webhook
  <2>2. CASE UNCHANGED <<account, paid, stripes, bounds, requests, history>>
    BY <1>0, <2>2, FlightsUnchanged DEF history
  <2> QED
    BY <1>2, <2>1, <2>2 DEF Webhook
<1>3. ASSUME requests' = requests, UNCHANGED <<claimed, granted, broken>> PROVE GInv'
  BY <1>0, <1>3, FlightsUnchanged
<1>4. ASSUME NEW r \in Requests, NEW q, Begin(r, q), UNCHANGED <<claimed, granted, broken>>,
             requests[r].step \notin {"read", "write"}, q.step \notin {"read", "write"}
      PROVE  GInv'
  <2>1. \A x \in Requests : \/ requests'[x].order = requests[x].order
                            \/ {requests[x].step, requests'[x].step} \cap {"read", "write"} = {}
    BY <1>4 DEF Begin, TInv, TypeOK
  <2> QED
    BY <1>0, <1>4, <2>1, FlightsUnchanged
<1>5. ASSUME NEW r \in Requests, ReadUser(r) PROVE GInv'
  <2>1. \A x \in Requests : requests'[x].order = requests[x].order
    BY <1>5 DEF ReadUser, TInv, TypeOK, Request
  <2> QED
    BY <1>0, <1>5, <2>1, FlightsUnchanged DEF ReadUser, history
<1>6. ASSUME NEW r \in Requests, NEW q, Idle(r), Begin(r, q), q.step \in {"expire", "update", "record"},
             UNCHANGED <<claimed, granted, broken>>
      PROVE  GInv'
  BY <1>4, <1>6 DEF Idle
<1>7. ASSUME NEW r \in Requests, ReadSession(r) PROVE GInv'
  <2> DEFINE q == [NoRequest EXCEPT !.step = "expire"]
  <2>1. Idle(r) /\ Begin(r, q) /\ UNCHANGED <<claimed, granted, broken>>
    BY <1>7 DEF ReadSession, history
  <2>2. q.step = "expire"
    BY DEF NoRequest
  <2> HIDE DEF q
  <2> QED
    BY <1>6, <2>1, <2>2
<1>8. ASSUME NEW r \in Requests, NEW s \in Subs, Confirm(r, s) PROVE GInv'
  <2> DEFINE q == [NoRequest EXCEPT !.step = "update", !.report =
           [id |-> 0, sub |-> s, status |-> stripe[s].status, renews |-> stripe[s].renews]]
  <2>1. Idle(r) /\ Begin(r, q) /\ UNCHANGED <<claimed, granted, broken>>
    BY <1>8 DEF Confirm, history
  <2>2. q.step = "update"
    BY DEF NoRequest
  <2> HIDE DEF q
  <2> QED
    BY <1>6, <2>1, <2>2
<1>9. ASSUME NEW r \in Requests, NEW e \in events, ReadEvent(r, e) PROVE GInv'
  <2>1. PICK step \in {"record", "update"} :
          Begin(r, [NoRequest EXCEPT !.step = step, !.report = ReportOf(e)])
    BY <1>9 DEF ReadEvent
  <2> DEFINE q == [NoRequest EXCEPT !.step = step, !.report = ReportOf(e)]
  <2>2. Idle(r) /\ UNCHANGED <<claimed, granted, broken>>
    BY <1>9 DEF ReadEvent
  <2>3. q.step = step
    BY DEF NoRequest
  <2>4. Begin(r, q)
    BY <2>1
  <2> HIDE DEF q
  <2> QED
    BY <1>6, <2>2, <2>3, <2>4
<1>10. ASSUME NEW r \in Requests, ExpirePlan(r) \/ UpdateUser(r) \/ RecordEvent(r) PROVE GInv'
  <2>1. UNCHANGED <<claimed, granted, broken>>
    BY <1>10 DEF ExpirePlan, UpdateUser, RecordEvent, history
  <2>2. requests[r].step \notin {"read", "write"}
    BY <1>10 DEF ExpirePlan, UpdateUser, RecordEvent
  <2>3. End(r) \/ Advance(r, "record")
    BY <1>10 DEF ExpirePlan, UpdateUser, RecordEvent
  <2>4. CASE End(r)
    BY <1>4, <2>1, <2>2, <2>4 DEF End, NoRequest
  <2>5. CASE Advance(r, "record")
    <3>1. \A x \in Requests : requests'[x].order = requests[x].order
      BY <2>5 DEF Advance, TInv, TypeOK, Request
    <3> QED
      BY <1>0, <2>1, <3>1, FlightsUnchanged
  <2> QED
    BY <2>3, <2>4, <2>5
<1>11. CASE \/ Tick \/ UNCHANGED vars
            \/ \E plan \in {"free", "pro"} : SetPlan(plan)
            \/ \E o \in Orders : \/ \E days \in Passes : CreateOrder(o, days)
                                 \/ RejectVerification(o)
                                 \/ \E amount \in {"short", "full"} : Pay(o, amount)
            \/ \E s \in Subs : \/ OpenCheckout(s) \/ Subscribe(s)
                               \/ \E status \in SubStatuses : ChangeSubscription(s, status)
  <2>1. requests' = requests /\ UNCHANGED <<claimed, granted, broken>>
    BY <1>11 DEF Tick, SetPlan, CreateOrder, RejectVerification, Pay, OpenCheckout, Subscribe,
                 ChangeSubscription, vars, history
  <2> QED
    BY <1>3, <2>1
<1> QED
  BY <1>1, <1>2, <1>5, <1>7, <1>8, <1>9, <1>10, <1>11, WriteGrants, CrashGrants, FailureGrants
     DEF Next, External, Ask, Deliver, Continue

\* However the browser, the two webhooks and the other services interleave, the days of every
\* claimed order were written, or are about to be by a request in flight: only a restart of the
\* backend or a statement that fails between that order's claim and the user's row loses them.
THEOREM GrantsAreNotLost == Spec => []OnlyAFaultLosesAGrant
<1>1. Init => GInv
  <2> SUFFICES ASSUME Init, NEW o \in Orders
               PROVE  IsFiniteSet(InFlight(o)) /\ claimed[o] = granted[o] + Cardinality(InFlight(o))
    BY DEF GInv, Granted
  <2>1. InFlight(o) = {}
    BY NoRequestType DEF Init, InFlight, NoRequest
  <2> QED
    BY <2>1, FS_EmptySet DEF Init
<1>2. GInv => OnlyAFaultLosesAGrant
  BY DEF GInv, Granted, OnlyAFaultLosesAGrant
<1> QED
  BY <1>1, <1>2, GStep, BillingTypes, PTL DEF Spec

-----------------------------------------------------------------------------
(* The days of a set of orders *)

\* A set of natural numbers has a smallest one: what stands in for induction below.
LEMMA Least ==
  ASSUME NEW T \in SUBSET Nat, T # {}
  PROVE  \E x \in T : \A y \in T : ~(y < x)
<1> DEFINE R == {ss \in Nat \X Nat : ss[1] < ss[2]}
<1>1. IsWellFoundedOn(R, Nat)
  BY NatLessThanWellFounded DEF OpToRel
<1>2. T \subseteq Nat
  OBVIOUS
<1> HIDE DEF R
<1>3. \E x \in T : \A y \in T : ~ (<<y, x>> \in R)
  BY <1>1, <1>2, WFMin
<1> QED
  BY <1>3 DEF R

\* Of some subsets of a finite set, one is such that it is none of them with an element less.
LEMMA Smallest ==
  ASSUME NEW S, IsFiniteSet(S), NEW B \in SUBSET SUBSET S, B # {}
  PROVE  \E s \in B : \A x \in s : s \ {x} \notin B
<1>1. ASSUME NEW s \in B PROVE IsFiniteSet(s) /\ Cardinality(s) \in Nat
  BY <1>1, FS_Subset, FS_CardinalityType
<1> DEFINE T == {Cardinality(s) : s \in B}
<1>2. T \in SUBSET Nat /\ T # {}
  BY <1>1
<1>3. PICK n \in T : \A m \in T : ~(m < n)
  BY <1>2, Least
<1>4. PICK s \in B : Cardinality(s) = n
  BY <1>3
<1>5. ASSUME NEW x \in s, s \ {x} \in B PROVE FALSE
  <2>1. Cardinality(s \ {x}) = Cardinality(s) - 1
    BY <1>1, <1>5, FS_RemoveElement
  <2>2. Cardinality(s \ {x}) \in T
    BY <1>5
  <2>3. ~(Cardinality(s) - 1 < Cardinality(s))
    BY <1>3, <1>4, <2>1, <2>2
  <2> QED
    BY <1>1, <2>3
<1> QED
  BY <1>5

First(s) == CHOOSE x \in s : TRUE

(***************************************************************************)
(* h is the sum of g over every set of orders, as the fold of              *)
(* TimeIsPaidFor works it out.                                             *)
(***************************************************************************)
Sums(g, h) == h = [s \in SUBSET Orders |-> IF s = {} THEN 0 ELSE g[First(s)] + h[s \ {First(s)}]]

Sum(g)   == CHOOSE h : Sums(g, h)
Total(g) == Sum(g)[Orders]

\* There is one: the sums over sets of at most n orders give those over n + 1.
LEMMA SumsExist ==
  ASSUME IsFiniteSet(Orders), NEW g \in [Orders -> Nat]
  PROVE  Sums(g, Sum(g))
<1> DEFINE Few(n) == {s \in SUBSET Orders : Cardinality(s) <= n}
           Upto(h, n) == h = [s \in Few(n) |-> IF s = {} THEN 0 ELSE g[First(s)] + h[s \ {First(s)}]]
           T == {n \in Nat : ~ \E h : Upto(h, n)}
<1>1. ASSUME NEW s \in SUBSET Orders PROVE IsFiniteSet(s) /\ Cardinality(s) \in Nat
  BY <1>1, FS_Subset, FS_CardinalityType
<1>2. ASSUME NEW s \in SUBSET Orders, s # {}
      PROVE  First(s) \in s /\ s \ {First(s)} \in SUBSET Orders /\ Cardinality(s \ {First(s)}) = Cardinality(s) - 1
  BY <1>1, <1>2, FS_RemoveElement DEF First
<1>3. \E h : Upto(h, 0)
  <2> DEFINE h == [s \in Few(0) |-> 0]
  <2>1. ASSUME NEW s \in Few(0) PROVE s = {}
    BY <1>1, <2>1, FS_EmptySet
  <2>2. Upto(h, 0)
    BY <2>1
  <2> QED
    BY <2>2
<1>4. ASSUME NEW n \in Nat, \E h : Upto(h, n) PROVE \E h : Upto(h, n + 1)
  <2>1. PICK f : Upto(f, n)
    BY <1>4
  <2> DEFINE h == [s \in Few(n + 1) |-> IF s = {} THEN 0 ELSE g[First(s)] + f[s \ {First(s)}]]
  <2>2. ASSUME NEW s \in Few(n + 1), s # {} PROVE h[s \ {First(s)}] = f[s \ {First(s)}]
    <3> DEFINE t == s \ {First(s)}
    <3>1. t \in SUBSET Orders /\ Cardinality(t) = Cardinality(s) - 1 /\ Cardinality(s) \in Nat
      BY <1>1, <1>2, <2>2
    <3>2. t \in Few(n) /\ t \in Few(n + 1)
      BY <2>2, <3>1
    <3>3. f[t] = IF t = {} THEN 0 ELSE g[First(t)] + f[t \ {First(t)}]
      BY <2>1, <3>2
    <3>4. h[t] = IF t = {} THEN 0 ELSE g[First(t)] + f[t \ {First(t)}]
      BY <3>2
    <3> QED
      BY <3>3, <3>4
  <2>3. Upto(h, n + 1)
    BY <2>2
  <2> QED
    BY <2>3
<1>5. T = {}
  <2> SUFFICES ASSUME T # {} PROVE FALSE
    OBVIOUS
  <2>0. T \in SUBSET Nat
    OBVIOUS
  <2>1. PICK n \in T : \A m \in T : ~(m < n)
    BY <2>0, Least
  <2>2. n # 0 /\ n \in Nat
    BY <1>3
  <2>3. n - 1 \in Nat /\ n - 1 < n
    BY <2>2
  <2>4. n - 1 \notin T
    BY <2>1, <2>3
  <2>5. \E h : Upto(h, n - 1)
    BY <2>3, <2>4
  <2>6. \E h : Upto(h, (n - 1) + 1)
    BY <1>4, <2>3, <2>5
  <2>7. (n - 1) + 1 = n
    BY <2>2
  <2>8. ~ \E h : Upto(h, n)
    BY <2>2
  <2> HIDE DEF Upto
  <2> QED
    BY <2>6, <2>7, <2>8
<1>6. Cardinality(Orders) \in Nat
  BY FS_CardinalityType
<1>7. PICK h : Upto(h, Cardinality(Orders))
  BY <1>5, <1>6
<1>8. Few(Cardinality(Orders)) = SUBSET Orders
  BY FS_Subset, FS_CardinalityType
<1>9. Sums(g, h)
  BY <1>7, <1>8 DEF Sums
<1> QED
  BY <1>9 DEF Sum

\* There is no other.
LEMMA SumsAgree ==
  ASSUME IsFiniteSet(Orders), NEW g, NEW f, NEW h, Sums(g, f), Sums(g, h)
  PROVE  f[Orders] = h[Orders]
<1> DEFINE B == {s \in SUBSET Orders : f[s] # h[s]}
<1>1. ASSUME NEW s \in B, \A x \in s : s \ {x} \notin B PROVE FALSE
  <2>1. /\ f[s] = IF s = {} THEN 0 ELSE g[First(s)] + f[s \ {First(s)}]
        /\ h[s] = IF s = {} THEN 0 ELSE g[First(s)] + h[s \ {First(s)}]
    BY DEF Sums
  <2>2. s # {} => First(s) \in s /\ f[s \ {First(s)}] = h[s \ {First(s)}]
    BY <1>1 DEF First
  <2> QED
    BY <2>1, <2>2
<1>2. B = {}
  BY <1>1, Smallest
<1> QED
  BY <1>2

\* A sum over one set, in terms of the sum over a smaller one.
LEMMA SumOf ==
  ASSUME IsFiniteSet(Orders), NEW g \in [Orders -> Nat], NEW s \in SUBSET Orders
  PROVE  /\ s = {} => Sum(g)[s] = 0
         /\ s # {} => First(s) \in s /\ g[First(s)] \in Nat /\ Sum(g)[s] = g[First(s)] + Sum(g)[s \ {First(s)}]
<1>1. Sum(g)[s] = IF s = {} THEN 0 ELSE g[First(s)] + Sum(g)[s \ {First(s)}]
  BY SumsExist DEF Sums
<1>2. s # {} => First(s) \in s
  BY DEF First
<1> QED
  BY <1>1, <1>2

LEMMA SumIsNat ==
  ASSUME IsFiniteSet(Orders), NEW g \in [Orders -> Nat], NEW s \in SUBSET Orders
  PROVE  Sum(g)[s] \in Nat
<1> DEFINE B == {t \in SUBSET Orders : Sum(g)[t] \notin Nat}
<1>1. ASSUME NEW t \in B, \A x \in t : t \ {x} \notin B PROVE FALSE
  <2>1. CASE t = {}
    <3>1. Sum(g)[t] = 0
      BY <2>1, SumOf
    <3> QED
      BY <3>1
  <2>2. CASE t # {}
    <3>1. First(t) \in t /\ g[First(t)] \in Nat /\ Sum(g)[t] = g[First(t)] + Sum(g)[t \ {First(t)}]
      BY <2>2, SumOf
    <3>2. Sum(g)[t \ {First(t)}] \in Nat
      BY <1>1, <3>1
    <3>3. Sum(g)[t] \in Nat
      BY <3>1, <3>2
    <3> QED
      BY <3>3
  <2> QED
    BY <2>1, <2>2
<1>2. B = {}
  BY <1>1, Smallest
<1> QED
  BY <1>2

\* More for some orders is more in all.
LEMMA TotalGrows ==
  ASSUME IsFiniteSet(Orders), NEW f \in [Orders -> Nat], NEW g \in [Orders -> Nat], \A o \in Orders : f[o] <= g[o]
  PROVE  Total(f) <= Total(g)
<1> DEFINE B == {t \in SUBSET Orders : ~(Sum(f)[t] <= Sum(g)[t])}
<1>1. ASSUME NEW t \in B, \A x \in t : t \ {x} \notin B PROVE FALSE
  <2>1. t # {}
    BY SumOf
  <2> DEFINE x == First(t)
             u == t \ {x}
  <2>2. /\ x \in Orders /\ Sum(f)[t] = f[x] + Sum(f)[u] /\ Sum(g)[t] = g[x] + Sum(g)[u]
        /\ f[x] \in Nat /\ g[x] \in Nat /\ x \in t
    BY <2>1, SumOf
  <2>3. Sum(f)[u] \in Nat /\ Sum(g)[u] \in Nat
    BY SumIsNat
  <2>4. Sum(f)[u] <= Sum(g)[u]
    BY <1>1, <2>2
  <2> HIDE DEF x, u
  <2> QED
    BY <2>2, <2>3, <2>4
<1>2. B = {}
  BY <1>1, Smallest
<1> QED
  BY <1>2 DEF Total

\* What one order gains, all gain together.
LEMMA TotalAdds ==
  ASSUME IsFiniteSet(Orders), NEW f \in [Orders -> Nat], NEW g \in [Orders -> Nat], NEW o \in Orders, NEW d \in Nat,
         g[o] = f[o] + d, \A p \in Orders \ {o} : g[p] = f[p]
  PROVE  Total(g) = Total(f) + d
<1> DEFINE Gain(t) == IF o \in t THEN d ELSE 0
           B == {t \in SUBSET Orders : Sum(g)[t] # Sum(f)[t] + Gain(t)}
<1>1. ASSUME NEW t \in B, \A x \in t : t \ {x} \notin B PROVE FALSE
  <2>1. t # {}
    <3> SUFFICES ASSUME t = {} PROVE FALSE
      OBVIOUS
    <3>1. Sum(f)[t] = 0 /\ Sum(g)[t] = 0 /\ Gain(t) = 0
      BY SumOf
    <3>2. Sum(g)[t] # Sum(f)[t] + Gain(t)
      OBVIOUS
    <3> QED
      BY <3>1, <3>2
  <2> DEFINE x == First(t)
             u == t \ {x}
  <2>2. /\ x \in Orders /\ Sum(f)[t] = f[x] + Sum(f)[u] /\ Sum(g)[t] = g[x] + Sum(g)[u]
        /\ f[x] \in Nat /\ g[x] \in Nat /\ x \in t
    BY <2>1, SumOf
  <2>3. Sum(f)[u] \in Nat /\ Sum(g)[u] \in Nat
    BY SumIsNat
  <2>4. Sum(g)[u] = Sum(f)[u] + Gain(u)
    BY <1>1, <2>2
  <2>5. x # o => g[x] = f[x] /\ Gain(t) = Gain(u)
    BY <2>2
  <2>6. x = o => g[x] = f[x] + d /\ Gain(t) = d /\ Gain(u) = 0
    BY <2>2
  <2>7. Gain(u) \in Nat
    OBVIOUS
  <2>8. Sum(g)[t] # Sum(f)[t] + Gain(t)
    OBVIOUS
  <2> HIDE DEF x, u, Gain
  <2> QED
    BY <2>2, <2>3, <2>4, <2>5, <2>6, <2>7, <2>8
<1>2. B = {}
  BY <1>1, Smallest
<1>3. Orders \notin B
  BY <1>2
<1>4. Sum(g)[Orders] = Sum(f)[Orders] + Gain(Orders)
  BY <1>3
<1> QED
  BY <1>4 DEF Total

\* The fold of TimeIsPaidFor is the total of the days that the paid orders are good for.
LEMMA FoldIsTotal ==
  ASSUME IsFiniteSet(Orders), NEW g \in [Orders -> Nat],
         \A o \in Orders : g[o] = IF paid[o] = "full" THEN (1 + reopened[o]) * orders[o].days ELSE 0
  PROVE  MapThenSumSet(LAMBDA o : IF paid[o] = "full" THEN (1 + reopened[o]) * orders[o].days ELSE 0, Orders) = Total(g)
<1> DEFINE Is(h) == h = [s \in SUBSET Orders |->
                          IF s = {} THEN 0
                          ELSE LET x == CHOOSE x \in s : TRUE
                               IN  (IF paid[x] = "full" THEN (1 + reopened[x]) * orders[x].days ELSE 0) + h[s \ {x}]]
           iter == CHOOSE h : Is(h)
<1>1. MapThenSumSet(LAMBDA o : IF paid[o] = "full" THEN (1 + reopened[o]) * orders[o].days ELSE 0, Orders) = iter[Orders]
  BY Zenon DEF MapThenSumSet, MapThenFoldSet
<1>2. ASSUME NEW h PROVE Is(h) <=> Sums(g, h)
  <2> DEFINE F == [s \in SUBSET Orders |->
                    IF s = {} THEN 0
                    ELSE (IF paid[First(s)] = "full" THEN (1 + reopened[First(s)]) * orders[First(s)].days ELSE 0)
                         + h[s \ {First(s)}]]
             G == [s \in SUBSET Orders |-> IF s = {} THEN 0 ELSE g[First(s)] + h[s \ {First(s)}]]
  <2>1. \A s \in SUBSET Orders : s # {} => First(s) \in Orders
    BY DEF First
  <2>2. F = G
    BY <2>1
  <2>3. Is(h) <=> h = F
    BY Zenon DEF First
  <2> QED
    BY <2>2, <2>3, Zenon DEF Sums
<1> HIDE DEF Is
<1>3. Sums(g, Sum(g))
  BY SumsExist
<1>4. Is(Sum(g))
  BY <1>2, <1>3
<1>5. Is(iter)
  BY <1>4, Zenon
<1>6. Sums(g, iter)
  BY <1>2, <1>5
<1> HIDE DEF iter
<1>7. iter[Orders] = Sum(g)[Orders]
  BY <1>3, <1>6, SumsAgree
<1> QED
  BY <1>1, <1>7 DEF Total

-----------------------------------------------------------------------------
(* The time that is paid for *)

(***************************************************************************)
(* An order was claimed as often as its days were added to what the user   *)
(* row said, but for the requests that have yet to read the row (Pending). *)
(* What the plan may run to is the clock, the days that were added, and a  *)
(* period of Stripe's once there was a subscription; nothing that is       *)
(* written to the row, or on its way there, says more.                     *)
(***************************************************************************)
Pending(o) == {r \in Requests : requests[r].step = "read" /\ requests[r].order = o}
Added(o)   == claimed[o] - Cardinality(Pending(o))

Bought == [o \in Orders |-> Added(o) * orders[o].days]
Credit == IF \E s \in Subs : stripe[s].renews > 0 THEN Period ELSE 0
Term   == now + Credit
Extra  == Total(Bought)

VInv ==
  /\ \A o \in Orders : IsFiniteSet(Pending(o)) /\ Cardinality(Pending(o)) <= claimed[o]
  /\ user.renews <= Term + Extra
  /\ \A r \in Requests : requests[r].step = "write" => requests[r].renews <= Term + Extra
  /\ \A s \in Subs : stripe[s].renews <= Term
  /\ \A e \in events : e.renews <= Term
  /\ \A r \in Requests : requests[r].step \in {"update", "record"} => requests[r].report.renews <= Term

LEMMA TermTypes ==
  ASSUME TInv
  PROVE  /\ now \in Nat /\ Term \in Nat /\ user.renews \in Nat /\ now <= Term
         /\ \A s \in Subs : stripe[s].renews \in Nat
         /\ \A e \in events : e.renews \in Nat
         /\ \A r \in Requests : requests[r].renews \in Nat
         /\ \A r \in Requests : requests[r].step \in {"update", "record"} => requests[r].report.renews \in Nat
         /\ \A o \in Orders : orders[o].days \in Nat /\ claimed[o] \in Nat
<1>1. now \in Nat /\ Term \in Nat /\ now <= Term
  BY Constants DEF TInv, TypeOK, Term, Credit
<1>2. user.renews \in Nat
  BY UserFields
<1>3. \A s \in Subs : stripe[s].renews \in Nat
  BY DEF TInv, TypeOK, Subscription
<1>4. \A e \in events : e.renews \in Nat
  BY DEF TInv, TypeOK, StripeEvent
<1>5. \A r \in Requests : requests[r].renews \in Nat
  BY DEF TInv, TypeOK, Request
<1>6. \A r \in Requests : requests[r].step \in {"update", "record"} => requests[r].report.renews \in Nat
  BY DEF TInv, RequestFits, Report
<1>7. \A o \in Orders : orders[o].days \in Nat /\ claimed[o] \in Nat
  BY DEF TInv, TypeOK, Order
<1> QED
  BY <1>1, <1>2, <1>3, <1>4, <1>5, <1>6, <1>7

\* What was added is a number, and so is its worth in days.
LEMMA BoughtTypes ==
  ASSUME TInv, \A o \in Orders : IsFiniteSet(Pending(o)) /\ Cardinality(Pending(o)) <= claimed[o]
  PROVE  /\ \A o \in Orders : Added(o) \in Nat /\ Cardinality(Pending(o)) \in Nat
         /\ Bought \in [Orders -> Nat]
<1>1. ASSUME NEW o \in Orders PROVE Added(o) \in Nat /\ Cardinality(Pending(o)) \in Nat
  BY <1>1, TermTypes, FS_CardinalityType DEF Added
<1>2. ASSUME NEW a \in Nat, NEW d \in Nat PROVE a * d \in Nat
  BY <1>2
<1>3. ASSUME NEW o \in Orders PROVE Added(o) * orders[o].days \in Nat
  BY <1>1, <1>2, <1>3, TermTypes
<1> QED
  BY <1>1, <1>3 DEF Bought

LEMMA ExtraType ==
  ASSUME IsFiniteSet(Orders), TInv, VInv
  PROVE  Extra \in Nat
<1>1. Bought \in [Orders -> Nat]
  BY BoughtTypes DEF VInv
<1>2. Orders \in SUBSET Orders
  OBVIOUS
<1> QED
  BY <1>1, <1>2, SumIsNat DEF Extra, Total

\* A step that takes back none of the time, and of which nothing new that it writes says more.
LEMMA TimeKept ==
  ASSUME IsFiniteSet(Orders), TInv, TInv', VInv,
         \A o \in Orders : IsFiniteSet(Pending(o)') /\ Cardinality(Pending(o)') <= claimed'[o],
         Term <= Term', Extra <= Extra',
         user' = user \/ user'.renews <= Term' + Extra',
         \A r \in Requests : requests'[r].step = "write" =>
            requests'[r] = requests[r] \/ requests'[r].renews <= Term' + Extra',
         \A s \in Subs : stripe'[s].renews = stripe[s].renews \/ stripe'[s].renews <= Term',
         \A e \in events' : e \in events \/ e.renews <= Term',
         \A r \in Requests : requests'[r].step \in {"update", "record"} =>
            \/ requests[r].step \in {"update", "record"} /\ requests'[r].report = requests[r].report
            \/ requests'[r].report.renews <= Term'
  PROVE  VInv'
<1>1. Extra \in Nat /\ Term \in Nat /\ Term' \in Nat
  <2>1. now' \in Nat
    BY DEF TInv, TypeOK
  <2>2. Credit' \in Nat
    BY Constants DEF Credit
  <2>3. Term' \in Nat
    BY <2>1, <2>2 DEF Term
  <2> QED
    BY <2>3, ExtraType, TermTypes
<1>2. Extra' \in Nat
  <2>1. Bought' \in [Orders -> Nat]
    <3>1. ASSUME NEW o \in Orders
          PROVE  claimed'[o] \in Nat /\ orders'[o].days \in Nat /\ Cardinality(Pending(o)') \in Nat
      BY <3>1, FS_CardinalityType DEF TInv, TypeOK, Order
    <3>2. ASSUME NEW a \in Nat, NEW c \in Nat, NEW d \in Nat, c <= a PROVE (a - c) * d \in Nat
      <4>1. a - c \in Nat
        BY <3>2
      <4> QED
        BY <4>1
    <3>3. ASSUME NEW o \in Orders PROVE (claimed'[o] - Cardinality(Pending(o)')) * orders'[o].days \in Nat
      BY <3>1, <3>2, <3>3
    <3> QED
      BY <3>3 DEF Bought, Added
  <2>2. Orders \in SUBSET Orders
    OBVIOUS
  <2> QED
    BY <2>1, <2>2, SumIsNat DEF Extra, Total
<1>3. user'.renews <= Term' + Extra'
  BY <1>1, <1>2, TermTypes DEF VInv
<1>4. ASSUME NEW r \in Requests, requests'[r].step = "write" PROVE requests'[r].renews <= Term' + Extra'
  BY <1>1, <1>2, <1>4, TermTypes DEF VInv
<1>5. ASSUME NEW s \in Subs PROVE stripe'[s].renews <= Term'
  BY <1>1, <1>5, TermTypes DEF VInv
<1>6. ASSUME NEW e \in events' PROVE e.renews <= Term'
  BY <1>1, <1>6, TermTypes DEF VInv
<1>7. ASSUME NEW r \in Requests, requests'[r].step \in {"update", "record"} PROVE requests'[r].report.renews <= Term'
  BY <1>1, <1>7, TermTypes DEF VInv
<1> QED
  BY <1>3, <1>4, <1>5, <1>6, <1>7 DEF VInv

\* A step after which the same requests have yet to read the row.
LEMMA SameBought ==
  ASSUME TInv, TInv', claimed' = claimed, \A o \in Orders : orders'[o].days = orders[o].days,
         \A x \in Requests : \/ requests'[x] = requests[x]
                             \/ requests[x].step # "read" /\ requests'[x].step # "read"
  PROVE  Extra' = Extra /\ \A o \in Orders : Pending(o)' = Pending(o)
<1>1. ASSUME NEW o \in Orders PROVE Pending(o)' = Pending(o)
  BY <1>1 DEF Pending
<1>2. Bought' = Bought
  BY <1>1 DEF Bought, Added
<1> QED
  BY <1>1, <1>2 DEF Extra

\* A step that only moves requests, and tells them nothing that is not in the row or at Stripe.
LEMMA Quiet ==
  ASSUME IsFiniteSet(Orders), TInv, TInv', VInv,
         UNCHANGED <<now, stripe, events, claimed>>, \A o \in Orders : orders'[o].days = orders[o].days,
         user' = user \/ user'.renews <= Term + Extra,
         \A x \in Requests :
            \/ requests'[x] = requests[x]
            \/ /\ requests[x].step # "read" /\ requests'[x].step \notin {"read", "write"}
               /\ requests'[x].step \in {"update", "record"} =>
                    \/ requests[x].step \in {"update", "record"} /\ requests'[x].report = requests[x].report
                    \/ requests'[x].report.renews <= Term
  PROVE  VInv'
<1>1. Extra' = Extra /\ \A o \in Orders : Pending(o)' = Pending(o)
  BY SameBought
<1>2. Term' = Term
  BY DEF Term, Credit
<1>3. Extra \in Nat /\ Term \in Nat
  BY ExtraType, TermTypes
<1>4. \A o \in Orders : IsFiniteSet(Pending(o)') /\ Cardinality(Pending(o)') <= claimed'[o]
  BY <1>1 DEF VInv
<1> QED
  BY <1>1, <1>2, <1>3, <1>4, TimeKept

\* A claim is of days that have yet to be added.
LEMMA ClaimTime ==
  ASSUME IsFiniteSet(Orders), TInv, TInv', VInv, NEW r \in Requests, NEW o \in Orders, NEW hook,
         Idle(r), Claim(r, o, hook), UNCHANGED <<now, stripe, events>>
  PROVE  VInv'
<1>1. requests'[r].step = "read" /\ requests'[r].order = o /\ \A x \in Requests \ {r} : requests'[x] = requests[x]
  BY DEF Claim, Begin, NoRequest, TInv, TypeOK
<1>2. requests[r].step = "idle"
  BY DEF Idle
<1>3. Pending(o)' = Pending(o) \cup {r} /\ r \notin Pending(o)
  BY <1>1, <1>2 DEF Pending
<1>4. ASSUME NEW p \in Orders \ {o} PROVE Pending(p)' = Pending(p)
  BY <1>1, <1>2, <1>4 DEF Pending
<1>5. claimed'[o] = claimed[o] + 1 /\ \A p \in Orders \ {o} : claimed'[p] = claimed[p]
  BY DEF Claim, TInv, TypeOK
<1>6. \A p \in Orders : orders'[p].days = orders[p].days
  BY DEF Claim, TInv, TypeOK, Order
<1>7. IsFiniteSet(Pending(o)') /\ Cardinality(Pending(o)') = Cardinality(Pending(o)) + 1
  BY <1>3, FS_AddElement DEF VInv
<1>8. \A p \in Orders : Added(p) \in Nat /\ Cardinality(Pending(p)) \in Nat /\ claimed[p] \in Nat
  BY BoughtTypes, TermTypes DEF VInv
<1>9. \A p \in Orders : IsFiniteSet(Pending(p)') /\ Cardinality(Pending(p)') <= claimed'[p]
  <2>1. IsFiniteSet(Pending(o)') /\ Cardinality(Pending(o)') <= claimed'[o]
    BY <1>5, <1>7, <1>8 DEF VInv
  <2>2. ASSUME NEW p \in Orders \ {o} PROVE IsFiniteSet(Pending(p)') /\ Cardinality(Pending(p)') <= claimed'[p]
    BY <1>4, <1>5, <2>2 DEF VInv
  <2> QED
    BY <2>1, <2>2
<1>10. \A p \in Orders : claimed'[p] - Cardinality(Pending(p)') = claimed[p] - Cardinality(Pending(p))
  <2>1. claimed'[o] - Cardinality(Pending(o)') = claimed[o] - Cardinality(Pending(o))
    BY <1>5, <1>7, <1>8
  <2> QED
    BY <1>4, <1>5, <2>1
<1>11. Bought' = Bought
  BY <1>6, <1>10 DEF Bought, Added
<1>12. Extra' = Extra /\ Term' = Term /\ user' = user
  BY <1>11 DEF Extra, Term, Credit, Claim
<1>13. Extra \in Nat /\ Term \in Nat
  BY ExtraType, TermTypes
<1> QED
  BY <1>1, <1>9, <1>12, <1>13, TimeKept

\* Reading the row adds the days of an order to what it says.
LEMMA ReadTime ==
  ASSUME IsFiniteSet(Orders), TInv, TInv', VInv, NEW r \in Requests, ReadUser(r)
  PROVE  VInv'
<1>1. PICK o \in Orders : o = requests[r].order
  BY DEF ReadUser, TInv, RequestFits
<1>2. /\ requests'[r].step = "write" /\ requests'[r].renews = ExtendedBy(orders[o].days)
      /\ \A x \in Requests \ {r} : requests'[x] = requests[x]
  BY <1>1 DEF ReadUser, TInv, TypeOK, Request
<1>3. UNCHANGED <<now, user, orders, stripe, events, claimed>>
  BY DEF ReadUser, account, stripes, bounds, history
<1>4. Pending(o)' = Pending(o) \ {r} /\ r \in Pending(o)
  BY <1>1, <1>2 DEF Pending, ReadUser
<1>5. ASSUME NEW p \in Orders \ {o} PROVE Pending(p)' = Pending(p)
  BY <1>1, <1>2, <1>5 DEF Pending
<1>6. IsFiniteSet(Pending(o)') /\ Cardinality(Pending(o)') = Cardinality(Pending(o)) - 1
  BY <1>4, FS_RemoveElement DEF VInv
<1>7. \A p \in Orders : Added(p) \in Nat /\ Cardinality(Pending(p)) \in Nat /\ claimed[p] \in Nat
  BY BoughtTypes, TermTypes DEF VInv
<1>8. \A p \in Orders : IsFiniteSet(Pending(p)') /\ Cardinality(Pending(p)') <= claimed'[p]
  <2>1. IsFiniteSet(Pending(o)') /\ Cardinality(Pending(o)') <= claimed'[o]
    BY <1>3, <1>6, <1>7 DEF VInv
  <2>2. ASSUME NEW p \in Orders \ {o} PROVE IsFiniteSet(Pending(p)') /\ Cardinality(Pending(p)') <= claimed'[p]
    BY <1>3, <1>5, <2>2 DEF VInv
  <2> QED
    BY <2>1, <2>2
<1>9. Added(o)' = Added(o) + 1
  BY <1>3, <1>6, <1>7 DEF Added
<1>10. \A p \in Orders \ {o} : Bought'[p] = Bought[p]
  BY <1>3, <1>5 DEF Bought, Added
<1>11. Bought'[o] = Bought[o] + orders[o].days
  <2>1. \A a, d \in Nat : (a + 1) * d = a * d + d
    OBVIOUS
  <2>2. Bought'[o] = (Added(o) + 1) * orders[o].days /\ Bought[o] = Added(o) * orders[o].days
    BY <1>3, <1>9 DEF Bought
  <2>3. Added(o) \in Nat /\ orders[o].days \in Nat
    BY <1>7, TermTypes
  <2> QED
    BY <2>1, <2>2, <2>3
<1>12. Bought \in [Orders -> Nat] /\ orders[o].days \in Nat
  BY BoughtTypes, TermTypes DEF VInv
<1>13. Bought' \in [Orders -> Nat]
  <2>1. \A p \in Orders : Bought'[p] \in Nat
    BY <1>10, <1>11, <1>12
  <2>2. Bought' = [p \in Orders |-> Bought'[p]]
    BY DEF Bought
  <2> QED
    BY <2>1, <2>2
<1>14. Extra' = Extra + orders[o].days
  BY <1>10, <1>11, <1>12, <1>13, TotalAdds DEF Extra
<1>15. Extra \in Nat /\ Term \in Nat /\ now \in Nat /\ now <= Term /\ user.renews \in Nat
  BY ExtraType, TermTypes
<1>16. Term' = Term
  BY <1>3 DEF Term, Credit
<1>17. user.renews <= Term + Extra
  BY DEF VInv
<1>18. ExtendedBy(orders[o].days) <= Term' + Extra'
  BY <1>12, <1>14, <1>15, <1>16, <1>17 DEF ExtendedBy
<1> QED
  BY <1>2, <1>3, <1>8, <1>12, <1>14, <1>15, <1>16, <1>18, TimeKept

\* A restart, or a statement that fails, gives up the reading, not the claims.
LEMMA FaultTime ==
  ASSUME IsFiniteSet(Orders), TInv, TInv', VInv, Crash \/ \E r \in Requests : StatementFails(r)
  PROVE  VInv'
<1>1. UNCHANGED <<now, user, orders, stripe, events, claimed>>
  BY DEF Crash, StatementFails, account, stripes
<1>2. \A x \in Requests : requests'[x] = requests[x] \/ requests'[x].step = "idle"
  BY DEF Crash, StatementFails, End, Begin, NoRequest, TInv, TypeOK
<1>3. ASSUME NEW o \in Orders PROVE Pending(o)' \in SUBSET Pending(o)
  BY <1>2, <1>3 DEF Pending
<1>4. \A o \in Orders : /\ IsFiniteSet(Pending(o)') /\ Cardinality(Pending(o)') \in Nat
                        /\ Cardinality(Pending(o)') <= Cardinality(Pending(o))
  BY <1>3, FS_Subset, FS_CardinalityType DEF VInv
<1>5. \A o \in Orders : /\ Added(o) \in Nat /\ Cardinality(Pending(o)) \in Nat /\ claimed[o] \in Nat
                        /\ orders[o].days \in Nat
  BY BoughtTypes, TermTypes DEF VInv
<1>6. ASSUME NEW a \in Nat, NEW b \in Nat, NEW c \in Nat, NEW d \in Nat, b <= c, c <= a
      PROVE  (a - c) * d <= (a - b) * d /\ (a - b) * d \in Nat
  <2>1. PICK k \in Nat, l \in Nat : a = c + k /\ c = b + l
    <3>1. a - c \in Nat /\ a = c + (a - c) /\ c - b \in Nat /\ c = b + (c - b)
      BY <1>6
    <3> QED
      BY <3>1
  <2>2. a - c = k /\ a - b = l + k
    BY <2>1
  <2>3. (a - c) * d = k * d /\ (a - b) * d = l * d + k * d
    BY <2>2
  <2>4. l * d \in Nat /\ k * d \in Nat
    OBVIOUS
  <2> QED
    BY <2>3, <2>4
<1>7. \A o \in Orders : Bought[o] <= Bought'[o] /\ Bought'[o] \in Nat
  <2> SUFFICES ASSUME NEW o \in Orders PROVE Bought[o] <= Bought'[o] /\ Bought'[o] \in Nat
    OBVIOUS
  <2>1. /\ Bought[o] = (claimed[o] - Cardinality(Pending(o))) * orders[o].days
        /\ Bought'[o] = (claimed[o] - Cardinality(Pending(o)')) * orders[o].days
    BY <1>1 DEF Bought, Added
  <2>2. Cardinality(Pending(o)) <= claimed[o]
    BY DEF VInv
  <2> QED
    BY <1>4, <1>5, <1>6, <2>1, <2>2
<1>8. Bought' \in [Orders -> Nat]
  BY <1>7 DEF Bought
<1>9. Extra <= Extra'
  <2>1. Bought \in [Orders -> Nat]
    BY BoughtTypes DEF VInv
  <2> QED
    BY <1>7, <1>8, <2>1, TotalGrows DEF Extra
<1>10. Term' = Term /\ Term \in Nat
  BY <1>1, TermTypes DEF Term, Credit
<1>11. \A o \in Orders : IsFiniteSet(Pending(o)') /\ Cardinality(Pending(o)') <= claimed'[o]
  BY <1>1, <1>4, <1>5 DEF VInv
<1>12. \A r \in Requests : requests'[r] # requests[r] => requests'[r].step \notin {"write", "update", "record"}
  BY <1>2
<1> QED
  BY <1>1, <1>9, <1>10, <1>11, <1>12, TimeKept

\* An order that is made was never claimed.
LEMMA CreateTime ==
  ASSUME IsFiniteSet(Orders), LInv, TInv', VInv, NEW o \in Orders, NEW days \in Passes, CreateOrder(o, days)
  PROVE  VInv'
<1>0. TInv
  BY DEF LInv
<1>1. UNCHANGED <<now, user, stripe, events, requests, claimed>>
  BY DEF CreateOrder, stripes, bounds, history
<1>2. \A p \in Orders \ {o} : orders'[p] = orders[p]
  BY <1>0 DEF CreateOrder, TInv, TypeOK
<1>3. claimed[o] = 0
  BY <1>0, TermTypes DEF CreateOrder, LInv, Ledger
<1>4. ASSUME NEW p \in Orders PROVE Pending(p)' = Pending(p)
  BY <1>1 DEF Pending
<1>5. Added(o) = 0
  <2>1. Added(o) \in Nat /\ Cardinality(Pending(o)) \in Nat
    BY <1>0, BoughtTypes DEF VInv
  <2> QED
    BY <1>3, <2>1 DEF Added
<1>6. orders[o].days \in Nat /\ orders'[o].days \in Nat
  BY <1>0 DEF TInv, TypeOK, Order
<1>7. ASSUME NEW p \in Orders PROVE Bought'[p] = Bought[p]
  <2>1. Added(p)' = Added(p)
    BY <1>1, <1>4 DEF Added
  <2>2. CASE p = o
    <3>1. Bought'[p] = 0 * orders'[o].days /\ Bought[p] = 0 * orders[o].days
      BY <1>5, <2>1, <2>2 DEF Bought
    <3> QED
      BY <1>6, <3>1
  <2>3. CASE p # o
    BY <1>2, <2>1, <2>3 DEF Bought
  <2> QED
    BY <2>2, <2>3
<1>8. Bought' = Bought
  BY <1>7 DEF Bought
<1>9. Extra' = Extra /\ Term' = Term
  BY <1>1, <1>8 DEF Extra, Term, Credit
<1>10. Extra \in Nat /\ Term \in Nat
  BY <1>0, ExtraType, TermTypes
<1>11. \A p \in Orders : IsFiniteSet(Pending(p)') /\ Cardinality(Pending(p)') <= claimed'[p]
  BY <1>1, <1>4 DEF VInv
<1> QED
  BY <1>0, <1>1, <1>9, <1>10, <1>11, TimeKept

\* Stripe's subscriptions run a period from now, and one that began stays begun.
LEMMA SubscriptionTime ==
  ASSUME IsFiniteSet(Orders), TInv, TInv', VInv, NEW s \in Subs,
         OpenCheckout(s) \/ Subscribe(s) \/ \E status \in SubStatuses : ChangeSubscription(s, status)
  PROVE  VInv'
<1>1. UNCHANGED <<now, user, orders, requests, claimed>>
  BY DEF OpenCheckout, Subscribe, ChangeSubscription, account, bounds, history
<1>2. \A x \in Subs \ {s} : stripe'[x] = stripe[x]
  BY DEF OpenCheckout, Subscribe, ChangeSubscription, TInv, TypeOK
<1>3. stripe'[s].renews \in {stripe[s].renews, now + Period}
  <2>1. stripe[s] \in Subscription /\ stripe \in [Subs -> Subscription]
    BY DEF TInv, TypeOK
  <2>2. CASE OpenCheckout(s)
    BY <2>1, <2>2 DEF OpenCheckout, Subscription
  <2>3. CASE Subscribe(s)
    BY <2>1, <2>3 DEF Subscribe
  <2>4. ASSUME NEW status \in SubStatuses, ChangeSubscription(s, status)
        PROVE  stripe'[s].renews \in {stripe[s].renews, now + Period}
    <3>1. stripe' = [stripe EXCEPT ![s].status = status,
                                   ![s].renews = IF status = "active" THEN now + Period ELSE @]
      BY <2>4 DEF ChangeSubscription
    <3>2. stripe'[s].renews = IF status = "active" THEN now + Period ELSE stripe[s].renews
      BY <2>1, <3>1 DEF Subscription
    <3> QED
      BY <3>2
  <2> QED
    BY <2>2, <2>3, <2>4
<1>4. \A e \in events' : e \in events \/ e.renews = stripe'[s].renews
  <2>1. CASE OpenCheckout(s)
    BY <2>1 DEF OpenCheckout
  <2>2. ASSUME NEW type, Send(type, s) PROVE \A e \in events' : e \in events \/ e.renews = stripe'[s].renews
    <3>1. Event(type, s).renews = stripe'[s].renews
      BY DEF Event
    <3> QED
      BY <2>2, <3>1 DEF Send
  <2> QED
    BY <2>1, <2>2 DEF Subscribe, ChangeSubscription
<1>5. now \in Nat /\ Period \in Nat /\ \A x \in Subs : stripe[x].renews \in Nat
  BY Constants, TermTypes
<1>6. Credit <= Credit' /\ (stripe'[s].renews = stripe[s].renews \/ Period <= Credit')
  <2>1. CASE stripe'[s].renews = stripe[s].renews
    <3>1. \A x \in Subs : stripe'[x].renews = stripe[x].renews
      BY <1>2, <2>1
    <3>2. Credit' = Credit /\ Credit \in Nat
      BY <1>5, <3>1 DEF Credit
    <3> QED
      BY <2>1, <3>2
  <2>2. CASE stripe'[s].renews = now + Period
    <3>1. now + Period > 0 => Credit' = Period
      BY <2>2 DEF Credit
    <3>2. Credit \in {0, Period} /\ Credit' \in {0, Period}
      BY DEF Credit
    <3>3. Period # 0 => now + Period > 0
      BY <1>5
    <3>4. Credit' = Period
      BY <1>5, <3>1, <3>2, <3>3
    <3> QED
      BY <1>5, <3>2, <3>4
  <2> QED
    BY <1>3, <2>1, <2>2
<1>7. Credit \in Nat /\ Credit' \in Nat
  BY <1>5 DEF Credit
<1>8. Term <= Term' /\ stripe'[s].renews <= Term'
  <2>1. stripe[s].renews <= now + Credit
    BY DEF VInv, Term
  <2>2. Term' = now + Credit' /\ Term = now + Credit
    BY <1>1 DEF Term
  <2>3. stripe[s].renews \in Nat /\ now \in Nat /\ Period \in Nat
    BY <1>5
  <2>4. CASE stripe'[s].renews = stripe[s].renews
    <3>1. \A r, n, c, d \in Nat : r <= n + c /\ c <= d => n + c <= n + d /\ r <= n + d
      OBVIOUS
    <3>2. Credit <= Credit'
      BY <1>6
    <3>3. now + Credit <= now + Credit' /\ stripe[s].renews <= now + Credit'
      BY <1>7, <2>1, <2>3, <3>1, <3>2
    <3> QED
      BY <2>2, <2>4, <3>3
  <2>5. CASE stripe'[s].renews # stripe[s].renews
    <3>1. stripe'[s].renews = now + Period /\ Period <= Credit'
      BY <1>3, <1>6, <2>5
    <3> \A n, c, d \in Nat : c <= d => n + c <= n + d
      OBVIOUS
    <3>2. Term <= Term'
      BY <1>6, <1>7, <2>2, <2>3
    <3>3. now + Period <= now + Credit'
      BY <1>7, <2>3, <3>1
    <3> QED
      BY <2>2, <3>1, <3>2, <3>3
  <2> QED
    BY <2>4, <2>5
<1>9. Extra' = Extra /\ \A o \in Orders : Pending(o)' = Pending(o)
  BY <1>1, SameBought
<1>10. \A o \in Orders : IsFiniteSet(Pending(o)') /\ Cardinality(Pending(o)') <= claimed'[o]
  BY <1>1, <1>9 DEF VInv
<1>11. Extra \in Nat
  BY ExtraType
<1>12. Extra <= Extra'
  BY <1>9, <1>11
<1>13. \A x \in Subs : stripe'[x].renews = stripe[x].renews \/ stripe'[x].renews <= Term'
  BY <1>2, <1>8
<1>14. \A e \in events' : e \in events \/ e.renews <= Term'
  BY <1>4, <1>8
<1> QED
  BY <1>1, <1>8, <1>10, <1>12, <1>13, <1>14, TimeKept

\* The clock.
LEMMA TickTime ==
  ASSUME IsFiniteSet(Orders), TInv, TInv', VInv, Tick
  PROVE  VInv'
<1>1. now' = now + 1 /\ UNCHANGED <<user, orders, stripe, events, requests, claimed>>
  BY DEF Tick, account, stripes, history
<1>2. Extra' = Extra /\ \A o \in Orders : Pending(o)' = Pending(o)
  BY <1>1, SameBought
<1>3. Credit' = Credit /\ Credit \in Nat /\ now \in Nat
  BY <1>1, Constants, TermTypes DEF Credit
<1>4. Term <= Term'
  BY <1>1, <1>3 DEF Term
<1>5. Extra \in Nat
  BY ExtraType
<1>6. \A o \in Orders : IsFiniteSet(Pending(o)') /\ Cardinality(Pending(o)') <= claimed'[o]
  BY <1>1, <1>2 DEF VInv
<1> QED
  BY <1>1, <1>2, <1>4, <1>5, <1>6, TimeKept

\* A request that comes to hold a report.
LEMMA ReportTime ==
  ASSUME IsFiniteSet(Orders), TInv, TInv', VInv, NEW r \in Requests,
         \/ \E e \in events : ReadEvent(r, e)
         \/ \E s \in Subs : Confirm(r, s)
  PROVE  VInv'
<1>1. UNCHANGED <<now, user, orders, stripe, events, claimed>> /\ requests[r].step = "idle"
  <2>1. ASSUME NEW e \in events, ReadEvent(r, e)
        PROVE  UNCHANGED <<now, user, orders, stripe, events, claimed>> /\ Idle(r)
    <3>1. UNCHANGED <<account, razorpay, stripes, bounds, claimed, granted, reopened, broken, byHand>> /\ Idle(r)
      BY <2>1, Zenon DEF ReadEvent
    <3> QED
      BY <3>1 DEF account, stripes, bounds
  <2>2. ASSUME NEW s \in Subs, Confirm(r, s)
        PROVE  UNCHANGED <<now, user, orders, stripe, events, claimed>> /\ Idle(r)
    <3>1. UNCHANGED <<account, razorpay, stripes, now, history>> /\ Idle(r)
      BY <2>2, Zenon DEF Confirm
    <3> QED
      BY <3>1 DEF account, stripes, history
  <2> QED
    BY <2>1, <2>2 DEF Idle
<1>2. /\ requests'[r].step \in {"update", "record"} /\ requests'[r].report.renews <= Term
      /\ \A x \in Requests \ {r} : requests'[x] = requests[x]
  <2>1. ASSUME NEW e \in events, ReadEvent(r, e)
        PROVE  /\ requests'[r].step \in {"update", "record"} /\ requests'[r].report.renews <= Term
               /\ \A x \in Requests \ {r} : requests'[x] = requests[x]
    <3>1. PICK step \in {"record", "update"} :
            Begin(r, [NoRequest EXCEPT !.step = step, !.report = ReportOf(e)])
      <4>1. \/ Begin(r, [NoRequest EXCEPT !.step = "record", !.report = ReportOf(e)])
            \/ Begin(r, [NoRequest EXCEPT !.step = "update", !.report = ReportOf(e)])
        BY <2>1, Zenon DEF ReadEvent
      <4> QED
        BY <4>1
    <3>2. requests'[r].step = step /\ requests'[r].report = ReportOf(e)
      BY <3>1 DEF Begin, NoRequest, TInv, TypeOK
    <3>3. \A x \in Requests \ {r} : requests'[x] = requests[x]
      BY <3>1 DEF Begin, TInv, TypeOK
    <3>4. e.sub \in Subs
      BY DEF TInv, TypeOK, StripeEvent
    <3>5. ReportOf(e).renews \in {e.renews, stripe[e.sub].renews}
      BY DEF ReportOf
    <3>6. ReportOf(e).renews <= Term
      BY <3>4, <3>5 DEF VInv
    <3> QED
      BY <3>2, <3>3, <3>6
  <2>2. ASSUME NEW s \in Subs, Confirm(r, s)
        PROVE  /\ requests'[r].step \in {"update", "record"} /\ requests'[r].report.renews <= Term
               /\ \A x \in Requests \ {r} : requests'[x] = requests[x]
    <3> DEFINE report == [id |-> 0, sub |-> s, status |-> stripe[s].status, renews |-> stripe[s].renews]
               q == [NoRequest EXCEPT !.step = "update", !.report = report]
    <3>0. Begin(r, q)
      BY <2>2, Zenon DEF Confirm
    <3>1. requests'[r].step = "update" /\ requests'[r].report.renews = stripe[s].renews
      BY <3>0 DEF Begin, NoRequest, TInv, TypeOK
    <3>2. \A x \in Requests \ {r} : requests'[x] = requests[x]
      BY <3>0 DEF Begin, TInv, TypeOK
    <3> QED
      BY <3>1, <3>2 DEF VInv
  <2> QED
    BY <2>1, <2>2
<1> QED
  BY <1>1, <1>2, Quiet

\* What is written to the row is what a request holds.
LEMMA WriteTime ==
  ASSUME IsFiniteSet(Orders), TInv, TInv', VInv, NEW r \in Requests, WriteUser(r) \/ UpdateUser(r)
  PROVE  VInv'
<1>1. UNCHANGED <<now, orders, stripe, events, claimed>>
  BY DEF WriteUser, UpdateUser, stripes, bounds
<1>2. CASE WriteUser(r)
  <2>1. user'.renews = requests[r].renews /\ requests[r].step = "write"
    BY <1>2 DEF WriteUser, TInv, TypeOK, User
  <2>2. requests'[r].step = "idle" /\ \A x \in Requests \ {r} : requests'[x] = requests[x]
    BY <1>2 DEF WriteUser, End, Begin, NoRequest, TInv, TypeOK
  <2>3. user'.renews <= Term + Extra
    BY <2>1 DEF VInv
  <2> QED
    BY <1>1, <2>1, <2>2, <2>3, Quiet
<1>3. CASE UpdateUser(r)
  <2>1. user'.renews = requests[r].report.renews /\ requests[r].step = "update"
    BY <1>3 DEF UpdateUser, TInv, TypeOK, User
  <2>2. \/ requests'[r].step = "idle"
        \/ requests'[r].step = "record" /\ requests'[r].report = requests[r].report
    BY <1>3 DEF UpdateUser, End, Begin, Advance, NoRequest, TInv, TypeOK, Request
  <2>3. \A x \in Requests \ {r} : requests'[x] = requests[x]
    BY <1>3 DEF UpdateUser, End, Begin, Advance, TInv, TypeOK
  <2>4. requests[r].report.renews <= Term /\ requests[r].report.renews \in Nat
    BY <2>1, TermTypes DEF VInv
  <2>5. Extra \in Nat /\ Term \in Nat
    BY ExtraType, TermTypes
  <2>6. user'.renews <= Term + Extra
    BY <2>1, <2>4, <2>5
  <2> QED
    BY <1>1, <2>1, <2>2, <2>3, <2>6, Quiet
<1> QED
  BY <1>2, <1>3

\* The other steps.
LEMMA OtherTime ==
  ASSUME IsFiniteSet(Orders), TInv, TInv', VInv,
         \/ \E o \in Orders : RejectVerification(o) \/ \E amount \in {"short", "full"} : Pay(o, amount)
         \/ \E r \in Requests : ReadSession(r) \/ ExpirePlan(r) \/ RecordEvent(r)
         \/ \E plan \in {"free", "pro"} : SetPlan(plan)
         \/ UNCHANGED <<account, paid, stripes, bounds, requests, history>>
  PROVE  VInv'
<1>1. UNCHANGED <<now, stripe, events, claimed>> /\ user'.renews = user.renews
  <2>1. \/ user' = user \/ user' = [user EXCEPT !.plan = "free", !.provider = None, !.status = None]
        \/ \E plan \in {"free", "pro"} : user' = [user EXCEPT !.plan = plan]
    BY DEF RejectVerification, Pay, ReadSession, ExpirePlan, RecordEvent, SetPlan, account
  <2>2. user'.renews = user.renews
    BY <2>1 DEF TInv, TypeOK, User
  <2>3. UNCHANGED <<now, stripe, events, claimed>>
    BY DEF RejectVerification, Pay, ReadSession, ExpirePlan, RecordEvent, SetPlan, account, stripes, bounds, history
  <2> QED
    BY <2>2, <2>3
<1>2. \A o \in Orders : orders'[o].days = orders[o].days
  <2>1. ASSUME NEW o \in Orders, RejectVerification(o) PROVE \A x \in Orders : orders'[x].days = orders[x].days
    BY <2>1 DEF RejectVerification, TInv, TypeOK, Order
  <2>2. CASE orders' = orders
    BY <2>2
  <2> QED
    BY <2>1, <2>2 DEF Pay, ReadSession, ExpirePlan, RecordEvent, SetPlan, account
<1>3. \A x \in Requests : \/ requests'[x] = requests[x]
                          \/ requests[x].step # "read" /\ requests'[x].step \in {"idle", "expire"}
  <2>1. ASSUME NEW r \in Requests, ReadSession(r)
        PROVE  /\ requests[r].step = "idle" /\ requests'[r].step = "expire"
               /\ \A x \in Requests \ {r} : requests'[x] = requests[x]
    BY <2>1 DEF ReadSession, Idle, Begin, NoRequest, TInv, TypeOK
  <2>2. ASSUME NEW r \in Requests, ExpirePlan(r) \/ RecordEvent(r)
        PROVE  /\ requests[r].step \in {"expire", "record"} /\ requests'[r].step = "idle"
               /\ \A x \in Requests \ {r} : requests'[x] = requests[x]
    BY <2>2 DEF ExpirePlan, RecordEvent, End, Begin, NoRequest, TInv, TypeOK
  <2>3. ASSUME NEW r \in Requests, ReadSession(r) \/ ExpirePlan(r) \/ RecordEvent(r)
        PROVE  \A x \in Requests : \/ requests'[x] = requests[x]
                                  \/ /\ requests[x].step # "read"
                                     /\ requests'[x].step \in {"idle", "expire"}
    <3>1. /\ requests[r].step \in {"idle", "expire", "record"} /\ requests'[r].step \in {"idle", "expire"}
          /\ \A x \in Requests \ {r} : requests'[x] = requests[x]
      BY <2>1, <2>2, <2>3
    <3> QED
      BY <3>1
  <2>4. CASE requests' = requests
    BY <2>4
  <2> QED
    BY <2>3, <2>4 DEF RejectVerification, Pay, SetPlan
<1>4. user'.renews <= Term + Extra
  BY <1>1 DEF VInv
<1> QED
  BY <1>1, <1>2, <1>3, <1>4, Quiet

LEMMA VStep ==
  ASSUME IsFiniteSet(Orders), LInv, VInv, [Next]_vars
  PROVE  VInv'
<1>0. TInv /\ TInv'
  BY TStep DEF LInv
<1>1. ASSUME NEW r \in Requests, NEW o \in Orders, Verify(r, o) PROVE VInv'
  <2>1. Idle(r) /\ Claim(r, o, None) /\ UNCHANGED <<now, stripe, events>>
    BY <1>1 DEF Verify, stripes, bounds
  <2> QED
    BY <1>0, <2>1, ClaimTime
<1>2. ASSUME NEW r \in Requests, NEW o \in Orders, NEW hook \in Hooks, Webhook(r, o, hook) PROVE VInv'
  <2>1. CASE Claim(r, o, hook) /\ UNCHANGED <<razorpay, stripes, bounds>>
    <3>1. Idle(r) /\ Claim(r, o, hook) /\ UNCHANGED <<now, stripe, events>>
      BY <1>2, <2>1 DEF Webhook, stripes, bounds
    <3> QED
      BY <1>0, <3>1, ClaimTime
  <2>2. CASE UNCHANGED <<account, paid, stripes, bounds, requests, history>>
    BY <1>0, <2>2, OtherTime
  <2> QED
    BY <1>2, <2>1, <2>2 DEF Webhook
<1>3. ASSUME NEW r \in Requests, Continue(r) PROVE VInv'
  BY <1>0, <1>3, ReadTime, WriteTime, OtherTime DEF Continue
<1>4. CASE External
  BY <1>0, <1>4, TickTime, FaultTime, SubscriptionTime, OtherTime DEF External
<1>5. CASE Ask
  BY <1>0, <1>1, <1>5, CreateTime, SubscriptionTime, ReportTime, OtherTime DEF Ask
<1>6. CASE Deliver
  BY <1>0, <1>2, <1>6, ReportTime DEF Deliver
<1>7. CASE UNCHANGED vars
  BY <1>0, <1>7, OtherTime DEF vars, razorpay
<1> QED
  BY <1>3, <1>4, <1>5, <1>6, <1>7 DEF Next

\* However passes and subscriptions are bought and their requests interleave, the plan runs no further than the days
\* of the orders that were paid in full, each once, and once more for each time that a refused verification reopened it,
\* and a period of Stripe's: for any number of orders, each with its own days.
THEOREM NoTimeForFree == IsFiniteSet(Orders) => (Spec => []TimeIsPaidFor)
<1> SUFFICES ASSUME IsFiniteSet(Orders) PROVE Spec => []TimeIsPaidFor
  OBVIOUS
<1>1. Init => VInv
  <2> SUFFICES ASSUME Init PROVE VInv
    OBVIOUS
  <2>1. ASSUME NEW o \in Orders PROVE Pending(o) = {}
    BY <2>1 DEF Init, Pending, NoRequest
  <2>2. TInv
    BY TInit
  <2>3. \A o \in Orders : IsFiniteSet(Pending(o)) /\ Cardinality(Pending(o)) <= claimed[o]
    <3>1. IsFiniteSet({}) /\ Cardinality({}) = 0
      BY FS_EmptySet
    <3>2. \A o \in Orders : claimed[o] = 0
      BY DEF Init
    <3> QED
      BY <2>1, <3>1, <3>2
  <2>4. Bought \in [Orders -> Nat]
    BY <2>2, <2>3, BoughtTypes
  <2>5. Extra \in Nat
    <3>1. Orders \in SUBSET Orders
      OBVIOUS
    <3> QED
      BY <2>4, <3>1, SumIsNat DEF Extra, Total
  <2>6. Term \in Nat
    BY <2>2, TermTypes
  <2>7. 0 <= Term /\ 0 <= Term + Extra
    BY <2>5, <2>6
  <2>8. user.renews = 0 /\ \A s \in Subs : stripe[s].renews = 0
    BY DEF Init
  <2>9. events = {} /\ \A r \in Requests : requests[r].step = "idle"
    BY DEF Init, NoRequest
  <2> QED
    BY <2>3, <2>7, <2>8, <2>9 DEF VInv
<1>2. LInv /\ VInv => TimeIsPaidFor
  <2> SUFFICES ASSUME LInv, VInv PROVE TimeIsPaidFor
    OBVIOUS
  <2>0. TInv
    BY DEF LInv
  <2> DEFINE All == [o \in Orders |-> IF paid[o] = "full" THEN (1 + reopened[o]) * orders[o].days ELSE 0]
  <2>1. \A o \in Orders : /\ claimed[o] \in Nat /\ orders[o].days \in Nat /\ Cardinality(Pending(o)) \in Nat
                          /\ reopened[o] \in Nat /\ Cardinality(Pending(o)) <= claimed[o]
    BY <2>0, TermTypes, BoughtTypes, LedgerTypes DEF VInv
  <2>2. ASSUME NEW a \in Nat, NEW c \in Nat, NEW d \in Nat, NEW n \in Nat, c <= a, a <= n
        PROVE  (a - c) * d <= n * d /\ n * d \in Nat
    <3>1. PICK k \in Nat, l \in Nat : a = c + k /\ n = a + l
      <4>1. a - c \in Nat /\ a = c + (a - c) /\ n - a \in Nat /\ n = a + (n - a)
        BY <2>2
      <4> QED
        BY <4>1
    <3>2. a - c = k /\ n = (c + l) + k
      BY <3>1
    <3>3. (a - c) * d = k * d /\ n * d = (c + l) * d + k * d
      BY <3>2
    <3>4. (c + l) * d \in Nat /\ k * d \in Nat
      OBVIOUS
    <3> QED
      BY <3>3, <3>4
  <2>3. \A o \in Orders : Bought[o] <= All[o] /\ All[o] \in Nat
    <3> SUFFICES ASSUME NEW o \in Orders PROVE Bought[o] <= All[o] /\ All[o] \in Nat
      OBVIOUS
    <3>1. Bought[o] = (claimed[o] - Cardinality(Pending(o))) * orders[o].days
      BY DEF Bought, Added
    <3>2. claimed[o] <= 1 + reopened[o] /\ (claimed[o] > 0 => paid[o] = "full")
      BY DEF LInv, Ledger
    <3>3. CASE paid[o] = "full"
      <4>1. 1 + reopened[o] \in Nat
        BY <2>1
      <4>2. All[o] = (1 + reopened[o]) * orders[o].days
        BY <3>3
      <4>3. PICK n \in Nat : n = 1 + reopened[o]
        BY <4>1
      <4>4. claimed[o] <= n /\ All[o] = n * orders[o].days
        BY <3>2, <4>2, <4>3
      <4>5. /\ (claimed[o] - Cardinality(Pending(o))) * orders[o].days <= n * orders[o].days
            /\ n * orders[o].days \in Nat
        BY <2>1, <2>2, <4>4
      <4> QED
        BY <3>1, <4>4, <4>5
    <3>4. CASE paid[o] # "full"
      <4>1. claimed[o] = 0 /\ Cardinality(Pending(o)) = 0
        BY <2>1, <3>2, <3>4
      <4>2. Bought[o] = 0 * orders[o].days
        BY <3>1, <4>1
      <4>3. Bought[o] = 0
        BY <2>1, <4>2
      <4> QED
        BY <3>4, <4>3
    <3> QED
      BY <3>3, <3>4
  <2>4. All \in [Orders -> Nat] /\ Bought \in [Orders -> Nat]
    BY <2>0, <2>3, BoughtTypes DEF VInv
  <2>5. Extra <= Total(All)
    BY <2>3, <2>4, TotalGrows DEF Extra
  <2>6. \A o \in Orders : All[o] = IF paid[o] = "full" THEN (1 + reopened[o]) * orders[o].days ELSE 0
    OBVIOUS
  <2> HIDE DEF All
  <2>7. MapThenSumSet(LAMBDA o : IF paid[o] = "full" THEN (1 + reopened[o]) * orders[o].days ELSE 0, Orders) = Total(All)
    BY <2>4, <2>6, FoldIsTotal, Zenon
  <2>8. Total(All) \in Nat
    <3>1. Orders \in SUBSET Orders
      OBVIOUS
    <3> QED
      BY <2>4, <3>1, SumIsNat DEF Total
  <2>9. user.renews <= (now + Credit) + Extra /\ user.renews \in Nat /\ now \in Nat /\ Credit \in Nat /\ Extra \in Nat
    BY <2>0, TermTypes, ExtraType, Constants DEF VInv, Term, Credit
  <2>10. user.renews <= now + Total(All) + Credit
    BY <2>5, <2>8, <2>9
  <2> QED
    BY <2>7, <2>10, Zenon DEF TimeIsPaidFor, Credit
<1> QED
  BY <1>1, <1>2, VStep, BillingTypes, LedgerHolds, PTL DEF Spec

=============================================================================
