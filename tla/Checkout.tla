------------------------------ MODULE Checkout ------------------------------
(***************************************************************************)
(* How a pass is bought at a discount: PromoCodes, with the copy of a code *)
(* that is kept at Stripe for its own checkout; RazorpayService.createOrder*)
(* and the billing page (page.tsx, PassCheckout.tsx) that opens Razorpay's *)
(* window on the order.  What a payment does to the account is in Billing. *)
(*                                                                         *)
(* One promo code, one browser.  Razorpay, Stripe and the script that      *)
(* Razorpay's window comes from are external.                              *)
(***************************************************************************)
EXTENDS Naturals, FiniteSets

CONSTANTS
  Admins,      \* requests of admins that are served at once
  Orders,      \* orders the browser may ask for (bound)
  MaxUses,     \* the code's maxRedemptions
  MaxFaults    \* failed calls and deaths of the api (bound)

VARIABLES
  row,         \* the promo_codes row: "none", "active" or "inactive"
  copy,        \* the request whose promotion's id the row has, if there is a row
  expired,     \* the code's time is over
  mirror,      \* Stripe: what each admin request made there, and how often it was redeemed
  admin,       \* what each admin request does next
  order,       \* each order: where it is, and whether it is at the discount
  page,        \* the billing page: the code it shows, its step, the order and its button
  script,      \* the script element: "absent", "loading", "loaded" or "broken"
  faults,
  torn,        \* history: a call of an admin request failed with its effect unknown or outstanding, or an api died in one
  crossed,     \* history: requests whose row was refused, after Stripe had taken their code
  stale        \* history: the page asked again for a script that had failed to load

promos   == <<row, copy, expired>>
browser  == <<page, script, stale>>
history  == <<torn, crossed>>
state    == <<promos, mirror, admin, order, browser, faults, history>>

NoOrder  == [at |-> "none", discount |-> FALSE]
NoMirror == [coupon |-> FALSE, code |-> "none", uses |-> 0]
Closed   == [promo |-> FALSE, busy |-> FALSE, step |-> "idle", order |-> 0, loading |-> FALSE]

Init ==
  /\ row = "none" /\ copy = {} /\ expired = FALSE
  /\ mirror = [a \in Admins |-> NoMirror]
  /\ admin = [a \in Admins |-> "idle"]
  /\ order = [o \in Orders |-> NoOrder]
  /\ page = Closed /\ script = "absent"
  /\ faults = 0 /\ torn = FALSE /\ crossed = {} /\ stale = FALSE

Fault == faults < MaxFaults /\ faults' = faults + 1

-----------------------------------------------------------------------------
(* Promo codes *)

\* redemptions: paid passes here, and Stripe's own count of the promotion that the row names
Redeemed(a) == Cardinality({o \in Orders : order[o].at = "paid" /\ order[o].discount}) + mirror[a].uses

\* findUsable
Usable == row = "active" /\ ~expired /\ \A a \in copy : Redeemed(a) < MaxUses

Goto(a, step) == admin' = [admin EXCEPT ![a] = step]

\* Stripe refuses a code that is active there already.
Taken == \E a \in Admins : mirror[a].code = "active"

\* create, once the code is found to be free.  Bound: a request makes one code.
Create(a) ==
  /\ admin[a] = "idle" /\ row = "none" /\ mirror[a] = NoMirror
  /\ Goto(a, "coupon")
  /\ UNCHANGED <<promos, mirror, order, browser, faults, history>>

\* mirrorToStripe
CreateCoupon(a) ==
  /\ admin[a] = "coupon"
  /\ mirror' = [mirror EXCEPT ![a].coupon = TRUE]
  /\ Goto(a, "promotion")
  /\ UNCHANGED <<promos, order, browser, faults, history>>

\* The request fails; nobody looks for a coupon that was made all the same.
CouponFails(a) ==
  /\ admin[a] = "coupon"
  /\ Fault
  /\ \/ UNCHANGED <<mirror, torn>>
     \/ mirror' = [mirror EXCEPT ![a].coupon = TRUE] /\ torn' = TRUE
  /\ Goto(a, "idle")
  /\ UNCHANGED <<promos, order, browser, crossed>>

\* Mutant: the coupon of a code that was refused is left there.
CreatePromotionOnly(a) ==
  /\ admin[a] = "promotion"
  /\ IF Taken THEN Goto(a, "idle") /\ UNCHANGED mirror
             ELSE Goto(a, "insert") /\ mirror' = [mirror EXCEPT ![a].code = "active"]
  /\ UNCHANGED <<promos, order, browser, faults, history>>

CreatePromotion(a) ==
  /\ admin[a] = "promotion"
  /\ IF Taken THEN Goto(a, "undo") /\ UNCHANGED mirror
             ELSE Goto(a, "insert") /\ mirror' = [mirror EXCEPT ![a].code = "active"]
  /\ UNCHANGED <<promos, order, browser, faults, history>>

\* Whatever else fails there ends in the same catch, also an answer that is lost.
PromotionFails(a) ==
  /\ admin[a] = "promotion"
  /\ Fault
  /\ \/ UNCHANGED <<mirror, torn>>
     \/ ~Taken /\ mirror' = [mirror EXCEPT ![a].code = "active"] /\ torn' = TRUE
  /\ Goto(a, "undo")
  /\ UNCHANGED <<promos, order, browser, crossed>>

\* The catch of mirrorToStripe, and the answer that Stripe refused the code.
DeleteCoupon(a) ==
  /\ admin[a] = "undo"
  /\ mirror' = [mirror EXCEPT ![a].coupon = FALSE]
  /\ Goto(a, "idle")
  /\ UNCHANGED <<promos, order, browser, faults, history>>

\* The code is unique: a second row is refused, and nothing is taken back at Stripe.
InsertRow(a) ==
  /\ admin[a] = "insert"
  /\ row' = IF row = "none" THEN "active" ELSE row
  /\ copy' = IF row = "none" THEN {a} ELSE copy
  /\ crossed' = IF row = "none" THEN crossed ELSE crossed \cup {a}
  /\ Goto(a, "idle")
  /\ UNCHANGED <<expired, mirror, order, browser, faults, torn>>

\* deactivate: at Stripe first, the promotion whose id the row has ...
Deactivate(a) ==
  /\ admin[a] = "idle" /\ row # "none"
  /\ mirror' = [b \in Admins |-> IF b \in copy THEN [mirror[b] EXCEPT !.code = "inactive"] ELSE mirror[b]]
  /\ Goto(a, "deactivate")
  /\ UNCHANGED <<promos, order, browser, faults, history>>

\* ... whose refusal is swallowed ...
DeactivateFails(a) ==
  /\ admin[a] = "idle" /\ row # "none"
  /\ Fault
  /\ torn' = TRUE
  /\ Goto(a, "deactivate")
  /\ UNCHANGED <<promos, mirror, order, browser, crossed>>

\* ... then here.
DeactivateRow(a) ==
  /\ admin[a] = "deactivate"
  /\ row' = "inactive"
  /\ Goto(a, "idle")
  /\ UNCHANGED <<copy, expired, mirror, order, browser, faults, history>>

\* The coupon's deletion fails, which is swallowed; a statement on the row fails; or the api dies at any step.
AdminFails(a) ==
  /\ admin[a] # "idle"
  /\ Fault
  /\ torn' = TRUE
  /\ Goto(a, "idle")
  /\ UNCHANGED <<promos, mirror, order, browser, crossed>>

\* Plinth's copy of the expiry and Stripe's come to the same time.
Expire ==
  /\ row # "none" /\ ~expired
  /\ expired' = TRUE
  /\ UNCHANGED <<row, copy, mirror, admin, order, browser, faults, history>>

\* Stripe's own checkout takes any code that is typed there; it counts only its own uses.
RedeemAtStripe(a) ==
  /\ mirror[a].code = "active" /\ ~expired /\ mirror[a].uses < MaxUses
  /\ mirror' = [mirror EXCEPT ![a].uses = @ + 1]
  /\ UNCHANGED <<promos, admin, order, browser, faults, history>>

-----------------------------------------------------------------------------
(* The billing page *)

\* applyPromo, from a link, the last visit or the box
ApplyPromo ==
  /\ page.step = "idle" /\ ~page.promo
  /\ Usable
  /\ page' = [page EXCEPT !.promo = TRUE]
  /\ UNCHANGED <<promos, mirror, admin, order, script, stale, faults, history>>

RemovePromo ==
  /\ page.step = "idle" /\ page.promo
  /\ page' = [page EXCEPT !.promo = FALSE]
  /\ UNCHANGED <<promos, mirror, admin, order, script, stale, faults, history>>

\* pay: the order and the script are asked for together.  An element that is there is waited for,
\* though what it was loading may have failed long ago.
Pay(o) ==
  /\ ~page.busy /\ page.step = "idle"
  /\ order[o].at \in {"none", "refused"}
  /\ order' = [order EXCEPT ![o] = [at |-> "asked", discount |-> page.promo]]
  /\ page' = [page EXCEPT !.busy = TRUE, !.step = "ordering", !.order = o, !.loading = (script # "loaded")]
  /\ script' = IF script = "absent" THEN "loading" ELSE script
  /\ stale' = (stale \/ script = "broken")
  /\ UNCHANGED <<promos, mirror, admin, faults, history>>

\* priceFor: a code that cannot be used any more fails the order, it is not left out.
Price(o) ==
  /\ order[o].at = "asked"
  /\ order' = [order EXCEPT ![o].at = IF order[o].discount /\ ~Usable THEN "refused" ELSE "priced"]
  /\ UNCHANGED <<promos, mirror, admin, browser, faults, history>>

\* call("/orders"), which answers or times out
CreateAtRazorpay(o) ==
  /\ order[o].at = "priced"
  /\ order' = [order EXCEPT ![o].at = "razorpay"]
  /\ UNCHANGED <<promos, mirror, admin, browser, faults, history>>

RecordOrder(o) ==
  /\ order[o].at = "razorpay"
  /\ order' = [order EXCEPT ![o].at = "created"]
  /\ UNCHANGED <<promos, mirror, admin, browser, faults, history>>

OrderFails(o) ==
  /\ order[o].at \in {"asked", "priced", "razorpay"}
  /\ Fault
  /\ order' = [order EXCEPT ![o].at = "refused"]
  /\ UNCHANGED <<promos, mirror, admin, browser, history>>

ScriptLoads ==
  /\ script = "loading"
  /\ script' = "loaded"
  /\ page' = [page EXCEPT !.loading = FALSE]
  /\ UNCHANGED <<promos, mirror, admin, order, stale, faults, history>>

GiveUp == page' = [page EXCEPT !.busy = FALSE, !.step = "idle", !.order = 0, !.loading = FALSE]

\* Mutant: nobody listens for the error.
ScriptBreaksUnheard ==
  /\ script = "loading"
  /\ Fault
  /\ script' = "broken"
  /\ UNCHANGED <<promos, mirror, admin, order, page, stale, history>>

\* The promise that waits for it is rejected, and with it the payment.
ScriptBreaks ==
  /\ script = "loading"
  /\ Fault
  /\ script' = "broken"
  /\ IF page.loading THEN GiveUp ELSE UNCHANGED page
  /\ UNCHANGED <<promos, mirror, admin, order, stale, history>>

OrderRefused ==
  /\ page.step = "ordering" /\ order[page.order].at = "refused"
  /\ GiveUp
  /\ UNCHANGED <<promos, mirror, admin, order, script, stale, faults, history>>

OpenWindow ==
  /\ page.step = "ordering" /\ order[page.order].at = "created" /\ ~page.loading
  /\ page' = [page EXCEPT !.step = "window"]
  /\ UNCHANGED <<promos, mirror, admin, order, script, stale, faults, history>>

Dismiss ==
  /\ page.step = "window"
  /\ GiveUp
  /\ UNCHANGED <<promos, mirror, admin, order, script, stale, faults, history>>

\* payment.failed: the button is free again, the window stays and can be paid in.
PaymentFails ==
  /\ page.step = "window" /\ page.busy
  /\ page' = [page EXCEPT !.busy = FALSE]
  /\ UNCHANGED <<promos, mirror, admin, order, script, stale, faults, history>>

PayInWindow ==
  /\ page.step = "window"
  /\ order' = [order EXCEPT ![page.order].at = "captured"]
  /\ page' = [page EXCEPT !.step = "verifying"]
  /\ UNCHANGED <<promos, mirror, admin, script, stale, faults, history>>

\* The verification, or a webhook, settles the order: see Billing.
Settle(o) ==
  /\ order[o].at = "captured"
  /\ order' = [order EXCEPT ![o].at = "paid"]
  /\ UNCHANGED <<promos, mirror, admin, browser, faults, history>>

\* verifyRazorpay answers, or fails: the button is free either way.
Verified ==
  /\ page.step = "verifying"
  /\ GiveUp
  /\ UNCHANGED <<promos, mirror, admin, order, script, stale, faults, history>>

\* A reload: the script goes with the page, the code comes back from the browser's storage.
Reload ==
  /\ Fault
  /\ page' = [Closed EXCEPT !.promo = page.promo /\ Usable]
  /\ script' = "absent" /\ stale' = FALSE
  /\ UNCHANGED <<promos, mirror, admin, order, history>>

Next ==
  \/ \E a \in Admins : Create(a) \/ CreateCoupon(a) \/ CouponFails(a) \/ CreatePromotion(a) \/ PromotionFails(a) \/ DeleteCoupon(a)
                       \/ InsertRow(a) \/ RedeemAtStripe(a) \/ Deactivate(a) \/ DeactivateFails(a) \/ DeactivateRow(a) \/ AdminFails(a)
  \/ Expire \/ ApplyPromo \/ RemovePromo
  \/ \E o \in Orders : Pay(o) \/ Price(o) \/ CreateAtRazorpay(o) \/ RecordOrder(o) \/ OrderFails(o) \/ Settle(o)
  \/ ScriptLoads \/ ScriptBreaks \/ OrderRefused \/ OpenWindow \/ Verified \/ Dismiss \/ PaymentFails \/ PayInWindow \/ Reload

Spec == Init /\ [][Next]_state

-----------------------------------------------------------------------------
(* Properties *)

TypeOK ==
  /\ row \in {"none", "active", "inactive"} /\ (copy = {} <=> row = "none")
  /\ \A a \in Admins : mirror[a].code \in {"none", "active", "inactive"}
  /\ page.order \in Orders \cup {0}
  /\ page.loading => page.step = "ordering" /\ script # "loaded"
  /\ page.step \in {"window", "verifying"} => order[page.order].at \in {"created", "captured", "paid"}

\* create, mirrorToStripe, deactivate: however the requests of two admins cross, a code that works here has one coupon
\* and one promotion at Stripe, which works too; one that was switched off here works there no more; and no coupon is
\* left that no row names.  Two things are excepted.  A request that was cut short, or whose failure was swallowed.
\* And, behind a code that is off: what a second creation made, which found the code free here before the first had
\* its row, and at Stripe after that was switched off.  Its row is refused, its coupon and promotion stay.
StripeFollows ==
  (\A a \in Admins : admin[a] = "idle") /\ ~torn =>
    /\ row = "active" => \A a \in Admins : /\ mirror[a].code = "active" <=> a \in copy
                                          /\ mirror[a].coupon <=> a \in copy
    /\ \A a \in copy : mirror[a].code = "active" => row = "active"
    /\ \A a \in Admins : mirror[a].coupon \/ mirror[a].code = "active" => a \in copy \cup crossed

\* pay, loadCheckout: a click on the button waits for nothing that is not still to come, an answer about its order
\* or the end of the script's load; unless the page had failed to load the script before, as that element never
\* reports again.
PayAnswers ==
  page.step = "ordering" /\ ~stale =>
    /\ order[page.order].at \in {"asked", "priced", "razorpay", "created", "refused"}
    /\ page.loading => script = "loading"

=============================================================================
