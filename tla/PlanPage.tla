------------------------------- MODULE PlanPage -------------------------------
(***************************************************************************)
(* The billing page (app/billing/page.tsx): the plan it shows, the wait    *)
(* for Stripe's word after a checkout, and the promo code that a link, the *)
(* browser's storage or the person brings, with the price that is shown    *)
(* for it and the order that a payment is collected for.                   *)
(*                                                                         *)
(* One tab; others of the browser share its storage.  How the account's    *)
(* plan changes is in Billing, codes and Razorpay's window in Checkout:    *)
(* here they happen.  No code of this repository writes paymentProvider    *)
(* "stripe", so passes are always for sale.                                *)
(***************************************************************************)
EXTENDS Naturals, FiniteSets

CONSTANTS
  Codes,
  MaxTicks,   \* ticks under way at once (bound)
  MaxVisits, MaxPays,
  MaxFaults   \* answers that are lost, or uses of the storage by another tab (bound)

VARIABLES
  plan,       \* the account's
  stripe,     \* the checkout: "none", "open" or "paid"
  usable,     \* the codes that findUsable takes
  saved,      \* localStorage: PROMO_KEY, "" when there is none
  page,
  order,      \* the order that is made or open in Razorpay's window: its code, and the price that the page showed
  calls,
  visits, pays, faults,
  \* history, read by no action
  mixed       \* two previews were under way at once, or another tab used the storage

server  == <<plan, stripe, usable>>
bounds  == <<visits, pays, faults>>
state   == <<server, saved, page, order, calls, bounds, mixed>>

NoOrder == [at |-> "none", code |-> "", price |-> ""]
Closed  == [open |-> FALSE, shown |-> "none", promo |-> "", checking |-> FALSE, confirming |-> FALSE, welcome |-> FALSE]
Call(kind, code, form) == [kind |-> kind, code |-> code, form |-> form, nr |-> 0, done |-> FALSE, got |-> ""]

Of(kind) == {c \in calls : c.kind = kind}
Fault == faults < MaxFaults /\ faults' = faults + 1

Init ==
  /\ plan \in {"free", "pro"} /\ stripe \in {"none", "open"} /\ usable = Codes
  /\ saved \in Codes \cup {""}
  /\ page = Closed /\ order = NoOrder /\ calls = {}
  /\ visits = 0 /\ pays = 0 /\ faults = 0
  /\ mixed = FALSE

-----------------------------------------------------------------------------
(* The server *)

\* Stripe takes the payment; its webhook, which may not be configured, applies it.
AtStripe ==
  /\ \/ stripe = "open" /\ stripe' = "paid" /\ UNCHANGED plan
     \/ stripe = "paid" /\ plan' = "pro" /\ UNCHANGED stripe
  /\ UNCHANGED <<usable, saved, page, order, calls, bounds, mixed>>

\* A code ends: its time, its uses, or an admin.
Ends(code) ==
  /\ code \in usable /\ usable' = usable \ {code}
  /\ UNCHANGED <<plan, stripe, saved, page, order, calls, bounds, mixed>>

Answers(c, got) == (calls \ {c}) \cup {[c EXCEPT !.done = TRUE, !.got = got]}

\* status, and confirm, which applies what Stripe says first
ReadPlan(c) ==
  /\ c \in calls /\ ~c.done /\ c.kind \in {"load", "confirm"}
  /\ plan' = IF c.kind = "confirm" /\ stripe = "paid" THEN "pro" ELSE plan
  /\ calls' = Answers(c, plan')
  /\ UNCHANGED <<stripe, usable, saved, page, order, bounds, mixed>>

Preview(c) ==
  /\ c \in calls /\ ~c.done /\ c.kind = "preview"
  /\ calls' = Answers(c, IF c.code \in usable THEN "valid" ELSE "invalid")
  /\ UNCHANGED <<server, saved, page, order, bounds, mixed>>

\* Mutant: a code that cannot be used any more costs the full price.
PricedAnyhow(code) == [order EXCEPT !.at = "window", !.code = IF code \in usable THEN code ELSE ""]

\* priceFor: the code is looked up again, and refuses the order if it cannot be used.
Priced(code) ==
  IF code = "" \/ code \in usable THEN [order EXCEPT !.at = "window"] ELSE NoOrder

\* createOrder; its answer opens the window.
CreateOrder ==
  /\ order.at = "asked"
  /\ order' = Priced(order.code)
  /\ UNCHANGED <<server, saved, page, calls, bounds, mixed>>

-----------------------------------------------------------------------------
(* The page *)

\* Nothing before the plan is read; then the plan's card, and the passes: the code and its percentage make the price.
ForSale == page.shown # "none"
Card    == [current |-> page.shown, price |-> page.promo]

\* The effect of the first render.  A code in the link goes before one in storage, and is announced.
Visit(linked, back) ==
  /\ visits < MaxVisits /\ visits' = visits + 1 /\ (back => stripe # "none")
  /\ page' = [Closed EXCEPT !.open = TRUE, !.confirming = back]
  /\ LET code == IF linked # "" THEN linked ELSE saved
     IN calls' = {Call("load", "", FALSE)} \cup IF code = "" THEN {} ELSE {Call("preview", code, FALSE)}
  /\ order' = NoOrder /\ mixed' = FALSE
  /\ UNCHANGED <<server, saved, pays, faults>>

Loaded(c) ==
  /\ c \in calls /\ c.done /\ c.kind = "load"
  /\ page' = [page EXCEPT !.shown = c.got]
  /\ calls' = calls \ {c}
  /\ UNCHANGED <<server, saved, order, bounds, mixed>>

\* The interval: it does not wait for the answer of the last tick.
Tick(n) ==
  /\ page.confirming /\ \A c \in Of("confirm") : c.nr # n
  /\ calls' = calls \cup {[Call("confirm", "", FALSE) EXCEPT !.nr = n]}
  /\ UNCHANGED <<server, saved, page, order, bounds, mixed>>

\* An answer without Pro: the interval ends with the 30th, which may be this one.
GivesUp(shown) == page' \in {[page EXCEPT !.shown = shown], [page EXCEPT !.shown = shown, !.confirming = FALSE]}

\* Mutant: the return from the checkout is thanked for, whatever Stripe says.
AnyPlan(c) == TRUE

IsPro(c) == c.got = "pro"

Confirmed(c) ==
  /\ c \in calls /\ c.done /\ c.kind = "confirm"
  /\ IF IsPro(c)
       THEN /\ page' = [page EXCEPT !.shown = c.got, !.confirming = FALSE, !.welcome = TRUE]
            /\ saved' = "" /\ calls' = (calls \ {c}) \cup {Call("load", "", FALSE)}
       ELSE /\ GivesUp(c.got)
            /\ calls' = calls \ {c} /\ UNCHANGED saved
  /\ UNCHANGED <<server, order, bounds, mixed>>

\* A code is typed, while none is shown.
Apply(code) ==
  /\ ForSale /\ page.promo = "" /\ ~page.checking
  /\ page' = [page EXCEPT !.checking = TRUE]
  /\ calls' = calls \cup {Call("preview", code, TRUE)}
  /\ mixed' = (mixed \/ Of("preview") # {})
  /\ UNCHANGED <<server, saved, order, bounds>>

\* Mutant: a code that is refused stays where it was saved.
KeepsRefused(c) == IF c.got = "valid" THEN c.code ELSE saved

Saves(c) == IF c.got = "valid" THEN c.code ELSE ""

\* applyPromo
Previewed(c) ==
  /\ c \in calls /\ c.done /\ c.kind = "preview"
  /\ page' = [page EXCEPT !.promo = IF c.got = "valid" THEN c.code ELSE @, !.checking = @ /\ ~c.form]
  /\ saved' = Saves(c)
  /\ calls' = calls \ {c}
  /\ UNCHANGED <<server, order, bounds, mixed>>

Remove ==
  /\ ForSale /\ page.promo # ""
  /\ page' = [page EXCEPT !.promo = ""] /\ saved' = ""
  /\ UNCHANGED <<server, order, calls, bounds, mixed>>

\* pay: the order is asked for with the code that is shown.
Pay ==
  /\ ForSale /\ order.at = "none"
  /\ pays < MaxPays /\ pays' = pays + 1
  /\ order' = [at |-> "asked", code |-> page.promo, price |-> Card.price]
  /\ UNCHANGED <<server, saved, page, calls, visits, faults, mixed>>

\* Paid in the window and verified, which loads the page again; or dismissed.
InWindow ==
  /\ order.at = "window" /\ order' = NoOrder
  /\ \/ plan' = "pro" /\ calls' = calls \cup {Call("load", "", FALSE)}
     \/ UNCHANGED <<plan, calls>>
  /\ UNCHANGED <<stripe, usable, saved, page, bounds, mixed>>

\* Another tab applies a code or removes one.
Elsewhere ==
  /\ Fault
  /\ saved' \in usable \cup {""} /\ mixed' = TRUE
  /\ UNCHANGED <<server, page, order, calls, visits, pays>>

\* A preview that fails is a code that is refused; a tick that fails counts.
Lost(c) ==
  /\ c \in calls /\ Fault
  /\ calls' = calls \ {c}
  /\ saved' = IF c.kind = "preview" THEN "" ELSE saved
  /\ IF c.kind = "confirm" THEN GivesUp(page.shown) ELSE page' = [page EXCEPT !.checking = @ /\ ~c.form]
  /\ UNCHANGED <<server, order, visits, pays, mixed>>

Next ==
  \/ AtStripe \/ CreateOrder \/ Remove \/ Pay \/ InWindow \/ Elsewhere
  \/ \E n \in 1..MaxTicks : Tick(n)
  \/ \E code \in Codes : Ends(code) \/ Apply(code)
  \/ \E linked \in Codes \cup {""}, back \in BOOLEAN : Visit(linked, back)
  \/ \E c \in calls : ReadPlan(c) \/ Preview(c) \/ Loaded(c) \/ Confirmed(c) \/ Previewed(c) \/ Lost(c)

Spec == Init /\ [][Next]_state

-----------------------------------------------------------------------------
(* Properties *)

TypeOK ==
  /\ plan \in {"free", "pro"} /\ stripe \in {"none", "open", "paid"} /\ usable \subseteq Codes
  /\ saved \in Codes \cup {""} /\ page.promo \in Codes \cup {""} /\ page.shown \in {"none", "free", "pro"}

\* The billing page: a payment is collected at the price that was shown when it was asked for, or not at all, whatever
\* becomes of the code; the person is welcomed to Pro only on an account that is Pro; and the code that is saved for the
\* next visit is the one that is shown, unless the previews of two codes crossed, another tab used the storage, or a
\* checkout has used the code up.
PriceIsKept ==
  /\ order.at = "window" => order.code = order.price
  /\ page.welcome => plan = "pro"
  /\ page.open /\ Of("preview") = {} /\ ~mixed => saved = page.promo \/ (page.welcome /\ saved = "")

=============================================================================
