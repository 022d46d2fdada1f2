--------------------------- MODULE ProductProofs ----------------------------
(***************************************************************************)
(* What accounts, payments, installing and the keys promise, for every     *)
(* number of tabs, visits, orders, packages, keys, jobs and faults:        *)
(*   ConsentAlwaysGiven   consent that is recorded was given (Accounts)    *)
(*   StripeAlwaysFollows  a promo code and its copy at Stripe (Checkout)   *)
(*   PayAlwaysKept        the checkout answers, at the price that was      *)
(*                        shown (Checkout and PlanPage)                    *)
(*   CodeStaysWhole       what is installed is whole (Integrations)        *)
(*   PagesAlwaysFind      pages find their packages (LiveTree)             *)
(*   KeysAlwaysFollow     keys reach where they are used (Credentials)     *)
(* A section takes one component, under the names of its variables: an     *)
(* inductive invariant, a lemma for every step, and the theorem; that the  *)
(* component runs alone in MCProduct carries it over to ProductSpec.       *)
(***************************************************************************)
EXTENDS MCProduct, FiniteSetTheorems, TLAPS

-----------------------------------------------------------------------------
(* Accounts *)

current == v1
confirming == v2
signup == v3
link == v4
account == v5
session == v6
oauth == v7
tabs == v8
switches == v9
ticked == v10
blind == v11

USE DEF current, confirming, signup, link, account, session, oauth, tabs, switches, ticked, blind

AccountPages == [at : {"form", "accept", "app", "suspended", "github"}, told : Nat, agreed : BOOLEAN]
AccountRows  == [is : {"none", "active", "suspended"}, terms : Nat]

\* The versions that may be recorded.
Given == {0} \cup ticked \cup blind

AccountTyped ==
  /\ current \in Nat \ {0}
  /\ signup \in [is : {"none", "unconfirmed", "confirmed"}, terms : Nat]
  /\ account \in [A!Kinds -> AccountRows]
  /\ session \in A!Kinds \cup {"none"}
  /\ oauth \in [tab : Tabs \cup {"none"}, terms : Nat]
  /\ tabs \in [Tabs -> AccountPages]

(***************************************************************************)
(* The inductive invariant: consent on its way to an account, in a page, a *)
(* cookie or the metadata of a sign-up, was given as well.                 *)
(***************************************************************************)
OnItsWay ==
  /\ signup.terms \in Given
  /\ oauth.terms \in {0} \cup ticked
  /\ \A t \in Tabs : tabs[t].agreed => tabs[t].told \in {0} \cup ticked

AccountInv == AccountTyped /\ OnItsWay /\ A!ConsentIsGiven

LEMMA AccountStarts == A!Init => AccountInv
BY DEF A!Init, AccountInv, AccountTyped, OnItsWay, A!ConsentIsGiven, Given, A!NoAccount, A!Form, A!NoTrip, AccountRows, AccountPages, A!Kinds

\* Nothing that was given is forgotten.
LEMMA GivenGrows == [A!Next]_(A!state) => ticked \subseteq ticked' /\ blind \subseteq blind'
BY DEF A!Next, A!state, A!browser, A!NewTerms, A!LinkLapses, A!CookiesLapse, A!Learn, A!Tick, A!Reload, A!Register, A!Resend, A!Confirm, A!Login,
       A!GithubStart, A!GithubReturn, A!GithubFails, A!Call, A!Accept, A!Logout, A!Suspend

\* A page that is shown anew has an empty box.
LEMMA ShowFits ==
  ASSUME AccountTyped, OnItsWay, ticked \subseteq ticked', NEW t \in Tabs,
         NEW page \in {"form", "accept", "app", "suspended", "github"}, A!Show(t, page)
  PROVE  /\ tabs' \in [Tabs -> AccountPages]
         /\ \A s \in Tabs : tabs'[s].agreed => tabs'[s].told \in {0} \cup ticked'
<1>1. [A!Form EXCEPT !.at = page] \in AccountPages /\ ~[A!Form EXCEPT !.at = page].agreed
  BY DEF A!Form, AccountPages
<1> QED BY <1>1 DEF A!Show, AccountTyped, OnItsWay

LEMMA SignInFits ==
  ASSUME AccountTyped, OnItsWay, ticked \subseteq ticked', NEW t \in Tabs, NEW k \in A!Kinds, A!SignIn(t, k)
  PROVE  /\ tabs' \in [Tabs -> AccountPages] /\ session' \in A!Kinds \cup {"none"}
         /\ \A s \in Tabs : tabs'[s].agreed => tabs'[s].told \in {0} \cup ticked'
BY ShowFits DEF A!SignIn, AccountTyped

\* upsert writes the consent that it is given, to a row that there was not.
LEMMA UpsertedFits ==
  ASSUME AccountTyped, A!ConsentIsGiven, NEW k \in A!Kinds, NEW terms \in Nat
  PROVE  /\ A!Upserted(k, terms) \in [A!Kinds -> AccountRows]
         /\ \A j \in A!Kinds : A!Upserted(k, terms)[j].terms \in Given \cup {terms}
BY DEF A!Upserted, AccountTyped, AccountRows, A!ConsentIsGiven, Given

-----------------------------------------------------------------------------
(* The steps *)

LEMMA LearnKeeps ==
  ASSUME AccountInv, NEW t \in Tabs, A!Learn(t)
  PROVE  AccountInv'
BY DEF AccountInv, A!Learn, AccountTyped, OnItsWay, A!ConsentIsGiven, Given, AccountPages

LEMMA TickKeeps ==
  ASSUME AccountInv, NEW t \in Tabs, A!Tick(t)
  PROVE  AccountInv'
BY DEF AccountInv, A!Tick, AccountTyped, OnItsWay, A!ConsentIsGiven, Given, AccountPages

\* Of a sign-up, what is recorded was ticked on a page that knew it, or is blind.
LEMMA RegisterKeeps ==
  ASSUME AccountInv, NEW t \in Tabs, A!Register(t)
  PROVE  AccountInv'
<1> USE DEF AccountInv
<1>1. ticked' = ticked /\ blind \subseteq blind' /\ UNCHANGED <<current, oauth>>
  BY DEF A!Register
<1>2. tabs[t].agreed /\ tabs[t].told \in {0} \cup ticked /\ current \in Nat \ {0}
  BY DEF A!Register, OnItsWay, AccountTyped
<1>3. CASE signup.is = "none"
  <2>1. signup' = [is |-> IF confirming THEN "unconfirmed" ELSE "confirmed", terms |-> current]
    BY <1>3 DEF A!Register
  <2>2. current \in ticked' \cup blind'
    BY <1>1, <1>2, <1>3 DEF A!Register
  <2>3. CASE confirming
    BY <1>1, <1>3, <2>1, <2>2, <2>3 DEF A!Register, AccountTyped, OnItsWay, A!ConsentIsGiven, Given
  <2>4. CASE ~confirming
    <3>1. account' = A!Upserted("email", current) /\ A!SignIn(t, "email")
      BY <1>3, <2>4 DEF A!Register
    <3>2. account' \in [A!Kinds -> AccountRows] /\ \A k \in A!Kinds : account'[k].terms \in Given \cup {current}
      BY <1>2, <3>1, UpsertedFits DEF A!Kinds
    <3>3. /\ tabs' \in [Tabs -> AccountPages] /\ session' \in A!Kinds \cup {"none"}
          /\ \A s \in Tabs : tabs'[s].agreed => tabs'[s].told \in {0} \cup ticked'
      BY <1>1, <3>1, SignInFits DEF A!Kinds
    <3> QED BY <1>1, <2>1, <2>2, <3>2, <3>3 DEF AccountTyped, OnItsWay, A!ConsentIsGiven, Given
  <2> QED BY <2>3, <2>4
<1>4. CASE signup.is = "unconfirmed"
  <2>1. PICK terms \in {signup.terms, current} :
          /\ signup' = [signup EXCEPT !.terms = terms]
          /\ blind' = IF terms \in {signup.terms, tabs[t].told} THEN blind ELSE blind \cup {terms}
    BY <1>4 DEF A!Register
  <2>2. terms \in Nat /\ terms \in Given'
    BY <1>1, <1>2, <2>1 DEF AccountTyped, OnItsWay, Given
  <2>3. UNCHANGED <<account, session, tabs>>
    BY <1>4 DEF A!Register
  <2> QED BY <1>1, <2>1, <2>2, <2>3 DEF AccountTyped, OnItsWay, A!ConsentIsGiven, Given
<1> QED BY <1>3, <1>4 DEF A!Register

LEMMA EmailKeeps ==
  ASSUME AccountInv, NEW t \in Tabs, A!Confirm(t) \/ A!Login(t)
  PROVE  AccountInv'
<1> USE DEF AccountInv
<1>1. /\ UNCHANGED <<current, oauth, ticked, blind>>
      /\ signup' \in [is : {"none", "unconfirmed", "confirmed"}, terms : Nat] /\ signup'.terms = signup.terms
  BY DEF A!Confirm, A!Login, AccountTyped
<1>2. account' = A!Upserted("email", signup.terms) /\ A!SignIn(t, "email")
  BY DEF A!Confirm, A!Login
<1>3. account' \in [A!Kinds -> AccountRows] /\ \A k \in A!Kinds : account'[k].terms \in Given \cup {signup.terms}
  BY <1>2, UpsertedFits DEF A!Kinds, AccountTyped
<1>4. /\ tabs' \in [Tabs -> AccountPages] /\ session' \in A!Kinds \cup {"none"}
      /\ \A s \in Tabs : tabs'[s].agreed => tabs'[s].told \in {0} \cup ticked'
  BY <1>1, <1>2, SignInFits DEF A!Kinds
<1> QED BY <1>1, <1>3, <1>4 DEF AccountTyped, OnItsWay, A!ConsentIsGiven, Given

LEMMA GithubStartKeeps ==
  ASSUME AccountInv, NEW t \in Tabs, A!GithubStart(t)
  PROVE  AccountInv'
<1> USE DEF AccountInv
<1>1. UNCHANGED <<current, signup, account, session, ticked, blind>> /\ A!Show(t, "github")
  BY DEF A!GithubStart
<1>2. /\ tabs' \in [Tabs -> AccountPages]
      /\ \A s \in Tabs : tabs'[s].agreed => tabs'[s].told \in {0} \cup ticked'
  BY <1>1, ShowFits
<1>3. oauth' \in [tab : Tabs \cup {"none"}, terms : Nat] /\ oauth'.terms \in {0} \cup ticked
  BY DEF A!GithubStart, AccountTyped, OnItsWay
<1> QED BY <1>1, <1>2, <1>3 DEF AccountTyped, OnItsWay, A!ConsentIsGiven, Given

\* The cookie's version is written only if it is the current one, which was ticked.
LEMMA GithubReturnKeeps ==
  ASSUME AccountInv, NEW t \in Tabs, A!GithubReturn(t)
  PROVE  AccountInv'
<1> USE DEF AccountInv
<1>1. UNCHANGED <<current, signup, ticked, blind>> /\ oauth' = [tab |-> "none", terms |-> 0]
  BY DEF A!GithubReturn, A!NoTrip
<1>2. CASE oauth.tab # t
  <2>1. A!Show(t, "form") /\ UNCHANGED <<account, session>>
    BY <1>2 DEF A!GithubReturn
  <2>2. /\ tabs' \in [Tabs -> AccountPages]
        /\ \A s \in Tabs : tabs'[s].agreed => tabs'[s].told \in {0} \cup ticked'
    BY <1>1, <2>1, ShowFits
  <2> QED BY <1>1, <2>1, <2>2 DEF AccountTyped, OnItsWay, A!ConsentIsGiven, Given
<1>3. CASE oauth.tab = t
  <2> DEFINE signedIn == A!Upserted("github", 0)
  <2>1. /\ account' = IF A!AcceptedTerms /\ signedIn["github"].is = "active"
                      THEN [signedIn EXCEPT !["github"].terms = current] ELSE signedIn
        /\ A!SignIn(t, "github")
    BY <1>3 DEF A!GithubReturn
  <2>2. signedIn \in [A!Kinds -> AccountRows] /\ \A k \in A!Kinds : signedIn[k].terms \in Given
    BY UpsertedFits DEF A!Kinds, Given
  <2>3. A!AcceptedTerms => current \in ticked
    BY DEF A!AcceptedTerms, AccountTyped, OnItsWay
  <2> HIDE DEF signedIn
  <2>4. account' \in [A!Kinds -> AccountRows] /\ \A k \in A!Kinds : account'[k].terms \in Given
    BY <2>1, <2>2, <2>3 DEF A!Kinds, AccountRows, AccountTyped, Given
  <2>5. /\ tabs' \in [Tabs -> AccountPages] /\ session' \in A!Kinds \cup {"none"}
        /\ \A s \in Tabs : tabs'[s].agreed => tabs'[s].told \in {0} \cup ticked'
    BY <1>1, <2>1, SignInFits DEF A!Kinds
  <2> QED BY <1>1, <2>4, <2>5 DEF AccountTyped, OnItsWay, A!ConsentIsGiven, Given
<1> QED BY <1>2, <1>3

\* Steps that show a page and touch nothing of the consent but the cookies.
LEMMA PagesKeep ==
  ASSUME AccountInv, NEW t \in Tabs, A!Reload(t) \/ A!GithubFails(t) \/ A!Call(t) \/ A!Logout(t)
  PROVE  AccountInv'
<1> USE DEF AccountInv
<1>1. /\ UNCHANGED <<current, signup, account, ticked, blind>> /\ session' \in {session, "none"}
      /\ oauth' \in {oauth, [tab |-> "none", terms |-> 0]}
  BY DEF A!Reload, A!GithubFails, A!Call, A!Logout, A!NoTrip
<1>2. \E page \in {"form", "accept", "app", "suspended", "github"} : A!Show(t, page)
  BY DEF A!Reload, A!GithubFails, A!Call, A!Logout, A!Guarded
<1>3. /\ tabs' \in [Tabs -> AccountPages]
      /\ \A s \in Tabs : tabs'[s].agreed => tabs'[s].told \in {0} \cup ticked'
  BY <1>1, <1>2, ShowFits
<1> QED BY <1>1, <1>3 DEF AccountTyped, OnItsWay, A!ConsentIsGiven, Given

LEMMA AcceptKeeps ==
  ASSUME AccountInv, NEW t \in Tabs, A!Accept(t)
  PROVE  AccountInv'
<1> USE DEF AccountInv
<1>1. UNCHANGED <<current, signup, session, oauth, ticked, blind>>
  BY DEF A!Accept
<1>2. CASE account' = [account EXCEPT ![session].terms = current] /\ A!Show(t, "app") /\ session # "none" /\ tabs[t].told = current
  <2>1. current \in ticked
    BY <1>2 DEF A!Accept, A!AcceptTerms, OnItsWay, AccountTyped
  <2>2. account' \in [A!Kinds -> AccountRows] /\ \A k \in A!Kinds : account'[k].terms \in Given
    BY <1>2, <2>1 DEF AccountTyped, AccountRows, A!ConsentIsGiven, Given
  <2>3. /\ tabs' \in [Tabs -> AccountPages]
        /\ \A s \in Tabs : tabs'[s].agreed => tabs'[s].told \in {0} \cup ticked'
    BY <1>1, <1>2, ShowFits
  <2> QED BY <1>1, <2>2, <2>3 DEF AccountTyped, OnItsWay, A!ConsentIsGiven, Given
<1>3. CASE UNCHANGED <<account, tabs>>
  BY <1>1, <1>3 DEF AccountTyped, OnItsWay, A!ConsentIsGiven, Given
<1>4. CASE A!Guarded(t) /\ UNCHANGED account
  <2>1. \E page \in {"form", "accept", "app", "suspended", "github"} : A!Show(t, page)
    BY <1>4 DEF A!Guarded
  <2>2. /\ tabs' \in [Tabs -> AccountPages]
        /\ \A s \in Tabs : tabs'[s].agreed => tabs'[s].told \in {0} \cup ticked'
    BY <1>1, <2>1, ShowFits
  <2> QED BY <1>1, <1>4, <2>2 DEF AccountTyped, OnItsWay, A!ConsentIsGiven, Given
<1> QED BY <1>2, <1>3, <1>4 DEF A!Accept, A!AcceptTerms

LEMMA SuspendKeeps ==
  ASSUME AccountInv, NEW k \in A!Kinds, A!Suspend(k)
  PROVE  AccountInv'
BY DEF AccountInv, A!Suspend, A!browser, AccountTyped, AccountRows, OnItsWay, A!ConsentIsGiven, Given

\* The other steps change no row, page or metadata.
LEMMA OthersKeep ==
  ASSUME AccountInv, A!NewTerms \/ A!LinkLapses \/ A!CookiesLapse \/ UNCHANGED A!state \/ \E t \in Tabs : A!Resend(t)
  PROVE  AccountInv'
<1>1. UNCHANGED <<signup, account, session, tabs, ticked, blind>> /\ oauth' \in {oauth, [tab |-> "none", terms |-> 0]}
  BY DEF A!NewTerms, A!LinkLapses, A!CookiesLapse, A!Resend, A!state, A!browser, A!NoTrip
<1>2. current' \in Nat \ {0}
  BY DEF AccountInv, AccountTyped, A!NewTerms, A!LinkLapses, A!CookiesLapse, A!Resend, A!state, A!browser
<1> QED BY <1>1, <1>2 DEF AccountInv, AccountTyped, OnItsWay, A!ConsentIsGiven, Given

LEMMA AccountKept == AccountInv /\ [A!Next]_(A!state) => AccountInv'
<1> SUFFICES ASSUME AccountInv, [A!Next]_(A!state) PROVE AccountInv'
  OBVIOUS
<1> QED
  BY LearnKeeps, TickKeeps, RegisterKeeps, EmailKeeps, GithubStartKeeps, GithubReturnKeeps, PagesKeep, AcceptKeeps,
     SuspendKeeps, OthersKeep DEF A!Next

LEMMA AccountsRun ==
  /\ StartsWith /\ which = "accounts" => A!Init
  /\ [Steps]_product => which' = which /\ (which = "accounts" => [A!Next]_(A!state))
BY DEF StartsWith, Steps, Copilot, Accounts, Checkout, Credentials, Integrations, Editor, Form, Wishes, Codemod, Reader, Chat, Desk, Tree, Welcome,
       Publish, Plans, Panels, product, parts, A!state, A!browser

\* ConsentIsGiven, for any number of tabs and of versions of the Terms: whatever pages, links, cookies and sessions
\* cross, an account is recorded to have accepted a version only if its box was ticked on a page that had been told of
\* it, or a sign-up by email recorded the server's version without looking.
THEOREM ConsentAlwaysGiven == ProductSpec => []ConsentIsGiven
<1> DEFINE Inv == which = "accounts" => AccountInv
<1>1. StartsWith => Inv
  BY AccountsRun, AccountStarts
<1>2. Inv /\ [Steps]_product => Inv'
  BY AccountsRun, AccountKept
<1>3. Inv => ConsentIsGiven
  BY DEF ConsentIsGiven, AccountInv
<1> HIDE DEF Inv
<1> QED BY <1>1, <1>2, <1>3, PTL DEF ProductSpec

HIDE DEF current, confirming, signup, link, account, session, oauth, tabs, switches, ticked, blind

-----------------------------------------------------------------------------
(* Checkout: the promo code and its copy at Stripe *)

promo == v1
copy == v2
expired == v3
mirror == v4
admin == v5
order == v6
till == v7
script == v8
tillFaults == v9
torn == v10
crossed == v11
stale == v12

USE DEF promo, copy, expired, mirror, admin, order, till, script, tillFaults, torn, crossed, stale

AdminSteps == {"idle", "coupon", "promotion", "undo", "insert", "deactivate"}
Mirrors == [coupon : BOOLEAN, code : {"none", "active", "inactive"}, uses : Nat]

CodeTyped ==
  /\ promo \in {"none", "active", "inactive"}
  /\ copy \subseteq Admins /\ crossed \subseteq Admins
  /\ mirror \in [Admins -> Mirrors]
  /\ admin \in [Admins -> AdminSteps]

(***************************************************************************)
(* The inductive invariant.  Stripe takes a code while none is active, so  *)
(* at most one is; it is the row's, or that of a request that is about to  *)
(* insert its row, or has just been refused.  The row's promotion works    *)
(* until an admin switches it off, who then comes to the row: only behind  *)
(* that can another request have crossed.                                  *)
(***************************************************************************)
RowAndCopy ==
  /\ promo = "none" => copy = {} /\ crossed = {} /\ \A a \in Admins : admin[a] # "deactivate"
  /\ promo # "none" => copy # {}
  /\ copy \cap crossed = {}

OneActive == \A a, b \in Admins : mirror[a].code = "active" /\ mirror[b].code = "active" => a = b

CouponsKnown ==
  /\ \A a \in Admins : mirror[a].coupon => a \in copy \cup crossed \/ admin[a] \in {"promotion", "undo", "insert"}
  /\ \A a \in Admins : admin[a] \in {"promotion", "insert"} => mirror[a].coupon
  /\ \A a \in copy : mirror[a].coupon

NotYetRefused == \A a \in Admins : admin[a] \in {"coupon", "promotion", "undo", "insert"} => a \notin copy \cup crossed

CodesKnown ==
  /\ \A a \in Admins : admin[a] = "insert" => mirror[a].code = "active"
  /\ \A a \in Admins : mirror[a].code = "active" =>
       admin[a] = "insert" \/ a \in crossed \/ (a \in copy /\ promo = "active" /\ \A b \in Admins : admin[b] # "deactivate")

Works ==
  promo = "active" /\ (\A b \in Admins : admin[b] # "deactivate") =>
    crossed = {} /\ \A a \in copy : mirror[a].code = "active"

Mirrored == RowAndCopy /\ OneActive /\ CouponsKnown /\ NotYetRefused /\ CodesKnown /\ Works

CodeInv == CodeTyped /\ (~torn => Mirrored)

LEMMA CodeStarts == C!Init => CodeInv
BY DEF C!Init, C!NoMirror, CodeInv, CodeTyped, Mirrored, RowAndCopy, OneActive, CouponsKnown, NotYetRefused, CodesKnown, Works, AdminSteps, Mirrors

LEMMA AdminGoes ==
  ASSUME CodeTyped, NEW a \in Admins, NEW step \in AdminSteps, C!Goto(a, step)
  PROVE  /\ admin' \in [Admins -> AdminSteps] /\ admin'[a] = step
         /\ \A b \in Admins : b # a => admin'[b] = admin[b]
BY DEF CodeTyped, C!Goto

\* What a request does at Stripe to its own coupon and promotion.
LEMMA MirrorGoes ==
  ASSUME CodeTyped, NEW a \in Admins, NEW new \in Mirrors, mirror' = [mirror EXCEPT ![a] = new]
  PROVE  /\ mirror' \in [Admins -> Mirrors] /\ mirror'[a] = new
         /\ \A b \in Admins : b # a => mirror'[b] = mirror[b]
BY DEF CodeTyped

LEMMA CouponGoes ==
  ASSUME CodeTyped, NEW a \in Admins, NEW on \in BOOLEAN, mirror' = [mirror EXCEPT ![a].coupon = on]
  PROVE  /\ mirror' \in [Admins -> Mirrors] /\ mirror'[a].coupon = on /\ mirror'[a].code = mirror[a].code
         /\ \A b \in Admins : b # a => mirror'[b] = mirror[b]
<1>1. mirror[a] \in Mirrors
  BY DEF CodeTyped
<1>2. [mirror[a] EXCEPT !.coupon = on] \in Mirrors
  BY <1>1 DEF Mirrors
<1>3. mirror' = [mirror EXCEPT ![a] = [mirror[a] EXCEPT !.coupon = on]]
  BY DEF CodeTyped
<1>4. [mirror[a] EXCEPT !.coupon = on].coupon = on /\ [mirror[a] EXCEPT !.coupon = on].code = mirror[a].code
  BY <1>1 DEF Mirrors
<1> QED BY <1>2, <1>3, <1>4, MirrorGoes

LEMMA PromotionGoes ==
  ASSUME CodeTyped, NEW a \in Admins, mirror' = [mirror EXCEPT ![a].code = "active"]
  PROVE  /\ mirror' \in [Admins -> Mirrors] /\ mirror'[a].code = "active" /\ mirror'[a].coupon = mirror[a].coupon
         /\ \A b \in Admins : b # a => mirror'[b] = mirror[b]
<1>1. mirror[a] \in Mirrors
  BY DEF CodeTyped
<1>2. [mirror[a] EXCEPT !.code = "active"] \in Mirrors
  BY <1>1 DEF Mirrors
<1>3. mirror' = [mirror EXCEPT ![a] = [mirror[a] EXCEPT !.code = "active"]]
  BY DEF CodeTyped
<1>4. [mirror[a] EXCEPT !.code = "active"].code = "active" /\ [mirror[a] EXCEPT !.code = "active"].coupon = mirror[a].coupon
  BY <1>1 DEF Mirrors
<1> QED BY <1>2, <1>3, <1>4, MirrorGoes

\* The steps of one admin's request.
LEMMA RequestKeeps ==
  ASSUME CodeInv, NEW a \in Admins,
         \/ C!Create(a) \/ C!CreateCoupon(a) \/ C!CreatePromotion(a) \/ C!DeleteCoupon(a) \/ C!InsertRow(a)
         \/ C!Deactivate(a) \/ C!DeactivateRow(a)
  PROVE  CodeInv'
<1>t. CodeTyped /\ (~torn => Mirrored)
  BY DEF CodeInv
<1>1. CASE C!Create(a)
  <2>1. UNCHANGED <<promo, copy, crossed, torn, mirror>> /\ promo = "none" /\ mirror[a] = C!NoMirror
    BY <1>1 DEF C!Create, C!promos, C!history
  <2>2. /\ admin' \in [Admins -> AdminSteps] /\ admin'[a] = "coupon"
        /\ \A b \in Admins : b # a => admin'[b] = admin[b]
    BY <1>1, <1>t, AdminGoes DEF C!Create, AdminSteps
  <2>3. ~mirror[a].coupon /\ mirror[a].code # "active"
    BY <2>1 DEF C!NoMirror
  <2>4. CodeTyped'
    BY <1>t, <2>1, <2>2 DEF CodeTyped
  <2>5. Mirrored => Mirrored'
    BY <2>1, <2>2, <2>3 DEF Mirrored, RowAndCopy, OneActive, CouponsKnown, NotYetRefused, CodesKnown, Works
  <2> QED BY <1>t, <2>1, <2>4, <2>5 DEF CodeInv
<1>2. CASE C!CreateCoupon(a)
  <2>1. UNCHANGED <<promo, copy, crossed, torn>> /\ admin[a] = "coupon"
    BY <1>2 DEF C!CreateCoupon, C!promos, C!history
  <2>2. /\ admin' \in [Admins -> AdminSteps] /\ admin'[a] = "promotion"
        /\ \A b \in Admins : b # a => admin'[b] = admin[b]
    BY <1>2, <1>t, AdminGoes DEF C!CreateCoupon, AdminSteps
  <2>3. /\ mirror' \in [Admins -> Mirrors] /\ mirror'[a].code = mirror[a].code /\ mirror'[a].coupon
        /\ \A b \in Admins : b # a => mirror'[b] = mirror[b]
    BY <1>2, <1>t, CouponGoes DEF C!CreateCoupon
  <2>4. CodeTyped'
    BY <1>t, <2>1, <2>2, <2>3 DEF CodeTyped
  <2>5. ASSUME Mirrored PROVE Mirrored'
    <3>1. \A b \in Admins : mirror'[b].code = mirror[b].code /\ (mirror'[b].coupon => b = a \/ mirror[b].coupon)
      BY <2>3
    <3>2. RowAndCopy' /\ NotYetRefused'
      BY <2>1, <2>2, <2>5 DEF Mirrored, RowAndCopy, NotYetRefused
    <3>3. OneActive'
      BY <2>5, <3>1 DEF Mirrored, OneActive
    <3>4. CouponsKnown'
      BY <1>t, <2>1, <2>2, <2>3, <2>5, <3>1 DEF Mirrored, CouponsKnown, CodeTyped
    <3>5. CodesKnown'
      BY <2>1, <2>2, <2>5, <3>1 DEF Mirrored, CodesKnown
    <3>6. Works'
      <4>1. \A b \in copy : mirror'[b].code = mirror[b].code
        BY <1>t, <3>1 DEF CodeTyped
      <4>2. (\A b \in Admins : admin'[b] # "deactivate") => \A b \in Admins : admin[b] # "deactivate"
        BY <2>1, <2>2
      <4> QED BY <2>1, <2>5, <4>1, <4>2 DEF Mirrored, Works
    <3> QED BY <3>2, <3>3, <3>4, <3>5, <3>6 DEF Mirrored, RowAndCopy, OneActive, CouponsKnown, NotYetRefused, CodesKnown, Works
  <2> QED BY <1>t, <2>1, <2>4, <2>5 DEF CodeInv
<1>3. CASE C!CreatePromotion(a)
  <2>1. UNCHANGED <<promo, copy, crossed, torn>> /\ admin[a] = "promotion"
    BY <1>3 DEF C!CreatePromotion, C!promos, C!history
  <2>2. CASE C!Taken
    <3>1. mirror' = mirror
      BY <1>3, <2>2 DEF C!CreatePromotion
    <3>2. /\ admin' \in [Admins -> AdminSteps] /\ admin'[a] = "undo"
          /\ \A b \in Admins : b # a => admin'[b] = admin[b]
      BY <1>3, <2>2, <1>t, AdminGoes DEF C!CreatePromotion, AdminSteps
    <3>3. CodeTyped'
      BY <1>t, <2>1, <3>1, <3>2 DEF CodeTyped
    <3>4. Mirrored => Mirrored'
      BY <2>1, <3>1, <3>2 DEF Mirrored, RowAndCopy, OneActive, CouponsKnown, NotYetRefused, CodesKnown, Works
    <3> QED BY <1>t, <2>1, <3>3, <3>4 DEF CodeInv
  <2>3. CASE ~C!Taken
    <3>1. /\ mirror' \in [Admins -> Mirrors] /\ mirror'[a].code = "active" /\ mirror'[a].coupon = mirror[a].coupon
          /\ \A b \in Admins : b # a => mirror'[b] = mirror[b]
      BY <1>3, <2>3, <1>t, PromotionGoes DEF C!CreatePromotion
    <3>2. /\ admin' \in [Admins -> AdminSteps] /\ admin'[a] = "insert"
          /\ \A b \in Admins : b # a => admin'[b] = admin[b]
      BY <1>3, <2>3, <1>t, AdminGoes DEF C!CreatePromotion, AdminSteps
    <3>3. \A b \in Admins : mirror[b].code # "active"
      BY <2>3 DEF C!Taken
    <3>4. CodeTyped'
      BY <1>t, <2>1, <3>1, <3>2 DEF CodeTyped
    <3>5. Mirrored => mirror[a].coupon
      BY <2>1 DEF Mirrored, RowAndCopy, OneActive, CouponsKnown, NotYetRefused, CodesKnown, Works
    <3>6. ASSUME Mirrored PROVE Mirrored'
      <4>1. a \notin copy \cup crossed /\ mirror'[a].coupon
        BY <2>1, <3>1, <3>5, <3>6 DEF Mirrored, NotYetRefused
      <4>2. \A b \in Admins : mirror'[b].coupon = mirror[b].coupon /\ (mirror'[b].code = "active" <=> b = a)
        BY <3>1, <3>3
      <4>3. \A b \in Admins : admin[b] # "insert"
        BY <3>3, <3>6 DEF Mirrored, CodesKnown
      <4>4. RowAndCopy' /\ NotYetRefused'
        BY <2>1, <3>2, <3>6, <4>1 DEF Mirrored, RowAndCopy, NotYetRefused
      <4>5. OneActive'
        BY <4>2 DEF OneActive
      <4>6. CouponsKnown'
        BY <1>t, <2>1, <3>2, <3>6, <4>1, <4>2 DEF Mirrored, CouponsKnown, CodeTyped
      <4>7. CodesKnown'
        BY <2>1, <3>2, <4>2, <4>3 DEF CodesKnown
      <4>8. Works'
        <5>1. ASSUME promo = "active", \A b \in Admins : admin[b] # "deactivate" PROVE FALSE
          <6>1. PICK c \in copy : mirror[c].code = "active"
            BY <5>1, <3>6 DEF Mirrored, RowAndCopy, Works
          <6>2. c \in Admins
            BY <6>1, <1>t DEF CodeTyped
          <6> QED BY <6>1, <6>2, <3>3
        <5>2. (\A b \in Admins : admin'[b] # "deactivate") => \A b \in Admins : admin[b] # "deactivate"
          BY <2>1, <3>2
        <5> QED BY <2>1, <5>1, <5>2 DEF Works
      <4> QED BY <4>4, <4>5, <4>6, <4>7, <4>8 DEF Mirrored, RowAndCopy, OneActive, CouponsKnown, NotYetRefused, CodesKnown, Works
    <3> QED BY <1>t, <2>1, <3>4, <3>6 DEF CodeInv
  <2> QED BY <2>2, <2>3
<1>4. CASE C!DeleteCoupon(a)
  <2>1. UNCHANGED <<promo, copy, crossed, torn>> /\ admin[a] = "undo"
    BY <1>4 DEF C!DeleteCoupon, C!promos, C!history
  <2>2. /\ admin' \in [Admins -> AdminSteps] /\ admin'[a] = "idle"
        /\ \A b \in Admins : b # a => admin'[b] = admin[b]
    BY <1>4, <1>t, AdminGoes DEF C!DeleteCoupon, AdminSteps
  <2>3. /\ mirror' \in [Admins -> Mirrors] /\ mirror'[a].code = mirror[a].code /\ ~mirror'[a].coupon
        /\ \A b \in Admins : b # a => mirror'[b] = mirror[b]
    BY <1>4, <1>t, CouponGoes DEF C!DeleteCoupon
  <2>4. CodeTyped'
    BY <1>t, <2>1, <2>2, <2>3 DEF CodeTyped
  <2>5. Mirrored => Mirrored'
    BY <1>t, <2>1, <2>2, <2>3 DEF Mirrored, RowAndCopy, OneActive, CouponsKnown, NotYetRefused, CodesKnown, Works, CodeTyped
  <2> QED BY <1>t, <2>1, <2>4, <2>5 DEF CodeInv
<1>5. CASE C!InsertRow(a)
  <2>1. UNCHANGED <<mirror, torn>> /\ admin[a] = "insert"
    BY <1>5 DEF C!InsertRow
  <2>2. /\ admin' \in [Admins -> AdminSteps] /\ admin'[a] = "idle"
        /\ \A b \in Admins : b # a => admin'[b] = admin[b]
    BY <1>5, <1>t, AdminGoes DEF C!InsertRow, AdminSteps
  <2>3. CASE promo = "none"
    <3>1. promo' = "active" /\ copy' = {a} /\ crossed' = crossed
      BY <1>5, <2>3 DEF C!InsertRow
    <3>2. CodeTyped'
      BY <1>t, <2>1, <2>2, <3>1 DEF CodeTyped
    <3>3. Mirrored => Mirrored'
      BY <2>1, <2>2, <2>3, <3>1 DEF Mirrored, RowAndCopy, OneActive, CouponsKnown, NotYetRefused, CodesKnown, Works
    <3> QED BY <1>t, <2>1, <3>2, <3>3 DEF CodeInv
  <2>4. CASE promo # "none"
    <3>1. promo' = promo /\ copy' = copy /\ crossed' = crossed \cup {a}
      BY <1>5, <2>4 DEF C!InsertRow
    <3>2. CodeTyped'
      BY <1>t, <2>1, <2>2, <3>1 DEF CodeTyped
    <3>3. ASSUME Mirrored PROVE Mirrored'
      <4>1. promo = "active" => \E b \in Admins : admin[b] = "deactivate"
        <5>1. ASSUME promo = "active", \A b \in Admins : admin[b] # "deactivate" PROVE FALSE
          <6>1. PICK c \in copy : TRUE
            BY <5>1, <3>3 DEF Mirrored, RowAndCopy, OneActive, CouponsKnown, NotYetRefused, CodesKnown, Works
          <6>2. c \in Admins
            BY <6>1, <1>t DEF CodeTyped
          <6>3. mirror[c].code = "active"
            BY <5>1, <6>1, <3>3 DEF Mirrored, RowAndCopy, OneActive, CouponsKnown, NotYetRefused, CodesKnown, Works
          <6>4. mirror[a].code = "active" /\ a \notin copy
            BY <2>1, <3>3 DEF Mirrored, RowAndCopy, OneActive, CouponsKnown, NotYetRefused, CodesKnown, Works
          <6> QED BY <6>1, <6>2, <6>3, <6>4, <3>3 DEF Mirrored, RowAndCopy, OneActive, CouponsKnown, NotYetRefused, CodesKnown, Works
        <5> QED BY <5>1
      <4>2. promo = "active" => \E b \in Admins : admin'[b] = "deactivate"
        BY <4>1, <2>1, <2>2
      <4> QED BY <2>1, <2>2, <2>4, <3>1, <3>3, <4>2 DEF Mirrored, RowAndCopy, OneActive, CouponsKnown, NotYetRefused, CodesKnown, Works
    <3> QED BY <1>t, <2>1, <3>2, <3>3 DEF CodeInv
  <2> QED BY <2>3, <2>4
<1>6. CASE C!Deactivate(a)
  <2>1. /\ UNCHANGED <<promo, copy, crossed, torn>> /\ admin[a] = "idle" /\ promo # "none"
        /\ mirror' = [b \in Admins |-> IF b \in copy THEN [mirror[b] EXCEPT !.code = "inactive"] ELSE mirror[b]]
    BY <1>6 DEF C!Deactivate, C!promos, C!history
  <2>2. /\ admin' \in [Admins -> AdminSteps] /\ admin'[a] = "deactivate"
        /\ \A b \in Admins : b # a => admin'[b] = admin[b]
    BY <1>6, <1>t, AdminGoes DEF C!Deactivate, AdminSteps
  <2>3. \A b \in Admins : /\ mirror'[b] \in Mirrors
                          /\ mirror'[b].coupon = mirror[b].coupon
                          /\ mirror'[b].code = IF b \in copy THEN "inactive" ELSE mirror[b].code
    <3>1. TAKE b \in Admins
    <3>2. mirror[b] \in Mirrors
      BY <1>t DEF CodeTyped
    <3>3. /\ [mirror[b] EXCEPT !.code = "inactive"] \in Mirrors
          /\ [mirror[b] EXCEPT !.code = "inactive"].coupon = mirror[b].coupon
          /\ [mirror[b] EXCEPT !.code = "inactive"].code = "inactive"
      BY <3>2 DEF Mirrors
    <3>4. mirror'[b] = IF b \in copy THEN [mirror[b] EXCEPT !.code = "inactive"] ELSE mirror[b]
      BY <2>1
    <3> QED BY <3>2, <3>3, <3>4
  <2>4. CodeTyped'
    BY <1>t, <2>1, <2>2, <2>3 DEF CodeTyped
  <2>5. Mirrored => Mirrored'
    BY <1>t, <2>1, <2>2, <2>3 DEF Mirrored, RowAndCopy, OneActive, CouponsKnown, NotYetRefused, CodesKnown, Works, CodeTyped
  <2> QED BY <1>t, <2>1, <2>4, <2>5 DEF CodeInv
<1>7. CASE C!DeactivateRow(a)
  <2>1. UNCHANGED <<copy, crossed, mirror, torn>> /\ promo' = "inactive" /\ admin[a] = "deactivate"
    BY <1>7 DEF C!DeactivateRow, C!history
  <2>2. /\ admin' \in [Admins -> AdminSteps] /\ admin'[a] = "idle"
        /\ \A b \in Admins : b # a => admin'[b] = admin[b]
    BY <1>7, <1>t, AdminGoes DEF C!DeactivateRow, AdminSteps
  <2>3. CodeTyped'
    BY <1>t, <2>1, <2>2 DEF CodeTyped
  <2>4. Mirrored => Mirrored'
    BY <2>1, <2>2 DEF Mirrored, RowAndCopy, OneActive, CouponsKnown, NotYetRefused, CodesKnown, Works
  <2> QED BY <1>t, <2>1, <2>3, <2>4 DEF CodeInv
<1> QED BY <1>1, <1>2, <1>3, <1>4, <1>5, <1>6, <1>7

\* A call that fails without effect leaves the request idle, or on its way to the catch that deletes the coupon.
LEMMA FailureKeeps ==
  ASSUME CodeInv, NEW a \in Admins,
         C!CouponFails(a) \/ C!PromotionFails(a) \/ C!DeactivateFails(a) \/ C!AdminFails(a)
  PROVE  CodeInv'
<1>t. CodeTyped /\ (~torn => Mirrored)
  BY DEF CodeInv
<1>1. UNCHANGED <<promo, copy, crossed>>
  BY DEF C!CouponFails, C!PromotionFails, C!DeactivateFails, C!AdminFails, C!promos
<1>2. PICK step \in {"idle", "undo", "deactivate"} : C!Goto(a, step)
  BY DEF C!CouponFails, C!PromotionFails, C!DeactivateFails, C!AdminFails
<1>3. admin' \in [Admins -> AdminSteps] /\ admin'[a] = step /\ \A b \in Admins : b # a => admin'[b] = admin[b]
  BY <1>2, <1>t, AdminGoes DEF AdminSteps
<1>4. mirror' \in [Admins -> Mirrors]
  BY <1>t, CouponGoes, PromotionGoes
  DEF C!CouponFails, C!PromotionFails, C!DeactivateFails, C!AdminFails, CodeTyped
<1>5. CodeTyped'
  BY <1>t, <1>1, <1>3, <1>4 DEF CodeTyped
<1>6. ~torn' => UNCHANGED <<torn, mirror>> /\ <<admin[a], step>> \in {<<"coupon", "idle">>, <<"promotion", "undo">>}
  BY <1>t, <1>2, <1>3 DEF C!CouponFails, C!PromotionFails, C!DeactivateFails, C!AdminFails, C!Goto, CodeTyped
<1>7. ASSUME ~torn', Mirrored PROVE Mirrored'
  BY <1>1, <1>3, <1>6, <1>7 DEF Mirrored, RowAndCopy, OneActive, CouponsKnown, NotYetRefused, CodesKnown, Works
<1> QED BY <1>t, <1>5, <1>6, <1>7 DEF CodeInv

\* The checkout leaves the code alone, and what is redeemed changes neither coupon nor promotion.
LEMMA CodeKept ==
  ASSUME CodeInv, [C!Next]_(C!state)
  PROVE  CodeInv'
<1>1. ASSUME UNCHANGED <<promo, copy, crossed, mirror, admin, torn>> PROVE CodeInv'
  BY <1>1 DEF CodeInv, CodeTyped, Mirrored, RowAndCopy, OneActive, CouponsKnown, NotYetRefused, CodesKnown, Works
<1>2. ASSUME NEW a \in Admins, C!RedeemAtStripe(a) PROVE CodeInv'
  <2>1. UNCHANGED <<promo, copy, crossed, admin, torn>> /\ mirror' = [mirror EXCEPT ![a].uses = @ + 1]
    BY <1>2 DEF C!RedeemAtStripe, C!promos, C!history
  <2>2. mirror[a] \in Mirrors /\ mirror \in [Admins -> Mirrors]
    BY DEF CodeInv, CodeTyped
  <2> DEFINE new == [mirror[a] EXCEPT !.uses = mirror[a].uses + 1]
  <2>3. new \in Mirrors /\ new.coupon = mirror[a].coupon /\ new.code = mirror[a].code
    BY <2>2 DEF Mirrors
  <2>4. mirror' = [mirror EXCEPT ![a] = new]
    BY <2>1, <2>2
  <2> HIDE DEF new
  <2>5. /\ mirror' \in [Admins -> Mirrors]
        /\ \A b \in Admins : mirror'[b].coupon = mirror[b].coupon /\ mirror'[b].code = mirror[b].code
    BY <2>2, <2>3, <2>4
  <2>6. CodeTyped'
    BY <2>1, <2>5 DEF CodeInv, CodeTyped
  <2>7. CodeTyped /\ Mirrored => Mirrored'
    BY <2>1, <2>5 DEF CodeTyped, Mirrored, RowAndCopy, OneActive, CouponsKnown, NotYetRefused, CodesKnown, Works
  <2> QED BY <2>1, <2>6, <2>7 DEF CodeInv
<1>3. ASSUME NEW o \in Orders,
             C!Pay(o) \/ C!Price(o) \/ C!CreateAtRazorpay(o) \/ C!RecordOrder(o) \/ C!OrderFails(o) \/ C!Settle(o)
      PROVE  CodeInv'
  BY <1>1, <1>3 DEF C!Pay, C!Price, C!CreateAtRazorpay, C!RecordOrder, C!OrderFails, C!Settle, C!promos, C!history
<1>4. ASSUME C!Expire \/ C!ApplyPromo \/ C!RemovePromo \/ UNCHANGED C!state PROVE CodeInv'
  BY <1>1, <1>4 DEF C!Expire, C!ApplyPromo, C!RemovePromo, C!state, C!promos, C!history
<1>5. ASSUME \/ C!ScriptLoads \/ C!ScriptBreaks \/ C!OrderRefused \/ C!OpenWindow \/ C!Verified \/ C!Dismiss
             \/ C!PaymentFails \/ C!PayInWindow \/ C!Reload
      PROVE  CodeInv'
  BY <1>1, <1>5 DEF C!ScriptLoads, C!ScriptBreaks, C!OrderRefused, C!OpenWindow, C!Verified, C!Dismiss, C!PaymentFails,
                    C!PayInWindow, C!Reload, C!promos, C!history
<1> QED BY RequestKeeps, FailureKeeps, <1>2, <1>3, <1>4, <1>5 DEF C!Next

LEMMA CodeFollows == CodeInv => C!StripeFollows
<1>1. ASSUME CodeInv, \A a \in Admins : admin[a] = "idle", ~torn
      PROVE  /\ promo = "active" => \A a \in Admins : (mirror[a].code = "active" <=> a \in copy) /\ (mirror[a].coupon <=> a \in copy)
             /\ \A a \in copy : mirror[a].code = "active" => promo = "active"
             /\ \A a \in Admins : mirror[a].coupon \/ mirror[a].code = "active" => a \in copy \cup crossed
  <2>1. CodeTyped /\ Mirrored
    BY <1>1 DEF CodeInv
  <2>2. promo = "active" => \A a \in Admins : (mirror[a].code = "active" <=> a \in copy) /\ (mirror[a].coupon <=> a \in copy)
    BY <1>1, <2>1 DEF Mirrored, RowAndCopy, OneActive, CouponsKnown, NotYetRefused, CodesKnown, Works
  <2>3. \A a \in copy : mirror[a].code = "active" => promo = "active"
    <3>1. TAKE a \in copy
    <3>2. HAVE mirror[a].code = "active"
    <3>3. a \in Admins /\ a \in copy
      BY <2>1 DEF CodeTyped
    <3>4. a \notin crossed \/ promo = "active"
      BY <3>3, <2>1 DEF Mirrored, RowAndCopy
    <3> QED BY <1>1, <2>1, <3>2, <3>3, <3>4 DEF Mirrored, CodesKnown
  <2>4. \A a \in Admins : mirror[a].coupon \/ mirror[a].code = "active" => a \in copy \cup crossed
    BY <1>1, <2>1 DEF Mirrored, RowAndCopy, OneActive, CouponsKnown, NotYetRefused, CodesKnown, Works
  <2> QED BY <2>2, <2>3, <2>4
<1> QED BY <1>1, Zenon DEF C!StripeFollows

LEMMA CheckoutRun ==
  /\ StartsWith /\ which = "checkout" => C!Init
  /\ [Steps]_product => which' = which /\ (which = "checkout" => [C!Next]_(C!state))
BY DEF StartsWith, Steps, Copilot, Accounts, Checkout, Credentials, Integrations, Editor, Form, Wishes, Codemod, Reader, Chat, Desk, Tree, Welcome,
       Publish, Plans, Panels, product, parts, C!state, C!promos, C!history, C!browser

\* StripeFollows, for any number of admins at once: however their requests to create and switch off a code cross, a code
\* that works here has its one copy at Stripe, and a code that was switched off here is off there; what else is left at
\* Stripe is that of a request whose row was refused (crossed), unless a request was cut short or its failure swallowed.
THEOREM StripeAlwaysFollows == ProductSpec => []StripeFollows
<1> DEFINE Inv == which = "checkout" => CodeInv
<1>1. StartsWith => Inv
  BY CheckoutRun, CodeStarts
<1>2. Inv /\ [Steps]_product => Inv'
  BY CheckoutRun, CodeKept
<1>3. Inv => StripeFollows
  BY CodeFollows DEF StripeFollows
<1> HIDE DEF Inv
<1> QED BY <1>1, <1>2, <1>3, PTL DEF ProductSpec

-----------------------------------------------------------------------------
(* Checkout: the button *)

OrderAts == {"none", "asked", "refused", "priced", "razorpay", "created", "captured", "paid"}
Tills == [promo : BOOLEAN, busy : BOOLEAN, step : {"idle", "ordering", "window", "verifying"}, order : Orders \cup {0},
          loading : BOOLEAN]

PayTyped ==
  /\ order \in [Orders -> [at : OrderAts, discount : BOOLEAN]]
  /\ till \in Tills
  /\ script \in {"absent", "loading", "loaded", "broken"}

\* The step of the page says where its order is, and what it still waits for is under way.
Answered ==
  /\ till.step # "idle" => till.order \in Orders
  /\ till.step = "ordering" => order[till.order].at \in {"asked", "priced", "razorpay", "created", "refused"}
  /\ till.step = "window" => order[till.order].at = "created"
  /\ till.step = "verifying" => order[till.order].at \in {"captured", "paid"}
  /\ till.loading => till.step = "ordering" /\ script # "loaded" /\ (stale \/ script = "loading")

PayInv == PayTyped /\ Answered

LEMMA PayStarts == C!Init => PayInv
BY DEF C!Init, C!Closed, C!NoOrder, PayInv, PayTyped, Answered, Tills, OrderAts

LEMMA Closes ==
  ASSUME PayTyped, C!GiveUp
  PROVE  till' \in Tills /\ till'.step = "idle" /\ ~till'.loading
BY DEF PayTyped, C!GiveUp, Tills

\* The orders at the api and at Razorpay.
LEMMA OrderGoes ==
  ASSUME PayInv, NEW o \in Orders, NEW at \in OrderAts, order' = [order EXCEPT ![o].at = at],
         UNCHANGED <<till, script, stale>>,
         \/ order[o].at \in {"asked", "priced", "razorpay"} /\ at \in {"priced", "razorpay", "created", "refused"}
         \/ order[o].at = "captured" /\ at = "paid"
  PROVE  PayInv'
<1>1. order' \in [Orders -> [at : OrderAts, discount : BOOLEAN]]
  BY DEF PayInv, PayTyped
<1>2. order'[o].at = at /\ \A x \in Orders : x # o => order'[x] = order[x]
  BY DEF PayInv, PayTyped
<1> QED BY <1>1, <1>2 DEF PayInv, PayTyped, Answered

LEMMA PayKept ==
  ASSUME PayInv, [C!Next]_(C!state)
  PROVE  PayInv'
<1> USE DEF PayInv
<1>1. ASSUME UNCHANGED <<order, till, script, stale>> PROVE PayInv'
  BY <1>1 DEF PayTyped, Answered
<1>2. ASSUME NEW a \in Admins,
             \/ C!Create(a) \/ C!CreateCoupon(a) \/ C!CouponFails(a) \/ C!CreatePromotion(a) \/ C!PromotionFails(a)
             \/ C!DeleteCoupon(a) \/ C!InsertRow(a) \/ C!RedeemAtStripe(a) \/ C!Deactivate(a) \/ C!DeactivateFails(a)
             \/ C!DeactivateRow(a) \/ C!AdminFails(a)
      PROVE  PayInv'
  BY <1>1, <1>2 DEF C!Create, C!CreateCoupon, C!CouponFails, C!CreatePromotion, C!PromotionFails, C!DeleteCoupon,
                    C!InsertRow, C!RedeemAtStripe, C!Deactivate, C!DeactivateFails, C!DeactivateRow, C!AdminFails, C!browser
<1>3. ASSUME C!Expire \/ UNCHANGED C!state PROVE PayInv'
  BY <1>1, <1>3 DEF C!Expire, C!state, C!browser
<1>4. CASE C!ApplyPromo \/ C!RemovePromo
  <2>1. UNCHANGED <<order, script, stale>> /\ \E p \in BOOLEAN : till' = [till EXCEPT !.promo = p]
    BY <1>4 DEF C!ApplyPromo, C!RemovePromo
  <2>2. till' \in Tills /\ till'.step = till.step /\ till'.order = till.order /\ till'.loading = till.loading
    BY <2>1 DEF PayTyped, Tills
  <2> QED BY <2>1, <2>2 DEF PayTyped, Answered
<1>5. ASSUME NEW o \in Orders, C!Pay(o) PROVE PayInv'
  <2>1. till.promo \in BOOLEAN /\ till.step = "idle"
    BY <1>5 DEF C!Pay, PayTyped, Tills
  <2>2. order' \in [Orders -> [at : OrderAts, discount : BOOLEAN]] /\ order'[o].at = "asked"
    BY <1>5, <2>1 DEF C!Pay, PayTyped, OrderAts
  <2>3. (script # "loaded") \in BOOLEAN
    OBVIOUS
  <2>4. till' \in Tills /\ till'.step = "ordering" /\ till'.order = o /\ till'.loading = (script # "loaded")
    BY <1>5, <2>3 DEF C!Pay, PayTyped, Tills
  <2>5. script' \in {"absent", "loading", "loaded", "broken"} /\ (script' = "loaded" <=> script = "loaded")
    BY <1>5 DEF C!Pay, PayTyped
  <2>6. script = "loaded" \/ script' = "loading" \/ stale'
    BY <1>5 DEF C!Pay, PayTyped
  <2> QED BY <2>2, <2>4, <2>5, <2>6 DEF PayTyped, Answered
<1>6. ASSUME NEW o \in Orders, C!Price(o) \/ C!CreateAtRazorpay(o) \/ C!RecordOrder(o) \/ C!OrderFails(o) \/ C!Settle(o)
      PROVE  PayInv'
  <2>1. UNCHANGED <<till, script, stale>>
    BY <1>6 DEF C!Price, C!CreateAtRazorpay, C!RecordOrder, C!OrderFails, C!Settle, C!browser
  <2>2. \E at \in {"priced", "razorpay", "created", "refused", "paid"} :
          /\ order' = [order EXCEPT ![o].at = at]
          /\ \/ order[o].at \in {"asked", "priced", "razorpay"} /\ at # "paid"
             \/ order[o].at = "captured" /\ at = "paid"
    BY <1>6 DEF C!Price, C!CreateAtRazorpay, C!RecordOrder, C!OrderFails, C!Settle
  <2> QED BY <2>1, <2>2, OrderGoes DEF OrderAts
<1>7. CASE C!ScriptLoads
  <2>1. till' \in Tills /\ till'.step = till.step /\ till'.order = till.order /\ ~till'.loading
    BY <1>7 DEF C!ScriptLoads, PayTyped, Tills
  <2> QED BY <1>7, <2>1 DEF C!ScriptLoads, PayTyped, Answered
<1>8. CASE C!ScriptBreaks
  <2>1. order' = order /\ script' = "broken"
    BY <1>8 DEF C!ScriptBreaks
  <2>2. CASE till.loading
    <3>1. till' \in Tills /\ till'.step = "idle" /\ ~till'.loading
      BY <1>8, <2>2, Closes DEF C!ScriptBreaks
    <3> QED BY <2>1, <3>1 DEF PayTyped, Answered
  <2>3. CASE ~till.loading
    <3>1. till' = till
      BY <1>8, <2>3 DEF C!ScriptBreaks
    <3> QED BY <2>1, <2>3, <3>1 DEF PayTyped, Answered
  <2> QED BY <2>2, <2>3
<1>9. CASE C!OrderRefused \/ C!Dismiss \/ C!Verified
  <2>1. till' \in Tills /\ till'.step = "idle" /\ ~till'.loading
    BY <1>9, Closes DEF C!OrderRefused, C!Dismiss, C!Verified
  <2> QED BY <1>9, <2>1 DEF C!OrderRefused, C!Dismiss, C!Verified, PayTyped, Answered
<1>10. CASE C!OpenWindow
  <2>1. till' \in Tills /\ till'.step = "window" /\ till'.order = till.order /\ till'.loading = till.loading
    BY <1>10 DEF C!OpenWindow, PayTyped, Tills
  <2> QED BY <1>10, <2>1 DEF C!OpenWindow, PayTyped, Answered
<1>11. CASE C!PaymentFails
  <2>1. till' \in Tills /\ till'.step = till.step /\ till'.order = till.order /\ till'.loading = till.loading
    BY <1>11 DEF C!PaymentFails, PayTyped, Tills
  <2> QED BY <1>11, <2>1 DEF C!PaymentFails, PayTyped, Answered
<1>12. CASE C!PayInWindow
  <2>1. till.order \in Orders /\ ~till.loading
    BY <1>12 DEF C!PayInWindow, Answered
  <2>2. till' \in Tills /\ till'.step = "verifying" /\ till'.order = till.order /\ till'.loading = till.loading
    BY <1>12 DEF C!PayInWindow, PayTyped, Tills
  <2>3. order' \in [Orders -> [at : OrderAts, discount : BOOLEAN]] /\ order'[till.order].at = "captured"
    BY <1>12, <2>1 DEF C!PayInWindow, PayTyped, OrderAts
  <2> QED BY <1>12, <2>1, <2>2, <2>3 DEF C!PayInWindow, PayTyped, Answered
<1>13. CASE C!Reload
  <2>1. (till.promo /\ C!Usable) \in BOOLEAN
    BY DEF PayTyped, Tills, C!Usable
  <2>2. till' \in Tills /\ till'.step = "idle" /\ ~till'.loading
    BY <1>13, <2>1 DEF C!Reload, C!Closed, Tills
  <2> QED BY <1>13, <2>2 DEF C!Reload, PayTyped, Answered
<1> QED BY <1>2, <1>3, <1>4, <1>5, <1>6, <1>7, <1>8, <1>9, <1>10, <1>11, <1>12, <1>13 DEF C!Next

LEMMA PayShows == PayInv => C!PayAnswers
BY DEF PayInv, Answered, C!PayAnswers

\* PayAnswers, for any number of orders: a click on Pay waits for nothing that is not still to come, through failed
\* calls, a dismissed window, a script that does not load and reloads.
THEOREM PayAlwaysAnswers == C!Spec => []C!PayAnswers
<1>1. C!Init => PayInv
  BY PayStarts
<1>2. PayInv /\ [C!Next]_(C!state) => PayInv'
  BY PayKept
<1>3. PayInv => C!PayAnswers
  BY PayShows
<1> QED BY <1>1, <1>2, <1>3, PTL DEF C!Spec


HIDE DEF promo, copy, expired, mirror, admin, order, till, script, tillFaults, torn, crossed, stale

-----------------------------------------------------------------------------
(* PlanPage *)

plan == v1
stripe == v2
usable == v3
saved == v4
bill == v5
bought == v6
enquiries == v7
visits == v8
pays == v9
billFaults == v10
mixed == v11

USE DEF plan, stripe, usable, saved, bill, bought, enquiries, visits, pays, billFaults, mixed

AnyCode   == Codes \cup {""}
AnyPlan     == {"free", "pro"}
BillCalls == [kind : {"load", "confirm", "preview"}, code : AnyCode, form : BOOLEAN, nr : {0} \cup 1..MaxTicks, done : BOOLEAN,
              got : AnyPlan \cup {"", "valid", "invalid"}]
Bills     == [open : BOOLEAN, shown : AnyPlan \cup {"none"}, promo : AnyCode, checking : BOOLEAN, confirming : BOOLEAN,
              welcome : BOOLEAN]
Purchases == [at : {"none", "asked", "window"}, code : AnyCode, price : AnyCode]

\* The kind of an answer goes with that of its call.
Fits(c) == c \in BillCalls /\ (c.done /\ c.kind \in {"load", "confirm"} => c.got \in AnyPlan)

BillTyped ==
  /\ plan \in AnyPlan /\ usable \in SUBSET Codes /\ saved \in AnyCode /\ mixed \in BOOLEAN
  /\ bill \in Bills /\ bought \in Purchases
  /\ \A c \in enquiries : Fits(c)

(***************************************************************************)
(* The inductive invariant.  An answer that says Pro is about an account   *)
(* that is Pro from then on; and while the previews do not cross there is  *)
(* one at most, and while there is one no code is shown that it could      *)
(* leave behind.                                                           *)
(***************************************************************************)
Charged == bought.at # "none" => bought.code = bought.price

ProIsTrue == (bill.welcome => plan = "pro") /\ \A c \in enquiries : c.kind = "confirm" /\ c.done /\ c.got = "pro" => plan = "pro"

Previews == {c \in enquiries : c.kind = "preview"}
OnePreview ==
  bill.open /\ ~mixed =>
    /\ \A c, d \in Previews : c = d
    /\ Previews # {} => bill.promo = ""
    /\ Previews = {} => saved = bill.promo \/ (bill.welcome /\ saved = "")

BillInv == BillTyped /\ Charged /\ ProIsTrue /\ OnePreview

LEMMA BillStarts == B!Init => BillInv
<1> SUFFICES ASSUME B!Init PROVE BillInv
  OBVIOUS
<1>1. bill \in Bills
  BY DEF B!Init, B!Closed, Bills, AnyCode
<1>2. bought \in Purchases
  BY DEF B!Init, B!NoOrder, Purchases, AnyCode
<1>3. BillTyped
  BY <1>1, <1>2 DEF B!Init, BillTyped, AnyCode, AnyPlan
<1>4. ~bill.open /\ ~bill.welcome /\ bought.at = "none" /\ enquiries = {}
  BY DEF B!Init, B!Closed, B!NoOrder
<1> QED BY <1>3, <1>4 DEF BillInv, Charged, ProIsTrue, OnePreview

\* A call that is new.
LEMMA CallFits ==
  ASSUME NEW kind \in {"load", "confirm", "preview"}, NEW code \in AnyCode, NEW form \in BOOLEAN
  PROVE  /\ Fits(B!Call(kind, code, form)) /\ B!Call(kind, code, form).kind = kind /\ ~B!Call(kind, code, form).done
         /\ B!Call(kind, code, form).code = code
BY DEF Fits, B!Call, BillCalls

LEMMA LoadFits == /\ Fits(B!Call("load", "", FALSE)) /\ B!Call("load", "", FALSE).kind = "load"
                  /\ ~B!Call("load", "", FALSE).done
BY CallFits DEF AnyCode

\* What the account, the codes and Razorpay do, and the button.
LEMMA PaymentKeeps ==
  ASSUME BillInv, B!AtStripe \/ B!CreateOrder \/ B!Remove \/ B!Pay \/ B!InWindow \/ B!Elsewhere
  PROVE  BillInv'
<1>1. CASE B!AtStripe
  <2>1. plan' \in {plan, "pro"} /\ UNCHANGED <<usable, saved, bill, bought, enquiries, mixed>>
    BY <1>1 DEF B!AtStripe
  <2> QED BY <2>1 DEF BillInv, BillTyped, Charged, ProIsTrue, OnePreview, Previews, AnyPlan
<1>2. CASE B!CreateOrder
  <2>1. bought' \in {[bought EXCEPT !.at = "window"], B!NoOrder} /\ UNCHANGED <<plan, usable, saved, bill, enquiries, mixed>>
        /\ bought.at # "none"
    BY <1>2 DEF B!CreateOrder, B!Priced, B!server
  <2>2. CASE bought' = B!NoOrder
    <3>1. bought' \in Purchases /\ bought'.at = "none"
      BY <2>2 DEF Purchases, B!NoOrder, AnyCode
    <3> QED BY <2>1, <3>1 DEF BillInv, BillTyped, Charged, ProIsTrue, OnePreview, Previews
  <2>3. CASE bought' # B!NoOrder
    <3>1. bought' \in Purchases /\ bought'.code = bought'.price
      BY <2>1, <2>3 DEF BillInv, BillTyped, Charged, Purchases
    <3> QED BY <2>1, <3>1 DEF BillInv, BillTyped, Charged, ProIsTrue, OnePreview, Previews
  <2> QED BY <2>2, <2>3
<1>3. CASE B!Remove
  <2>1. /\ bill' = [bill EXCEPT !.promo = ""] /\ saved' = "" /\ bill.promo # ""
        /\ UNCHANGED <<plan, usable, bought, enquiries, mixed>>
    BY <1>3 DEF B!Remove, B!server
  <2>2. bill' \in Bills /\ bill'.promo = "" /\ bill'.open = bill.open /\ bill'.welcome = bill.welcome
    BY <2>1 DEF BillInv, BillTyped, Bills, AnyCode
  <2>3. OnePreview'
    BY <2>1, <2>2 DEF BillInv, OnePreview, Previews
  <2> QED BY <2>1, <2>2, <2>3 DEF BillInv, BillTyped, Charged, ProIsTrue, AnyCode
<1>4. CASE B!Pay
  <2>1. bought' = [at |-> "asked", code |-> bill.promo, price |-> bill.promo] /\ UNCHANGED <<plan, usable, saved, bill, enquiries, mixed>>
    BY <1>4 DEF B!Pay, B!Card, B!server
  <2>2. bought' \in Purchases /\ bought'.code = bought'.price
    BY <2>1 DEF BillInv, BillTyped, Bills, Purchases
  <2> QED BY <2>1, <2>2 DEF BillInv, BillTyped, Charged, ProIsTrue, OnePreview, Previews
<1>5. CASE B!InWindow
  <2>1. /\ bought' = B!NoOrder /\ UNCHANGED <<usable, saved, bill, mixed>>
        /\ \/ plan' = "pro" /\ enquiries' = enquiries \cup {B!Call("load", "", FALSE)}
           \/ UNCHANGED <<plan, enquiries>>
    BY <1>5 DEF B!InWindow, B!bounds
  <2>2. bought' \in Purchases /\ bought'.at = "none"
    BY <2>1 DEF B!NoOrder, Purchases, AnyCode
  <2>3. \A c \in enquiries' : Fits(c) /\ (c \in enquiries \/ c.kind = "load")
    BY <2>1, LoadFits DEF BillInv, BillTyped
  <2>4. Previews' = Previews
    BY <2>1, LoadFits DEF Previews
  <2> QED BY <2>1, <2>2, <2>3, <2>4 DEF BillInv, BillTyped, Charged, ProIsTrue, OnePreview, AnyPlan
<1>6. CASE B!Elsewhere
  <2>1. saved' \in usable \cup {""} /\ mixed' = TRUE /\ UNCHANGED <<plan, usable, bill, bought, enquiries>>
    BY <1>6 DEF B!Elsewhere, B!server
  <2> QED BY <2>1 DEF BillInv, BillTyped, Charged, ProIsTrue, OnePreview, AnyCode
<1> QED BY <1>1, <1>2, <1>3, <1>4, <1>5, <1>6

\* What asks.
LEMMA ConfirmingKeeps ==
  ASSUME BillInv,
         \/ \E n \in 1..MaxTicks : B!Tick(n)
         \/ \E code \in Codes : B!Ends(code) \/ B!Apply(code)
         \/ \E linked \in Codes \cup {""}, back \in BOOLEAN : B!Visit(linked, back)
  PROVE  BillInv'
<1>1. ASSUME NEW n \in 1..MaxTicks, B!Tick(n) PROVE BillInv'
  <2>1. /\ enquiries' = enquiries \cup {[B!Call("confirm", "", FALSE) EXCEPT !.nr = n]}
        /\ UNCHANGED <<plan, usable, saved, bill, bought, mixed>>
    BY <1>1 DEF B!Tick, B!server
  <2>2. PICK c : enquiries' = enquiries \cup {c} /\ Fits(c) /\ c.kind = "confirm" /\ ~c.done
    <3> DEFINE call == B!Call("confirm", "", FALSE)
    <3>1. Fits(call) /\ call.kind = "confirm" /\ ~call.done
      BY CallFits DEF AnyCode
    <3> HIDE DEF call
    <3>2. [call EXCEPT !.nr = n] \in BillCalls /\ [call EXCEPT !.nr = n].kind = "confirm" /\ ~[call EXCEPT !.nr = n].done
      BY <1>1, <3>1 DEF Fits, BillCalls
    <3> QED BY <2>1, <3>2 DEF Fits, call
  <2>3. Previews' = Previews
    BY <2>2 DEF Previews
  <2> QED BY <2>1, <2>2, <2>3 DEF BillInv, BillTyped, Charged, ProIsTrue, OnePreview
<1>2. ASSUME NEW code \in Codes, B!Ends(code) PROVE BillInv'
  <2>1. usable' = usable \ {code} /\ UNCHANGED <<plan, saved, bill, bought, enquiries, mixed>>
    BY <1>2 DEF B!Ends
  <2> QED BY <2>1 DEF BillInv, BillTyped, Charged, ProIsTrue, OnePreview, Previews
<1>3. ASSUME NEW code \in Codes, B!Apply(code) PROVE BillInv'
  <2>1. /\ enquiries' = enquiries \cup {B!Call("preview", code, TRUE)} /\ bill' = [bill EXCEPT !.checking = TRUE] /\ bill.promo = ""
        /\ mixed' = (mixed \/ Previews # {}) /\ UNCHANGED <<plan, usable, saved, bought>>
    BY <1>3 DEF B!Apply, B!Of, Previews, B!server
  <2>2. PICK c : enquiries' = enquiries \cup {c} /\ Fits(c) /\ c.kind = "preview" /\ ~c.done
    BY <2>1, CallFits DEF AnyCode
  <2>3. bill' \in Bills /\ bill'.promo = "" /\ bill'.open = bill.open /\ bill'.welcome = bill.welcome
    BY <2>1 DEF BillInv, BillTyped, Bills
  <2>4. Previews' = Previews \cup {c}
    BY <2>2 DEF Previews
  <2>5. OnePreview'
    BY <2>1, <2>2, <2>3, <2>4 DEF BillInv, OnePreview
  <2> QED BY <2>1, <2>2, <2>3, <2>5 DEF BillInv, BillTyped, Charged, ProIsTrue
<1>4. ASSUME NEW linked \in Codes \cup {""}, NEW back \in BOOLEAN, B!Visit(linked, back) PROVE BillInv'
  <2> DEFINE code == IF linked # "" THEN linked ELSE saved
  <2>1. /\ enquiries' = {B!Call("load", "", FALSE)} \cup IF code = "" THEN {} ELSE {B!Call("preview", code, FALSE)}
        /\ bill' = [B!Closed EXCEPT !.open = TRUE, !.confirming = back] /\ bought' = B!NoOrder /\ mixed' = FALSE
        /\ UNCHANGED <<plan, usable, saved>>
    BY <1>4 DEF B!Visit, B!server
  <2>2. code \in AnyCode /\ (code = "" => saved = "")
    BY DEF BillInv, BillTyped, AnyCode
  <2> HIDE DEF code
  <2>3. bill' \in Bills /\ bill'.promo = "" /\ ~bill'.welcome /\ bought' \in Purchases /\ bought'.at = "none"
    BY <2>1 DEF B!Closed, B!NoOrder, Bills, Purchases, AnyCode
  <2> DEFINE c == B!Call("preview", code, FALSE)
             load == B!Call("load", "", FALSE)
  <2>c. Fits(c) /\ c.kind = "preview" /\ ~c.done
    BY <2>2, CallFits
  <2>l. Fits(load) /\ load.kind = "load" /\ ~load.done
    BY LoadFits
  <2>a. enquiries' = IF code = "" THEN {load} ELSE {load, c}
    BY <2>1
  <2> HIDE DEF c, load
  <2>4. \A d \in enquiries' : Fits(d) /\ ~d.done
    BY <2>a, <2>c, <2>l
  <2>5. CASE code = ""
    <3>1. Previews' = {} /\ saved = ""
      BY <2>2, <2>5, <2>a, <2>l DEF Previews
    <3> QED BY <2>1, <2>3, <2>4, <3>1 DEF BillInv, BillTyped, Charged, ProIsTrue, OnePreview
  <2>6. CASE code # ""
    <3>1. Previews' = {c}
      BY <2>6, <2>a, <2>c, <2>l DEF Previews
    <3> QED BY <2>1, <2>3, <2>4, <3>1 DEF BillInv, BillTyped, Charged, ProIsTrue, OnePreview
  <2> QED BY <2>5, <2>6
<1> QED BY <1>1, <1>2, <1>3, <1>4

\* What is answered.
LEMMA PlanAnswersKeep ==
  ASSUME BillInv, NEW c \in enquiries,
         B!ReadPlan(c) \/ B!Preview(c) \/ B!Loaded(c) \/ B!Confirmed(c) \/ B!Previewed(c) \/ B!Lost(c)
  PROVE  BillInv'
<1>0. Fits(c) /\ bill \in Bills /\ plan \in AnyPlan
  BY DEF BillInv, BillTyped
<1>1. CASE B!ReadPlan(c)
  <2>1. /\ plan' \in {plan, "pro"} /\ enquiries' = (enquiries \ {c}) \cup {[c EXCEPT !.done = TRUE, !.got = plan']}
        /\ c.kind # "preview" /\ UNCHANGED <<usable, saved, bill, bought, mixed>>
    BY <1>1 DEF B!ReadPlan, B!Answers
  <2>2. plan' \in AnyPlan
    BY <1>0, <2>1 DEF AnyPlan
  <2>3. PICK d : enquiries' = (enquiries \ {c}) \cup {d} /\ Fits(d) /\ d.kind # "preview" /\ d.got = plan'
    <3>1. [c EXCEPT !.done = TRUE, !.got = plan'].kind = c.kind /\ [c EXCEPT !.done = TRUE, !.got = plan'].got = plan'
      BY <1>0 DEF Fits, BillCalls
    <3>2. Fits([c EXCEPT !.done = TRUE, !.got = plan'])
      BY <1>0, <2>2, <3>1 DEF Fits, BillCalls
    <3> QED BY <2>1, <3>1, <3>2
  <2>4. Previews' = Previews
    BY <2>1, <2>3 DEF Previews
  <2> QED BY <2>1, <2>2, <2>3, <2>4 DEF BillInv, BillTyped, Charged, ProIsTrue, OnePreview
<1>2. CASE B!Preview(c)
  <2>1. /\ \E got \in {"valid", "invalid"} : enquiries' = (enquiries \ {c}) \cup {[c EXCEPT !.done = TRUE, !.got = got]}
        /\ c.kind = "preview" /\ UNCHANGED <<plan, usable, saved, bill, bought, mixed>>
    BY <1>2 DEF B!Preview, B!Answers, B!server
  <2>2. PICK d : enquiries' = (enquiries \ {c}) \cup {d} /\ Fits(d) /\ d.kind = "preview"
    <3>1. PICK got \in {"valid", "invalid"} : enquiries' = (enquiries \ {c}) \cup {[c EXCEPT !.done = TRUE, !.got = got]}
      BY <2>1
    <3>2. [c EXCEPT !.done = TRUE, !.got = got].kind = c.kind /\ [c EXCEPT !.done = TRUE, !.got = got] \in BillCalls
      BY <1>0 DEF Fits, BillCalls
    <3> QED BY <2>1, <3>1, <3>2 DEF Fits
  <2>3. Previews' = (Previews \ {c}) \cup {d} /\ c \in Previews
    BY <2>1, <2>2 DEF Previews
  <2> QED BY <2>1, <2>2, <2>3 DEF BillInv, BillTyped, Charged, ProIsTrue, OnePreview
<1>3. CASE B!Loaded(c)
  <2>1. /\ enquiries' = enquiries \ {c} /\ c.kind = "load" /\ c.got \in AnyPlan /\ bill' = [bill EXCEPT !.shown = c.got]
        /\ UNCHANGED <<plan, usable, saved, bought, mixed>>
    BY <1>0, <1>3 DEF B!Loaded, Fits, B!server
  <2>2. bill' \in Bills /\ bill'.promo = bill.promo /\ bill'.open = bill.open /\ bill'.welcome = bill.welcome
    BY <1>0, <2>1 DEF Bills
  <2>3. Previews' = Previews
    BY <2>1 DEF Previews
  <2> QED BY <2>1, <2>2, <2>3 DEF BillInv, BillTyped, Charged, ProIsTrue, OnePreview
<1>4. CASE B!Confirmed(c)
  <2>1. c.kind = "confirm" /\ c.done /\ c.got \in AnyPlan /\ UNCHANGED <<plan, usable, bought, mixed>>
    BY <1>0, <1>4 DEF B!Confirmed, Fits, B!server
  <2>2. CASE c.got = "pro"
    <3>1. /\ bill' = [bill EXCEPT !.shown = c.got, !.confirming = FALSE, !.welcome = TRUE] /\ saved' = ""
          /\ enquiries' = (enquiries \ {c}) \cup {B!Call("load", "", FALSE)}
      BY <1>4, <2>2 DEF B!Confirmed, B!IsPro
    <3>2. bill' \in Bills /\ bill'.promo = bill.promo /\ bill'.open = bill.open /\ bill'.welcome
      BY <1>0, <2>1, <3>1 DEF Bills
    <3>3. Previews' = Previews
      BY <2>1, <3>1, LoadFits DEF Previews
    <3>4. \A d \in enquiries' : Fits(d) /\ (d \in enquiries \/ ~d.done)
      BY <3>1, LoadFits DEF BillInv, BillTyped
    <3>5. plan = "pro"
      BY <2>1, <2>2 DEF BillInv, ProIsTrue
    <3>6. OnePreview'
      BY <2>1, <3>1, <3>2, <3>3 DEF BillInv, OnePreview, Previews
    <3> QED BY <2>1, <3>1, <3>2, <3>4, <3>5, <3>6 DEF BillInv, BillTyped, Charged, ProIsTrue, AnyCode
  <2>3. CASE c.got # "pro"
    <3>1. bill' \in {[bill EXCEPT !.shown = c.got], [bill EXCEPT !.shown = c.got, !.confirming = FALSE]} /\ saved' = saved
          /\ enquiries' = enquiries \ {c}
      BY <1>4, <2>3 DEF B!Confirmed, B!IsPro, B!GivesUp
    <3>2. bill' \in Bills /\ bill'.promo = bill.promo /\ bill'.open = bill.open /\ bill'.welcome = bill.welcome
      BY <1>0, <2>1, <3>1 DEF Bills
    <3>3. Previews' = Previews
      BY <2>1, <3>1 DEF Previews
    <3> QED BY <2>1, <3>1, <3>2, <3>3 DEF BillInv, BillTyped, Charged, ProIsTrue, OnePreview
  <2> QED BY <2>2, <2>3
<1>5. CASE B!Previewed(c)
  <2>1. /\ c.kind = "preview" /\ enquiries' = enquiries \ {c} /\ UNCHANGED <<plan, usable, bought, mixed>>
        /\ bill' = [bill EXCEPT !.promo = IF c.got = "valid" THEN c.code ELSE @, !.checking = @ /\ ~c.form]
        /\ saved' = IF c.got = "valid" THEN c.code ELSE ""
    BY <1>5 DEF B!Previewed, B!Saves, B!server
  <2>2. c.code \in AnyCode /\ c.form \in BOOLEAN /\ "" \in AnyCode
    BY <1>0 DEF Fits, BillCalls, AnyCode
  <2>3. bill' \in Bills /\ bill'.open = bill.open /\ bill'.welcome = bill.welcome
        /\ bill'.promo = IF c.got = "valid" THEN c.code ELSE bill.promo
    BY <1>0, <2>1, <2>2 DEF Bills
  <2>4. Previews' = Previews \ {c} /\ c \in Previews
    BY <2>1 DEF Previews
  <2>5. OnePreview'
    BY <2>1, <2>3, <2>4 DEF BillInv, OnePreview
  <2>6. saved' \in AnyCode
    BY <2>1, <2>2
  <2> QED BY <2>1, <2>3, <2>5, <2>6 DEF BillInv, BillTyped, Charged, ProIsTrue
<1>6. CASE B!Lost(c)
  <2>1. /\ enquiries' = enquiries \ {c} /\ UNCHANGED <<plan, usable, bought, mixed>>
        /\ saved' = IF c.kind = "preview" THEN "" ELSE saved
        /\ bill' \in {[bill EXCEPT !.shown = bill.shown], [bill EXCEPT !.shown = bill.shown, !.confirming = FALSE],
                      [bill EXCEPT !.checking = @ /\ ~c.form]}
    BY <1>6 DEF B!Lost, B!GivesUp, B!server
  <2>2. c.form \in BOOLEAN
    BY <1>0 DEF Fits, BillCalls
  <2>3. bill' \in Bills /\ bill'.promo = bill.promo /\ bill'.open = bill.open /\ bill'.welcome = bill.welcome
    BY <1>0, <2>1, <2>2 DEF Bills
  <2>4. Previews' = Previews \ {c} /\ (c \in Previews <=> c.kind = "preview")
    BY <2>1 DEF Previews
  <2>5. OnePreview'
    BY <2>1, <2>3, <2>4 DEF BillInv, OnePreview
  <2> QED BY <2>1, <2>3, <2>5 DEF BillInv, BillTyped, Charged, ProIsTrue, AnyCode
<1> QED BY <1>1, <1>2, <1>3, <1>4, <1>5, <1>6

LEMMA BillShows == BillInv => B!PriceIsKept
BY DEF BillInv, Charged, ProIsTrue, OnePreview, Previews, B!PriceIsKept, B!Of

LEMMA BillKept == ASSUME BillInv, [B!Next]_(B!state) PROVE BillInv'
<1>1. BillInv /\ UNCHANGED B!state => BillInv'
  <2> SUFFICES ASSUME BillInv, UNCHANGED B!state PROVE BillInv'
    OBVIOUS
  <2>1. UNCHANGED <<plan, usable, saved, bill, bought, enquiries, mixed>>
    BY DEF B!state, B!server
  <2> QED BY <2>1 DEF BillInv, BillTyped, Charged, ProIsTrue, OnePreview, Previews
<1> QED BY <1>1, PaymentKeeps, ConfirmingKeeps, PlanAnswersKeep DEF B!Next

THEOREM PriceIsAlwaysKept == B!Spec => []B!PriceIsKept
<1>1. B!Init => BillInv
  BY BillStarts
<1>2. BillInv /\ [B!Next]_(B!state) => BillInv'
  BY BillKept
<1>3. BillInv => B!PriceIsKept
  BY BillShows
<1> QED BY <1>1, <1>2, <1>3, PTL DEF B!Spec

HIDE DEF plan, stripe, usable, saved, bill, bought, enquiries, visits, pays, billFaults, mixed

-----------------------------------------------------------------------------
(* Integrations *)

entry == v1
blocks == v2
slotAt == v3
imports == v4
deps == v5
routes == v6
installs == v7
queue == v8
click == v9
queued == v10
loose == v11
unrecorded == v12

USE DEF entry, blocks, slotAt, imports, deps, routes, installs, queue, click, queued, loose, unrecorded

\* What the constants of Integrations are, and that None is not one of them.
Catalogue ==
  /\ IsFiniteSet(Ints) /\ MaxInstalled \in Nat
  /\ NoValue \notin Slots /\ NoValue \notin Files
  /\ Home \in [Slots -> Files] /\ After \in [Slots -> Slots \cup {NoValue}]

Requests == {what \in [type : {"install", "move", "uninstall"}, int : Ints, slot : Slots \cup {NoValue}, applied : BOOLEAN] :
               IF what.type = "uninstall" THEN what.slot = NoValue ELSE what.slot \in Slots}
Waiting == {what \in Requests : ~what.applied}

CodeTypes ==
  /\ entry \in [Ints -> Slots \cup {NoValue}] /\ installs \in [Ints -> Slots \cup {NoValue}]
  /\ slotAt \in [Slots -> Files \cup {NoValue}] /\ unrecorded \subseteq Ints
  /\ queue \in Seq(Requests)
  /\ click \in [Clicks -> Waiting \cup {I!Nobody}]
  /\ \A n \in 2..Len(queue) : ~queue[n].applied

\* CodeIsWhole is inductive, but for the count.
Placed ==
  /\ blocks = {<<entry[i], i>> : i \in I!InCode}
  /\ \A i \in I!InCode : slotAt[entry[i]] # NoValue /\ <<slotAt[entry[i]], PackageOf[i]>> \in imports
  /\ imports \subseteq loose \cup {<<slotAt[entry[i]], PackageOf[i]>> : i \in I!InCode}
  /\ routes = I!InCode \cap Routes

Counted == Cardinality(I!InCode) <= MaxInstalled

\* The table says the same, but for the operation under way and those that failed in between.
Told == \A i \in Ints : installs[i] # entry[i] => i \in unrecorded \/ (~I!Between /\ Head(queue).int = i)

\* Its row will say what the code says; and if it is a move whose row is not there, an earlier one was lost.
RowToCome ==
  ~I!Between =>
    /\ entry[Head(queue).int] = Head(queue).slot
    /\ Head(queue).type = "move" /\ installs[Head(queue).int] = NoValue => Head(queue).int \in unrecorded

WholeInv == CodeTypes /\ Placed /\ Counted /\ Told /\ RowToCome

LEMMA SameCount == ASSUME NEW X PROVE I!Cardinality(X) = Cardinality(X)
BY DEF I!Cardinality, Cardinality

LEMMA CodeInCount ==
  ASSUME Catalogue, NEW X, X \subseteq Ints
  PROVE  IsFiniteSet(X) /\ Cardinality(X) \in Nat
BY FS_Subset, FS_CardinalityType DEF Catalogue

LEMMA WholeStarts == ASSUME Catalogue PROVE I!Init => WholeInv
<1> SUFFICES ASSUME I!Init PROVE WholeInv
  OBVIOUS
<1>1. I!InCode = {} /\ entry \in [Ints -> Slots \cup {NoValue}] /\ installs = entry
  BY DEF I!Init, I!InCode
<1>2. slotAt \in [Slots -> Files \cup {NoValue}]
  BY DEF I!Init, Catalogue
<1>3. CodeTypes
  BY <1>1, <1>2 DEF I!Init, CodeTypes
<1>4. Placed
  BY <1>1 DEF Placed, I!Init
<1>5. Counted
  BY <1>1, FS_EmptySet DEF Counted, Catalogue
<1>6. Told /\ RowToCome
  BY <1>1 DEF Told, RowToCome, I!Between, I!Init
<1> QED BY <1>3, <1>4, <1>5, <1>6 DEF WholeInv

\* A slot that a file declares stays in it when the missing ones are added.
LEMMA MigratedFits ==
  ASSUME Catalogue, CodeTypes
  PROVE  /\ I!Migrated \in [Slots -> Files \cup {NoValue}]
         /\ \A s \in Slots : slotAt[s] # NoValue => I!Migrated[s] = slotAt[s]
BY DEF Catalogue, CodeTypes, I!Migrated

\* The head of the queue is carried out, or comes to nothing.
LEMMA HeadFits ==
  ASSUME CodeTypes, queue # <<>>
  PROVE  /\ Head(queue) \in Requests /\ Tail(queue) \in Seq(Requests)
         /\ \A n \in 1..Len(Tail(queue)) : ~Tail(queue)[n].applied
<1>1. queue \in Seq(Requests) /\ \A n \in 2..Len(queue) : ~queue[n].applied
  BY DEF CodeTypes
<1>2. Head(queue) \in Requests /\ Tail(queue) \in Seq(Requests)
  BY <1>1
<1>3. ASSUME NEW n \in 1..Len(Tail(queue)) PROVE ~Tail(queue)[n].applied
  <2>1. Tail(queue)[n] = queue[n + 1] /\ n + 1 \in 2..Len(queue)
    BY <1>1
  <2> QED BY <1>1, <2>1
<1> QED BY <1>2, <1>3

\* The operation that was applied stays at the head, and is the one whose row may differ.
LEMMA AppliedFits ==
  ASSUME CodeTypes, queue # <<>>, I!Applied
  PROVE  /\ queue' \in Seq(Requests) /\ click' = click /\ \A n \in 2..Len(queue') : ~queue'[n].applied
         /\ ~I!Between' /\ Head(queue').int = Head(queue).int
         /\ Head(queue').slot = Head(queue).slot /\ Head(queue').type = Head(queue).type
<1>1. queue \in Seq(Requests) /\ Len(queue) \in Nat /\ 1 \in 1..Len(queue)
  BY DEF CodeTypes
<1>2. queue[1] \in Requests /\ Head(queue) = queue[1]
  BY <1>1
<1> DEFINE new == [queue[1] EXCEPT !.applied = TRUE]
<1>3. new \in Requests /\ new.applied /\ new.int = queue[1].int /\ new.slot = queue[1].slot /\ new.type = queue[1].type
  BY <1>2 DEF Requests
<1>4. queue' = [queue EXCEPT ![1] = new] /\ click' = click
  BY DEF I!Applied
<1> HIDE DEF new
<1>5. queue' \in Seq(Requests) /\ Len(queue') = Len(queue) /\ queue'[1] = new
  BY <1>1, <1>3, <1>4
<1>6. queue' # <<>> /\ Head(queue') = new
  BY <1>1, <1>5
<1>7. \A n \in 2..Len(queue) : queue'[n] = queue[n]
  BY <1>1, <1>4
<1>8. \A n \in 2..Len(queue') : ~queue'[n].applied
  BY <1>5, <1>7 DEF CodeTypes
<1> QED BY <1>2, <1>3, <1>4, <1>5, <1>6, <1>8 DEF I!Between

LEMMA ToldApplied ==
  ASSUME Told, I!Between, I!Applied, ~I!Between', Head(queue').int = Head(queue).int,
         Head(queue').slot = Head(queue).slot, Head(queue').type = Head(queue).type, Head(queue).int \in Ints,
         UNCHANGED <<installs, unrecorded>>, \A j \in Ints : j # Head(queue).int => entry'[j] = entry[j],
         entry'[Head(queue).int] = Head(queue).slot,
         Head(queue).type = "move" => entry[Head(queue).int] # NoValue
  PROVE  Told' /\ RowToCome'
<1>1. Told'
  BY DEF Told
<1>2. Head(queue).type = "move" /\ installs[Head(queue).int] = NoValue => Head(queue).int \in unrecorded
  BY DEF Told
<1>3. RowToCome'
  BY <1>2 DEF RowToCome
<1> QED BY <1>1, <1>3

LEMMA InstallKeeps ==
  ASSUME Catalogue, WholeInv, I!Install
  PROVE  WholeInv'
<1> DEFINE i == Head(queue).int
           s == Head(queue).slot
           at == I!Migrated
<1>1. i \in Ints /\ s \in Slots /\ Head(queue).type = "install" /\ queue # <<>> /\ I!Between /\ I!Applied /\ UNCHANGED <<installs, unrecorded>>
  BY HeadFits DEF I!Install, I!Starts, I!Between, I!table, Requests, WholeInv
<1>2. /\ entry[i] = NoValue /\ Cardinality(I!InCode) < MaxInstalled /\ at[s] # NoValue
      /\ entry' = [entry EXCEPT ![i] = s]
      /\ blocks' = blocks \cup {<<s, i>>} /\ imports' = imports \cup {<<at[s], PackageOf[i]>>} /\ slotAt' = at
      /\ routes' = IF i \in Routes THEN routes \cup {i} ELSE routes
      /\ UNCHANGED loose
  <2>1. I!Installs(i) /\ I!InstallIntegration(i, s) /\ routes' = routes \cup I!ServerFiles(i) /\ UNCHANGED loose
    BY DEF I!Install
  <2>2. routes' = IF i \in Routes THEN routes \cup {i} ELSE routes
    BY <2>1 DEF I!ServerFiles
  <2> QED BY <2>1, <2>2, SameCount DEF I!Installs, I!InstallIntegration, I!Place, I!AddImport
<1>3. at \in [Slots -> Files \cup {NoValue}] /\ \A t \in Slots : slotAt[t] # NoValue => at[t] = slotAt[t]
  BY MigratedFits DEF WholeInv
<1>a. /\ queue' \in Seq(Requests) /\ click' = click /\ \A n \in 2..Len(queue') : ~queue'[n].applied
      /\ ~I!Between' /\ Head(queue').int = i /\ Head(queue').slot = Head(queue).slot /\ Head(queue').type = Head(queue).type
  BY <1>1, AppliedFits DEF WholeInv
<1>b. entry'[i] = s /\ (\A j \in Ints : j # i => entry'[j] = entry[j]) => Told' /\ RowToCome'
  BY <1>1, <1>a, ToldApplied DEF WholeInv
<1> HIDE DEF i, s, at
<1>4. CodeTypes'
  BY <1>1, <1>2, <1>3, <1>a DEF WholeInv, CodeTypes, I!Nobody
<1>5. /\ entry'[i] = s /\ \A j \in Ints : j # i => entry'[j] = entry[j]
      /\ I!InCode' = I!InCode \cup {i} /\ i \notin I!InCode /\ s # NoValue
  BY <1>1, <1>2 DEF WholeInv, CodeTypes, I!InCode, Catalogue
<1>6. \A j \in I!InCode : j # i /\ entry'[j] = entry[j] /\ at[entry[j]] = slotAt[entry[j]]
  BY <1>3, <1>5 DEF WholeInv, CodeTypes, Placed, I!InCode
<1>7. Placed'
  <2>1. blocks' = {<<entry'[j], j>> : j \in I!InCode'}
    BY <1>2, <1>5, <1>6 DEF WholeInv, Placed
  <2>2. \A j \in I!InCode' : slotAt'[entry'[j]] # NoValue /\ <<slotAt'[entry'[j]], PackageOf[j]>> \in imports'
    BY <1>2, <1>5, <1>6 DEF WholeInv, Placed
  <2>3. imports' \subseteq loose' \cup {<<slotAt'[entry'[j]], PackageOf[j]>> : j \in I!InCode'}
    BY <1>2, <1>5, <1>6 DEF WholeInv, Placed
  <2>4. routes' = I!InCode' \cap Routes
    BY <1>2, <1>5 DEF WholeInv, Placed
  <2> QED BY <2>1, <2>2, <2>3, <2>4 DEF Placed
<1>8. Counted'
  <2>1. IsFiniteSet(I!InCode) /\ Cardinality(I!InCode) \in Nat
    BY CodeInCount DEF I!InCode
  <2>2. Cardinality(I!InCode \cup {i}) = Cardinality(I!InCode) + 1
    BY <1>5, <2>1, FS_AddElement
  <2> QED BY <1>2, <1>5, <2>1, <2>2 DEF Counted, Catalogue
<1> QED BY <1>4, <1>5, <1>7, <1>8, <1>b DEF WholeInv

\* What Unplace leaves: every other integration's block and import, and no import of its own that nobody else has.
LEMMA UnplaceFits ==
  ASSUME Catalogue, WholeInv, NEW i \in I!InCode,
         NEW left, left = I!Unplace(I!Migrated, i, I!InCode \ {i})
  PROVE  /\ left.blocks = {<<entry[j], j>> : j \in I!InCode \ {i}}
         /\ \A j \in I!InCode \ {i} : <<slotAt[entry[j]], PackageOf[j]>> \in left.imports
         /\ left.imports \subseteq loose \cup {<<slotAt[entry[j]], PackageOf[j]>> : j \in I!InCode \ {i}}
<1> DEFINE at == I!Migrated
<1>1. \A j \in I!InCode : entry[j] \in Slots /\ at[entry[j]] = slotAt[entry[j]]
  BY MigratedFits DEF WholeInv, CodeTypes, Placed, I!InCode
<1> DEFINE file == slotAt[entry[i]]
           shared == \E o \in I!InCode \ {i} : PackageOf[o] = PackageOf[i] /\ at[entry[o]] = file
<1>2. /\ left.blocks = blocks \ {<<entry[i], i>>}
      /\ left.imports = IF shared THEN imports ELSE imports \ {<<file, PackageOf[i]>>}
  BY <1>1 DEF I!Unplace, I!RemoveImport
<1>3. left.blocks = {<<entry[j], j>> : j \in I!InCode \ {i}}
  BY <1>2 DEF WholeInv, Placed
<1> HIDE DEF at
<1>4. CASE shared
  <2>1. left.imports = imports
    BY <1>2, <1>4
  <2>2. PICK o \in I!InCode \ {i} : PackageOf[o] = PackageOf[i] /\ slotAt[entry[o]] = file
    BY <1>1, <1>4
  <2> QED BY <1>3, <2>1, <2>2 DEF WholeInv, Placed
<1>5. CASE ~shared
  <2>1. left.imports = imports \ {<<file, PackageOf[i]>>}
    BY <1>2, <1>5
  <2>2. \A o \in I!InCode \ {i} : <<slotAt[entry[o]], PackageOf[o]>> # <<file, PackageOf[i]>>
    BY <1>1, <1>5
  <2> QED BY <1>3, <2>1, <2>2 DEF WholeInv, Placed
<1> QED BY <1>4, <1>5

LEMMA UninstallKeeps ==
  ASSUME Catalogue, WholeInv, I!Uninstall
  PROVE  WholeInv'
<1> DEFINE i == Head(queue).int
           left == I!Unplace(I!Migrated, i, I!InCode \ {i})
           at == I!Migrated
<1>1. i \in Ints /\ Head(queue).slot = NoValue /\ Head(queue).type = "uninstall" /\ queue # <<>> /\ I!Between /\ I!Applied /\ UNCHANGED <<installs, unrecorded>>
  BY HeadFits DEF I!Uninstall, I!Starts, I!Between, I!table, Requests, WholeInv
<1>2. /\ entry[i] # NoValue /\ entry' = [entry EXCEPT ![i] = NoValue]
      /\ blocks' = left.blocks /\ imports' = left.imports /\ slotAt' = at /\ routes' = routes \ {i}
      /\ UNCHANGED loose
  BY DEF I!Uninstall, I!UninstallIntegration
<1>3. at \in [Slots -> Files \cup {NoValue}] /\ \A t \in Slots : slotAt[t] # NoValue => at[t] = slotAt[t]
  BY MigratedFits DEF WholeInv
<1>4. i \in I!InCode
  BY <1>1, <1>2 DEF I!InCode
<1>5. /\ left.blocks = {<<entry[j], j>> : j \in I!InCode \ {i}}
      /\ \A j \in I!InCode \ {i} : <<slotAt[entry[j]], PackageOf[j]>> \in left.imports
      /\ left.imports \subseteq loose \cup {<<slotAt[entry[j]], PackageOf[j]>> : j \in I!InCode \ {i}}
  BY <1>4, UnplaceFits
<1>a. /\ queue' \in Seq(Requests) /\ click' = click /\ \A n \in 2..Len(queue') : ~queue'[n].applied
      /\ ~I!Between' /\ Head(queue').int = i /\ Head(queue').slot = Head(queue).slot /\ Head(queue').type = Head(queue).type
  BY <1>1, AppliedFits DEF WholeInv
<1>b. entry'[i] = NoValue /\ (\A j \in Ints : j # i => entry'[j] = entry[j]) => Told' /\ RowToCome'
  BY <1>1, <1>a, ToldApplied DEF WholeInv
<1> HIDE DEF i, left, at
<1>6. CodeTypes'
  BY <1>1, <1>2, <1>3, <1>a DEF WholeInv, CodeTypes, I!Nobody
<1>c. entry'[i] = NoValue /\ \A j \in Ints : j # i => entry'[j] = entry[j]
  BY <1>1, <1>2 DEF WholeInv, CodeTypes
<1>7. I!InCode' = I!InCode \ {i} /\ \A j \in I!InCode \ {i} : entry'[j] = entry[j] /\ at[entry[j]] = slotAt[entry[j]]
  BY <1>1, <1>2, <1>3 DEF WholeInv, CodeTypes, Placed, I!InCode
<1>8. Placed'
  <2>1. blocks' = {<<entry'[j], j>> : j \in I!InCode'}
    BY <1>2, <1>5, <1>7
  <2>2. \A j \in I!InCode' : slotAt'[entry'[j]] # NoValue /\ <<slotAt'[entry'[j]], PackageOf[j]>> \in imports'
    BY <1>2, <1>5, <1>7 DEF WholeInv, Placed
  <2>3. imports' \subseteq loose' \cup {<<slotAt'[entry'[j]], PackageOf[j]>> : j \in I!InCode'}
    BY <1>2, <1>5, <1>7
  <2>4. routes' = I!InCode' \cap Routes
    BY <1>2, <1>7 DEF WholeInv, Placed
  <2> QED BY <2>1, <2>2, <2>3, <2>4 DEF Placed
<1>9. Counted'
  <2>1. Cardinality(I!InCode \ {i}) <= Cardinality(I!InCode) /\ Cardinality(I!InCode \ {i}) \in Nat /\ Cardinality(I!InCode) \in Nat
    BY CodeInCount, FS_Subset DEF I!InCode
  <2> QED BY <1>7, <2>1 DEF WholeInv, Counted, Catalogue
<1> QED BY <1>6, <1>8, <1>9, <1>b, <1>c DEF WholeInv

LEMMA MoveKeeps ==
  ASSUME Catalogue, WholeInv, I!Move
  PROVE  WholeInv'
<1> DEFINE i == Head(queue).int
           s == Head(queue).slot
           left == I!Unplace(I!Migrated, i, I!InCode \ {i})
           at == I!Migrated
<1>1. /\ i \in Ints /\ s \in Slots /\ s # NoValue
      /\ queue # <<>> /\ I!Between /\ I!Applied /\ UNCHANGED <<installs, unrecorded>>
  BY HeadFits DEF I!Move, I!Starts, I!Between, I!table, Requests, WholeInv, Catalogue
<1>2. /\ entry[i] # NoValue /\ at[s] # NoValue /\ entry' = [entry EXCEPT ![i] = s]
      /\ blocks' = left.blocks \cup {<<s, i>>} /\ imports' = left.imports \cup {<<at[s], PackageOf[i]>>} /\ slotAt' = at
      /\ UNCHANGED <<loose, routes>>
  BY DEF I!Move, I!MoveIntegration, I!Place, I!AddImport
<1>3. at \in [Slots -> Files \cup {NoValue}] /\ \A t \in Slots : slotAt[t] # NoValue => at[t] = slotAt[t]
  BY MigratedFits DEF WholeInv
<1>4. i \in I!InCode
  BY <1>1, <1>2 DEF I!InCode
<1>5. /\ left.blocks = {<<entry[j], j>> : j \in I!InCode \ {i}}
      /\ \A j \in I!InCode \ {i} : <<slotAt[entry[j]], PackageOf[j]>> \in left.imports
      /\ left.imports \subseteq loose \cup {<<slotAt[entry[j]], PackageOf[j]>> : j \in I!InCode \ {i}}
  BY <1>4, UnplaceFits
<1>a. /\ queue' \in Seq(Requests) /\ click' = click /\ \A n \in 2..Len(queue') : ~queue'[n].applied
      /\ ~I!Between' /\ Head(queue').int = i /\ Head(queue').slot = Head(queue).slot /\ Head(queue').type = Head(queue).type
  BY <1>1, AppliedFits DEF WholeInv
<1>b. entry'[i] = s /\ (\A j \in Ints : j # i => entry'[j] = entry[j]) => Told' /\ RowToCome'
  BY <1>1, <1>2, <1>a, ToldApplied DEF WholeInv
<1> HIDE DEF i, s, left, at
<1>6. CodeTypes'
  BY <1>1, <1>2, <1>3, <1>a DEF WholeInv, CodeTypes, I!Nobody
<1>c. entry'[i] = s /\ \A j \in Ints : j # i => entry'[j] = entry[j]
  BY <1>1, <1>2 DEF WholeInv, CodeTypes
<1>7. I!InCode' = I!InCode /\ entry'[i] = s
      /\ \A j \in I!InCode \ {i} : entry'[j] = entry[j] /\ at[entry[j]] = slotAt[entry[j]]
  BY <1>1, <1>2, <1>3, <1>4 DEF WholeInv, CodeTypes, Placed, I!InCode
<1>8. Placed'
  <2>1. blocks' = {<<entry'[j], j>> : j \in I!InCode'}
    BY <1>2, <1>4, <1>5, <1>7
  <2>2. \A j \in I!InCode' : slotAt'[entry'[j]] # NoValue /\ <<slotAt'[entry'[j]], PackageOf[j]>> \in imports'
    BY <1>2, <1>4, <1>5, <1>7 DEF WholeInv, Placed
  <2>3. imports' \subseteq loose' \cup {<<slotAt'[entry'[j]], PackageOf[j]>> : j \in I!InCode'}
    BY <1>2, <1>4, <1>5, <1>7
  <2>4. routes' = I!InCode' \cap Routes
    BY <1>2, <1>7 DEF WholeInv, Placed
  <2> QED BY <2>1, <2>2, <2>3, <2>4 DEF Placed
<1>9. Counted'
  BY <1>7 DEF WholeInv, Counted
<1> QED BY <1>6, <1>8, <1>9, <1>b, <1>c DEF WholeInv

LEMMA RedesignKeeps ==
  ASSUME Catalogue, WholeInv, NEW s \in Slots, NEW f \in Files, I!Redesign(s, f)
  PROVE  WholeInv'
<1> DEFINE from == slotAt[s]
           moved == {PackageOf[i] : i \in {i \in Ints : <<s, i>> \in blocks}}
           kept == {PackageOf[i] : i \in {i \in Ints : \E t \in Slots \ {s} : slotAt[t] = from /\ <<t, i>> \in blocks}}
<1>1. /\ slotAt' = [slotAt EXCEPT ![s] = f] /\ from # NoValue /\ f # NoValue
      /\ imports' = imports \cup {<<f, p>> : p \in moved} /\ loose' = loose \cup {<<from, p>> : p \in moved \ kept}
      /\ UNCHANGED <<entry, blocks, routes, installs, queue, click, unrecorded>>
  BY DEF I!Redesign, I!table, Catalogue
<1>2. I!InCode' = I!InCode
  BY <1>1 DEF I!InCode
<1>3. \A i \in I!InCode : i \in Ints /\ entry[i] \in Slots /\ <<entry[i], i>> \in blocks
  BY DEF WholeInv, CodeTypes, Placed, I!InCode
<1>4. \A i \in I!InCode : slotAt'[entry[i]] = IF entry[i] = s THEN f ELSE slotAt[entry[i]]
  BY <1>1, <1>3 DEF WholeInv, CodeTypes
<1>5. \A i \in I!InCode : entry[i] = s => PackageOf[i] \in moved
  BY <1>3
<1>6. \A i \in Ints, t \in Slots : <<t, i>> \in blocks => i \in I!InCode /\ entry[i] = t
  BY DEF WholeInv, Placed
<1>7. CodeTypes'
  BY <1>1 DEF WholeInv, CodeTypes, I!Nobody
<1>8. Placed'
  <2>1. \A i \in I!InCode : slotAt'[entry[i]] # NoValue /\ <<slotAt'[entry[i]], PackageOf[i]>> \in imports'
    BY <1>1, <1>4, <1>5 DEF WholeInv, Placed
  <2>2. \A x \in imports' : x \in loose' \cup {<<slotAt'[entry[i]], PackageOf[i]>> : i \in I!InCode}
    <3>1. ASSUME NEW p \in moved PROVE <<f, p>> \in {<<slotAt'[entry[i]], PackageOf[i]>> : i \in I!InCode}
      <4>1. PICK i \in Ints : <<s, i>> \in blocks /\ p = PackageOf[i]
        OBVIOUS
      <4> QED BY <1>4, <1>6, <4>1
    <3>2. ASSUME NEW i \in I!InCode, entry[i] # s
          PROVE  <<slotAt[entry[i]], PackageOf[i]>> \in {<<slotAt'[entry[j]], PackageOf[j]>> : j \in I!InCode}
      BY <1>4, <3>2
    <3>3. ASSUME NEW i \in I!InCode, entry[i] = s
          PROVE  <<from, PackageOf[i]>> \in loose' \cup {<<slotAt'[entry[j]], PackageOf[j]>> : j \in I!InCode}
      <4>1. CASE PackageOf[i] \in kept
        <5>1. PICK j \in Ints, t \in Slots \ {s} : slotAt[t] = from /\ <<t, j>> \in blocks /\ PackageOf[j] = PackageOf[i]
          BY <4>1
        <5>2. j \in I!InCode /\ entry[j] = t
          BY <1>6, <5>1
        <5> QED BY <1>4, <5>1, <5>2
      <4>2. CASE PackageOf[i] \notin kept
        BY <1>1, <1>5, <3>3, <4>2
      <4> QED BY <4>1, <4>2
    <3> HIDE DEF from, moved, kept
    <3>4. \A x \in imports : x \in loose \/ \E i \in I!InCode : x = <<slotAt[entry[i]], PackageOf[i]>>
      BY DEF WholeInv, Placed
    <3>5. ASSUME NEW i \in I!InCode
          PROVE  <<slotAt[entry[i]], PackageOf[i]>> \in loose' \cup {<<slotAt'[entry[j]], PackageOf[j]>> : j \in I!InCode}
      <4>1. CASE entry[i] = s
        BY <3>3, <4>1 DEF from
      <4>2. CASE entry[i] # s
        BY <3>2, <4>2
      <4> QED BY <4>1, <4>2
    <3> QED BY <1>1, <3>1, <3>4, <3>5
  <2> QED BY <1>1, <1>2, <2>1, <2>2 DEF WholeInv, Placed
<1>9. Told' /\ RowToCome'
  BY <1>1 DEF I!Redesign, WholeInv, Told, RowToCome, I!Between
<1> QED BY <1>1, <1>2, <1>7, <1>8, <1>9 DEF WholeInv, Counted

\* The row is written, or will not be.
LEMMA RecordKeeps ==
  ASSUME WholeInv, I!Record \/ I!FailsApplied
  PROVE  WholeInv'
<1> DEFINE what == Head(queue)
<1>1. queue # <<>> /\ queue' = Tail(queue) /\ UNCHANGED <<entry, blocks, slotAt, imports, routes, loose, click>>
  BY DEF I!Record, I!FailsApplied, I!Done, I!code
<1>2. /\ what \in Requests /\ Tail(queue) \in Seq(Requests)
      /\ \A n \in 1..Len(Tail(queue)) : ~Tail(queue)[n].applied
  BY <1>1, HeadFits DEF WholeInv
<1>a. I!Between' /\ \A n \in 2..Len(queue') : ~queue'[n].applied
  <2>1. queue' \in Seq(Requests) /\ \A n \in 1..Len(queue') : ~queue'[n].applied
    BY <1>1, <1>2
  <2>2. queue' # <<>> => ~Head(queue').applied
    BY <2>1
  <2> QED BY <2>1, <2>2 DEF I!Between
<1>b. RowToCome'
  BY <1>a DEF RowToCome
<1>c. ~I!Between
  BY DEF I!Record, I!FailsApplied, I!Between
<1>3. I!InCode' = I!InCode
  BY <1>1 DEF I!InCode
<1>4. Placed' /\ Counted'
  BY <1>1, <1>3 DEF WholeInv, Placed, Counted
<1>5. what.int \in Ints /\ what.slot \in Slots \cup {NoValue}
  BY <1>2 DEF Requests
<1>6. CASE I!FailsApplied
  <2>1. installs' = installs /\ unrecorded' = unrecorded \cup {what.int}
    BY <1>6 DEF I!FailsApplied
  <2>2. CodeTypes'
    BY <1>1, <1>2, <1>5, <1>a, <2>1 DEF WholeInv, CodeTypes, I!Nobody
  <2>3. Told'
    BY <1>1, <2>1 DEF WholeInv, Told
  <2> QED BY <1>4, <1>b, <2>2, <2>3 DEF WholeInv
<1>7. CASE I!Record /\ what.type = "move" /\ installs[what.int] = NoValue
  <2>1. installs' = installs /\ unrecorded' = unrecorded
    BY <1>7 DEF I!Record
  <2>2. CodeTypes'
    BY <1>1, <1>2, <1>a, <2>1 DEF WholeInv, CodeTypes, I!Nobody
  <2>3. what.int \in unrecorded
    BY <1>7, <1>c DEF WholeInv, RowToCome
  <2>4. Told'
    BY <1>1, <2>1, <2>3 DEF WholeInv, Told
  <2> QED BY <1>4, <1>b, <2>2, <2>4 DEF WholeInv
<1>8. CASE I!Record /\ ~(what.type = "move" /\ installs[what.int] = NoValue)
  <2>1. installs' = [installs EXCEPT ![what.int] = what.slot] /\ unrecorded' = unrecorded \ {what.int}
    BY <1>8 DEF I!Record
  <2>2. CodeTypes'
    BY <1>1, <1>2, <1>5, <1>a, <2>1 DEF WholeInv, CodeTypes, I!Nobody
  <2>3. entry[what.int] = what.slot
    BY <1>c DEF WholeInv, RowToCome
  <2>4. installs'[what.int] = what.slot /\ \A i \in Ints : i # what.int => installs'[i] = installs[i]
    BY <1>5, <2>1 DEF WholeInv, CodeTypes
  <2>5. Told'
    BY <1>1, <2>1, <2>3, <2>4 DEF WholeInv, Told
  <2> QED BY <1>4, <1>b, <2>2, <2>5 DEF WholeInv
<1> QED BY <1>6, <1>7, <1>8

LEMMA WholeKept ==
  ASSUME Catalogue, WholeInv, [I!Next]_(I!state)
  PROVE  WholeInv'
<1>1. ASSUME UNCHANGED <<entry, blocks, slotAt, imports, routes, loose, installs, unrecorded>>, CodeTypes',
             I!Between => I!Between', ~I!Between => ~I!Between' /\ Head(queue') = Head(queue)
      PROVE  WholeInv'
  <2>1. I!InCode' = I!InCode
    BY <1>1 DEF I!InCode
  <2>2. Told' /\ RowToCome'
    BY <1>1 DEF WholeInv, Told, RowToCome
  <2> QED BY <1>1, <2>1, <2>2 DEF WholeInv, Placed, Counted
<1>2. ASSUME NEW c \in Clicks, NEW what \in Waiting, I!Ask(c, what) PROVE WholeInv'
  BY <1>1, <1>2 DEF I!Ask, I!code, I!table, I!Between, WholeInv, CodeTypes, I!Nobody
<1>b. ASSUME NEW what \in Waiting, queue' = Append(queue, what)
      PROVE  queue' \in Seq(Requests) /\ \A n \in 2..Len(queue') : ~queue'[n].applied
  <2>1. queue \in Seq(Requests) /\ what \in Requests /\ ~what.applied /\ \A n \in 2..Len(queue) : ~queue[n].applied
    BY DEF WholeInv, CodeTypes, Waiting
  <2>2. Len(queue') = Len(queue) + 1 /\ queue' \in Seq(Requests)
    BY <1>b, <2>1
  <2>3. ASSUME NEW n \in 2..Len(queue') PROVE ~queue'[n].applied
    BY <1>b, <2>1, <2>2
  <2> QED BY <2>2, <2>3
<1>a. ASSUME NEW what \in Waiting, queue' = Append(queue, what)
      PROVE  (I!Between => I!Between') /\ (~I!Between => ~I!Between' /\ Head(queue') = Head(queue))
  <2>1. queue \in Seq(Requests) /\ what \in Requests /\ ~what.applied
    BY DEF WholeInv, CodeTypes, Waiting
  <2>2. CASE queue = <<>>
    <3>1. Head(queue') = what
      BY <1>a, <2>1, <2>2
    <3> QED BY <2>1, <2>2, <3>1 DEF I!Between
  <2>3. CASE queue # <<>>
    <3>1. Head(queue') = Head(queue) /\ queue' # <<>>
      BY <1>a, <2>1, <2>3
    <3> QED BY <2>3, <3>1 DEF I!Between
  <2> QED BY <2>2, <2>3
<1>3. ASSUME NEW c \in Clicks, I!Enqueue(c) PROVE WholeInv'
  <2>1. click[c] \in Waiting /\ click[c] \in Requests /\ queue' = Append(queue, click[c])
    BY <1>3 DEF I!Enqueue, WholeInv, CodeTypes, Waiting
  <2>2. CodeTypes'
    BY <1>3, <1>b, <2>1 DEF I!Enqueue, I!code, I!table, WholeInv, CodeTypes, I!Nobody
  <2> QED BY <1>1, <1>3, <1>a, <2>1, <2>2 DEF I!Enqueue, I!code, I!table
<1>4. ASSUME NEW what \in Waiting, I!FollowUp(what) PROVE WholeInv'
  <2>2. queue' = Append(queue, what) /\ what \in Requests
    BY <1>4 DEF I!FollowUp, Waiting
  <2>1. CodeTypes'
    BY <1>4, <1>b, <2>2 DEF I!FollowUp, I!code, I!table, WholeInv, CodeTypes, I!Nobody
  <2> QED BY <1>1, <1>4, <1>a, <2>1, <2>2 DEF I!FollowUp, I!code, I!table
<1>5. CASE I!Nothing
  <2>1. Tail(queue) \in Seq(Requests) /\ \A n \in 1..Len(Tail(queue)) : ~Tail(queue)[n].applied
    BY <1>5, HeadFits DEF I!Nothing, WholeInv
  <2>3. I!Between'
    <3>1. queue' = Tail(queue)
      BY <1>5 DEF I!Nothing, I!Done
    <3>2. queue' # <<>> => 1 \in 1..Len(queue') /\ Head(queue') = queue'[1]
      BY <2>1, <3>1
    <3> QED BY <2>1, <3>1, <3>2 DEF I!Between
  <2>2. CodeTypes' /\ I!Between
    BY <1>5, <2>1 DEF I!Nothing, I!Done, I!code, I!table, I!Between, WholeInv, CodeTypes, I!Nobody
  <2> QED BY <1>1, <1>5, <2>2, <2>3 DEF I!Nothing, I!code, I!table
<1>6. CASE UNCHANGED I!state
  BY <1>1, <1>6 DEF I!state, I!code, I!table, I!Between, WholeInv, CodeTypes, I!Nobody
<1>7. \A i \in Ints, s \in Slots : I!Op("install", i, s) \in Waiting /\ I!Op("move", i, s) \in Waiting
  BY DEF I!Op, Requests, Waiting
<1>8. \A i \in Ints : I!Op("uninstall", i, NoValue) \in Waiting
  BY DEF I!Op, Requests, Waiting
<1> QED BY <1>2, <1>3, <1>4, <1>5, <1>6, <1>7, <1>8, InstallKeeps, UninstallKeeps, MoveKeeps, RedesignKeeps, RecordKeeps
    DEF I!Next

LEMMA CatalogueGiven == Catalogue
BY ProductAssumption DEF Catalogue

THEOREM CodeStaysWhole == I!Spec => []I!CodeIsWhole
<1>1. WholeInv => I!CodeIsWhole
  BY SameCount DEF WholeInv, CodeTypes, Placed, Counted, Told, I!CodeIsWhole
<1>2. I!Init => WholeInv
  BY WholeStarts, CatalogueGiven
<1>3. WholeInv /\ [I!Next]_(I!state) => WholeInv'
  BY WholeKept, CatalogueGiven
<1> QED BY <1>1, <1>2, <1>3, PTL DEF I!Spec

HIDE DEF entry, blocks, slotAt, imports, deps, routes, installs, queue, click, queued, loose, unrecorded

-----------------------------------------------------------------------------
(* LiveTree *)

commits == v1
borrowed == v2
undoing == v3
linked == v4
screen == v5
staging == v6
running == v7
treeFaults == v8
cut == v9
unlinked == v10

USE DEF commits, borrowed, undoing, linked, screen, staging, running, treeFaults, cut, unlinked

ScriptNames == {"none", "discard", "health", "prepare", "apply", "revert"}
ScriptSteps == {"none", "remove", "request", "files", "install", "check", "commit", "borrow", "link", "restore",
                "restoreUnlinked", "merge", "start", "revert"}

TreeTyped ==
  /\ commits \in Seq(SUBSET Packages) /\ Len(commits) >= 1
  /\ borrowed \in BOOLEAN /\ undoing \in BOOLEAN /\ cut \in BOOLEAN /\ unlinked \in BOOLEAN
  /\ linked \in SUBSET Packages /\ screen \in {"idle", "fine", "missing"}
  /\ staging \in [at : {"none", "staged"}, needs : SUBSET Packages, own : BOOLEAN, has : SUBSET Packages]
  /\ running \in [of : ScriptNames, at : ScriptSteps]

StepsOf(of) ==
  CASE of = "none" -> {"none"} [] of = "discard" -> {"remove"} [] of = "health" -> {"request"}
    [] of = "prepare" -> {"files", "install", "check"}
    [] of = "apply" -> {"commit", "borrow", "link", "restore", "restoreUnlinked", "merge", "remove"}
    [] of = "revert" -> {"start", "borrow", "link", "restore", "restoreUnlinked", "revert", "commit"}

Linking == {"link", "restore", "restoreUnlinked"}

(***************************************************************************)
(* What the commands of a script know, also after one that was cut short:  *)
(* a script borrows the files of another revision only while it links, and *)
(* a worktree has packages of its own exactly when they are not HEAD's.    *)
(***************************************************************************)
Commands ==
  /\ running.at \in StepsOf(running.of)
  /\ running.of \in {"health", "revert"} \/ (running.of = "apply" /\ running.at = "remove") => Len(commits) >= 2
  /\ running.of \in {"prepare", "apply", "revert", "health"} =>
       /\ borrowed <=> running.at \in Linking
       /\ undoing <=> running.of = "revert" /\ running.at = "commit"
  /\ running.of = "prepare" /\ running.at = "files" => ~staging.own
  /\ running.of = "prepare" /\ running.at = "install" => staging.needs # L!Tip
  /\ running.of = "prepare" /\ running.at = "check" => (staging.own <=> staging.needs # L!Tip)
  /\ running.of = "apply" /\ running.at # "remove" => (staging.own <=> staging.needs # L!Tip)
  /\ running.of = "apply" /\ running.at \in {"borrow"} \cup Linking => staging.own
  /\ running.of = "apply" /\ (running.at = "restore" \/ (running.at = "merge" /\ staging.own)) => linked = staging.needs
  /\ running.of = "revert" => screen # "idle"

\* The scripts and commands that find the packages of HEAD in node_modules.
AtTip == \/ running.of \in {"none", "prepare", "discard", "health"}
         \/ running.of = "apply" /\ running.at \in {"commit", "borrow", "link", "restoreUnlinked", "remove"}
         \/ running.of = "revert" /\ running.at \in {"start", "borrow", "link", "restoreUnlinked"}

(***************************************************************************)
(* And while no script was cut short, and no revert went on without its    *)
(* packages: node_modules is at each command that of one revision, and a   *)
(* page can miss a module only between the link and the merge.             *)
(***************************************************************************)
Linked ==
  ~cut /\ ~unlinked =>
    /\ running.of \in {"none", "discard"} => ~borrowed /\ ~undoing
    /\ AtTip => linked = L!Tip
    /\ running.of = "apply" /\ running.at = "merge" => linked = staging.needs
    /\ running.of = "revert" /\ running.at \in {"restore", "revert", "commit"} => linked = commits[Len(commits) - 1]
    /\ screen = "missing" => running.of = "apply" /\ running.at \in {"restore", "merge"}

TreeInv == TreeTyped /\ Commands /\ Linked

LEMMA TreeStarts == L!Init => TreeInv
<1> SUFFICES ASSUME L!Init PROVE TreeInv
  OBVIOUS
<1>1. PICK first \in SUBSET Packages : commits = <<first>> /\ linked = first
  BY DEF L!Init
<1>2. /\ commits \in Seq(SUBSET Packages) /\ Len(commits) = 1 /\ commits[Len(commits)] = linked
      /\ linked \in SUBSET Packages
  BY <1>1
<1>3. /\ borrowed = FALSE /\ undoing = FALSE /\ cut = FALSE /\ unlinked = FALSE /\ screen = "idle"
      /\ staging = [at |-> "none", needs |-> {}, own |-> FALSE, has |-> {}] /\ running.of = "none" /\ running.at = "none"
      /\ running \in [of : ScriptNames, at : ScriptSteps]
  BY DEF L!Init, L!None, L!Rest, ScriptNames, ScriptSteps
<1>4. TreeTyped
  <2>1. staging \in [at : {"none", "staged"}, needs : SUBSET Packages, own : BOOLEAN, has : SUBSET Packages]
    BY <1>3
  <2>2. borrowed \in BOOLEAN /\ undoing \in BOOLEAN /\ cut \in BOOLEAN /\ unlinked \in BOOLEAN
    BY <1>3
  <2>3. screen \in {"idle", "fine", "missing"} /\ running \in [of : ScriptNames, at : ScriptSteps]
    BY <1>3
  <2>4. commits \in Seq(SUBSET Packages) /\ Len(commits) >= 1 /\ linked \in SUBSET Packages
    BY <1>2
  <2> QED BY <2>1, <2>2, <2>3, <2>4 DEF TreeTyped
<1>5. Commands
  BY <1>3 DEF Commands, StepsOf
<1>6. Linked
  BY <1>2, <1>3 DEF Linked, L!Tip
<1> QED BY <1>4, <1>5, <1>6 DEF TreeInv

\* The worktree and its scripts.
LEMMA WorktreeKeeps ==
  ASSUME TreeInv, L!Stage \/ L!Mutate \/ L!PrepareInstall \/ L!InstallFails \/ L!Check \/ L!Remove
  PROVE  TreeInv'
<1> USE DEF TreeInv, TreeTyped, Commands, Linked, AtTip, StepsOf, ScriptNames, ScriptSteps, Linking, L!None, L!Rest, L!Tip, L!At, L!Goto, L!live
<1>1. CASE L!Stage
  BY <1>1 DEF L!Stage, L!Dirty
<1>2. CASE L!Mutate
  BY <1>2 DEF L!Mutate
<1>3. CASE L!PrepareInstall
  BY <1>3 DEF L!PrepareInstall
<1>4. CASE L!InstallFails
  BY <1>4 DEF L!InstallFails
<1>5. CASE L!Check
  BY <1>5 DEF L!Check
<1>6. CASE L!Remove
  BY <1>6 DEF L!Remove
<1> QED BY <1>1, <1>2, <1>3, <1>4, <1>5, <1>6

\* linkDependencies.
LEMMA LinkingKeeps ==
  ASSUME TreeInv, L!Borrow \/ L!Link \/ L!LinkFails \/ L!Restore
  PROVE  TreeInv'
<1> USE DEF TreeInv, TreeTyped, Commands, Linked, AtTip, StepsOf, ScriptNames, ScriptSteps, Linking, L!Tip, L!At, L!Goto, L!live, L!Rev
<1>1. CASE L!Borrow
  BY <1>1 DEF L!Borrow
<1>2. CASE L!Link
  BY <1>2 DEF L!Link
<1>3. CASE L!LinkFails
  BY <1>3 DEF L!LinkFails
<1>4. CASE L!Restore
  <2>1. /\ running.at \in {"restore", "restoreUnlinked"} /\ running.of \in {"apply", "revert"} /\ borrowed' = FALSE
        /\ UNCHANGED <<commits, undoing, linked, screen, staging, cut>>
    BY <1>4 DEF L!Restore
  <2>2. CASE running.of = "apply" /\ running.at = "restore"
    <3>1. running' = [of |-> "apply", at |-> "merge"] /\ unlinked' = unlinked
      BY <1>4, <2>2 DEF L!Restore
    <3> QED BY <2>1, <2>2, <3>1
  <2>3. CASE running.of = "apply" /\ running.at = "restoreUnlinked"
    <3>1. running' = [of |-> "discard", at |-> "remove"] /\ unlinked' = unlinked
      BY <1>4, <2>3 DEF L!Restore
    <3> QED BY <2>1, <2>3, <3>1
  <2>4. CASE running.of = "revert"
    <3>1. running' = [of |-> "revert", at |-> "revert"] /\ unlinked' = (unlinked \/ running.at = "restoreUnlinked")
      BY <1>4, <2>4 DEF L!Restore
    <3> QED BY <2>1, <2>4, <3>1
  <2> QED BY <2>1, <2>2, <2>3, <2>4
<1> QED BY <1>1, <1>2, <1>3, <1>4

\* The live tree takes a change or gives it back; the dev server; what comes in between.
LEMMA LiveKeeps ==
  ASSUME TreeInv,
         L!Visit \/ L!Commit \/ L!Merge \/ L!Health \/ L!RevertStarts \/ L!Revert \/ L!RevertCommits \/ L!TimesUp \/ L!Rebuild
  PROVE  TreeInv'
<1> USE DEF TreeInv, TreeTyped, Commands, Linked, AtTip, StepsOf, ScriptNames, ScriptSteps, Linking, L!Tip, L!At, L!Goto, L!live, L!Rev, L!Rest
<1>1. CASE L!Visit
  BY <1>1 DEF L!Visit, L!Compiled
<1>2. CASE L!Commit
  BY <1>2 DEF L!Commit, L!DepsChanged
<1>3. CASE L!Merge
  <2>1. /\ commits' \in Seq(SUBSET Packages) /\ Len(commits') = Len(commits) + 1 /\ commits'[Len(commits')] = staging.needs
        /\ running.of = "apply" /\ running.at = "merge" /\ running' = [of |-> "apply", at |-> "remove"]
        /\ UNCHANGED <<borrowed, undoing, linked, staging>> /\ screen' = L!Compiled(staging.needs, linked)
    BY <1>3 DEF L!Merge
  <2>2. CASE staging.own
    <3>1. linked = staging.needs /\ screen' = "fine" /\ cut' \in BOOLEAN /\ unlinked' \in BOOLEAN
      BY <1>3, <2>1, <2>2 DEF L!Merge, L!Mends, L!DepsChanged, L!Compiled
    <3> QED BY <2>1, <2>2, <3>1
  <2>3. CASE ~staging.own
    <3>1. UNCHANGED <<cut, unlinked>>
      BY <1>3, <2>3 DEF L!Merge, L!Mends, L!DepsChanged
    <3>2. ~cut /\ ~unlinked => linked = staging.needs /\ screen' = "fine"
      BY <2>1, <2>3 DEF L!Compiled
    <3>3. screen' \in {"fine", "missing"}
      BY <2>1 DEF L!Compiled
    <3> QED BY <2>1, <2>3, <3>1, <3>2, <3>3
  <2> QED BY <2>2, <2>3
<1>4. CASE L!Health
  BY <1>4 DEF L!Health, L!Compiled
<1>5. CASE L!RevertStarts
  BY <1>5 DEF L!RevertStarts
<1>6. CASE L!Revert
  BY <1>6 DEF L!Revert, L!Compiled
<1>7. CASE L!RevertCommits
  <2>1. /\ running.of = "revert" /\ running.at = "commit" /\ running' = L!Rest
        /\ UNCHANGED <<borrowed, linked, screen, staging, cut, unlinked>> /\ undoing' = FALSE
        /\ commits' = Append(commits, commits[Len(commits) - 1]) /\ Len(commits) >= 2
    BY <1>7 DEF L!RevertCommits
  <2>2. commits[Len(commits) - 1] \in SUBSET Packages
    BY <2>1
  <2>3. commits' \in Seq(SUBSET Packages) /\ Len(commits') >= 1 /\ commits'[Len(commits')] = commits[Len(commits) - 1]
    BY <2>1, <2>2
  <2> QED BY <2>1, <2>3
<1>8. CASE L!TimesUp
  BY <1>8 DEF L!TimesUp
<1>9. CASE L!Rebuild
  <2>1. commits[Len(commits)] \in SUBSET Packages
    OBVIOUS
  <2>2. L!None \in [at : {"none", "staged"}, needs : SUBSET Packages, own : BOOLEAN, has : SUBSET Packages]
    BY DEF L!None
  <2> QED BY <1>9, <2>1, <2>2 DEF L!Rebuild
<1> QED BY <1>1, <1>2, <1>3, <1>4, <1>5, <1>6, <1>7, <1>8, <1>9

\* PagesFindTheirPackages.
THEOREM PagesAlwaysFind == L!Spec => []L!PagesFindTheirPackages
<1>1. TreeInv => L!PagesFindTheirPackages
  BY DEF TreeInv, TreeTyped, Commands, Linked, AtTip, StepsOf, L!PagesFindTheirPackages, L!Dirty, L!Rest, L!Tip
<1>2. TreeInv /\ UNCHANGED L!state => TreeInv'
  BY DEF L!state, L!live, TreeInv, TreeTyped, Commands, Linked, AtTip, L!Tip
<1>3. TreeInv /\ [L!Next]_(L!state) => TreeInv'
  BY <1>2, WorktreeKeeps, LinkingKeeps, LiveKeeps DEF L!Next
<1> QED BY <1>1, <1>3, TreeStarts, PTL DEF L!Spec

HIDE DEF commits, borrowed, undoing, linked, screen, staging, running, treeFaults, cut, unlinked

-----------------------------------------------------------------------------
(* Credentials *)

cred == v1
request == v2
job == v3
lock == v4
project == v5
prod == v6
own == v7
box == v8
keyChanges == v9
keyFaults == v10
keysLost == v11
missed == v12

USE DEF cred, request, job, lock, project, prod, own, box, keyChanges, keyFaults, keysLost, missed

(***************************************************************************)
(* When every sync that was asked for is done, the keys of an integration  *)
(* are where its code runs, for any keys and values, and any number of     *)
(* changes, sync jobs, retries and faults.                                 *)
(*                                                                         *)
(* A change of the keys races the holder of the lock, which has read them  *)
(* before.  What it carries is then out of date, and the argument is that  *)
(* this never shows at the end: while it is, another sync is on its way    *)
(* (Awaited), that is to be scheduled or in the queue, and that one cannot *)
(* read before the holder is done (CarriesKeys).  The stages of the holder say *)
(* how far the two places have come to have what it carries.               *)
(***************************************************************************)

\* The ids of sync jobs are not those of the lock's other holders.
JobIds == Jobs \cap {NoValue, "publish", "lifecycle"} = {}

Creds    == [value : Values \cup {NoValue}, synced : BOOLEAN, opens : BOOLEAN]
KeyRequests == [pc : {"idle", "verify", "store", "schedule"}, gives : K!Env]
SyncJobs  == [state : {"none", "waiting", "active"}, failed : Nat]
LockSteps      == {"free", "sandbox", "restart", "project", "delete", "upsert", "mark", "bootstrap"}
KeyLocks    == [who : Jobs \cup {NoValue, "publish", "lifecycle"}, pc : LockSteps, env : K!Env, todo : SUBSET KeyNames]
BoxState == {"none", "running", "paused"}
KeyBoxes    == [state : BoxState, row : BoxState, file : K!Env, loaded : K!Env]

KeysFit ==
  /\ cred \in [KeyNames -> Creds] /\ \A k \in KeyNames : cred[k].synced => K!Stored(k)
  /\ request \in KeyRequests
  /\ job \in [Jobs -> SyncJobs]
  /\ lock \in KeyLocks
  /\ project \in BOOLEAN /\ prod \in K!Env /\ own = TRUE
  /\ box \in KeyBoxes
  /\ keysLost \in BOOLEAN /\ missed \in BOOLEAN

\* The lock's holder is at a step of its own handler, and it alone has an active job.
KeyHolder ==
  /\ lock.pc = "free" => lock = K!Free
  /\ lock.pc \in {"sandbox", "restart", "project"} => lock.who \in Jobs
  /\ lock.pc \in {"delete", "upsert", "mark"} => lock.who \in Jobs \cup {"publish"}
  /\ lock.pc = "bootstrap" => lock.who = "lifecycle"
  /\ \A j \in Jobs : job[j].state = "active" <=> lock.who = j

\* How far the holder has brought the project's variables, and the preview.
KeyStages ==
  /\ lock.pc = "upsert" => \A k \in KeyNames \ lock.todo : prod[k] = lock.env[k]
  /\ lock.pc = "mark" => \A k \in KeyNames : prod[k] = lock.env[k]
  /\ lock.pc = "restart" => box.state # "none" /\ box.file = lock.env
  /\ ~missed /\ box.state # "none" /\ lock.pc # "restart" => box.loaded = box.file

Agrees(env) == \A k \in KeyNames : cred[k].opens => env[k] = cred[k].value

\* A sync is yet to come that reads the keys anew.
Awaited == request.pc = "schedule" \/ \E j \in Jobs : job[j].state = "waiting"

CarriesKeys ==
  ~keysLost /\ ~Awaited =>
    /\ lock.pc # "free" => Agrees(lock.env)
    /\ project /\ lock.pc \in {"free", "bootstrap"} => Agrees(prod)
    /\ ~missed /\ box.state # "none" /\ lock.pc \notin {"sandbox", "restart"} => Agrees(box.loaded)

KInv == KeysFit /\ KeyHolder /\ KeyStages /\ CarriesKeys

-----------------------------------------------------------------------------
(* Helpers *)

LEMMA KeyConstants ==
  /\ K!Empty \in K!Env /\ K!NoCred \in Creds /\ ~K!NoCred.synced /\ K!Rest \in KeyRequests
  /\ K!Free \in KeyLocks /\ K!Free.pc = "free" /\ K!Free.who = NoValue
  /\ K!NoBox \in KeyBoxes /\ K!NoBox.state = "none"
  BY DEF K!Empty, K!Env, K!NoCred, Creds, K!Rest, KeyRequests, K!Free, KeyLocks, LockSteps, K!NoBox, KeyBoxes, BoxState

\* What the vault can open is what is stored, for every key that opens.
LEMMA OpenedAgrees == ASSUME KeysFit PROVE K!Opened \in K!Env /\ Agrees(K!Opened)
  BY DEF KeysFit, Creds, K!Opened, K!Env, Agrees

\* The kinds of step.
Asks  == (\E gives \in K!Env : K!Connect(gives)) \/ K!Verify
Keeps == K!Store \/ K!Disconnect
Boxed == K!PauseBox \/ K!ResumeBox \/ K!DestroyBox

LEMMA StepKinds ==
  ASSUME [K!Next]_(K!state)
  PROVE  \/ UNCHANGED K!state \/ Asks \/ Keeps \/ K!Schedule \/ K!ApiDies \/ \E k \in KeyNames : K!RetireKey(k)
         \/ \E j \in Jobs : K!Sync(j)
         \/ K!WriteEnv \/ K!RestartServer \/ K!Production \/ K!DeleteStale \/ K!Upsert \/ K!Mark
         \/ K!PreparePublish \/ K!CallFails \/ K!StartBox \/ K!Bootstrap \/ Boxed
  BY DEF K!Next, K!Api, K!SyncStep, Asks, Keeps, Boxed

\* The lock's holder goes on.
LEMMA GoesOn ==
  ASSUME KeysFit, NEW pc \in LockSteps, K!Goto(pc)
  PROVE  lock' \in KeyLocks /\ lock'.pc = pc /\ lock'.who = lock.who /\ lock'.env = lock.env
  BY DEF KeysFit, K!Goto, KeyLocks

\* The lock's holder lets go, and nothing is active any more; jobs that wait go on waiting.
Freed ==
  /\ lock' = K!Free /\ lock' \in KeyLocks
  /\ job' \in [Jobs -> SyncJobs]
  /\ \A j \in Jobs : job'[j].state # "active" /\ (job[j].state = "waiting" => job'[j].state = "waiting")

LEMMA EndsJob ==
  ASSUME JobIds, KInv, lock' = K!Free, NEW s \in SyncJobs, s.state # "active", K!EndJob(s)
  PROVE  Freed /\ (lock.who \in Jobs => job'[lock.who] = s)
  <1> USE DEF KInv
  <1>1. lock' \in KeyLocks BY KeyConstants
  <1>2. CASE lock.who \in Jobs
    <2>1. job' = [job EXCEPT ![lock.who] = s] BY <1>2 DEF K!EndJob
    <2> QED BY <1>1, <1>2, <2>1 DEF KeysFit, KeyHolder, Freed
  <1>3. CASE lock.who \notin Jobs
    <2>1. job' = job BY <1>3 DEF K!EndJob
    <2> QED BY <1>1, <1>3, <2>1 DEF KeysFit, KeyHolder, Freed
  <1> QED BY <1>2, <1>3

LEMMA Returns == ASSUME JobIds, KInv, K!Return PROVE Freed /\ keysLost' = keysLost
  <1> DEFINE s == [state |-> "none", failed |-> 0]
  <1>1. s \in SyncJobs /\ s.state # "active" BY DEF SyncJobs
  <1>2. lock' = K!Free /\ K!EndJob(s) /\ keysLost' = keysLost BY DEF K!Return
  <1> HIDE DEF s
  <1> QED BY <1>1, <1>2, EndsJob

\* A sync that fails is tried again, or is missed.
LEMMA Throws ==
  ASSUME JobIds, KInv, K!Throw, lock.pc \notin {"free", "bootstrap"}
  PROVE  Freed /\ keysLost' \in BOOLEAN /\ (keysLost => keysLost') /\ (keysLost' \/ \E j \in Jobs : job'[j].state = "waiting")
  <1> USE DEF KInv
  <1>1. lock.who \in Jobs \cup {"publish"} BY DEF KeyHolder, KeysFit, KeyLocks, LockSteps
  <1> DEFINE again == lock.who \in Jobs /\ job[lock.who].failed + 1 < Attempts
             tried == [state |-> "waiting", failed |-> job[lock.who].failed + 1]
             over  == [state |-> "none", failed |-> 0]
  <1>2. lock' = K!Free /\ K!EndJob(IF again THEN tried ELSE over) /\ keysLost' = (keysLost \/ (~again /\ lock.who # "lifecycle"))
    BY DEF K!Throw
  <1>3. CASE again
    <2>1. tried \in SyncJobs /\ tried.state = "waiting" BY <1>3 DEF KeysFit, SyncJobs
    <2>2. lock' = K!Free /\ K!EndJob(tried) /\ keysLost' = keysLost BY <1>2, <1>3 DEF KeysFit
    <2>3. lock.who \in Jobs BY <1>3
    <2> HIDE DEF tried, again
    <2>4. Freed /\ job'[lock.who] = tried BY <2>1, <2>2, <2>3, EndsJob
    <2> QED BY <2>1, <2>2, <2>3, <2>4 DEF KeysFit
  <1>4. CASE ~again
    <2>1. over \in SyncJobs /\ over.state = "none" BY DEF SyncJobs
    <2>2. lock' = K!Free /\ K!EndJob(over) /\ keysLost' BY <1>1, <1>2, <1>4 DEF JobIds
    <2>3. keysLost' = TRUE BY <1>1, <1>2, <1>4 DEF JobIds, KeysFit
    <2> HIDE DEF over, again
    <2>4. Freed BY <2>1, <2>2, EndsJob
    <2> QED BY <2>3, <2>4
  <1> QED BY <1>3, <1>4

-----------------------------------------------------------------------------
(* What every variable may hold *)

LEMMA KeysFitKept ==
  ASSUME JobIds, KInv, [K!Next]_(K!state)
  PROVE  KeysFit'
  <1> USE DEF KInv
  <1>1. CASE UNCHANGED K!state \/ Asks
    <2>1. request' \in KeyRequests
      <3>1. ASSUME NEW gives \in K!Env, K!Connect(gives) PROVE request' \in KeyRequests BY <3>1 DEF K!Connect, KeyRequests
      <3>2. ASSUME K!Verify PROVE request' \in KeyRequests
        <4>1. [request EXCEPT !.pc = "store"] \in KeyRequests BY DEF KeysFit, KeyRequests
        <4> QED BY <3>2, <4>1, KeyConstants DEF K!Verify
      <3> QED BY <1>1, <3>1, <3>2 DEF Asks, K!state, KeysFit
    <2>2. UNCHANGED <<cred, job, lock, project, prod, own, box, keysLost, missed>> BY <1>1 DEF Asks, K!Connect, K!Verify, K!state
    <2> QED BY <2>1, <2>2 DEF KeysFit, K!Stored
  <1>2. CASE Keeps \/ \E k \in KeyNames : K!RetireKey(k)
    <2>1. request' \in KeyRequests
      <3>1. [K!Rest EXCEPT !.pc = "schedule"] \in KeyRequests BY KeyConstants DEF KeyRequests
      <3> QED BY <1>2, <3>1 DEF Keeps, K!Store, K!Disconnect, K!RetireKey, KeysFit
    <2>2. cred' \in [KeyNames -> Creds] /\ \A k \in KeyNames : cred'[k].synced => cred'[k].value # NoValue
      <3>1. CASE K!Store
        <4>1. cred' = [k \in KeyNames |-> IF request.gives[k] = NoValue THEN cred[k]
                                      ELSE [value |-> request.gives[k], synced |-> FALSE, opens |-> TRUE]]
          BY <3>1 DEF K!Store
        <4>2. ASSUME NEW k \in KeyNames, request.gives[k] # NoValue
              PROVE  [value |-> request.gives[k], synced |-> FALSE, opens |-> TRUE] \in Creds
          BY <4>2 DEF KeysFit, KeyRequests, K!Env, Creds
        <4>3. \A k \in KeyNames : cred'[k] \in Creds /\ (cred'[k].synced => cred'[k].value # NoValue)
          BY <4>1, <4>2 DEF KeysFit, K!Stored
        <4> QED BY <4>1, <4>3
      <3>2. CASE K!Disconnect BY <3>2, KeyConstants DEF K!Disconnect
      <3>3. ASSUME NEW k \in KeyNames, K!RetireKey(k)
            PROVE  cred' \in [KeyNames -> Creds] /\ \A x \in KeyNames : cred'[x].synced => cred'[x].value # NoValue
        <4>1. cred' = [cred EXCEPT ![k] = [cred[k] EXCEPT !.opens = FALSE]] BY <3>3 DEF K!RetireKey
        <4>2. /\ [cred[k] EXCEPT !.opens = FALSE] \in Creds
              /\ [cred[k] EXCEPT !.opens = FALSE].synced = cred[k].synced
              /\ [cred[k] EXCEPT !.opens = FALSE].value = cred[k].value
          BY DEF KeysFit, Creds
        <4> QED BY <4>1, <4>2 DEF KeysFit, K!Stored
      <3> QED BY <1>2, <3>1, <3>2, <3>3 DEF Keeps
    <2>3. UNCHANGED <<job, lock, project, prod, own, box, keysLost, missed>> BY <1>2 DEF Keeps, K!Store, K!Disconnect, K!RetireKey
    <2> QED BY <2>1, <2>2, <2>3 DEF KeysFit, K!Stored
  <1>3. CASE K!Schedule \/ K!ApiDies
    <2>1. request' \in KeyRequests BY <1>3, KeyConstants DEF K!Schedule, K!ApiDies
    <2>2. job' \in [Jobs -> SyncJobs]
      <3>1. [state |-> "waiting", failed |-> 0] \in SyncJobs BY DEF SyncJobs
      <3> QED BY <1>3, <3>1 DEF K!Schedule, K!ApiDies, KeysFit
    <2>3. UNCHANGED <<cred, lock, project, prod, own, box, missed>> /\ keysLost' \in BOOLEAN
      BY <1>3 DEF K!Schedule, K!ApiDies, KeysFit
    <2> QED BY <2>1, <2>2, <2>3 DEF KeysFit, K!Stored
  <1>4. ASSUME NEW j \in Jobs, K!Sync(j) PROVE KeysFit'
    <2>1. lock' \in KeyLocks
      <3>1. K!Opened \in K!Env BY OpenedAgrees
      <3> QED BY <1>4, <3>1, KeyConstants DEF K!Sync, KeyLocks, LockSteps
    <2>2. job' \in [Jobs -> SyncJobs]
      <3>1. job' = [job EXCEPT ![j] = [job[j] EXCEPT !.state = "active"]] BY <1>4 DEF K!Sync
      <3>2. [job[j] EXCEPT !.state = "active"] \in SyncJobs BY DEF KeysFit, SyncJobs
      <3> QED BY <3>1, <3>2 DEF KeysFit
    <2>3. UNCHANGED <<cred, request, project, prod, own, box, keysLost, missed>> BY <1>4 DEF K!Sync
    <2> QED BY <2>1, <2>2, <2>3 DEF KeysFit, K!Stored
  <1>5. CASE K!WriteEnv \/ K!RestartServer
    <2>1. lock' \in KeyLocks BY <1>5, GoesOn DEF K!WriteEnv, K!RestartServer, LockSteps
    <2>2. box' \in KeyBoxes
      <3>1. lock.env \in K!Env /\ box.file \in K!Env BY DEF KeysFit, KeyLocks, KeyBoxes
      <3>2. [box EXCEPT !.file = lock.env] \in KeyBoxes /\ [box EXCEPT !.loaded = box.file] \in KeyBoxes
        BY <3>1 DEF KeysFit, KeyBoxes
      <3> QED BY <1>5, <3>2 DEF K!WriteEnv, K!RestartServer, KeysFit
    <2>3. UNCHANGED <<cred, request, job, project, prod, own, keysLost>> BY <1>5 DEF K!WriteEnv, K!RestartServer
    <2>4. missed' \in BOOLEAN BY <1>5 DEF K!WriteEnv, K!RestartServer, KeysFit
    <2> QED BY <2>1, <2>2, <2>3, <2>4 DEF KeysFit, K!Stored
  <1>6. CASE K!Production
    <2>1. UNCHANGED <<cred, request, project, prod, own, box, missed>> BY <1>6 DEF K!Production
    <2>2. CASE K!Return BY <2>1, <2>2, Returns DEF Freed, KeysFit, K!Stored
    <2>3. CASE K!Goto("delete") /\ UNCHANGED <<job, keysLost>>
      <3>1. lock' \in KeyLocks BY <2>3, GoesOn DEF LockSteps
      <3> QED BY <2>1, <2>3, <3>1 DEF KeysFit, K!Stored
    <2> QED BY <1>6, <2>2, <2>3 DEF K!Production
  <1>7. CASE K!DeleteStale \/ K!Upsert
    <2>1. lock' \in KeyLocks
      <3>1. [lock EXCEPT !.pc = "upsert", !.todo = {x \in KeyNames : lock.env[x] # NoValue}] \in KeyLocks BY DEF KeysFit, KeyLocks, LockSteps
      <3>2. ASSUME NEW k PROVE [lock EXCEPT !.todo = @ \ {k}] \in KeyLocks BY DEF KeysFit, KeyLocks
      <3>3. CASE K!DeleteStale BY <3>1, <3>3 DEF K!DeleteStale, K!Managed, KeysFit
      <3>4. CASE K!Upsert BY <3>2, <3>4, GoesOn DEF K!Upsert, LockSteps
      <3> QED BY <1>7, <3>3, <3>4
    <2>2. prod' \in K!Env BY <1>7 DEF K!DeleteStale, K!Managed, K!Upsert, KeysFit, K!Env, KeyLocks
    <2>3. UNCHANGED <<cred, request, job, project, own, box, keysLost, missed>> BY <1>7 DEF K!DeleteStale, K!Managed, K!Upsert
    <2> QED BY <2>1, <2>2, <2>3 DEF KeysFit, K!Stored
  <1>8. CASE K!Mark
    <2>1. UNCHANGED <<request, project, prod, own, box, missed>> /\ K!Return BY <1>8 DEF K!Mark
    <2>2. cred' \in [KeyNames -> Creds] /\ \A k \in KeyNames : cred'[k].synced => cred'[k].value # NoValue
      <3>1. cred' = [k \in KeyNames |-> [cred[k] EXCEPT !.synced = K!Stored(k)]] BY <1>8 DEF K!Mark
      <3>2. ASSUME NEW k \in KeyNames
            PROVE  /\ [cred[k] EXCEPT !.synced = K!Stored(k)] \in Creds
                   /\ [cred[k] EXCEPT !.synced = K!Stored(k)].synced => cred[k].value # NoValue
                   /\ [cred[k] EXCEPT !.synced = K!Stored(k)].value = cred[k].value
        <4>1. cred[k] \in Creds /\ K!Stored(k) \in BOOLEAN BY DEF KeysFit, K!Stored
        <4> QED BY <4>1 DEF Creds, K!Stored
      <3> QED BY <3>1, <3>2
    <2> QED BY <2>1, <2>2, Returns DEF Freed, KeysFit, K!Stored
  <1>9. CASE K!PreparePublish \/ K!StartBox
    <2>1. lock' \in KeyLocks
      <3>1. K!Opened \in K!Env BY OpenedAgrees
      <3> QED BY <1>9, <3>1, KeyConstants DEF K!PreparePublish, K!StartBox, KeyLocks, LockSteps
    <2>2. UNCHANGED <<cred, request, job, prod, own, box, keysLost, missed>> /\ project' \in BOOLEAN
      BY <1>9 DEF K!PreparePublish, K!StartBox, KeysFit
    <2> QED BY <2>1, <2>2 DEF KeysFit, K!Stored
  <1>10. CASE K!CallFails
    <2>1. UNCHANGED <<cred, request, project, prod, own>> /\ K!Throw /\ lock.pc \notin {"free", "bootstrap"}
      BY <1>10 DEF K!CallFails
    <2>2. box' \in KeyBoxes /\ missed' \in BOOLEAN
      <3>1. [box EXCEPT !.file = lock.env] \in KeyBoxes BY DEF KeysFit, KeyBoxes, KeyLocks
      <3> QED BY <1>10, <3>1 DEF K!CallFails, KeysFit
    <2> QED BY <2>1, <2>2, Throws DEF Freed, KeysFit, K!Stored
  <1>11. CASE K!Bootstrap
    <2>1. lock' \in KeyLocks /\ box' \in KeyBoxes BY <1>11, KeyConstants DEF K!Bootstrap, KeysFit, KeyLocks, KeyBoxes, BoxState
    <2>2. UNCHANGED <<cred, request, job, project, prod, own, keysLost>> /\ missed' = FALSE BY <1>11 DEF K!Bootstrap
    <2> QED BY <2>1, <2>2 DEF KeysFit, K!Stored
  <1>12. CASE Boxed
    <2>1. box' \in KeyBoxes
      <3>1. CASE K!PauseBox BY <3>1 DEF K!PauseBox, KeysFit, KeyBoxes, BoxState
      <3>2. CASE K!ResumeBox BY <3>2 DEF K!ResumeBox, KeysFit, KeyBoxes, BoxState
      <3>3. CASE K!DestroyBox BY <3>3, KeyConstants DEF K!DestroyBox
      <3> QED BY <1>12, <3>1, <3>2, <3>3 DEF Boxed
    <2>2. UNCHANGED <<cred, request, job, lock, project, prod, own, keysLost, missed>>
      BY <1>12 DEF Boxed, K!PauseBox, K!ResumeBox, K!DestroyBox
    <2> QED BY <2>1, <2>2 DEF KeysFit, K!Stored
  <1> QED
    BY StepKinds, <1>1, <1>2, <1>3, <1>4, <1>5, <1>6, <1>7, <1>8, <1>9, <1>10, <1>11, <1>12

-----------------------------------------------------------------------------
(* One holder at a time *)

LEMMA FreedHolds == ASSUME JobIds, Freed PROVE KeyHolder'
  <1>1. lock'.pc = "free" /\ lock'.who = NoValue BY KeyConstants DEF Freed
  <1>2. \A j \in Jobs : lock'.who # j /\ job'[j].state # "active" BY <1>1 DEF JobIds, Freed
  <1> QED BY <1>1, <1>2 DEF KeyHolder, Freed

\* The holder goes on with its job to another of the steps that it has.
LEMMA HolderGoesOn ==
  ASSUME KInv, job' = job, lock'.who = lock.who, lock.pc # "bootstrap",
         \/ lock'.pc \in {"restart", "project"} /\ lock.who \in Jobs
         \/ lock'.pc \in {"delete", "upsert", "mark"} /\ lock.who \in Jobs \cup {"publish"}
  PROVE  KeyHolder'
  BY DEF KInv, KeyHolder

LEMMA KeyHolderKept ==
  ASSUME JobIds, KInv, [K!Next]_(K!state)
  PROVE  KeyHolder'
  <1> USE DEF KInv
  <1>1. ASSUME UNCHANGED <<lock, job>> PROVE KeyHolder' BY <1>1 DEF KeyHolder
  <1>2. CASE K!Schedule
    <2>1. lock' = lock BY <1>2 DEF K!Schedule
    <2>2. \A j \in Jobs : job'[j].state = "active" <=> job[j].state = "active"
      BY <1>2 DEF K!Schedule, KeysFit
    <2> QED BY <2>1, <2>2 DEF KeyHolder
  <1>3. ASSUME NEW j \in Jobs, K!Sync(j) PROVE KeyHolder'
    <2>1. lock'.who = j /\ lock'.pc = "sandbox" BY <1>3, KeyConstants DEF K!Sync, KeyLocks
    <2>2. \A i \in Jobs : job[i].state # "active"
      <3>1. lock.who = NoValue BY <1>3, KeyConstants DEF K!Sync
      <3> QED BY <3>1 DEF JobIds, KeyHolder
    <2>3. job'[j].state = "active" /\ \A i \in Jobs : i # j => job'[i] = job[i] BY <1>3 DEF K!Sync, KeysFit, SyncJobs
    <2> QED BY <2>1, <2>2, <2>3 DEF KeyHolder
  <1>4. CASE K!WriteEnv
    <2>1. lock'.pc \in {"restart", "project"} /\ lock'.who = lock.who BY <1>4, GoesOn DEF K!WriteEnv, LockSteps
    <2> QED BY <1>4, <2>1, HolderGoesOn DEF K!WriteEnv, KeyHolder
  <1>5. CASE K!RestartServer
    <2>1. lock'.pc = "project" /\ lock'.who = lock.who BY <1>5, GoesOn DEF K!RestartServer, LockSteps
    <2> QED BY <1>5, <2>1, HolderGoesOn DEF K!RestartServer, KeyHolder
  <1>6. CASE K!Production
    <2>1. CASE K!Return BY <2>1, Returns, FreedHolds
    <2>2. CASE K!Goto("delete") /\ job' = job
      <3>1. lock'.pc = "delete" /\ lock'.who = lock.who BY <2>2, GoesOn DEF LockSteps
      <3> QED BY <1>6, <2>2, <3>1, HolderGoesOn DEF K!Production, KeyHolder
    <2> QED BY <1>6, <2>1, <2>2 DEF K!Production
  <1>7. CASE K!DeleteStale
    <2>1. lock' = lock \/ (lock'.pc = "upsert" /\ lock'.who = lock.who) BY <1>7 DEF K!DeleteStale, K!Managed, KeysFit, KeyLocks
    <2> QED BY <1>1, <1>7, <2>1, HolderGoesOn DEF K!DeleteStale, K!Managed, KeyHolder
  <1>8. CASE K!Upsert
    <2>1. lock'.pc \in {"upsert", "mark"} /\ lock'.who = lock.who BY <1>8 DEF K!Upsert, K!Goto, KeysFit, KeyLocks
    <2> QED BY <1>8, <2>1, HolderGoesOn DEF K!Upsert, KeyHolder
  <1>9. CASE K!Mark BY <1>9, Returns, FreedHolds DEF K!Mark
  <1>10. CASE K!PreparePublish
    <2>1. lock'.who = "publish" /\ lock'.pc = "delete" /\ job' = job BY <1>10, KeyConstants DEF K!PreparePublish, KeyLocks
    <2>2. lock.who = NoValue BY <1>10, KeyConstants DEF K!PreparePublish
    <2> QED BY <2>1, <2>2 DEF KeyHolder, JobIds
  <1>11. CASE K!StartBox
    <2>1. lock'.who = "lifecycle" /\ lock'.pc = "bootstrap" /\ job' = job BY <1>11, KeyConstants DEF K!StartBox, KeyLocks
    <2>2. lock.who = NoValue BY <1>11, KeyConstants DEF K!StartBox
    <2> QED BY <2>1, <2>2 DEF KeyHolder, JobIds
  <1>12. CASE K!Bootstrap
    <2>1. lock.who = "lifecycle" /\ lock' = K!Free /\ job' = job BY <1>12 DEF K!Bootstrap, KeyHolder
    <2>2. lock'.pc = "free" /\ lock'.who = NoValue BY <2>1, KeyConstants
    <2> QED BY <2>1, <2>2 DEF KeyHolder, JobIds
  <1>13. CASE K!CallFails BY <1>13, Throws, FreedHolds DEF K!CallFails
  <1>14. CASE UNCHANGED K!state \/ Asks \/ Keeps \/ K!ApiDies \/ \E k \in KeyNames : K!RetireKey(k)
    BY <1>1, <1>14 DEF K!state, Asks, K!Connect, K!Verify, Keeps, K!Store, K!Disconnect, K!ApiDies, K!RetireKey
  <1>15. CASE Boxed BY <1>1, <1>15 DEF Boxed, K!PauseBox, K!ResumeBox, K!DestroyBox
  <1> QED
    BY StepKinds, <1>2, <1>3, <1>4, <1>5, <1>6, <1>7, <1>8, <1>9, <1>10, <1>11, <1>12, <1>13, <1>14, <1>15

-----------------------------------------------------------------------------
(* How far the holder has come *)

LEMMA KeyStagesKept ==
  ASSUME JobIds, KInv, [K!Next]_(K!state)
  PROVE  KeyStages'
  <1> USE DEF KInv
  <1>1. ASSUME UNCHANGED <<lock, prod, box, missed>> PROVE KeyStages' BY <1>1 DEF KeyStages
  \* Where the holder is at none of the stages, only the preview matters.
  <1>2. ASSUME lock'.pc \notin {"upsert", "mark", "restart"}, lock.pc # "restart", UNCHANGED <<box, missed>> PROVE KeyStages'
    BY <1>2 DEF KeyStages
  <1>3. CASE UNCHANGED K!state \/ Asks \/ Keeps \/ K!Schedule \/ K!ApiDies \/ \E k \in KeyNames : K!RetireKey(k)
    BY <1>1, <1>3 DEF K!state, Asks, K!Connect, K!Verify, Keeps, K!Store, K!Disconnect, K!Schedule, K!ApiDies, K!RetireKey
  <1>4. ASSUME NEW j \in Jobs, K!Sync(j) PROVE KeyStages'
    <2>1. lock'.pc = "sandbox" /\ lock.pc = "free" BY <1>4, KeyConstants DEF K!Sync, KeyLocks
    <2> QED BY <1>2, <1>4, <2>1 DEF K!Sync
  <1>5. CASE K!WriteEnv
    <2>1. CASE box.row = "running" /\ box.state = "running"
      <3>1. /\ box'.file = lock.env /\ box'.loaded = box.loaded /\ box'.state = "running" /\ missed' = missed
            /\ K!Goto(IF box.file = lock.env THEN "project" ELSE "restart")
        BY <1>5, <2>1 DEF K!WriteEnv, KeysFit, KeyBoxes
      <3>2. ~missed => box.loaded = box.file BY <1>5, <2>1 DEF K!WriteEnv, KeyStages
      <3>3. CASE box.file = lock.env
        <4>1. lock'.pc = "project" BY <3>1, <3>3, GoesOn DEF LockSteps
        <4> QED BY <3>1, <3>2, <3>3, <4>1 DEF KeyStages
      <3>4. CASE box.file # lock.env
        <4>1. lock'.pc = "restart" /\ lock'.env = lock.env BY <3>1, <3>4, GoesOn DEF LockSteps
        <4> QED BY <3>1, <4>1 DEF KeyStages
      <3> QED BY <3>3, <3>4
    <2>2. CASE ~(box.row = "running" /\ box.state = "running")
      <3>1. K!Goto("project") /\ box' = box /\ missed' = (missed \/ box.state # "none") BY <1>5, <2>2 DEF K!WriteEnv
      <3>2. lock'.pc = "project" BY <3>1, GoesOn DEF LockSteps
      <3> QED BY <3>1, <3>2 DEF KeyStages
    <2> QED BY <2>1, <2>2
  <1>6. CASE K!RestartServer
    <2>1. lock'.pc = "project" BY <1>6, GoesOn DEF K!RestartServer, LockSteps
    <2>2. ~missed' /\ box'.state # "none" => box'.loaded = box'.file BY <1>6 DEF K!RestartServer, KeysFit, KeyBoxes
    <2> QED BY <2>1, <2>2 DEF KeyStages
  <1>7. CASE K!Production
    <2>1. lock'.pc \in {"free", "delete"} BY <1>7, Returns, GoesOn, KeyConstants DEF K!Production, Freed, LockSteps
    <2> QED BY <1>2, <1>7, <2>1 DEF K!Production
  <1>8. CASE K!DeleteStale
    <2> DEFINE gone == {k \in KeyNames : prod[k] # NoValue /\ lock.env[k] = NoValue}
    <2>1. CASE gone # {}
      <3>1. lock' = lock /\ box' = box /\ missed' = missed /\ lock.pc = "delete" BY <1>8, <2>1 DEF K!DeleteStale, K!Managed
      <3> QED BY <1>2, <3>1
    <2>2. CASE gone = {}
      <3>1. /\ lock' = [lock EXCEPT !.pc = "upsert", !.todo = {x \in KeyNames : lock.env[x] # NoValue}] /\ prod' = prod
            /\ box' = box /\ missed' = missed /\ lock.pc = "delete"
        BY <1>8, <2>2 DEF K!DeleteStale, K!Managed
      <3>2. lock'.pc = "upsert" /\ lock'.env = lock.env /\ lock'.todo = {x \in KeyNames : lock.env[x] # NoValue}
        BY <3>1 DEF KeysFit, KeyLocks
      <3>3. \A k \in KeyNames \ lock'.todo : prod'[k] = lock'.env[k] BY <2>2, <3>1, <3>2
      <3> QED BY <3>1, <3>2, <3>3 DEF KeyStages
    <2> QED BY <2>1, <2>2
  <1>9. CASE K!Upsert
    <2>1. CASE lock.todo # {}
      <3>1. PICK k \in lock.todo : prod' = [prod EXCEPT ![k] = lock.env[k]] /\ lock' = [lock EXCEPT !.todo = @ \ {k}]
        BY <1>9, <2>1 DEF K!Upsert
      <3>2. box' = box /\ missed' = missed /\ lock.pc = "upsert" BY <1>9 DEF K!Upsert
      <3>3. lock'.pc = "upsert" /\ lock'.env = lock.env /\ lock'.todo = lock.todo \ {k} BY <3>1, <3>2 DEF KeysFit, KeyLocks
      <3>4. k \in KeyNames BY <3>1 DEF KeysFit, KeyLocks
      <3>5. \A x \in KeyNames \ lock'.todo : prod'[x] = lock'.env[x] BY <3>1, <3>2, <3>3, <3>4 DEF KeyStages, KeysFit, K!Env
      <3> QED BY <3>2, <3>3, <3>5 DEF KeyStages
    <2>2. CASE lock.todo = {}
      <3>1. K!Goto("mark") /\ prod' = prod /\ box' = box /\ missed' = missed /\ lock.pc = "upsert" BY <1>9, <2>2 DEF K!Upsert
      <3>2. lock'.pc = "mark" /\ lock'.env = lock.env BY <3>1, GoesOn DEF LockSteps
      <3> QED BY <2>2, <3>1, <3>2 DEF KeyStages
    <2> QED BY <2>1, <2>2
  <1>10. CASE K!Mark
    <2>1. lock'.pc = "free" BY <1>10, Returns, KeyConstants DEF K!Mark, Freed
    <2> QED BY <1>2, <1>10, <2>1 DEF K!Mark
  <1>11. CASE K!PreparePublish \/ K!StartBox
    <2>1. lock'.pc \in {"delete", "bootstrap"} /\ lock.pc = "free"
      BY <1>11, KeyConstants DEF K!PreparePublish, K!StartBox, KeyLocks
    <2> QED BY <1>2, <1>11, <2>1 DEF K!PreparePublish, K!StartBox
  <1>12. CASE K!CallFails
    <2>1. lock'.pc = "free" BY <1>12, Throws, KeyConstants DEF K!CallFails, Freed
    <2>2. ~missed' => box' = box /\ ~missed /\ lock.pc # "restart" BY <1>12 DEF K!CallFails
    <2> QED BY <2>1, <2>2 DEF KeyStages
  <1>13. CASE K!Bootstrap
    <2>1. lock'.pc = "free" /\ box'.loaded = box'.file BY <1>13, KeyConstants DEF K!Bootstrap
    <2> QED BY <2>1 DEF KeyStages
  <1>14. CASE Boxed
    <2>1. UNCHANGED <<lock, prod, missed>> BY <1>14 DEF Boxed, K!PauseBox, K!ResumeBox, K!DestroyBox
    <2>2. CASE K!PauseBox \/ K!ResumeBox
      <3>1. box.state # "none" /\ box'.file = box.file /\ box'.loaded = box.loaded /\ box'.state # "none"
        BY <2>2 DEF K!PauseBox, K!ResumeBox, KeysFit, KeyBoxes
      <3> QED BY <2>1, <3>1 DEF KeyStages
    <2>3. CASE K!DestroyBox
      <3>1. lock.pc = "free" /\ box'.state = "none" BY <2>3, KeyConstants DEF K!DestroyBox
      <3> QED BY <2>1, <3>1 DEF KeyStages
    <2> QED BY <1>14, <2>2, <2>3 DEF Boxed
  <1> QED
    BY StepKinds, <1>3, <1>4, <1>5, <1>6, <1>7, <1>8, <1>9, <1>10, <1>11, <1>12, <1>13, <1>14

-----------------------------------------------------------------------------
(* What the holder carries is what is stored, unless another sync is to come *)

LEMMA CarriesKeysKept ==
  ASSUME JobIds, KInv, [K!Next]_(K!state), ~keysLost', ~Awaited'
  PROVE  /\ lock'.pc # "free" => Agrees(lock.env)'
         /\ project' /\ lock'.pc \in {"free", "bootstrap"} => Agrees(prod)'
         /\ ~missed' /\ box'.state # "none" /\ lock'.pc \notin {"sandbox", "restart"} => Agrees(box.loaded)'
  <1> USE DEF KInv
  <1> DEFINE Goal == /\ lock'.pc # "free" => Agrees(lock.env)'
                     /\ project' /\ lock'.pc \in {"free", "bootstrap"} => Agrees(prod)'
                     /\ ~missed' /\ box'.state # "none" /\ lock'.pc \notin {"sandbox", "restart"} => Agrees(box.loaded)'
  <1>1. ASSUME UNCHANGED <<cred, lock, project, prod, box, keysLost, missed>>, ~Awaited PROVE Goal
    BY <1>1 DEF CarriesKeys, Agrees
  <1>2. CASE UNCHANGED K!state \/ Asks
    <2>1. request'.pc # "schedule" => request.pc # "schedule"
      BY <1>2 DEF K!state, Asks, K!Connect, K!Verify, K!Rest, KeyRequests
    <2>2. job' = job BY <1>2 DEF K!state, Asks, K!Connect, K!Verify
    <2>3. ~Awaited BY <2>1, <2>2 DEF Awaited
    <2> QED BY <1>1, <1>2, <2>3 DEF K!state, Asks, K!Connect, K!Verify
  <1>3. CASE Keeps
    <2>1. request' = [K!Rest EXCEPT !.pc = "schedule"] BY <1>3 DEF Keeps, K!Store, K!Disconnect
    <2>2. request'.pc = "schedule" BY <2>1 DEF K!Rest
    <2> QED BY <2>2 DEF Awaited
  <1>4. CASE K!Schedule
    <2>1. PICK j \in Jobs : job' = [job EXCEPT ![j] = [state |-> "waiting", failed |-> 0]] BY <1>4 DEF K!Schedule
    <2>2. job'[j].state = "waiting" BY <2>1 DEF KeysFit
    <2> QED BY <2>2 DEF Awaited
  <1>5. CASE K!ApiDies BY <1>5 DEF K!ApiDies
  <1>6. ASSUME NEW k \in KeyNames, K!RetireKey(k) PROVE Goal
    <2>1. UNCHANGED <<request, job, lock, project, prod, box, keysLost, missed>> BY <1>6 DEF K!RetireKey
    <2>2. ~Awaited BY <2>1 DEF Awaited
    <2>3. \A x \in KeyNames : cred'[x].value = cred[x].value /\ (cred'[x].opens => cred[x].opens)
      BY <1>6 DEF K!RetireKey, KeysFit, Creds
    <2> QED BY <2>1, <2>2, <2>3 DEF CarriesKeys, Agrees
  <1>7. ASSUME NEW j \in Jobs, K!Sync(j) PROVE Goal
    <2>1. lock'.pc = "sandbox" /\ lock'.env = K!Opened /\ cred' = cred BY <1>7 DEF K!Sync, K!Free
    <2>2. Agrees(lock.env)' BY <2>1, OpenedAgrees DEF Agrees
    <2> QED BY <2>1, <2>2
  <1>8. CASE K!WriteEnv
    <2>1. UNCHANGED <<cred, request, job, project, prod, keysLost>> BY <1>8 DEF K!WriteEnv
    <2>2. ~Awaited BY <2>1 DEF Awaited
    <2>3. lock'.pc \in {"restart", "project"} /\ lock'.env = lock.env BY <1>8, GoesOn DEF K!WriteEnv, LockSteps
    <2>4. Agrees(lock.env) BY <1>8, <2>1, <2>2 DEF CarriesKeys, K!WriteEnv
    <2>5. ASSUME ~missed', box'.state # "none", lock'.pc = "project" PROVE box'.loaded = lock.env
      <3>1. box.row = "running" /\ box.state = "running" BY <1>8, <2>5 DEF K!WriteEnv, KeysFit
      <3>2. box.file = lock.env
        <4>1. K!Goto(IF box.file = lock.env THEN "project" ELSE "restart") BY <1>8, <3>1 DEF K!WriteEnv
        <4>2. CASE box.file # lock.env BY <2>5, <4>1, <4>2, GoesOn DEF LockSteps
        <4> QED BY <4>2
      <3>3. box.loaded = box.file BY <1>8, <2>5, <3>1 DEF KeyStages, K!WriteEnv
      <3>4. box'.loaded = box.loaded BY <1>8, <3>1 DEF K!WriteEnv, KeysFit, KeyBoxes
      <3> QED BY <3>2, <3>3, <3>4
    <2> QED BY <2>1, <2>3, <2>4, <2>5 DEF Agrees
  <1>9. CASE K!RestartServer
    <2>1. UNCHANGED <<cred, request, job, project, prod, keysLost>> BY <1>9 DEF K!RestartServer
    <2>2. ~Awaited BY <2>1 DEF Awaited
    <2>3. lock'.pc = "project" /\ lock'.env = lock.env BY <1>9, GoesOn DEF K!RestartServer, LockSteps
    <2>4. Agrees(lock.env) BY <1>9, <2>1, <2>2 DEF CarriesKeys, K!RestartServer
    <2>5. ~missed' => box'.loaded = lock.env BY <1>9 DEF K!RestartServer, KeyStages, KeysFit, KeyBoxes
    <2> QED BY <2>1, <2>3, <2>4, <2>5 DEF Agrees
  <1>10. CASE K!Production
    <2>1. UNCHANGED <<cred, request, project, prod, box, missed>> /\ lock.pc = "project" BY <1>10 DEF K!Production
    <2>2. CASE ~project /\ K!Return
      <3>1. lock'.pc = "free" /\ keysLost' = keysLost BY <2>2, Returns, KeyConstants DEF Freed
      <3>2. ~Awaited BY <2>1, <2>2, Returns DEF Awaited, Freed
      <3> QED BY <2>1, <2>2, <3>1, <3>2 DEF CarriesKeys, Agrees
    <2>3. CASE K!Goto("delete") /\ UNCHANGED <<job, keysLost>>
      <3>1. lock'.pc = "delete" /\ lock'.env = lock.env BY <2>3, GoesOn DEF LockSteps
      <3>2. ~Awaited BY <2>1, <2>3 DEF Awaited
      <3> QED BY <2>1, <2>3, <3>1, <3>2 DEF CarriesKeys, Agrees
    <2> QED BY <1>10, <2>2, <2>3 DEF K!Production
  <1>11. CASE K!DeleteStale \/ K!Upsert
    <2>1. UNCHANGED <<cred, request, job, project, box, keysLost, missed>> /\ lock.pc \in {"delete", "upsert"}
      BY <1>11 DEF K!DeleteStale, K!Managed, K!Upsert
    <2>2. ~Awaited BY <2>1 DEF Awaited
    <2>3. lock'.pc \in {"delete", "upsert", "mark"} /\ lock'.env = lock.env
      BY <1>11 DEF K!DeleteStale, K!Managed, K!Upsert, K!Goto, KeysFit, KeyLocks
    <2> QED BY <2>1, <2>2, <2>3 DEF CarriesKeys, Agrees
  <1>12. CASE K!Mark
    <2>1. UNCHANGED <<request, project, prod, box, missed>> /\ K!Return /\ lock.pc = "mark" BY <1>12 DEF K!Mark
    <2>2. lock'.pc = "free" /\ keysLost' = keysLost BY <2>1, Returns, KeyConstants DEF Freed
    <2>3. ~Awaited BY <2>1, Returns DEF Awaited, Freed
    <2>4. \A k \in KeyNames : cred'[k].opens = cred[k].opens /\ cred'[k].value = cred[k].value
      BY <1>12 DEF K!Mark, KeysFit, Creds
    <2>5. Agrees(lock.env) /\ \A k \in KeyNames : prod[k] = lock.env[k] BY <2>1, <2>2, <2>3 DEF CarriesKeys, KeyStages
    <2> QED BY <2>1, <2>2, <2>3, <2>4, <2>5 DEF CarriesKeys, Agrees
  <1>13. CASE K!PreparePublish \/ K!StartBox
    <2>1. UNCHANGED <<cred, request, job, prod, box, keysLost, missed>> /\ lock.pc = "free"
      BY <1>13, KeyConstants DEF K!PreparePublish, K!StartBox
    <2>2. ~Awaited BY <2>1 DEF Awaited
    <2>3. lock'.env = K!Opened BY <1>13 DEF K!PreparePublish, K!StartBox, K!Free
    <2>4. lock'.pc = "delete" \/ (lock'.pc = "bootstrap" /\ project' = project)
      BY <1>13 DEF K!PreparePublish, K!StartBox, K!Free
    <2>5. Agrees(lock.env)' BY <2>1, <2>3, OpenedAgrees DEF Agrees
    <2> QED BY <2>1, <2>2, <2>4, <2>5 DEF CarriesKeys, Agrees
  <1>14. CASE K!CallFails BY <1>14, Throws DEF K!CallFails, Awaited
  <1>15. CASE K!Bootstrap
    <2>1. UNCHANGED <<cred, request, job, project, prod, keysLost>> /\ lock.pc = "bootstrap" BY <1>15 DEF K!Bootstrap
    <2>2. ~Awaited BY <2>1 DEF Awaited
    <2>3. lock'.pc = "free" /\ box'.loaded = lock.env BY <1>15, KeyConstants DEF K!Bootstrap
    <2>4. Agrees(lock.env) BY <2>1, <2>2 DEF CarriesKeys
    <2> QED BY <2>1, <2>2, <2>3, <2>4 DEF CarriesKeys, Agrees
  <1>16. CASE Boxed
    <2>1. UNCHANGED <<cred, request, job, lock, project, prod, keysLost, missed>>
      BY <1>16 DEF Boxed, K!PauseBox, K!ResumeBox, K!DestroyBox
    <2>2. ~Awaited BY <2>1 DEF Awaited
    <2>3. box'.state # "none" => box.state # "none" /\ box'.loaded = box.loaded
      BY <1>16, KeyConstants DEF Boxed, K!PauseBox, K!ResumeBox, K!DestroyBox, KeysFit, KeyBoxes
    <2> QED BY <2>1, <2>2, <2>3 DEF CarriesKeys, Agrees
  <1> QED
    BY StepKinds, <1>2, <1>3, <1>4, <1>5, <1>6, <1>7, <1>8, <1>9, <1>10, <1>11, <1>12, <1>13, <1>14, <1>15, <1>16

-----------------------------------------------------------------------------
(* The theorems *)

LEMMA KeysStart == ASSUME JobIds, K!Init PROVE KInv
  <1>1. KeysFit
    <2>1. [j \in Jobs |-> [state |-> "none", failed |-> 0]] \in [Jobs -> SyncJobs] BY DEF SyncJobs
    <2>2. [k \in KeyNames |-> K!NoCred] \in [KeyNames -> Creds] BY KeyConstants
    <2> QED BY <2>1, <2>2, KeyConstants DEF K!Init, KeysFit, K!Stored
  <1>2. KeyHolder BY KeyConstants DEF K!Init, KeyHolder, JobIds
  <1>3. KeyStages BY KeyConstants DEF K!Init, KeyStages
  <1>4. CarriesKeys BY KeyConstants DEF K!Init, CarriesKeys
  <1> QED BY <1>1, <1>2, <1>3, <1>4 DEF KInv

LEMMA KeysKept == ASSUME JobIds, KInv, [K!Next]_(K!state) PROVE KInv'
  <1>1. CarriesKeys' BY CarriesKeysKept DEF CarriesKeys, KInv
  <1> QED BY <1>1, KeysFitKept, KeyHolderKept, KeyStagesKept DEF KInv

LEMMA KeysShow == ASSUME KInv PROVE K!KeysFollow
  <1>1. K!Settled => ~Awaited /\ lock.pc = "free" BY KeyConstants DEF K!Settled, Awaited
  <1>2. K!ProductionFollows BY <1>1 DEF K!ProductionFollows, KInv, KeysFit, CarriesKeys, Agrees
  <1>3. K!PreviewFollows BY <1>1 DEF K!PreviewFollows, KInv, CarriesKeys, Agrees
  <1> QED BY <1>2, <1>3 DEF K!KeysFollow

LEMMA JobIdsGiven == JobIds
BY ProductAssumption DEF JobIds

LEMMA SameKeyCount == ASSUME NEW X PROVE K!Cardinality(X) = Cardinality(X)
BY DEF K!Cardinality, Cardinality

LEMMA KeysTyped == ASSUME KInv PROVE K!TypeOK
  <1>1. /\ \A k \in KeyNames : cred[k].value \in Values \cup {NoValue} /\ (cred[k].synced => K!Stored(k))
        /\ prod \in K!Env /\ box.file \in K!Env /\ box.loaded \in K!Env
    BY DEF KInv, KeysFit, Creds, KeyBoxes
  <1>2. Cardinality({j \in Jobs : job[j].state = "active"}) = IF lock.who \in Jobs THEN 1 ELSE 0
    <2>1. {j \in Jobs : job[j].state = "active"} = IF lock.who \in Jobs THEN {lock.who} ELSE {}
      BY DEF KInv, KeyHolder
    <2> QED BY <2>1, FS_EmptySet, FS_Singleton
  <1> QED BY <1>1, <1>2, SameKeyCount DEF K!TypeOK

\* The rows and the two places hold values of the vault's, a key is listed as synced only while it is
\* stored, and one sync job is active at most, that of the lock's holder (CredentialSync under runExclusive).
THEOREM KeysAreTyped == K!Spec => []K!TypeOK
<1>1. K!Init => KInv
  BY KeysStart, JobIdsGiven
<1>2. KInv /\ [K!Next]_(K!state) => KInv'
  BY KeysKept, JobIdsGiven
<1>3. KInv => K!TypeOK
  BY KeysTyped
<1> QED BY <1>1, <1>2, <1>3, PTL DEF K!Spec

LEMMA KeysRun ==
  /\ StartsWith /\ which = "credentials" => K!Init
  /\ [Steps]_product => which' = which /\ (which = "credentials" => [K!Next]_(K!state))
BY DEF StartsWith, Steps, Copilot, Accounts, Checkout, Credentials, Integrations, Editor, Form, Wishes, Codemod, Reader, Chat, Desk, Tree, Welcome,
       Publish, Plans, Panels, product, parts, K!state

\* syncProduction, syncSandbox, scheduleSync: when every sync that was asked for is done, production has
\* exactly the stored set, and so has the preview's server, whatever was stored or deleted while a sync
\* ran, unless a sync was lost, or found the preview asleep.
THEOREM KeysAlwaysFollow == ProductSpec => []KeysFollow
<1> DEFINE Inv == which = "credentials" => KInv
<1>1. StartsWith => Inv
  BY KeysRun, KeysStart, JobIdsGiven
<1>2. Inv /\ [Steps]_product => Inv'
  BY KeysRun, KeysKept, JobIdsGiven
<1>3. Inv => KeysFollow
  BY KeysShow DEF KeysFollow
<1> HIDE DEF Inv
<1> QED BY <1>1, <1>2, <1>3, PTL DEF ProductSpec

HIDE DEF cred, request, job, lock, project, prod, own, box, keyChanges, keyFaults, keysLost, missed

-----------------------------------------------------------------------------
(* The checkout and the page of the plans *)

LEMMA PlansRun ==
  /\ StartsWith /\ which = "plans" => B!Init
  /\ [Steps]_product => which' = which /\ (which = "plans" => [B!Next]_(B!state))
BY DEF StartsWith, Steps, Copilot, Accounts, Checkout, Credentials, Integrations, Editor, Form, Wishes, Codemod, Reader, Chat, Desk, Tree, Welcome,
       Publish, Plans, Panels, product, parts, B!state, B!server, B!bounds

\* What a person pays is what they were shown, and the checkout always answers, for any codes, orders,
\* visits, payments and faults.
THEOREM PayAlwaysKept == ProductSpec => []PayAnswers
<1> DEFINE Pays  == which = "checkout" => PayInv
           Charges == which = "plans" => BillInv
<1>1. StartsWith => Pays /\ Charges
  BY CheckoutRun, PlansRun, PayStarts, BillStarts
<1>2. Pays /\ Charges /\ [Steps]_product => (Pays /\ Charges)'
  BY CheckoutRun, PlansRun, PayKept, BillKept
<1>3. Pays /\ Charges => PayAnswers
  BY PayShows, BillShows DEF PayAnswers
<1> HIDE DEF Pays, Charges
<1> QED BY <1>1, <1>2, <1>3, PTL DEF ProductSpec

=============================================================================
