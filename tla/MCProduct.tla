------------------------------ MODULE MCProduct -------------------------------
(***************************************************************************)
(* What the product promises a person, each part on its own: accounts and  *)
(* consent, the checkout with its promo codes, the keys of integrations,   *)
(* installing them, the AI that edits the site, and what the editor's page *)
(* says of it all.                                                         *)
(***************************************************************************)
EXTENDS Copilot

\* What each part is given, in the order of the instances below: who and what there is, and the bounds.
CONSTANTS
  MaxVersion, MaxSwitches,
  Admins, Orders, MaxUses,
  KeyNames, Required, Values, NoValue, Jobs, Attempts, KeyChanges,
  Ints, Routes, PackageOf, Slots, Files, Home, After, AllowedIn, Clicks, MaxInstalled, MaxOps,
  Ops, Publishes, EditorAsks,
  Names, FormEdits,
  Planned, Other, Pages, MaxRequests, WishCalls,
  Paths, ReaderChanges, ReaderAsks, ReaderFaults,
  MaxTexts, MaxRows, MaxLoads, ChatLimit,
  Users, OnList, Desks, DeskCalls,
  Packages, MaxCommits, TreeFaults,
  Looks, FirstLook, MaxVisits,
  Homes, Editors, PageEdits, MaxPresses, MaxReads,
  Codes, MaxTicks, MaxPays,
  PanelChanges, PanelAsks, MaxResets, PanelFaults

ASSUME ProductAssumption ==
  /\ Jobs \cap {NoValue, "publish", "lifecycle"} = {}
  /\ IsFiniteSet(Ints) /\ MaxInstalled \in Nat /\ NoValue \notin Slots \cup Files
  /\ Home \in [Slots -> Files] /\ After \in [Slots -> Slots \cup {NoValue}]
  /\ Desks \subseteq Users /\ "nobody" \notin Desks
  /\ "none" \notin Paths /\ "nowhere" \notin Pages /\ Ops \subseteq Nat
  /\ Homes \cap Editors = {} /\ "elsewhere" \notin Homes \cup Editors

VARIABLES
  which,   \* the component that runs
  v1, v2, v3, v4, v5, v6, v7, v8, v9, v10, v11, v12   \* its variables, in their order; 0 when it has fewer

parts == <<which, v1, v2, v3, v4, v5, v6, v7, v8, v9, v10, v11, v12>>
product == <<state, parts>>

A == INSTANCE Accounts WITH
  current <- v1, confirming <- v2, signup <- v3, link <- v4, account <- v5, session <- v6, oauth <- v7, tab <- v8,
  switches <- v9, ticked <- v10, blind <- v11

C == INSTANCE Checkout WITH
  row <- v1, copy <- v2, expired <- v3, mirror <- v4, admin <- v5, order <- v6, page <- v7, script <- v8,
  faults <- v9, torn <- v10, crossed <- v11, stale <- v12

K == INSTANCE Credentials WITH
  Keys <- KeyNames, None <- NoValue, MaxChanges <- KeyChanges, cred <- v1, request <- v2, job <- v3, lock <- v4, project <- v5, vars <- v6, own <- v7,
  box <- v8, changes <- v9, faults <- v10, lost <- v11, missed <- v12

I == INSTANCE Integrations WITH
  Allowed <- AllowedIn, None <- NoValue, entry <- v1, blocks <- v2, slotAt <- v3, imports <- v4, deps <- v5, routes <- v6, row <- v7, queue <- v8,
  click <- v9, queued <- v10, loose <- v11, unrecorded <- v12

E == INSTANCE Editor WITH
  MaxAsks <- EditorAsks, op <- v1, hub <- v2, page <- v3, asks <- v4, view <- v5, faults <- v6, deaf <- v7,
  early <- v8, watched <- v9

F == INSTANCE InstallForm WITH
  MaxEdits <- FormEdits, accounts <- v1, cache <- v2, stored <- v3, form <- v4, checks <- v5, install <- v6,
  queued <- v7, edits <- v8, faults <- v9, basis <- v10

W == INSTANCE Wishes WITH
  MaxCalls <- WishCalls, catalogue <- v1, votes <- v2, page <- v3, calls <- v4, sent <- v5, faults <- v6, behind <- v7

M == INSTANCE Codemod WITH
  Ids <- {1, 2}, Slots <- <<"c", "b", "a", "w">>, Wraps <- {"w"},
  After <- [a |-> "none", b |-> "a", c |-> "b", w |-> "none"], Paths <- <<"page", "layout">>,
  Template <- [page |-> <<"a">>, layout |-> <<"w">>], MaxOwn <- 2, children <- v1, array <- v2, files <- v3,
  version <- v4, own <- v5

R == INSTANCE CodeReader WITH
  MaxChanges <- ReaderChanges, MaxAsks <- ReaderAsks, MaxFaults <- ReaderFaults, disk <- v1, row <- v2, up <- v3,
  woken <- v4, jobs <- v5, view <- v6, asked <- v7, changes <- v8, faults <- v9, unheard <- v10

H == INSTANCE Chat WITH
  Limit <- ChatLimit, rows <- v1, used <- v2, known <- v3, loads <- v4, chat <- v5, request <- v6, faults <- v7, typed <- v8,
  behind <- v9, over <- v10, cut <- v11, refilled <- v12

D == INSTANCE Desk WITH
  Listed <- OnList, MaxCalls <- DeskCalls, user <- v1, page <- v2, calls <- v3, sent <- v4, crossed <- v5, undone <- v6, behind <- v7

L == INSTANCE LiveTree WITH
  MaxFaults <- TreeFaults, commits <- v1, borrowed <- v2, undoing <- v3, linked <- v4, page <- v5, staging <- v6,
  script <- v7, faults <- v8, cut <- v9, unlinked <- v10

O == INSTANCE Welcome WITH
  row <- v1, preview <- v2, details <- v3, tab <- v4, calls <- v5, visits <- v6, faults <- v7, heard <- v8, missed <- v9

P == INSTANCE PublishPages WITH
  MaxEdits <- PageEdits, draft <- v1, ops <- v2, deps <- v3, page <- v4, calls <- v5, edits <- v6, presses <- v7,
  faults <- v8, crossed <- v9, behind <- v10, overtaken <- v11

B == INSTANCE PlanPage WITH
  plan <- v1, stripe <- v2, usable <- v3, saved <- v4, page <- v5, order <- v6, calls <- v7, visits <- v8,
  pays <- v9, faults <- v10, mixed <- v11

S == INSTANCE SidePanels WITH
  MaxChanges <- PanelChanges, MaxAsks <- PanelAsks, MaxFaults <- PanelFaults, code <- v1, op <- v2, up <- v3,
  reset <- v4, page <- v5, calls <- v6, changes <- v7, asked <- v8, resets <- v9, faults <- v10, floor <- v11,
  crossed <- v12

\* AI_MODELS adds a model of its own and an alternate that has no key; the plan allows little.
TeamModel   == [team |-> [tier |-> "pro", provider |-> "groq"], free |-> [alternates |-> <<"openrouter">>]]
SmallLimits == [day |-> 1, month |-> 3]

\* A small catalogue: three versions of an integration, as far as their package goes, in two slots.
OnePackage  == [i \in Ints |-> "p"]
TwoHomes    == [s |-> "f", t |-> "g"]
AfterTheOne == [s |-> "none", t |-> "s"]
FirstAnywhere == [i \in Ints |-> IF i = "a" THEN Slots ELSE {"t"}]

StartsWith ==
  /\ Init
  /\ \/ which = "copilot"
        /\ v1 = 0 /\ v2 = 0 /\ v3 = 0 /\ v4 = 0 /\ v5 = 0 /\ v6 = 0 /\ v7 = 0 /\ v8 = 0 /\ v9 = 0 /\ v10 = 0 /\ v11 = 0 /\ v12 = 0
     \/ which = "accounts" /\ A!Init /\ v12 = 0
     \/ which = "checkout" /\ C!Init
     \/ which = "credentials" /\ K!Init
     \/ which = "integrations" /\ I!Init
     \/ which = "editor" /\ E!Init /\ v10 = 0 /\ v11 = 0 /\ v12 = 0
     \/ which = "form" /\ F!Init /\ v11 = 0 /\ v12 = 0
     \/ which = "wishes" /\ W!Init /\ v8 = 0 /\ v9 = 0 /\ v10 = 0 /\ v11 = 0 /\ v12 = 0
     \/ which = "codemod" /\ M!Init /\ v6 = 0 /\ v7 = 0 /\ v8 = 0 /\ v9 = 0 /\ v10 = 0 /\ v11 = 0 /\ v12 = 0
     \/ which = "reader" /\ R!Init /\ v11 = 0 /\ v12 = 0
     \/ which = "chat" /\ H!Init
     \/ which = "desk" /\ D!Init /\ v8 = 0 /\ v9 = 0 /\ v10 = 0 /\ v11 = 0 /\ v12 = 0
     \/ which = "tree" /\ L!Init /\ v11 = 0 /\ v12 = 0
     \/ which = "welcome" /\ O!Init /\ v10 = 0 /\ v11 = 0 /\ v12 = 0
     \/ which = "publish" /\ P!Init /\ v12 = 0
     \/ which = "plans" /\ B!Init /\ v12 = 0
     \/ which = "panels" /\ S!Init

Copilot == which = "copilot" /\ UNCHANGED parts
Accounts == which = "accounts" /\ UNCHANGED <<state, which, v12>>
Checkout == which = "checkout" /\ UNCHANGED <<state, which>>
Credentials == which = "credentials" /\ UNCHANGED <<state, which>>
Integrations == which = "integrations" /\ UNCHANGED <<state, which>>
Editor == which = "editor" /\ UNCHANGED <<state, which, v10, v11, v12>>
Form == which = "form" /\ UNCHANGED <<state, which, v11, v12>>
Wishes == which = "wishes" /\ UNCHANGED <<state, which, v8, v9, v10, v11, v12>>
Codemod == which = "codemod" /\ UNCHANGED <<state, which, v6, v7, v8, v9, v10, v11, v12>>
Reader == which = "reader" /\ UNCHANGED <<state, which, v11, v12>>
Chat == which = "chat" /\ UNCHANGED <<state, which>>
Desk == which = "desk" /\ UNCHANGED <<state, which, v8, v9, v10, v11, v12>>
Tree == which = "tree" /\ UNCHANGED <<state, which, v11, v12>>
Welcome == which = "welcome" /\ UNCHANGED <<state, which, v10, v11, v12>>
Publish == which = "publish" /\ UNCHANGED <<state, which, v12>>
Plans == which = "plans" /\ UNCHANGED <<state, which, v12>>
Panels == which = "panels" /\ UNCHANGED <<state, which>>

Steps ==
  \/ Copilot /\ Next
  \/ Accounts /\ A!Next
  \/ Checkout /\ C!Next
  \/ Credentials /\ K!Next
  \/ Integrations /\ I!Next
  \/ Editor /\ E!Next
  \/ Form /\ F!Next
  \/ Wishes /\ W!Next
  \/ Codemod /\ M!Next
  \/ Reader /\ R!Next
  \/ Chat /\ H!Next
  \/ Desk /\ D!Next
  \/ Tree /\ L!Next
  \/ Welcome /\ O!Next
  \/ Publish /\ P!Next
  \/ Plans /\ B!Next
  \/ Panels /\ S!Next

ProductSpec == StartsWith /\ [][Steps]_product

-----------------------------------------------------------------------------
(* Properties, stated where their component is modelled *)

TypesHold ==
  /\ which = "copilot" => TypeOK
  /\ which = "accounts" => A!TypeOK
  /\ which = "checkout" => C!TypeOK
  /\ which = "credentials" => K!TypeOK
  /\ which = "integrations" => I!TypeOK
  /\ which = "editor" => E!TypeOK
  /\ which = "form" => F!TypeOK
  /\ which = "wishes" => W!TypeOK
  /\ which = "codemod" => M!TypeOK
  /\ which = "reader" => R!TypeOK
  /\ which = "chat" => H!TypeOK
  /\ which = "desk" => D!TypeOK
  /\ which = "tree" => L!TypeOK
  /\ which = "welcome" => O!TypeOK
  /\ which = "publish" => P!TypeOK
  /\ which = "plans" => B!TypeOK
  /\ which = "panels" => S!TypeOK

\* Nobody is recorded to have accepted terms that they were not shown: sign-up, GitHub's return, the consent page.
ConsentIsGiven == which = "accounts" => A!ConsentIsGiven

\* An admin's promo code and Stripe's coupon come and go together, but for the steps that fail.
StripeFollows == which = "checkout" => C!StripeFollows

\* What a person pays is what they were shown, and the checkout always answers.
PayAnswers ==
  /\ which = "checkout" => C!PayAnswers
  /\ which = "plans" => B!PriceIsKept

\* The keys of the vault reach the preview and the project, and those taken out leave both.
KeysFollow == which = "credentials" => K!KeysFollow

\* Edits of the code are whole and exact, and the pages find the packages that it names.
CodeIsWhole ==
  /\ which = "integrations" => I!CodeIsWhole
  /\ which = "codemod" => M!EditsAreExact
  /\ which = "tree" => L!PagesFindTheirPackages

\* What the pages show is what the server has, as far as they can know.
ViewsAreCurrent ==
  /\ which = "editor" => E!ViewsAreCurrent
  /\ which = "reader" => R!CodeShownIsTheFile
  /\ which = "panels" => S!SlotsAreRead
  /\ which = "form" => F!FormSpeaksOfItsName
  /\ which = "wishes" => W!WishesAreShown
  /\ which = "desk" => D!RowsAreTrue

\* A person is told what becomes of what they asked for, and loses no text.
OutcomeIsTold ==
  /\ which = "editor" => E!OutcomeIsTold
  /\ which = "chat" => H!ConversationIsShown
  /\ which = "chat" => H!TextIsKept
  /\ which = "welcome" => O!TabsFindTheSite
  /\ which = "publish" => P!PublishIsShown

\* No request of the admin page takes the last admin away.
AdminsRemain == which = "desk" => D!AdminsRemain


=============================================================================
