------------------------------ MODULE Accounts ------------------------------
(***************************************************************************)
(* How a person comes to an account and a session, and how their consent   *)
(* to the Terms is recorded: SupabaseAuth (email and password, with the    *)
(* confirmation link), AuthController and AuthService (GitHub, with the    *)
(* state and the consent carried in cookies across the round trip), the    *)
(* session guard, and the pages that ask: AuthForms, /verify-email,        *)
(* /start and /accept-terms.                                               *)
(*                                                                         *)
(* One person, one browser, an account by email and one by GitHub.         *)
(* Supabase and GitHub are external.                                       *)
(***************************************************************************)
EXTENDS Naturals, FiniteSets

CONSTANTS
  Tabs,         \* the browser's
  MaxVersion,   \* of the Terms: how often a deployment changes them (bound)
  MaxSwitches   \* how often an admin blocks or restores an account (bound)

VARIABLES
  current,     \* TERMS_VERSION
  confirming,  \* whether Supabase asks for the address to be confirmed
  signup,      \* the Supabase user: where it is, and the Terms version in its metadata
  link,        \* a confirmation link that works has been sent
  account,     \* the users rows
  session,     \* the session cookie: whose
  oauth,       \* the two cookies of a GitHub sign-in: the tab that has the state, the Terms version
  tab,         \* each tab: its page ("app" with /start), the version it was told, the box
  switches,    \* how often an admin has used the switch
  ticked,      \* history: versions whose box was ticked on a page that had been told that version
  blind        \* history: versions recorded by a sign-up whose page had not been told that version

browser == <<session, oauth, tab>>
state   == <<current, confirming, signup, link, account, browser, switches, ticked, blind>>

Kinds == {"email", "github"}
NoAccount == [is |-> "none", terms |-> 0]
Form == [at |-> "form", told |-> 0, agreed |-> FALSE]
NoTrip == [tab |-> "none", terms |-> 0]

Init ==
  /\ current = 1
  /\ confirming \in BOOLEAN
  /\ signup = [is |-> "none", terms |-> 0] /\ link = FALSE
  /\ account = [k \in Kinds |-> NoAccount]
  /\ session = "none" /\ oauth = NoTrip
  /\ tab = [t \in Tabs |-> Form]
  /\ switches = 0 /\ ticked = {} /\ blind = {}

\* A deployment with new Terms
NewTerms ==
  /\ current < MaxVersion
  /\ current' = current + 1
  /\ UNCHANGED <<confirming, signup, link, account, browser, switches, ticked, blind>>

-----------------------------------------------------------------------------
(* Pages *)

Show(t, page) == tab' = [tab EXCEPT ![t] = [Form EXCEPT !.at = page]]

\* methods
Learn(t) ==
  /\ tab[t].at \in {"form", "accept"} /\ tab[t].told = 0
  /\ tab' = [tab EXCEPT ![t].told = current]
  /\ ticked' = IF tab[t].agreed THEN ticked \cup {current} ELSE ticked
  /\ UNCHANGED <<current, confirming, signup, link, account, session, oauth, switches, blind>>

Tick(t) ==
  /\ tab[t].at \in {"form", "accept"} /\ ~tab[t].agreed
  /\ tab' = [tab EXCEPT ![t].agreed = TRUE]
  /\ ticked' = IF tab[t].told = 0 THEN ticked ELSE ticked \cup {tab[t].told}
  /\ UNCHANGED <<current, confirming, signup, link, account, session, oauth, switches, blind>>

Reload(t) ==
  /\ tab[t].at \in {"form", "accept", "suspended"}
  /\ Show(t, IF tab[t].at = "form" /\ session # "none" THEN "app" ELSE tab[t].at)
  /\ UNCHANGED <<current, confirming, signup, link, account, session, oauth, switches, ticked, blind>>

-----------------------------------------------------------------------------
(* Email and password *)

Suspended(k) == k \in {j \in Kinds : account[j].is = "suspended"}

\* upsert: consent is written with a new row only.
Upserted(k, terms) == IF account[k] = NoAccount THEN [account EXCEPT ![k] = [is |-> "active", terms |-> terms]] ELSE account

\* assertAllowed, and the session cookie
SignIn(t, k) ==
  IF Suspended(k) THEN Show(t, IF k = "email" THEN "suspended" ELSE "form") /\ UNCHANGED session
                  ELSE Show(t, "app") /\ session' = k

\* register, of an address that has no confirmed account; that of one that has changes nothing.  The consent of
\* the box is recorded as consent to the server's current version.
Register(t) ==
  /\ tab[t].at = "form" /\ tab[t].agreed
  /\ \/ /\ signup.is = "none"
        /\ signup' = [is |-> IF confirming THEN "unconfirmed" ELSE "confirmed", terms |-> current]
        /\ blind' = IF tab[t].told = current THEN blind ELSE blind \cup {current}
        /\ link' = confirming
        /\ IF confirming THEN UNCHANGED <<account, session, tab>>
                         ELSE account' = Upserted("email", current) /\ SignIn(t, "email")
     \/ /\ signup.is = "unconfirmed"      \* sent again: what Supabase keeps of the second sign-up is its own affair
        /\ \E terms \in {signup.terms, current} :
             /\ signup' = [signup EXCEPT !.terms = terms]
             /\ blind' = IF terms \in {signup.terms, tab[t].told} THEN blind ELSE blind \cup {terms}
        /\ link' = TRUE
        /\ UNCHANGED <<account, session, tab>>
  /\ UNCHANGED <<current, confirming, oauth, switches, ticked>>

\* resendConfirmation
Resend(t) ==
  /\ tab[t].at = "form" /\ signup.is = "unconfirmed"
  /\ link' = TRUE
  /\ UNCHANGED <<current, confirming, signup, account, browser, switches, ticked, blind>>

\* The link is opened in a tab and clicked there: confirm.
Confirm(t) ==
  /\ link
  /\ link' = FALSE
  /\ signup' = [signup EXCEPT !.is = "confirmed"]
  /\ account' = Upserted("email", signup.terms)
  /\ SignIn(t, "email")
  /\ UNCHANGED <<current, confirming, oauth, switches, ticked, blind>>

\* The link lapses.
LinkLapses ==
  /\ link
  /\ link' = FALSE
  /\ UNCHANGED <<current, confirming, signup, account, browser, switches, ticked, blind>>

\* login: refused before the address is confirmed
Login(t) ==
  /\ tab[t].at = "form" /\ signup.is = "confirmed"
  /\ account' = Upserted("email", signup.terms)
  /\ SignIn(t, "email")
  /\ UNCHANGED <<current, confirming, signup, link, oauth, switches, ticked, blind>>

-----------------------------------------------------------------------------
(* GitHub *)

\* start: the box counts if the page's version is the server's.  Both cookies are the browser's, whichever tab.
GithubStart(t) ==
  /\ tab[t].at = "form"
  /\ \E signingUp \in BOOLEAN :
       /\ signingUp => tab[t].agreed
       /\ oauth' = [tab |-> t, terms |-> IF signingUp /\ tab[t].told = current THEN current ELSE 0]
  /\ Show(t, "github")
  /\ UNCHANGED <<current, confirming, signup, link, account, session, switches, ticked, blind>>

\* Mutant: whatever version the cookie names is taken for the current one.
AnyTermsCookie == oauth.terms # 0

\* callback: the consent counts if that version still is the current one when GitHub sends the person back.
AcceptedTerms == oauth.terms = current

\* callback, with a code.  Either cookie is gone whatever comes of it.
GithubReturn(t) ==
  /\ tab[t].at = "github"
  /\ oauth' = NoTrip
  /\ IF oauth.tab # t THEN Show(t, "form") /\ UNCHANGED <<account, session>>
     ELSE LET signedIn == Upserted("github", 0)
          IN /\ account' = IF AcceptedTerms /\ signedIn["github"].is = "active"
                           THEN [signedIn EXCEPT !["github"].terms = current] ELSE signedIn
             /\ SignIn(t, "github")
  /\ UNCHANGED <<current, confirming, signup, link, switches, ticked, blind>>

\* Refused at GitHub, or the code cannot be exchanged.
GithubFails(t) ==
  /\ tab[t].at = "github"
  /\ oauth' = NoTrip
  /\ Show(t, "form")
  /\ UNCHANGED <<current, confirming, signup, link, account, session, switches, ticked, blind>>

\* Ten minutes
CookiesLapse ==
  /\ oauth # NoTrip
  /\ oauth' = NoTrip
  /\ UNCHANGED <<current, confirming, signup, link, account, session, tab, switches, ticked, blind>>

-----------------------------------------------------------------------------
(* Signed in *)

\* canActivate, and where lib/api sends the page
Guarded(t) ==
  CASE session = "none"                       -> Show(t, "form")
    [] session # "none" /\ Suspended(session) -> Show(t, "suspended")
    [] OTHER -> Show(t, IF account[session].terms = current THEN "app" ELSE "accept")

\* Any signed-in call, of /start or of the app
Call(t) ==
  /\ tab[t].at = "app"
  /\ Guarded(t)
  /\ UNCHANGED <<current, confirming, signup, link, account, session, oauth, switches, ticked, blind>>

\* acceptTerms: a page with an old version is told so, and has to be loaded again.
AcceptTerms(t) ==
  \/ /\ tab[t].told = current
     /\ account' = [account EXCEPT ![session].terms = current]
     /\ Show(t, "app")
  \/ /\ tab[t].told # current
     /\ UNCHANGED <<account, tab>>

\* The button, for whoever is signed in by now
Accept(t) ==
  /\ tab[t].at = "accept" /\ tab[t].agreed /\ tab[t].told # 0
  /\ \/ session # "none" /\ ~Suspended(session) /\ AcceptTerms(t)
     \/ /\ session = "none" \/ Suspended(session)
        /\ Guarded(t)
        /\ UNCHANGED account
  /\ UNCHANGED <<current, confirming, signup, link, session, oauth, switches, ticked, blind>>

\* logout, or the session's end
Logout(t) ==
  /\ tab[t].at \in {"accept", "app", "suspended"}
  /\ session' = "none"
  /\ Show(t, "form")
  /\ UNCHANGED <<current, confirming, signup, link, account, oauth, switches, ticked, blind>>

\* AdminUsersController.suspend
Suspend(k) ==
  /\ account[k].is # "none" /\ switches < MaxSwitches
  /\ switches' = switches + 1
  /\ account' = [account EXCEPT ![k].is = IF Suspended(k) THEN "active" ELSE "suspended"]
  /\ UNCHANGED <<current, confirming, signup, link, browser, ticked, blind>>

Next ==
  \/ NewTerms \/ LinkLapses \/ CookiesLapse
  \/ \E t \in Tabs :
       \/ Learn(t) \/ Tick(t) \/ Reload(t)
       \/ Register(t) \/ Resend(t) \/ Confirm(t) \/ Login(t)
       \/ GithubStart(t) \/ GithubReturn(t) \/ GithubFails(t)
       \/ Call(t) \/ Accept(t) \/ Logout(t)
  \/ \E k \in Kinds : Suspend(k)

Spec == Init /\ [][Next]_state

-----------------------------------------------------------------------------
(* Properties *)

TypeOK ==
  /\ current \in 1..MaxVersion /\ signup.terms \in 0..current
  /\ \A k \in Kinds : account[k].terms \in 0..current /\ (account[k].is = "none" => account[k].terms = 0)
  /\ session # "none" => account[session].is # "none"
  /\ \A t \in Tabs : tab[t].told \in 0..current
  /\ oauth.terms # 0 => oauth.tab \in Tabs

\* acceptTerms, callback, upsert: the version that an account is recorded to have accepted is one whose box its
\* owner ticked on a page that had been told that version, however tabs, sign-ins and a deployment with new Terms
\* interleave.  A sign-up by email from a page that had not is the exception: register records the current version.
ConsentIsGiven == \A k \in Kinds : account[k].terms \in {0} \cup ticked \cup blind

=============================================================================
