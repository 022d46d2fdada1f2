------------------------------- MODULE Welcome -------------------------------
(***************************************************************************)
(* The pages between signing in and the editor, in several tabs of one     *)
(* user: /start, /onboarding with its stages and the setup it watches, and *)
(* /dashboard, that is Home or PortfolioPanel.  Each asks the api where    *)
(* the portfolio stands, once or at intervals, and leads on to another.    *)
(*                                                                         *)
(* How a portfolio is provisioned, how a preview starts and what changes   *)
(* it are in Provisioning and SandboxLifecycle; here they happen.  A page  *)
(* has one request of a kind under way.  Next's router keeps the state of  *)
(* a page when only its query changes, and an answer can lead on after its *)
(* page has been left.                                                     *)
(***************************************************************************)
EXTENDS Naturals, FiniteSets

CONSTANTS
  Tabs,
  Looks, FirstLook,  \* themes, and the one that onboarding offers first
  MaxVisits,         \* pages opened by hand (bound)
  MaxFaults          \* lost answers, failed setups and starts (bound)

VARIABLES
  row,      \* the portfolio: its status, "none" before there is one, and its theme
  preview,  \* its sandbox
  details,  \* its first change: not "queued" yet, "active" or "ended"
  tab,
  calls,
  visits, faults,
  \* history, read by no action
  heard,    \* tabs whose onboarding page was told that there is a portfolio
  missed    \* tabs that have not asked for the portfolio's theme since they chose one

server == <<row, preview, details>>
history == <<heard, missed>>
state == <<server, tab, calls, visits, faults, history>>

\* A page as it is mounted.
Page(at, url) == [at |-> at, url |-> url, stage |-> IF url THEN "setup" ELSE "role", known |-> url,
                  look |-> FirstLook, opened |-> FALSE, shown |-> "none"]
Call(t, kind) == [tab |-> t, kind |-> kind, done |-> FALSE, got |-> "", look |-> FirstLook]

Of(t, kind) == {c \in calls : c.tab = t /\ c.kind = kind}
Fault == faults < MaxFaults /\ faults' = faults + 1

Init ==
  /\ row = [status |-> "none", look |-> FirstLook] /\ preview = "none" /\ details = "none"
  /\ tab = [t \in Tabs |-> Page("closed", FALSE)]
  /\ calls = {} /\ visits = 0 /\ faults = 0
  /\ heard = {} /\ missed = {}

-----------------------------------------------------------------------------
(* The server *)

\* setupProgress
Personalised == details = "ended"
PreviewDone == preview = "running" \/ Personalised
Progress ==
  CASE row.status = "failed" -> "failed"
    [] row.status = "provisioning" -> "creating"
    [] row.status = "ready" /\ ~PreviewDone -> IF preview = "unhealthy" THEN "stuck" ELSE "starting"
    [] row.status = "ready" /\ PreviewDone -> IF details = "active" THEN "personalising" ELSE "ready"

\* What a tab that is not modelled does: it creates the portfolio, or tries again.
Elsewhere ==
  /\ \/ row.status = "none" /\ \E look \in Looks : row' = [status |-> "provisioning", look |-> look]
     \/ row.status = "failed" /\ row' = [row EXCEPT !.status = "provisioning"]
  /\ UNCHANGED <<preview, details, tab, calls, visits, faults, history>>

Provisioned ==
  /\ row.status = "provisioning"
  /\ \/ row' = [row EXCEPT !.status = "ready"] /\ UNCHANGED faults
     \/ row' = [row EXCEPT !.status = "failed"] /\ Fault
  /\ UNCHANGED <<preview, details, tab, calls, visits, history>>

\* Queued the moment that the portfolio is ready, and run in the preview, which it starts.
Personalise ==
  /\ \/ details = "none" /\ row.status = "ready" /\ details' = "active" /\ preview' = IF preview = "none" THEN "starting" ELSE preview
     \/ details = "active" /\ preview = "running" /\ details' = "ended" /\ UNCHANGED preview
     \/ details = "active" /\ preview = "unhealthy" /\ details' = "ended" /\ UNCHANGED preview
  /\ UNCHANGED <<row, tab, calls, visits, faults, history>>

PreviewStarts ==
  /\ preview = "starting"
  /\ \/ preview' = "running" /\ UNCHANGED faults
     \/ preview' = "unhealthy" /\ Fault
  /\ UNCHANGED <<row, details, tab, calls, visits, history>>

Reply(c, got, look) == calls' = (calls \ {c}) \cup {[c EXCEPT !.done = TRUE, !.got = got, !.look = look]}

\* PortfoliosController.list, get, setup
Read(c) ==
  /\ c \in calls /\ ~c.done
  /\ c.kind \in {"start", "then", "list", "look", "setup", "home", "panel"}
  /\ Reply(c, IF c.kind \in {"setup", "then"} THEN Progress ELSE row.status, IF c.kind = "look" THEN row.look ELSE FirstLook)
  /\ UNCHANGED <<server, tab, visits, faults, history>>

\* create: one portfolio a user, under an advisory lock
Create(c) ==
  /\ c \in calls /\ ~c.done /\ c.kind = "create"
  /\ IF row.status = "none" THEN row' = [status |-> "provisioning", look |-> c.look] /\ Reply(c, "created", FirstLook)
                            ELSE UNCHANGED row /\ Reply(c, "limit", FirstLook)
  /\ UNCHANGED <<preview, details, tab, visits, faults, history>>

\* retry: only a failed portfolio
Again(c) ==
  /\ c \in calls /\ ~c.done /\ c.kind = "retry"
  /\ IF row.status = "failed" THEN row' = [row EXCEPT !.status = "provisioning"] /\ Reply(c, "queued", c.look)
                              ELSE UNCHANGED row /\ Reply(c, "conflict", c.look)
  /\ UNCHANGED <<preview, details, tab, visits, faults, history>>

\* PreviewService.open, rebuild.  The page polls, whatever the answer.
Opens(c) ==
  /\ c \in calls /\ ~c.done /\ c.kind \in {"preview", "rebuild"}
  /\ preview' = IF c.kind = "rebuild" \/ preview # "running" THEN "starting" ELSE preview
  /\ calls' = calls \ {c}
  /\ UNCHANGED <<row, details, tab, visits, faults, history>>

-----------------------------------------------------------------------------
(* Navigation *)

\* What a page asks for when it is mounted.
First(t, at, url) ==
  {Call(t, CASE at = "start" -> "start" [] at = "onboarding" /\ url -> "look" [] at = "onboarding" /\ ~url -> "list"
             [] at = "dashboard" -> "home")}

\* router.replace.  The query alone is another: the page stays, and asks again.
Leads(t, at, url, rest) ==
  IF tab[t].at # at
    THEN /\ tab' = [tab EXCEPT ![t] = Page(at, url)]
         /\ calls' = {c \in rest : c.tab = t => c.kind = "list"} \cup First(t, at, url)
         /\ heard' = IF url THEN heard \cup {t} ELSE heard \ {t}
         /\ missed' = missed \ {t}
    ELSE /\ tab' = [tab EXCEPT ![t].url = url]
         /\ calls' = IF url = tab[t].url THEN rest ELSE rest \cup First(t, at, url)
         /\ heard' = IF url THEN heard \cup {t} ELSE heard
         /\ UNCHANGED missed

\* A page is opened by hand, or loaded again.
Visit(t, at) ==
  /\ visits < MaxVisits /\ visits' = visits + 1
  /\ tab' = [tab EXCEPT ![t] = Page(at, FALSE)]
  /\ calls' = {c \in calls : c.tab # t} \cup First(t, at, FALSE)
  /\ heard' = heard \ {t} /\ missed' = missed \ {t}
  /\ UNCHANGED <<server, faults>>

\* StartPage: the portfolios first, then the setup of a ready one.
Started(c) ==
  /\ c \in calls /\ c.done /\ c.kind \in {"start", "then"}
  /\ LET rest == calls \ {c} IN
       CASE c.got = "none" -> Leads(c.tab, "onboarding", FALSE, rest)
         [] c.kind = "start" /\ c.got = "ready" -> calls' = rest \cup {Call(c.tab, "then")} /\ UNCHANGED <<tab, history>>
         [] c.got \in {"provisioning", "failed", "personalising"} -> Leads(c.tab, "onboarding", TRUE, rest)
         [] OTHER -> Leads(c.tab, "dashboard", FALSE, rest)
  /\ UNCHANGED <<server, visits, faults>>

-----------------------------------------------------------------------------
(* OnboardingPage *)

\* "Someone who already has a portfolio never starts over."
Listed(c) ==
  /\ c \in calls /\ c.done /\ c.kind = "list"
  /\ LET rest == calls \ {c} IN
       CASE c.got = "none" -> calls' = rest /\ UNCHANGED <<tab, history>>
         [] c.got = "ready" -> Leads(c.tab, "dashboard", FALSE, rest)
         [] OTHER -> Leads(c.tab, "onboarding", TRUE, rest)
  /\ UNCHANGED <<server, visits, faults>>

Looked(c) ==
  /\ c \in calls /\ c.done /\ c.kind = "look"
  /\ tab' = [tab EXCEPT ![c.tab].look = c.look]
  /\ calls' = calls \ {c} /\ missed' = missed \ {c.tab}
  /\ UNCHANGED <<server, visits, faults, heard>>

Choosing(t) == tab[t].at = "onboarding" /\ tab[t].stage # "setup"

Continue(t) ==
  /\ Choosing(t)
  /\ \/ tab[t].stage = "role" /\ tab' = [tab EXCEPT ![t].stage = "look"]
     \/ tab[t].stage = "look" /\ tab' = [tab EXCEPT ![t].stage = "role"]
     \/ tab[t].stage = "look" /\ \E look \in Looks \ {tab[t].look} : tab' = [tab EXCEPT ![t].look = look]
  /\ UNCHANGED <<server, calls, visits, faults, history>>

Creates(t) ==
  /\ Choosing(t) /\ tab[t].stage = "look" /\ Of(t, "create") = {}
  /\ calls' = calls \cup {[Call(t, "create") EXCEPT !.look = tab[t].look]}
  /\ UNCHANGED <<server, tab, visits, faults, history>>

\* Mutant: a portfolio that there is already is an error like any other.
LimitIsAnError(c) == IF c.got = "created" THEN [tab[c.tab] EXCEPT !.known = TRUE, !.stage = "setup", !.url = TRUE] ELSE tab[c.tab]

\* create: its own portfolio, whose address the page takes, or the one there is
Adopts(c) == [tab[c.tab] EXCEPT !.known = TRUE, !.stage = "setup", !.url = @ \/ c.got = "created"]

Created(c) ==
  /\ c \in calls /\ c.done /\ c.kind = "create"
  /\ tab' = [tab EXCEPT ![c.tab] = Adopts(c)]
  /\ calls' = (calls \ {c}) \cup IF c.got = "created" /\ ~tab[c.tab].url THEN First(c.tab, "onboarding", TRUE) ELSE {}
  /\ heard' = heard \cup {c.tab}
  /\ missed' = IF c.got = "limit" \/ tab[c.tab].url THEN missed \cup {c.tab} ELSE missed
  /\ UNCHANGED <<server, visits, faults>>

-----------------------------------------------------------------------------
(* SetupProgress *)

Watching(t) == tab[t].at = "onboarding" /\ tab[t].stage = "setup"

Poll(t) ==
  /\ Watching(t) /\ Of(t, "setup") = {}
  /\ calls' = calls \cup {Call(t, "setup")}
  /\ UNCHANGED <<server, tab, visits, faults, history>>

\* The steps arrive; when the site is done the preview is opened, once.
Progressed(c) ==
  /\ c \in calls /\ c.done /\ c.kind = "setup"
  /\ LET site == c.got \notin {"creating", "failed"} IN
       /\ tab' = [tab EXCEPT ![c.tab].shown = c.got, ![c.tab].opened = site]
       /\ calls' = (calls \ {c}) \cup IF site /\ ~tab[c.tab].opened THEN {Call(c.tab, "preview")} ELSE {}
  /\ UNCHANGED <<server, visits, faults, history>>

Arrives(t) ==
  /\ Watching(t) /\ tab[t].shown = "ready"
  /\ Leads(t, "dashboard", FALSE, calls)
  /\ UNCHANGED <<server, visits, faults>>

-----------------------------------------------------------------------------
(* Home and PortfolioPanel *)

OnPanel(t) == tab[t].at = "dashboard" /\ tab[t].shown \in {"provisioning", "failed", "ready"}

\* Try again, on the setup page or the panel
Retry(t) ==
  /\ \/ (Watching(t) \/ OnPanel(t)) /\ tab[t].shown = "failed" /\ Of(t, "retry") = {} /\ calls' = calls \cup {Call(t, "retry")}
     \/ Watching(t) /\ tab[t].shown = "stuck" /\ Of(t, "rebuild") = {} /\ calls' = calls \cup {Call(t, "rebuild")}
  /\ UNCHANGED <<server, tab, visits, faults, history>>

\* The setup page polls anyway; the panel loads, unless it was refused.
Retried(c) ==
  /\ c \in calls /\ c.done /\ c.kind = "retry"
  /\ calls' = (calls \ {c}) \cup IF OnPanel(c.tab) /\ c.got = "queued" THEN {Call(c.tab, "panel")} ELSE {}
  /\ UNCHANGED <<server, tab, visits, faults, history>>

\* Home shows a ready site; else the panel, which loads the list itself.
Homed(c) ==
  /\ c \in calls /\ c.done /\ c.kind = "home"
  /\ tab' = [tab EXCEPT ![c.tab].shown = IF c.got = "ready" THEN "site" ELSE "loading"]
  /\ calls' = (calls \ {c}) \cup IF c.got = "ready" THEN {} ELSE {Call(c.tab, "panel")}
  /\ UNCHANGED <<server, visits, faults, history>>

Paneled(c) ==
  /\ c \in calls /\ c.done /\ c.kind = "panel"
  /\ IF c.got = "none" THEN Leads(c.tab, "onboarding", FALSE, calls \ {c})
     ELSE tab' = [tab EXCEPT ![c.tab].shown = c.got] /\ calls' = calls \ {c} /\ UNCHANGED history
  /\ UNCHANGED <<server, visits, faults>>

\* Mutant: only a failed portfolio is looked at again.
PollsFailed(t) == OnPanel(t) /\ tab[t].shown = "failed"

Polls(t) == OnPanel(t) /\ tab[t].shown = "provisioning"

PanelPolls(t) ==
  /\ Polls(t) /\ Of(t, "panel") = {}
  /\ calls' = calls \cup {Call(t, "panel")}
  /\ UNCHANGED <<server, tab, visits, faults, history>>

\* An answer is lost, or the request never arrives.
Lost(c) ==
  /\ c \in calls /\ Fault
  /\ LET rest == calls \ {c} IN
       CASE c.kind \in {"start", "then"} -> Leads(c.tab, "dashboard", FALSE, rest)
         [] c.kind = "home" -> tab' = [tab EXCEPT ![c.tab].shown = "loading"] /\ calls' = rest \cup {Call(c.tab, "panel")} /\ UNCHANGED history
         [] c.kind = "panel" -> tab' = [tab EXCEPT ![c.tab].shown = IF @ = "loading" THEN "error" ELSE @] /\ calls' = rest /\ UNCHANGED history
         [] c.kind = "look" -> calls' = rest /\ missed' = missed \cup {c.tab} /\ UNCHANGED <<tab, heard>>
         [] OTHER -> calls' = rest /\ UNCHANGED <<tab, history>>
  /\ UNCHANGED <<server, visits>>

Next ==
  \/ Elsewhere \/ Provisioned \/ Personalise \/ PreviewStarts
  \/ \E c \in calls : Read(c) \/ Create(c) \/ Again(c) \/ Opens(c) \/ Started(c) \/ Listed(c) \/ Looked(c) \/ Created(c)
       \/ Progressed(c) \/ Retried(c) \/ Homed(c) \/ Paneled(c) \/ Lost(c)
  \/ \E t \in Tabs : Continue(t) \/ Creates(t) \/ Poll(t) \/ Arrives(t) \/ Retry(t) \/ PanelPolls(t)
  \/ \E t \in Tabs, at \in {"start", "onboarding", "dashboard"} : Visit(t, at)

Spec == Init /\ [][Next]_state

-----------------------------------------------------------------------------
(* Properties *)

TypeOK ==
  /\ row.status \in {"none", "provisioning", "failed", "ready"} /\ row.look \in Looks
  /\ \A c \in calls : Cardinality(Of(c.tab, c.kind)) <= IF c.kind = "panel" THEN 2 ELSE 1
  /\ \A t \in Tabs : tab[t].stage \in {"role", "look", "setup"} /\ tab[t].look \in Looks

\* Nothing that the tab waits for, and no timer of its own.
Quiet(t) == {c \in calls : c.tab = t} = {} /\ ~Polls(t) /\ ~Watching(t)

\* OnboardingPage ("someone who already has a portfolio never starts over"), StartPage, Home, PortfolioPanel: whatever
\* the tabs do at once, a page that watches a setup watches the user's one portfolio, and shows the theme it is built
\* with unless the portfolio was created elsewhere or the answer was lost; no page waits on /start; a tab that was told of
\* a portfolio is asked for a role only if the router kept the page when its query changed; and a dashboard that is at
\* rest shows a site that is ready, or the status of one that is not failed any more at most because of another tab.
TabsFindTheSite ==
  \A t \in Tabs :
    /\ Watching(t) => tab[t].known /\ row.status # "none"
    /\ Watching(t) /\ Of(t, "look") = {} => tab[t].look = row.look \/ t \in missed
    /\ Choosing(t) /\ t \in heard => tab[t].url
    /\ Quiet(t) => /\ tab[t].at # "start"
                   /\ tab[t].at = "dashboard" =>
                        \/ tab[t].shown \in {"site", "ready"} /\ row.status = "ready"
                        \/ tab[t].shown = "failed" /\ row.status # "none"
                        \/ tab[t].shown = "error" /\ faults > 0

=============================================================================
