----------------------------- MODULE PublishPages -----------------------------
(***************************************************************************)
(* The pages that say whether the site is published, and the buttons that  *)
(* publish it: Home's SiteCard, the PortfolioCard of the panel, and the    *)
(* editor's PublishButton over usePublish.  Each asks PublishController's  *)
(* status, which answers from the database and from GitHub at two moments. *)
(*                                                                         *)
(* The runner's publish (OperationRunner) and Vercel's deployments         *)
(* (Hosting) are reduced to the moments a page can tell apart: a           *)
(* deployment that is building is pending.  Hosting is configured.  One    *)
(* page is open, from the start (a page that is opened later is one whose  *)
(* first request takes that long), and the site is published from others.  *)
(***************************************************************************)
EXTENDS Naturals, Sequences, FiniteSets, FiniteSetsExt

CONSTANTS
  Homes, Editors,    \* tabs that show Home or the panel, and tabs with the editor
  MaxEdits, MaxPresses, MaxReads, MaxFaults  \* bounds: edits, presses, an editor's requests under way, faults

VARIABLES
  draft,    \* the commits of draft that main has not, and whether the sandbox has one that GitHub has not
  ops,      \* the publishes, in the order they were queued
  deps,     \* the deployments' statuses, in the order of their rows
  page,
  calls,
  edits, presses, faults,
  \* history, read by no action
  crossed,  \* publishes queued by a press that had looked before another was queued
  behind,   \* requests, by tab and number, and pages, that have 0, that the site has changed since
  overtaken \* tabs to which an answer came after that of a later request

server  == <<draft, ops, deps>>
history == <<crossed, behind, overtaken>>
state   == <<server, page, calls, edits, presses, faults, history>>

OpenTabs == DOMAIN page  \* the one that is open
Active == {"queued", "applying", "pushed"}

Blank == [is |-> "checking", publishing |-> FALSE, pending |-> FALSE, ahead |-> 0, dep |-> 0, status |-> "none", live |-> FALSE,
          seen |-> 0]  \* history: the publishes there were when the rows were read
New(t, kind, nr) == [tab |-> t, kind |-> kind, nr |-> nr, waits |-> FALSE, rows |-> FALSE, at |-> 0, pc |-> "sent", saw |-> 0,
                     got |-> Blank]

Of(t, kind) == {c \in calls : c.tab = t /\ c.kind = kind}
\* Numbered after the tab's requests under way.
Request(t, kind) == New(t, kind, 1 + Max({0} \cup {c.nr : c \in {d \in calls : d.tab = t}}))

Fault == faults < MaxFaults /\ faults' = faults + 1
Publishing == \E i \in DOMAIN ops : ops[i] \in Active
Working == \E i \in DOMAIN ops : ops[i] \in Active \ {"queued"}

Init ==
  /\ draft = [ahead |-> 0, pending |-> FALSE] /\ ops = <<>> /\ deps = <<>>
  /\ \E tab \in Homes \cup Editors : \E cards \in SUBSET (Homes \cap {tab}) :
       page = [t \in {tab} |-> [kind |-> IF t \in Editors THEN "editor" ELSE IF t \in cards THEN "card" ELSE "home",
                               shown |-> Blank, followed |-> 0, told |-> <<>>, asked |-> 0]]
  /\ calls = {New(t, "status", 1) : t \in OpenTabs}
  /\ edits = 0 /\ presses = 0 /\ faults = 0
  /\ crossed = {} /\ behind = {} /\ overtaken = {}

-----------------------------------------------------------------------------
(* The site *)

\* Whatever has been read is read too early.
Changes == behind' = {<<t, 0>> : t \in OpenTabs} \cup {<<c.tab, c.nr>> : c \in {d \in calls : d.rows}}

Alters == Changes /\ UNCHANGED <<page, calls, presses, crossed, overtaken>>

\* An operation's commit is pushed, or waits for the next push; a publish holds the lock.
Edit ==
  /\ edits < MaxEdits /\ edits' = edits + 1 /\ ~Working
  /\ \/ draft' = [draft EXCEPT !.ahead = @ + 1] /\ UNCHANGED faults
     \/ draft' = [draft EXCEPT !.pending = TRUE] /\ Fault
  /\ UNCHANGED <<ops, deps>> /\ Alters

\* Mutant: the pre-flight goes on when main has everything.
AlwaysBuilds(ahead) == "applying"

\* publish: the unpushed is pushed; then main has everything already ...
NothingNew(ahead) == IF ahead = 0 THEN "ended" ELSE "applying"

Starts(i) ==
  /\ ops[i] = "queued" /\ ~Working
  /\ LET ahead == IF draft.pending THEN draft.ahead + 1 ELSE draft.ahead IN
       draft' = [ahead |-> ahead, pending |-> FALSE] /\ ops' = [ops EXCEPT ![i] = NothingNew(ahead)]
  /\ UNCHANGED <<deps, edits, faults>> /\ Alters

\* ... or main moves, a row is written, and the operation ends.
Step(i) ==
  /\ \/ ops[i] = "applying" /\ ops' = [ops EXCEPT ![i] = "pushed"] /\ draft' = [draft EXCEPT !.ahead = 0] /\ UNCHANGED deps
     \/ ops[i] = "pushed" /\ ops' = [ops EXCEPT ![i] = "ended"] /\ deps' = Append(deps, "pending") /\ UNCHANGED draft
  /\ UNCHANGED <<edits, faults>> /\ Alters

\* Rejected by its checks, or failed before main moves.
Fails(i) ==
  /\ ops[i] \in {"queued", "applying"} /\ Fault
  /\ ops' = [ops EXCEPT ![i] = "ended"]
  /\ UNCHANGED <<draft, deps, edits>> /\ Alters

Deploys(d) ==
  /\ deps[d] = "pending"
  /\ \/ deps' = [deps EXCEPT ![d] = "ready"] /\ UNCHANGED faults
     \/ deps' = [deps EXCEPT ![d] = "failed"] /\ Fault
  /\ UNCHANGED <<draft, ops, edits>> /\ Alters

-----------------------------------------------------------------------------
(* PublishController *)

Progresses(c, d) == calls' = (calls \ {c}) \cup {d} /\ UNCHANGED <<server, page, edits, presses, faults, history>>

\* status, all at once: the rows from the database ...
ReadRows(c) ==
  /\ c \in calls /\ c.kind = "status" /\ ~c.rows
  /\ LET n == IF c.tab \in Homes THEN 0 ELSE Len(deps) IN  \* of the last deployment, Home takes the time only
     Progresses(c, [c EXCEPT !.rows = TRUE, !.at = 1 + Max({d.at : d \in Of(c.tab, "status")}), !.got.publishing = Publishing, !.got.pending = draft.pending, !.got.dep = n,
                             !.got.status = IF n = 0 THEN "none" ELSE deps[n], !.got.live = \E d \in DOMAIN deps : deps[d] = "ready",
                             !.got.seen = IF c.tab \in Homes THEN Len(ops) ELSE 0])

\* ... and, through the worker, the comparison from GitHub, which the answer waits for.
Answer(c) == [c.got EXCEPT !.is = "status", !.ahead = draft.ahead]

\* Mutant: no look at what is queued.
FindNothing(c) ==
  /\ c \in calls /\ c.kind = "press" /\ c.pc = "sent"
  /\ Progresses(c, [c EXCEPT !.pc = "absent", !.saw = Len(ops)])

\* submitPublish: the one already queued or running, or a new one
Find(c) ==
  /\ c \in calls /\ c.kind = "press" /\ c.pc = "sent"
  /\ Progresses(c, [c EXCEPT !.pc = IF Publishing THEN "done" ELSE "absent", !.saw = Len(ops)])

Enqueue(c) ==
  /\ c \in calls /\ c.pc = "absent"
  /\ ops' = Append(ops, "queued")
  /\ crossed' = IF c.saw = Len(ops) THEN crossed ELSE crossed \cup {Len(ops) + 1}
  /\ calls' = (calls \ {c}) \cup {[c EXCEPT !.pc = "done", !.saw = Len(ops) + 1]}
  /\ Changes /\ UNCHANGED <<draft, deps, page, edits, presses, faults, overtaken>>

-----------------------------------------------------------------------------
(* The pages *)

Changed(s) == s.ahead > 0 \/ s.pending
Ready(c) == c \in calls /\ c.kind = "status" /\ c.rows
Overtakes(c) == overtaken' = IF \E d \in Of(c.tab, "status") \ {c} : d.rows /\ d.at < c.at THEN overtaken \cup {c.tab} ELSE overtaken
\* How old what a tab shows is, once it shows the answer.
Shows(c) ==
  /\ behind' = (behind \ {<<c.tab, 0>>, <<c.tab, c.nr>>}) \cup IF <<c.tab, c.nr>> \in behind THEN {<<c.tab, 0>>} ELSE {}
  /\ Overtakes(c)
  /\ calls' = calls \ {c}
  /\ UNCHANGED <<server, edits, presses, crossed>>

\* SiteHome.loadPublish, PortfolioCard
Loaded(c) ==
  /\ Ready(c) /\ c.tab \in Homes
  /\ page' = [page EXCEPT ![c.tab].shown = Answer(c)]
  /\ Shows(c) /\ UNCHANGED faults

\* Mutant: whatever deployment has ended is announced.
TellsAny(p, s) == IF s.status \in {"ready", "failed"} THEN [p EXCEPT !.followed = 0, !.told = Append(@, s.dep)] ELSE p

\* A deployment that was seen under way, and has ended.
Tells(p, s) ==
  IF s.status = "pending" THEN [p EXCEPT !.followed = s.dep]
  ELSE IF s.dep > 0 /\ p.followed = s.dep THEN [p EXCEPT !.followed = 0, !.told = Append(@, s.dep)] ELSE p

\* usePublish.refresh
Refreshed(c) ==
  /\ Ready(c) /\ c.tab \in Editors
  /\ LET s == Answer(c) IN page' = [page EXCEPT ![c.tab] = [Tells(@, s) EXCEPT !.shown = s]]
  /\ Shows(c) /\ UNCHANGED faults

\* At an interval, and some time after an event.
Poll(t) ==
  /\ t \in Editors /\ Cardinality(Of(t, "status")) < MaxReads
  /\ calls' = calls \cup {Request(t, "status")}
  /\ UNCHANGED <<server, page, edits, presses, faults, history>>

Busy(t) == Of(t, "press") # {} \/ (\E c \in calls : c.tab = t /\ c.waits) \/ page[t].shown.publishing
Button(t) ==
  LET s == page[t].shown IN
  CASE page[t].kind = "home" -> s.is # "checking" /\ (Changed(s) \/ ~s.live) /\ ~Busy(t)
    [] page[t].kind = "card" -> FALSE
    [] page[t].kind = "editor" -> s.is = "status" /\ Changed(s) /\ ~Busy(t)

Press(t) ==
  /\ presses < MaxPresses /\ presses' = presses + 1 /\ Button(t)
  /\ calls' = calls \cup {Request(t, "press")}
  /\ UNCHANGED <<server, page, edits, faults, history>>

\* A press on a page that is not modelled.
PressElsewhere ==
  /\ presses < MaxPresses /\ presses' = presses + 1 /\ Of("elsewhere", "press") = {}
  /\ calls' = calls \cup {New("elsewhere", "press", 0)}
  /\ UNCHANGED <<server, page, edits, faults, history>>

\* Mutant: publishNow leaves the status as it is.
AsksNothing(c) == IF c.tab \notin Homes THEN {[Request(c.tab, "status") EXCEPT !.waits = TRUE]} ELSE {}

Asks(c) == IF c.tab \notin OpenTabs THEN {} ELSE {[Request(c.tab, "status") EXCEPT !.waits = c.tab \in Editors]}

\* publishNow asks for the status and is done; the editor's publish waits for it.
Pressed(c) ==
  /\ c \in calls /\ c.kind = "press" /\ c.pc = "done"
  /\ calls' = (calls \ {c}) \cup Asks(c)
  /\ page' = [t \in OpenTabs |-> IF t = c.tab /\ t \in Homes THEN [page[t] EXCEPT !.asked = c.saw] ELSE page[t]]
  /\ UNCHANGED <<server, edits, presses, faults, history>>

\* Lost, failed or, on Home, slower than 15 seconds: nothing known.  The editor keeps what it shows.
Lost(c) ==
  /\ c \in calls /\ Fault /\ calls' = calls \ {c}
  /\ page' = IF c.kind = "press" \/ c.tab \notin Homes \/ page[c.tab].kind = "card" THEN page
             ELSE [page EXCEPT ![c.tab].shown = [Blank EXCEPT !.is = "unknown"]]
  /\ behind' = behind \ {<<c.tab, c.nr>>}
  /\ overtaken' = IF Of(c.tab, "status") \ {c} = {} THEN overtaken ELSE overtaken \cup {c.tab}
  /\ UNCHANGED <<server, edits, presses, crossed>>

Next ==
  \/ Edit
  \/ \E i \in DOMAIN ops : Starts(i) \/ Step(i) \/ Fails(i)
  \/ \E d \in DOMAIN deps : Deploys(d)
  \/ \E c \in calls : ReadRows(c) \/ Find(c) \/ Enqueue(c) \/ Loaded(c) \/ Refreshed(c) \/ Pressed(c) \/ Lost(c)
  \/ PressElsewhere
  \/ \E t \in OpenTabs : Poll(t) \/ Press(t)

Spec == Init /\ [][Next]_state

-----------------------------------------------------------------------------
(* Properties *)

TypeOK ==
  /\ \A i \in DOMAIN ops : ops[i] \in Active \cup {"ended"}
  /\ \A c \in calls : c.tab \in OpenTabs \cup {"elsewhere"} /\ c.kind \in {"status", "press"}

Rests(t) == ~\E c \in calls : c.tab = t

\* OperationsService.submitPublish ("pressing Publish twice publishes once"), OperationRunner.publish, usePublish, Home:
\* from any pages, two publishes are under way only if their presses crossed, and even then nothing is published twice; a
\* page that the site has not changed behind shows it as it is; Home, when it is at rest, has heard of the publish that
\* it asked for; and an editor announces what it saw going live once, when it has ended, unless answers overtook each other.
PublishIsShown ==
  /\ \A i, j \in DOMAIN ops : i < j /\ {ops[i], ops[j]} \subseteq Active => j \in crossed
  /\ Len(deps) <= edits
  /\ \A t \in OpenTabs :
       LET p == page[t] IN
       /\ <<t, 0>> \notin behind /\ p.shown.is = "status" =>
            /\ p.shown.publishing = Publishing /\ Changed(p.shown) = Changed(draft)
            /\ t \notin Homes => p.shown.dep = Len(deps)
            /\ (p.shown.dep > 0 => p.shown.status = deps[p.shown.dep])
            /\ p.followed > 0 /\ p.followed = Len(deps) => deps[p.followed] = "pending"
       /\ t \in Homes /\ Rests(t) /\ p.shown.is = "status" /\ t \notin overtaken => p.shown.seen >= p.asked
       /\ \A n \in DOMAIN p.told : deps[p.told[n]] # "pending"
       /\ \A n, m \in DOMAIN p.told : n # m /\ p.told[n] = p.told[m] => t \in overtaken

=============================================================================
