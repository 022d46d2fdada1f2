------------------------------ MODULE Previews ------------------------------
(***************************************************************************)
(* How an editor sees its preview: PreviewService (the api's side),        *)
(* PreviewSessions (the links), PreviewProxy (what the frame talks to),    *)
(* the event stream from the worker to the page, usePreview and            *)
(* PreviewFrame.  What the worker does with a sandbox is SandboxLifecycle; *)
(* here a job that looks at it ends with it running.                       *)
(*                                                                         *)
(* One portfolio; its owner's editors.  A tick is shorter than a link's    *)
(* life and longer than every cache, poll and heartbeat: they all fit.     *)
(***************************************************************************)
EXTENDS Naturals, FiniteSets

CONSTANTS
  Tabs,        \* the owner's editors
  Labels,      \* 1..n: links that may be minted (bound)
  Ttl,         \* ticks a link lives
  MaxSleeps,   \* times the sandbox pauses (bound)
  MaxFaults    \* events that are lost (bound)

VARIABLES
  left,     \* Redis: what each label's session has left to live, 0 when there is none
  owner,    \* Redis: the owner's label, and what that key has left
  minted,   \* labels handed out so far
  row,      \* the sandbox row's status
  box,      \* the sandbox itself: "up" or "down"
  job,      \* the sandbox queue: "none", "queued" or "active"
  cache,    \* the proxy: the labels it still believes in, and whether the target is running
  tab,      \* the editors that are watched
  other,    \* the owner's editor in another window, as far as the links see it: what its heartbeat does next
  sleeps, faults

redis   == <<left, owner, minted>>
sandbox == <<row, box, job>>
counts  == <<other, sleeps, faults>>
state   == <<redis, sandbox, cache, tab, counts>>

\* The phases usePreview can show here.
Phases == {"loading", "starting", "waking", "live", "paused"}

Opened == [open |-> TRUE, visible |-> TRUE, due |-> TRUE, stale |-> FALSE, call |-> "none", read |-> "paused",
           got |-> 0, phase |-> "loading", label |-> 0, frame |-> "none"]
Closed == [Opened EXCEPT !.open = FALSE, !.visible = FALSE, !.due = FALSE]

Init ==
  /\ left = [l \in Labels |-> 0]
  /\ owner = [label |-> 0, left |-> 0] /\ minted = 0
  /\ row = "running" /\ box = "up" /\ job = "none"
  /\ cache = [labels |-> {}, running |-> FALSE]
  /\ tab = [t \in Tabs |-> Opened]
  /\ other = "idle" /\ sleeps = 0 /\ faults = 0

-----------------------------------------------------------------------------
(* The api *)

\* enqueueSandboxJob: one job of a name for a portfolio
Queue == IF job = "none" THEN "queued" ELSE job

\* PreviewSessions.current
Current == IF owner.left > 0 /\ left[owner.label] > 0 THEN owner.label ELSE 0

\* PreviewService.open, of the heartbeat: the row is read, a sandbox that sleeps is woken, also one that only the
\* provider has paused, which is past the deadline in its row ...
Open(t) ==
  /\ tab[t].open /\ tab[t].visible /\ tab[t].call = "none"
  /\ tab[t].due \/ tab[t].phase = "paused"
  /\ job' = IF row = "running" /\ box = "up" THEN job ELSE Queue
  /\ tab' = [tab EXCEPT ![t].call = "label", ![t].read = row, ![t].due = FALSE]
  /\ UNCHANGED <<redis, row, box, cache, counts>>

\* ... the owner's link is extended ...
Extend(t) ==
  /\ tab[t].call = "label" /\ Current # 0
  /\ left' = [left EXCEPT ![owner.label] = Ttl]
  /\ owner' = [owner EXCEPT !.left = Ttl]
  /\ tab' = [tab EXCEPT ![t].call = "answer", ![t].got = owner.label]
  /\ UNCHANGED <<minted, sandbox, cache, counts>>

\* ... or found to be gone ...
FindsNoLink(t) ==
  /\ tab[t].call = "label" /\ Current = 0
  /\ tab' = [tab EXCEPT ![t].call = "mint"]
  /\ UNCHANGED <<redis, sandbox, cache, counts>>

\* ... and replaced, by this request and by every other that found it gone.
Mint(t) ==
  /\ tab[t].call = "mint" /\ minted + 1 \in Labels
  /\ minted' = minted + 1
  /\ left' = [left EXCEPT ![minted'] = Ttl]
  /\ owner' = [label |-> minted', left |-> Ttl]
  /\ tab' = [tab EXCEPT ![t].call = "answer", ![t].got = minted']
  /\ UNCHANGED <<sandbox, cache, counts>>

\* Bound: no more links; the tab is closed.
NoLabelLeft(t) ==
  /\ tab[t].call = "mint" /\ minted + 1 \notin Labels
  /\ tab' = [tab EXCEPT ![t] = Closed]
  /\ UNCHANGED <<redis, sandbox, cache, counts>>

\* The heartbeat of the other window.
OtherOpens ==
  /\ other = "idle"
  /\ other' = IF Current = 0 THEN "mint" ELSE "idle"
  /\ IF Current = 0 THEN UNCHANGED redis
     ELSE /\ left' = [left EXCEPT ![owner.label] = Ttl] /\ owner' = [owner EXCEPT !.left = Ttl]
          /\ UNCHANGED minted
  /\ job' = IF row = "running" /\ box = "up" THEN job ELSE Queue
  /\ UNCHANGED <<row, box, cache, tab, sleeps, faults>>

OtherMints ==
  /\ other = "mint"
  /\ other' = "idle"
  /\ IF minted + 1 \in Labels
     THEN /\ minted' = minted + 1
          /\ left' = [left EXCEPT ![minted'] = Ttl] /\ owner' = [label |-> minted', left |-> Ttl]
     ELSE UNCHANGED redis
  /\ UNCHANGED <<sandbox, cache, tab, sleeps, faults>>

\* PreviewService.status, of the polls and of an event.
Status(t) ==
  /\ tab[t].open /\ tab[t].call = "none"
  /\ tab[t].stale
  /\ tab' = [tab EXCEPT ![t].call = "answer", ![t].read = row, ![t].stale = FALSE, ![t].got = Current]
  /\ UNCHANGED <<redis, sandbox, cache, counts>>

-----------------------------------------------------------------------------
(* The editor *)

\* phaseOf: the row as it was read, the queue as it is when the answer is made
PhaseOf(read, pending) ==
  CASE read = "running" /\ ~pending -> "live"
    [] read = "running" /\ pending  -> "starting"
    [] read = "paused" /\ pending   -> "waking"
    [] read = "paused" /\ ~pending  -> "paused"

\* PreviewFrame, and apply's liveGeneration: a frame that comes live, or whose link changed, is loaded anew.
NextFrame(e, phase) ==
  IF phase # "live" \/ e.got = 0 THEN "none"
  ELSE IF e.phase # "live" \/ e.got # e.label THEN "load" ELSE e.frame

\* The answer reaches the page.
Apply(t) ==
  LET e == tab[t]
      phase == PhaseOf(e.read, job # "none")
  IN /\ e.call = "answer"
     /\ tab' = [tab EXCEPT ![t] =
          [e EXCEPT !.call = "none", !.phase = phase, !.label = e.got, !.frame = NextFrame(e, phase),
                    !.stale = e.stale \/ phase \in {"starting", "waking"}]]
     /\ UNCHANGED <<redis, sandbox, cache, counts>>

\* The tab is hidden, and shown again: only a visible one sends heartbeats.
Hide(t) ==
  /\ tab[t].open /\ tab[t].visible
  /\ tab' = [tab EXCEPT ![t].visible = FALSE, ![t].due = FALSE]
  /\ UNCHANGED <<redis, sandbox, cache, counts>>

Show(t) ==
  /\ tab[t].open /\ ~tab[t].visible
  /\ tab' = [tab EXCEPT ![t].visible = TRUE, ![t].due = TRUE]
  /\ UNCHANGED <<redis, sandbox, cache, counts>>

Close(t) ==
  /\ tab[t].open
  /\ tab' = [tab EXCEPT ![t] = Closed]
  /\ UNCHANGED <<redis, sandbox, cache, counts>>

\* A link in the page is followed: the frame asks the proxy again.
Browse(t) ==
  /\ tab[t].frame = "site"
  /\ tab' = [tab EXCEPT ![t].frame = "load"]
  /\ UNCHANGED <<redis, sandbox, cache, counts>>

-----------------------------------------------------------------------------
(* The proxy *)

\* Frames that ask: a new one, and the proxy's own pages that refresh themselves.
Asks(t) == tab[t].frame \in {"load", "retry"}

Believed(l) == l \in cache.labels \/ (l # 0 /\ left[l] > 0)

Page(t, page) == tab' = [tab EXCEPT ![t].frame = page]

\* route: a link that has expired
Expired(t) ==
  /\ Asks(t)
  /\ ~Believed(tab[t].label)
  /\ Page(t, "expired")
  /\ UNCHANGED <<redis, sandbox, cache, counts>>

\* route: a sandbox that is not running is woken, and not remembered
Sleeping(t) ==
  /\ Asks(t) /\ Believed(tab[t].label)
  /\ ~cache.running /\ row # "running"
  /\ job' = Queue
  /\ cache' = [cache EXCEPT !.labels = @ \cup {tab[t].label}]
  /\ Page(t, "retry")
  /\ UNCHANGED <<redis, row, box, counts>>

Ready(t) == Asks(t) /\ Believed(tab[t].label) /\ (cache.running \/ row = "running")

\* The site answers.
Serve(t) ==
  /\ Ready(t) /\ box = "up"
  /\ cache' = [labels |-> cache.labels \cup {tab[t].label}, running |-> TRUE]
  /\ Page(t, "site")
  /\ UNCHANGED <<redis, sandbox, counts>>

\* The provider answers 502 for the sandbox: its page goes through as it is, and the worker is asked to look.
BadGateway(t) ==
  /\ Ready(t) /\ box = "down"
  /\ cache' = [labels |-> cache.labels \cup {tab[t].label}, running |-> FALSE]
  /\ job' = Queue
  /\ Page(t, "bad")
  /\ UNCHANGED <<redis, row, box, counts>>

\* Nothing answers: the proxy's own page, which refreshes itself.
Unreachable(t) ==
  /\ Ready(t) /\ box = "down"
  /\ cache' = [labels |-> cache.labels \cup {tab[t].label}, running |-> FALSE]
  /\ Page(t, "retry")
  /\ UNCHANGED <<redis, sandbox, counts>>

-----------------------------------------------------------------------------
(* The worker, the event stream, time *)

\* update publishes what it wrote; every open editor refreshes ...
Publish == tab' = [t \in Tabs |-> [tab[t] EXCEPT !.stale = tab[t].open]]

\* ... unless the event is lost: delivery is best effort.
Published == \/ Publish /\ UNCHANGED faults
             \/ faults < MaxFaults /\ faults' = faults + 1 /\ UNCHANGED tab

Work ==
  /\ job = "queued"
  /\ job' = "active"
  /\ IF box = "up" /\ row = "running" THEN UNCHANGED <<row, box, tab, faults>>
     ELSE row' = "running" /\ box' = "up" /\ Published
  /\ UNCHANGED <<redis, cache, other, sleeps>>

JobEnds ==
  /\ job = "active"
  /\ job' = "none"
  /\ UNCHANGED <<redis, row, box, cache, tab, counts>>

\* The sweep pauses an idle sandbox.
SweepPauses ==
  /\ row = "running" /\ sleeps < MaxSleeps /\ job = "none"
  /\ sleeps' = sleeps + 1
  /\ row' = "paused" /\ box' = "down"
  /\ Published
  /\ UNCHANGED <<redis, job, cache, other>>

\* The provider pauses it, and tells nobody.
ProviderPauses ==
  /\ box = "up" /\ sleeps < MaxSleeps
  /\ sleeps' = sleeps + 1
  /\ box' = "down"
  /\ UNCHANGED <<redis, row, job, cache, tab, other, faults>>

Less(n) == IF n > 0 THEN n - 1 ELSE 0

\* Every heartbeat that is due is sent within a tick, and every poll; a cached lookup lasts less than one.
Tick ==
  /\ \E l \in Labels : left[l] > 0
  /\ \A t \in Tabs : tab[t].due = FALSE /\ tab[t].call = "none"
  /\ other = "idle"
  /\ left' = [l \in Labels |-> Less(left[l])]
  /\ owner' = [owner EXCEPT !.left = Less(@)]
  /\ cache' = [labels |-> {}, running |-> FALSE]
  /\ tab' = [t \in Tabs |-> [tab[t] EXCEPT !.due = tab[t].visible, !.stale = tab[t].open]]
  /\ UNCHANGED <<minted, sandbox, counts>>

TabStep(t) == Open(t) \/ Extend(t) \/ FindsNoLink(t) \/ Mint(t) \/ NoLabelLeft(t) \/ Status(t) \/ Apply(t)
ProxyStep(t) == Expired(t) \/ Sleeping(t) \/ Serve(t) \/ BadGateway(t) \/ Unreachable(t)

Next ==
  \/ \E t \in Tabs :
       \/ Open(t) \/ Extend(t) \/ FindsNoLink(t) \/ Mint(t) \/ NoLabelLeft(t) \/ Status(t) \/ Apply(t)
       \/ Hide(t) \/ Show(t) \/ Close(t) \/ Browse(t)
       \/ Expired(t) \/ Sleeping(t) \/ Serve(t) \/ BadGateway(t) \/ Unreachable(t)
  \/ OtherOpens \/ OtherMints \/ Work \/ JobEnds \/ SweepPauses \/ ProviderPauses \/ Tick

Spec == Init /\ [][Next]_state

FairSpec ==
  /\ Spec
  /\ \A t \in Tabs : WF_state(TabStep(t)) /\ SF_state(ProxyStep(t))
  /\ WF_state(OtherMints) /\ WF_state(Work) /\ WF_state(JobEnds) /\ WF_state(Tick)

-----------------------------------------------------------------------------
\* Types.
TypeOK ==
  /\ left \in [Labels -> 0..Ttl]
  /\ owner \in [label : Labels \cup {0}, left : 0..Ttl] /\ minted \in Labels \cup {0}
  /\ row \in {"running", "paused"} /\ box \in {"up", "down"} /\ job \in {"none", "queued", "active"}
  /\ cache \in [labels : SUBSET Labels, running : BOOLEAN]
  /\ other \in {"idle", "mint"}
  /\ tab \in [Tabs -> [open : BOOLEAN, visible : BOOLEAN, due : BOOLEAN, stale : BOOLEAN,
                       call : {"none", "label", "mint", "answer"}, read : {"running", "paused"},
                       got : Labels \cup {0}, phase : Phases, label : Labels \cup {0},
                       frame : {"none", "load", "site", "retry", "bad", "expired"}]]
  /\ sleeps \in 0..MaxSleeps /\ faults \in 0..MaxFaults

\* The sandbox is back before any answer said that it was away: the provider's own 502 page is still in the frame, and
\* nothing reloads it.
Unnoticed(t) == tab[t].frame = "bad" /\ row = "running" /\ box = "up" /\ job = "none"

Waits(t) == tab[t].visible /\ tab[t].frame # "site"
Served(t) == tab[t].frame = "site" \/ ~tab[t].visible \/ Unnoticed(t)

\* An editor that stays visible gets its site into the frame, whatever slept, expired, was minted twice or went
\* unannounced meanwhile: "so the frame reloads instead of showing a stale error page" (usePreview.ts:32).  The one page
\* that may stay is Unnoticed.
FrameRecovers == \A t \in Tabs : Waits(t) ~> Served(t)

=============================================================================
