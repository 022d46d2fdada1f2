------------------------------- MODULE Editor -------------------------------
(***************************************************************************)
(* What the editor's page knows of a portfolio's operations: the rows that *)
(* OperationsService lists, the hints that reach the page through          *)
(* PortfolioEventsHub and the event stream, useOperations with its polls   *)
(* and its outcomes, and the views that load again when it moves on: the   *)
(* integrations panel, the chat, the code view.                            *)
(*                                                                         *)
(* One page, and one of its views, whichever: its loads are one step.      *)
(* Answers of the list that are under way together come in any order.  The *)
(* statuses preparing, checking and applying are "running".                *)
(***************************************************************************)
EXTENDS Naturals, Sequences, FiniteSets

CONSTANTS
  Ops,        \* 1..n, in the order they are queued
  Publishes,  \* those of them that publish; the others change the code
  MaxAsks,    \* requests for the list that are under way at once (bound)
  MaxFaults   \* hints lost, requests failed, answers that overtake an earlier one (bound)

VARIABLES
  op,      \* the operations table: status of each
  hub,     \* the page's event stream: "off", "joining" or "on"
  page,    \* useOperations: what it was told, what it announced
  asks,    \* its requests under way: what the api read, and whether a later one has been answered already
  view,    \* one of the panel, the chat and the code view, what it shows, whether it is to load
  faults,
  deaf,    \* history: an event has been missed, or an answer, and nothing has been read since
  early,   \* history: operations that ended before the page had its first answer
  watched  \* history: operations that the page showed under way

histories == <<early, watched>>
state == <<op, hub, page, asks, view, faults, deaf, histories>>

Views == {"panel", "chat", "code"}
Active == {"queued", "running"}
Ended == {"applied", "failed"}

NoOps == [o \in Ops |-> "none"]
Closed == [open |-> FALSE, due |-> FALSE, loaded |-> FALSE, seen |-> NoOps, shown |-> NoOps, stale |-> FALSE, told |-> {}]
Blank == [of |-> "panel", shown |-> NoOps, due |-> FALSE]

Init ==
  /\ op = NoOps
  /\ hub = "off"
  /\ page = Closed /\ asks = <<>> /\ view = Blank
  /\ faults = 0 /\ deaf = FALSE /\ early = {} /\ watched = {}

Fault == faults < MaxFaults /\ faults' = faults + 1

InTurn(i) == IF i = 1 THEN UNCHANGED faults ELSE Fault

-----------------------------------------------------------------------------
(* Operations, and the events they cause: delivery is best effort *)

\* usePortfolioEvents: an event that arrives makes the page read the list again.
Heard == hub = "on" /\ page' = [page EXCEPT !.due = TRUE] /\ UNCHANGED <<faults, deaf>>
Missed == UNCHANGED page /\ deaf' = page.open
Emit == \/ Heard
        \/ hub = "on" /\ Fault /\ Missed
        \/ hub # "on" /\ Missed /\ UNCHANGED faults

Move(o, status) == op' = [op EXCEPT ![o] = status]

\* OperationsService.enqueue, from this page or another
Queue(o) ==
  /\ op[o] = "none" /\ \A p \in Ops : p < o => op[p] # "none"
  /\ Move(o, "queued") /\ Emit
  /\ UNCHANGED <<hub, asks, view, histories>>

\* The worker takes them in order.
Run(o) ==
  /\ op[o] = "queued" /\ \A p \in Ops : p < o => op[p] \in Ended
  /\ Move(o, "running") /\ Emit
  /\ UNCHANGED <<hub, asks, view, histories>>

End(o) ==
  /\ op[o] = "running"
  /\ \E status \in Ended : Move(o, status)
  /\ Emit
  /\ early' = IF page.open /\ ~page.loaded THEN early \cup {o} ELSE early
  /\ UNCHANGED <<hub, asks, view, watched>>

-----------------------------------------------------------------------------
(* The page opens, and hears of changes *)

Open ==
  /\ ~page.open
  /\ page' = [Closed EXCEPT !.open = TRUE, !.due = TRUE]
  /\ \E v \in Views : view' = [Blank EXCEPT !.of = v, !.due = TRUE]
  /\ hub' = "joining" /\ asks' = <<>> /\ deaf' = FALSE /\ early' = {} /\ watched' = {}
  /\ UNCHANGED <<op, faults>>

Close ==
  /\ page.open
  /\ page' = Closed /\ view' = Blank
  /\ hub' = "off" /\ asks' = <<>> /\ deaf' = FALSE /\ early' = {} /\ watched' = {}
  /\ UNCHANGED <<op, faults>>

\* PortfolioEventsHub.stream, connection.  A subscription that fails is logged, and not tried again while anyone
\* listens: nothing says that this step ever comes.
Subscribed ==
  /\ hub = "joining"
  /\ hub' = "on"
  /\ UNCHANGED <<op, page, asks, view, faults, deaf, histories>>

-----------------------------------------------------------------------------
(* useOperations *)

Asked(list) == Append(list, [read |-> op, overtaken |-> FALSE])
Without(list, i) == [j \in 1..(Len(list) - 1) |-> IF j < i THEN [list[j] EXCEPT !.overtaken = TRUE] ELSE list[j + 1]]

\* Mutant: only the first answer and the events count.
NeverPolls == FALSE

\* While an operation runs, the list is read again and again.
Polls == \E o \in Ops : page.shown[o] \in Active

\* refresh, and OperationsService.list
Ask ==
  /\ page.open /\ Len(asks) < MaxAsks
  /\ page.due \/ Polls
  /\ asks' = Asked(asks)
  /\ page' = [page EXCEPT !.due = FALSE]
  /\ deaf' = FALSE
  /\ UNCHANGED <<op, hub, view, faults, histories>>

\* What the page takes for an operation that it saw running.
WasActive(o) == IF page.seen[o] = "none" THEN page.loaded ELSE page.seen[o] \in Active

Running(list) == {o \in Ops \ Publishes : list[o] \in Active}

\* Mutant: whatever the view, it loads again only when a change has ended.
LoadsOnEnd(read, ended) == ended # {}

\* Whether the view loads again: the code view when a change has ended, the panel also when another change is the
\* active one, the chat when any status is another.
LoadsAgain(read, ended) ==
  CASE view.of = "chat"  -> read # page.shown
    [] view.of = "code"  -> ended # {}
    [] view.of = "panel" -> ended # {}
                            \/ {o \in Running(read) : \A p \in Running(read) : p <= o}
                               # {o \in Running(page.shown) : \A p \in Running(page.shown) : p <= o}

\* The list arrives.  Of several notices set by one list only the last, that of the oldest, is ever shown.
Apply(i) ==
  LET read  == asks[i].read
      over  == {o \in Ops : read[o] \in Ended /\ WasActive(o)}
      news  == {o \in over : read[o] = "failed" \/ o \in Publishes}
      again == LoadsAgain(read, over \ Publishes)
  IN /\ page.open
     /\ asks' = Without(asks, i)
     /\ page' = [page EXCEPT
          !.loaded = TRUE, !.shown = read, !.stale = asks[i].overtaken,
          !.seen = [o \in Ops |-> IF read[o] = "none" THEN @[o] ELSE read[o]],
          !.told = @ \cup news]
     /\ view' = [view EXCEPT !.due = @ \/ again]
     /\ InTurn(i)
     /\ watched' = watched \cup {o \in Ops : read[o] \in Active}
     /\ UNCHANGED <<op, hub, deaf, early>>

\* "The next event or poll retries", if there is one.
AskFails(i) ==
  /\ Fault
  /\ asks' = Without(asks, i) /\ deaf' = TRUE
  /\ UNCHANGED <<op, hub, page, view, histories>>

-----------------------------------------------------------------------------
(* The view *)

\* What each view tells apart: the chat has every status, the panel whether a change goes on, the code view the code.
Phase(status) == IF status \in Active THEN "active" ELSE IF status \in Ended THEN "ended" ELSE "none"
Shows(o) ==
  CASE view.of = "chat"  -> op[o]
    [] view.of = "panel" -> Phase(op[o])
    [] view.of = "code"  -> IF op[o] = "applied" THEN "applied" ELSE "none"

LoadView ==
  /\ view.due
  /\ view' = [view EXCEPT !.due = FALSE, !.shown = [o \in Ops |-> IF o \in Publishes THEN "none" ELSE Shows(o)]]
  /\ UNCHANGED <<op, hub, page, asks, faults, deaf, histories>>

Next ==
  \/ \E o \in Ops : Queue(o) \/ Run(o) \/ End(o)
  \/ Open \/ Close \/ Subscribed \/ Ask
  \/ \E i \in DOMAIN asks : Apply(i) \/ AskFails(i)
  \/ LoadView

Spec == Init /\ [][Next]_state

-----------------------------------------------------------------------------
(* Properties *)

TypeOK ==
  /\ op \in [Ops -> {"none"} \cup Active \cup Ended]
  /\ hub \in {"off", "joining", "on"} /\ deaf \in BOOLEAN
  /\ page.told \subseteq Ops /\ early \subseteq Ops
  /\ Len(asks) <= MaxAsks /\ view.of \in Views
  /\ ~page.open => asks = <<>> /\ hub = "off"

Quiet ==
  /\ page.open /\ page.loaded /\ ~page.due /\ asks = <<>> /\ hub = "on" /\ ~deaf /\ ~page.stale
  /\ ~view.due

\* useOperations, IntegrationsPanel, CopilotChat, CodeView: once nothing is under way, every view shows what the
\* tables say, though each loads at moments of its own and none loads by the clock.  Unless answers crossed, an
\* event was lost, or (the panel and the code view) a change ended while the page had no answer yet: that end is
\* seen by the list only, and nothing tells the views that had read before it.
ViewsAreCurrent ==
  Quiet =>
    /\ page.shown = op
    /\ \A o \in Ops \ Publishes : view.shown[o] = Shows(o) \/ (o \in early /\ view.of # "chat")

\* useOperations: the page does not come to rest, with nothing to read and nothing it goes on polling for, before an
\* operation that it showed under way and that was not applied had its notice, whatever events and answers were lost;
\* though another's notice may take its place in the same answer.
OutcomeIsTold ==
  page.open /\ ~page.due /\ asks = <<>> /\ ~page.stale /\ ~Polls =>
    \A o \in watched : o \in page.told \/ (o \notin Publishes /\ op[o] = "applied")

=============================================================================
