------------------------------ MODULE SidePanels ------------------------------
(***************************************************************************)
(* The editor's side panels (components/editor/SidePanels.tsx): the slots  *)
(* as the portfolio has them, read through the workspace when the panel is *)
(* opened and when the preview comes up; the contract check, run by hand;  *)
(* and the preview's reset, in two clicks.                                 *)
(*                                                                         *)
(* The code is numbered by the changes made to it: what is placed in its   *)
(* slots and what the check would say are those of that number.  A panel   *)
(* that is left forgets what it showed, and nobody hears its answers.      *)
(* The integrations panel is InstallForm and Wishes; how the reader wakes  *)
(* a sandbox is CodeReader; what a reset does is SandboxLifecycle.         *)
(***************************************************************************)
EXTENDS Naturals

CONSTANTS
  MaxChanges, MaxAsks, MaxResets,  \* bounds: changes, requests of the panel, resets
  MaxFaults                        \* sandboxes lost, answers that take too long (bound)

VARIABLES
  code,
  op,       \* an operation is under way
  up,       \* the sandbox runs, and its row says so
  reset,    \* a rebuild is asked for
  page,
  calls,    \* requests under way that somebody waits for
  changes, asked, resets, faults,
  \* history, read by no action
  floor,    \* the code when the panel last asked for the slots
  crossed   \* two requests for the slots were under way at once

sandbox == <<code, op, up, reset>>
bounds  == <<changes, asked, resets, faults>>
history == <<floor, crossed>>
state   == <<sandbox, page, calls, bounds, history>>

Panels == {"slots", "integrations", "settings"}
None   == 0
Failed == MaxChanges + 2

\* The state of SlotsPanel and SettingsPanel as they mount
Fresh == [slots |-> None, error |-> FALSE, report |-> None, checking |-> FALSE, confirming |-> FALSE]

Fault == faults < MaxFaults /\ faults' = faults + 1
Of(kind) == {c \in calls : c.kind = kind}

Init ==
  /\ code = 1 /\ op = FALSE /\ up \in BOOLEAN /\ reset = FALSE
  /\ page = [panel |-> "integrations", live |-> FALSE, working |-> FALSE, of |-> Fresh] /\ calls = {}
  /\ changes = 0 /\ asked = 0 /\ resets = 0 /\ faults = 0 /\ floor = 1 /\ crossed = FALSE

-----------------------------------------------------------------------------
(* The portfolio *)

\* An operation, and the end of it, which changes the code or does not
Operate ==
  /\ \/ ~op /\ changes < MaxChanges /\ changes' = changes + 1 /\ UNCHANGED code
     \/ op /\ code' \in {code, code + 1} /\ UNCHANGED changes
  /\ op' = ~op
  /\ UNCHANGED <<up, reset, page, calls, asked, resets, faults, history>>

\* The sandbox is lost; or an asked-for rebuild takes its turn; and starts again.
Falls ==
  /\ up /\ up' = FALSE
  /\ \/ reset /\ ~op /\ reset' = FALSE /\ UNCHANGED faults
     \/ Fault /\ UNCHANGED reset
  /\ UNCHANGED <<code, op, page, calls, changes, asked, resets, history>>

Rises ==
  /\ ~up /\ up' = TRUE
  /\ UNCHANGED <<code, op, reset, page, calls, bounds, history>>

\* slots and check read the live directory, which an operation may be changing; a sandbox that is gone is an error.
Answers(c) ==
  /\ c \in calls /\ c.got = None
  /\ calls' = (calls \ {c}) \cup {[c EXCEPT !.got = IF up THEN code ELSE Failed]}
  /\ UNCHANGED <<sandbox, page, bounds, history>>

\* ask: the time is up.
TimesOut(c) ==
  /\ c \in calls /\ c.got = None /\ Fault
  /\ calls' = (calls \ {c}) \cup {[c EXCEPT !.got = Failed]}
  /\ UNCHANGED <<sandbox, page, changes, asked, resets, history>>

-----------------------------------------------------------------------------
(* The panels *)

Asks(kind, others) ==
  /\ asked < MaxAsks /\ asked' = asked + 1
  /\ calls' = others \cup {[kind |-> kind, nr |-> CHOOSE n \in 1..MaxAsks : \A c \in others : c.nr # n, got |-> None]}

\* Mutant: the slots are read when the panel is opened only.
LoadsOnce(before, after) == after.panel = "slots" /\ after.live /\ before.panel # "slots"

\* The effect of SlotsPanel: it runs as the panel mounts and when live changes.
Loads(before, after) == after.panel = "slots" /\ after.live /\ (before.panel # "slots" \/ ~before.live)

Becomes(p, others) ==
  /\ page' = p
  /\ IF Loads(page, p)
       THEN Asks("slots", others) /\ floor' = code /\ crossed' = (\E c \in others : c.kind = "slots")
       ELSE calls' = others /\ UNCHANGED <<asked, history>>

\* The page learns what the preview does (Previews) and whether an operation is under way (Editor).
Learns ==
  /\ <<page.live, page.working>> # <<up, op>>
  /\ Becomes([page EXCEPT !.live = up, !.working = op], calls)
  /\ UNCHANGED <<sandbox, changes, resets, faults>>

OnPanel(p) ==
  /\ p # page.panel
  /\ Becomes([page EXCEPT !.panel = p, !.of = Fresh], {})
  /\ UNCHANGED <<sandbox, changes, resets, faults>>

Hears(c, kind, of) ==
  /\ c \in calls /\ c.kind = kind /\ c.got # None
  /\ page' = [page EXCEPT !.of = of]
  /\ calls' = calls \ {c}
  /\ UNCHANGED <<sandbox, bounds, history>>

\* A failure hides the slots until they are read again.
Loaded(c) == Hears(c, "slots", IF c.got = Failed THEN [page.of EXCEPT !.error = TRUE] ELSE [page.of EXCEPT !.slots = c.got, !.error = FALSE])

\* The button is under the slots.
RunCheck ==
  /\ page.panel = "slots" /\ page.live /\ page.of.slots # None /\ ~page.of.error /\ ~page.of.checking
  /\ page' = [page EXCEPT !.of.checking = TRUE]
  /\ Asks("check", calls)
  /\ UNCHANGED <<sandbox, changes, resets, faults, history>>

\* Mutant: the button comes back after a report only.
ReportedOnly(c) == [page.of EXCEPT !.report = c.got, !.checking = c.got = Failed]

Reported(c) == [page.of EXCEPT !.report = c.got, !.checking = FALSE]

Checked(c) == Hears(c, "check", Reported(c))

\* Reset...: not during an operation; the second button and Cancel are always there.
Resetting(to) ==
  /\ page.panel = "settings" /\ page.of.confirming # to /\ (to => ~page.working)
  /\ page' = [page EXCEPT !.of.confirming = to]
  /\ UNCHANGED <<sandbox, calls, bounds, history>>

Reset ==
  /\ page.panel = "settings" /\ page.of.confirming /\ resets < MaxResets
  /\ page' = [page EXCEPT !.of.confirming = FALSE]
  /\ reset' = TRUE /\ resets' = resets + 1
  /\ UNCHANGED <<code, op, up, calls, changes, asked, faults, history>>

Next ==
  \/ Operate \/ Falls \/ Rises \/ Learns \/ RunCheck \/ Reset
  \/ \E p \in Panels : OnPanel(p)
  \/ \E to \in BOOLEAN : Resetting(to)
  \/ \E c \in calls : Answers(c) \/ TimesOut(c) \/ Loaded(c) \/ Checked(c)

Spec == Init /\ [][Next]_state

-----------------------------------------------------------------------------
(* Properties *)

TypeOK ==
  /\ code \in 1..(MaxChanges + 1) /\ {op, up, reset} \subseteq BOOLEAN
  /\ page.panel \in Panels /\ page.of.slots \in 0..(MaxChanges + 1) /\ page.of.report \in 0..Failed

\* The slots panel: while it is open on a preview that the page takes for live it is reading the slots, shows them or
\* says why it cannot; what it shows was read after it was opened and after the preview came up, unless two readings
\* crossed; and the check's button comes back when the check has ended, however it ended.
SlotsAreRead ==
  page.panel = "slots" =>
    /\ page.live /\ Of("slots") = {} => page.of.error \/ (page.of.slots # None /\ (page.of.slots >= floor \/ crossed))
    /\ page.of.checking = (Of("check") # {})

=============================================================================
