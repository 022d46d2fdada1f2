----------------------------- MODULE CodeReader -----------------------------
(***************************************************************************)
(* Reading the code of a portfolio: WorkspaceService, which puts a job on  *)
(* the queue and waits for its answer; WorkspaceReader, which asks the     *)
(* sandbox; and CodeView, which shows the tree and one file, and asks      *)
(* again when the preview comes up and when an operation has ended.        *)
(*                                                                         *)
(* A file is the number of the change that wrote it, 0 when there is none. *)
(* What a waked sandbox goes through is SandboxLifecycle; that the page    *)
(* learns of the end of an operation is Editor.  Which paths are refused,  *)
(* and how large a file may be, are left out.                              *)
(***************************************************************************)
EXTENDS Naturals, FiniteSets

CONSTANTS
  Paths,
  MaxChanges,  \* files written, deleted or opened (bound)
  MaxAsks,     \* requests of the page (bound)
  MaxFaults    \* sandboxes lost, answers that take too long (bound)

VARIABLES
  disk,      \* the live directory of the sandbox
  row, up,   \* the status of its row; whether it runs
  woken,     \* an ensure job waits
  jobs,      \* requests under way
  view,      \* CodeView
  asked,     \* requests sent so far
  changes, faults,
  unheard    \* whether something was written since the page last learned of an end, a file put back with a new sandbox too

sandbox == <<disk, row, up, woken>>
counts  == <<asked, changes, faults>>
state   == <<sandbox, jobs, view, counts, unheard>>

None == "none"
Nothing == [path |-> None, content |-> 0]

Init ==
  /\ disk = [p \in Paths |-> 1] /\ row = "running" /\ up = TRUE /\ woken = FALSE
  /\ jobs = {} /\ asked = 0 /\ changes = 1 /\ faults = 0 /\ unheard = FALSE
  /\ view = [live |-> FALSE, target |-> None, file |-> Nothing, error |-> None, loading |-> FALSE, reading |-> 0,
             files |-> {}, tree |-> 0, asking |-> 0]

Fault == faults < MaxFaults /\ faults' = faults + 1
Change == changes < MaxChanges /\ changes' = changes + 1

Job(n, kind, p) == [id |-> n, kind |-> kind, path |-> p, at |-> "queued", answer |-> None, read |-> {}, content |-> 0]

-----------------------------------------------------------------------------
(* WorkspaceReader *)

Present == {p \in Paths : disk[p] > 0}
Becomes(j, k) == jobs' = (jobs \ {j}) \cup {k}
Says(j, what) == Becomes(j, [j EXCEPT !.at = "done", !.answer = what])

\* call: a sandbox that has gone while its row says "running" is looked at now.
NotRunning(j) ==
  /\ ~(row = "running" /\ up)
  /\ woken' = (woken \/ row = "running")
  /\ Says(j, "notRunning")
  /\ UNCHANGED <<disk, row, up, view, counts, unheard>>

ReadTree(j) ==
  /\ j \in jobs /\ j.kind = "tree" /\ j.at = "queued"
  /\ \/ NotRunning(j)
     \/ /\ row = "running" /\ up
        /\ Becomes(j, [j EXCEPT !.at = "done", !.read = Present])
        /\ UNCHANGED <<sandbox, view, counts, unheard>>

\* file: the real path and the size first
Probe(j) ==
  /\ j \in jobs /\ j.kind = "file" /\ j.at = "queued"
  /\ \/ NotRunning(j)
     \/ /\ row = "running" /\ up
        /\ IF j.path \in Present THEN Becomes(j, [j EXCEPT !.at = "probed"]) ELSE Says(j, "notFound")
        /\ UNCHANGED <<sandbox, view, counts, unheard>>

\* The file may have been deleted since: readFile fails.
ReadFile(j) ==
  /\ j \in jobs /\ j.at = "probed"
  /\ \/ NotRunning(j)
     \/ /\ row = "running" /\ up
        /\ IF j.path \in Present THEN Becomes(j, [j EXCEPT !.at = "done", !.content = disk[j.path]]) ELSE Says(j, "failed")
        /\ UNCHANGED <<sandbox, view, counts, unheard>>

-----------------------------------------------------------------------------
(* The sandbox *)

\* a step of an operation
Write(p) ==
  /\ up /\ Change
  /\ \E new \in {0, changes'} : new # disk[p] /\ disk' = [disk EXCEPT ![p] = new]
  /\ unheard' = TRUE
  /\ UNCHANGED <<row, up, woken, jobs, view, asked, faults>>

BoxLost ==
  /\ up /\ Fault
  /\ up' = FALSE
  /\ UNCHANGED <<disk, row, woken, jobs, view, asked, changes, unheard>>

\* SandboxLifecycle.ensure
Ensure ==
  /\ woken
  /\ row' = "starting" /\ woken' = FALSE
  /\ UNCHANGED <<disk, up, jobs, view, counts, unheard>>

\* It is resumed, or created anew from draft, where a file may still be as an earlier change left it.
Started ==
  /\ row = "starting"
  /\ row' = "running" /\ up' = TRUE
  /\ \/ UNCHANGED <<disk, unheard>>
     \/ /\ \E p \in Paths, old \in 0..changes : old # disk[p] /\ disk' = [disk EXCEPT ![p] = old]
        /\ unheard' = TRUE
  /\ UNCHANGED <<woken, jobs, view, counts>>

-----------------------------------------------------------------------------
(* CodeView *)

\* Mutant: the answer to an earlier request is shown as well.
Any(j) == TRUE

\* "cancelled": only the last request for a file is listened to.
Current(j) == j.id = view.reading

\* The effects that run for a new target, a preview that comes up and a new revision; v is the page with what has
\* changed.  A page that is not live asks for nothing, and stops listening.
Asks(kinds, v) ==
  LET file == "file" \in kinds /\ v.live /\ v.target # None
      tree == "tree" \in kinds /\ v.live
      n    == asked + (IF file THEN 1 ELSE 0)
  IN /\ asked' = n + (IF tree THEN 1 ELSE 0) /\ asked' <= MaxAsks
     /\ jobs' = jobs \cup (IF file THEN {Job(n, "file", v.target)} ELSE {}) \cup (IF tree THEN {Job(asked', "tree", None)} ELSE {})
     /\ view' = [v EXCEPT !.reading = IF file THEN n ELSE IF "file" \in kinds THEN 0 ELSE @,
                          !.loading = @ \/ file, !.error = IF file THEN None ELSE @,
                          !.asking  = IF tree THEN asked' ELSE @]

Open(p) ==
  /\ view.live /\ Change
  /\ Asks({"file"}, [view EXCEPT !.target = p])
  /\ UNCHANGED <<sandbox, faults, unheard>>

Refresh ==
  /\ view.live /\ Change
  /\ Asks({"tree"}, view)
  /\ UNCHANGED <<sandbox, faults, unheard>>

\* An operation has ended, and the page knows.
Revision ==
  /\ unheard /\ unheard' = FALSE
  /\ Asks({"file", "tree"}, view)
  /\ UNCHANGED <<sandbox, changes, faults>>

\* phase === "live"
Poll ==
  /\ view.live # (row = "running")
  /\ Asks({"file", "tree"}, [view EXCEPT !.live = ~@])
  /\ UNCHANGED <<sandbox, changes, faults, unheard>>

\* The page's side of an answer, or of one that did not come within 25 seconds.
Tell(j, answer) ==
  /\ jobs' = jobs \ {j}
  /\ view' = CASE j.kind = "tree" /\ answer = None -> [view EXCEPT !.files = j.read, !.tree = j.id]
               [] j.kind = "file" /\ Current(j)    -> [view EXCEPT !.loading = FALSE, !.error = answer,
                    !.file = IF answer = None THEN [path |-> j.path, content |-> j.content] ELSE Nothing]
               [] OTHER                            -> view

Answered(j) ==
  /\ j \in jobs /\ j.at = "done"
  /\ Tell(j, j.answer)
  /\ UNCHANGED <<sandbox, counts, unheard>>

TimesOut(j) ==
  /\ j \in jobs /\ Fault
  /\ Tell(j, "timeout")
  /\ UNCHANGED <<sandbox, asked, changes, unheard>>

Next ==
  \/ \E p \in Paths : Write(p) \/ Open(p)
  \/ BoxLost \/ Ensure \/ Started
  \/ Refresh \/ Revision \/ Poll
  \/ \E j \in jobs : ReadTree(j) \/ Probe(j) \/ ReadFile(j) \/ Answered(j) \/ TimesOut(j)

Spec == Init /\ [][Next]_state

-----------------------------------------------------------------------------
TypeOK ==
  /\ disk \in [Paths -> 0..MaxChanges] /\ row \in {"running", "starting"} /\ asked \in 0..MaxAsks
  /\ view.target \in Paths \cup {None} /\ view.reading \in 0..asked /\ view.tree \in 0..view.asking
  /\ \A j \in jobs : j.id \in 1..asked /\ (j.kind = "file" => j.path \in Paths)

\* CodeView: when the page has heard of every change and no answer is awaited, the body under the path is that file as
\* it is, or the page says why it is not there, though files are opened, written and deleted while they are read in two
\* steps, sandboxes go, and answers overtake each other.  The tree is the one there is when the last that was asked for
\* was answered last: the answers to loadTree are all listened to, so an earlier one may take its place.
CodeShownIsTheFile ==
  view.live /\ ~unheard /\ jobs = {} =>
    /\ ~view.loading
    /\ view.target # None /\ view.error = None => view.file = [path |-> view.target, content |-> disk[view.target]]
    /\ view.target # None /\ view.error = None => view.target \in Present
    /\ view.error = "notFound" => view.target \notin Present
    /\ view.tree = view.asking => view.files = Present

=============================================================================
