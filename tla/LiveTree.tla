------------------------------- MODULE LiveTree -------------------------------
(***************************************************************************)
(* The shell scripts of an operation inside the sandbox, command by        *)
(* command: the worktree they stage, the packages they link, the moment    *)
(* the live tree takes the change, and the dev server that compiles it.    *)
(* A script is cut short when its time is up, after any of its commands.   *)
(*                                                                         *)
(* A revision is the set of packages that its code imports and its         *)
(* manifest and lockfile name.  How the worker takes what a script         *)
(* reports, pushes and records it is in OperationRunner, where a script is *)
(* one step; here HEAD is always pushed.                                   *)
(***************************************************************************)
EXTENDS Naturals, Sequences, FiniteSets

CONSTANTS
  Packages,
  MaxCommits,   \* commits on the live tree (bound)
  MaxFaults     \* scripts cut short, installs and pages that fail (bound)

VARIABLES
  commits,   \* the live branch: the packages of each revision, the last being HEAD
  borrowed,  \* the live tree's manifest, lockfile and vendored packages are another revision's
  undoing,   \* the live tree holds a revert that is not committed yet
  linked,    \* the live tree's node_modules
  page,      \* what the dev server shows: "idle" before anyone looks, "fine" or "missing"
  staging,   \* the worktree: its revision, and its node_modules if it has its own
  script,    \* the script that runs, and its next command
  faults,
  cut,       \* history: a script was cut short and nothing has linked the live tree since
  unlinked   \* history: a revert went on although its packages did not install

live  == <<commits, borrowed, undoing, linked>>
state == <<live, page, staging, script, faults, cut, unlinked>>

None == [at |-> "none", needs |-> {}, own |-> FALSE, has |-> {}]
Rest == [of |-> "none", at |-> "none"]

Tip == commits[Len(commits)]
Dirty == borrowed \/ undoing

Init ==
  /\ \E first \in SUBSET Packages : commits = <<first>> /\ linked = first
  /\ borrowed = FALSE /\ undoing = FALSE
  /\ page = "idle" /\ staging = None /\ script = Rest
  /\ faults = 0 /\ cut = FALSE /\ unlinked = FALSE

Fault == faults < MaxFaults /\ faults' = faults + 1
At(of, at) == script = [of |-> of, at |-> at]
Goto(of, at) == script' = [of |-> of, at |-> at]

\* The dev server compiles a file when it changes, and one that drops an import does.
Compiled(needs, packages) == IF needs \subseteq packages THEN "fine" ELSE "missing"

\* A visitor's request compiles the page when it has not been yet.
Visit ==
  /\ page = "idle"
  /\ page' = Compiled(Tip, linked)
  /\ UNCHANGED <<live, staging, script, faults, cut, unlinked>>

-----------------------------------------------------------------------------
(* In the worktree *)

\* stageScript: a clean tree, and dependencies shared through a link.
Stage ==
  /\ script = Rest /\ ~Dirty /\ Len(commits) < MaxCommits
  /\ staging' = [at |-> "staged", needs |-> Tip, own |-> FALSE, has |-> {}]
  /\ Goto("prepare", "files")
  /\ UNCHANGED <<live, page, faults, cut, unlinked>>

\* vendorScript, prepareFilesScript: what the change makes of the worktree.
Mutate ==
  /\ At("prepare", "files")
  /\ \E needs \in SUBSET Packages :
       /\ staging' = [staging EXCEPT !.needs = needs]
       /\ Goto("prepare", IF needs = Tip THEN "check" ELSE "install")
  /\ UNCHANGED <<live, page, faults, cut, unlinked>>

\* Mutant: the install goes through the link.
InstallThroughLink ==
  /\ At("prepare", "install")
  /\ linked' = staging.needs
  /\ staging' = [staging EXCEPT !.at = "prepared"]
  /\ Goto("prepare", "check")
  /\ UNCHANGED <<commits, borrowed, undoing, page, faults, cut, unlinked>>

\* prepareScript: a change of dependencies has the link replaced by an install of its own.
PrepareInstall ==
  /\ At("prepare", "install")
  /\ staging' = [staging EXCEPT !.own = TRUE, !.has = staging.needs]
  /\ Goto("prepare", "check")
  /\ UNCHANGED <<live, page, faults, cut, unlinked>>

InstallFails ==
  /\ At("prepare", "install") /\ Fault
  /\ Goto("discard", "remove")
  /\ UNCHANGED <<live, page, staging, cut, unlinked>>

\* checkScript: tsc needs every import resolved, and may say no for other reasons.
Check ==
  /\ At("prepare", "check")
  /\ \/ staging.needs \subseteq (IF staging.own THEN staging.has ELSE linked) /\ Goto("apply", "commit")
     \/ Goto("discard", "remove")
  /\ UNCHANGED <<live, page, staging, faults, cut, unlinked>>

\* removeStaging, as the last commands of discardScript and applyScript
Remove ==
  /\ script.at = "remove"
  /\ staging' = None
  /\ script' = IF script.of = "apply" THEN [of |-> "health", at |-> "request"] ELSE Rest
  /\ UNCHANGED <<live, page, faults, cut, unlinked>>

-----------------------------------------------------------------------------
(* linkDependencies, for the revision that is about to be the live one *)

Rev == IF script.of = "apply" THEN staging.needs ELSE commits[Len(commits) - 1]

Borrow ==
  /\ script.at = "borrow"
  /\ borrowed' = TRUE
  /\ Goto(script.of, "link")
  /\ UNCHANGED <<commits, undoing, linked, page, staging, faults, cut, unlinked>>

Link ==
  /\ script.at = "link"
  /\ linked' = Rev
  /\ Goto(script.of, "restore")
  /\ UNCHANGED <<commits, borrowed, undoing, page, staging, faults, cut, unlinked>>

\* Offline and then online: pnpm resolves and fetches everything before it links anything.
LinkFails ==
  /\ script.at = "link" /\ Fault
  /\ Goto(script.of, "restoreUnlinked")
  /\ UNCHANGED <<live, page, staging, cut, unlinked>>

\* git checkout, rm: whatever came of the install.  A failed one ends applyScript; revertScript goes on.
Restore ==
  /\ script.at \in {"restore", "restoreUnlinked"}
  /\ borrowed' = FALSE
  /\ IF script.of = "apply"
       THEN /\ IF script.at = "restore" THEN Goto("apply", "merge") ELSE Goto("discard", "remove")
            /\ UNCHANGED unlinked
       ELSE /\ Goto("revert", "revert")
            /\ unlinked' = (unlinked \/ script.at = "restoreUnlinked")
  /\ UNCHANGED <<commits, undoing, linked, page, staging, faults, cut>>

-----------------------------------------------------------------------------
(* The live tree *)

DepsChanged == staging.own

\* Mutant: the merge first, then the packages.
MergeFirst ==
  /\ At("apply", "commit")
  /\ commits' = Append(commits, staging.needs)
  /\ page' = Compiled(staging.needs, linked)
  /\ linked' = staging.needs
  /\ Goto("apply", "remove")
  /\ UNCHANGED <<borrowed, undoing, staging, faults, cut, unlinked>>

\* applyScript: the commit in the worktree, then the packages if they changed.
Commit ==
  /\ At("apply", "commit")
  /\ Goto("apply", IF DepsChanged THEN "borrow" ELSE "merge")
  /\ UNCHANGED <<live, page, staging, faults, cut, unlinked>>

\* A revision whose packages were linked just now makes good what a script left behind.
Mends(links) == IF links THEN cut' = FALSE /\ unlinked' = FALSE ELSE UNCHANGED <<cut, unlinked>>

Merge ==
  /\ At("apply", "merge")
  /\ commits' = Append(commits, staging.needs)
  /\ page' = Compiled(staging.needs, linked)
  /\ Goto("apply", "remove")
  /\ Mends(DepsChanged)
  /\ UNCHANGED <<borrowed, undoing, linked, staging, faults>>

\* healthScript requests the routes that the change affects; a page breaks for other reasons too.
Health ==
  /\ At("health", "request")
  /\ page' = IF page = "idle" THEN Compiled(Tip, linked) ELSE page
  /\ \/ page' = "missing" /\ Goto("revert", "start") /\ UNCHANGED faults
     \/ page' # "missing" /\ Goto("revert", "start") /\ Fault
     \/ page' # "missing" /\ script' = Rest /\ UNCHANGED faults
  /\ UNCHANGED <<live, staging, cut, unlinked>>

\* revertScript: whether the last commit changed the manifest
RevertStarts ==
  /\ At("revert", "start")
  /\ Goto("revert", IF Rev # Tip THEN "borrow" ELSE "revert")
  /\ UNCHANGED <<live, page, staging, faults, cut, unlinked>>

\* git revert --no-commit, and then the commit
Revert ==
  /\ At("revert", "revert")
  /\ undoing' = TRUE
  /\ page' = Compiled(Rev, linked)
  /\ Goto("revert", "commit")
  /\ UNCHANGED <<commits, borrowed, linked, staging, faults, cut, unlinked>>

RevertCommits ==
  /\ At("revert", "commit")
  /\ commits' = Append(commits, Rev)
  /\ undoing' = FALSE
  /\ script' = Rest
  /\ UNCHANGED <<borrowed, linked, page, staging, faults, cut, unlinked>>

-----------------------------------------------------------------------------
(* The time is up, and the workspace is made anew *)

\* exec: the script ends where it is.  The runner discards the worktree of an apply that reported no commit; the
\* next stage removes any other.
TimesUp ==
  /\ script # Rest /\ Fault
  /\ script' = IF script.of = "apply" /\ script.at # "remove" THEN [of |-> "discard", at |-> "remove"] ELSE Rest
  /\ cut' = (cut \/ script.of \in {"apply", "revert"})
  /\ UNCHANGED <<live, page, staging, unlinked>>

\* PreviewService.rebuild: a fresh clone of draft, and its packages.
Rebuild ==
  /\ script = Rest /\ (cut \/ unlinked)
  /\ linked' = Tip /\ borrowed' = FALSE /\ undoing' = FALSE
  /\ page' = "idle" /\ staging' = None
  /\ cut' = FALSE /\ unlinked' = FALSE
  /\ UNCHANGED <<commits, script, faults>>

Next ==
  \/ Visit \/ Stage \/ Mutate \/ PrepareInstall \/ InstallFails \/ Check \/ Remove
  \/ Borrow \/ Link \/ LinkFails \/ Restore \/ Commit \/ Merge
  \/ Health \/ RevertStarts \/ Revert \/ RevertCommits \/ TimesUp \/ Rebuild

Spec == Init /\ [][Next]_state

-----------------------------------------------------------------------------
(* Properties *)

TypeOK ==
  /\ commits \in Seq(SUBSET Packages) /\ Len(commits) \in 1..(2 * MaxCommits)
  /\ linked \subseteq Packages /\ page \in {"idle", "fine", "missing"}
  /\ script = Rest => staging.at \in {"none", "staged", "prepared"}

\* linkDependencies ("before that revision's code reaches the dev server"), stageScript, prepareScript, applyScript,
\* revertScript: the dev server never shows a module missing, and between scripts the tree is clean and its
\* node_modules is what HEAD names, whatever was refused, did not install or was undone; unless a script was cut short,
\* or a revert's packages did not install, and no change of dependencies has been applied and no rebuild made since.
PagesFindTheirPackages ==
  ~cut /\ ~unlinked =>
    /\ page = "missing" => script.of = "apply"
    /\ script = Rest => ~Dirty /\ linked = Tip /\ page # "missing"

=============================================================================
