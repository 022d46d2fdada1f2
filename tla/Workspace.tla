----------------------------- MODULE Workspace -----------------------------
(***************************************************************************)
(* A portfolio's code as git sees it: the two branches on GitHub (draft    *)
(* and main) and the sandbox's copy of draft (the live tree the preview    *)
(* serves, the staging worktree an operation is prepared in, and the       *)
(* remote-tracking ref origin/draft).                                      *)
(*                                                                         *)
(* Every operator below is the effect of one script of git-scripts.ts.  A  *)
(* branch is the sequence of commits made since the portfolio was created  *)
(* from its template; a commit says which operation made it, whether it is *)
(* that operation's change or its revert, and whether the tree it records  *)
(* passes plinth check and tsc.                                            *)
(***************************************************************************)
EXTENDS Naturals, Sequences, SequencesExt

CONSTANT NumOps        \* operations are numbered in the order they are created

ASSUME NumOpsAssumption == NumOps \in Nat \ {0}

Ops == 1 .. NumOps

VARIABLES
  live,        \* the commits of the sandbox's live tree
  tracking,    \* origin/draft as the sandbox last saw it
  staging,     \* the staging worktree: its branch, its commits, whether its files pass the checks
  dirty,       \* uncommitted files in the live tree
  draft,       \* the draft branch on GitHub
  main         \* the main branch on GitHub, which the host deploys

git == <<live, tracking, staging, dirty, draft, main>>
sandboxGit == <<live, tracking, staging, dirty>>

Change(o, good) == [op |-> o, kind |-> "change", good |-> good]
Revert(o)       == [op |-> o, kind |-> "revert", good |-> TRUE]
\* A commit somebody pushes to GitHub without going through an operation.
Foreign         == [op |-> 0, kind |-> "foreign", good |-> TRUE]

Commit  == [op : Ops \cup {0}, kind : {"change", "revert", "foreign"}, good : BOOLEAN]
History == Seq(Commit)

\* No worktree: branch 0 is no operation's.
NoStaging == [branch |-> 0, base |-> <<>>, good |-> TRUE]
Staging   == [branch : Ops \cup {0}, base : History, good : BOOLEAN]

GitTypeOK ==
  /\ live \in History
  /\ tracking \in History
  /\ draft \in History
  /\ main \in History
  /\ staging \in Staging
  /\ dirty \in BOOLEAN

GitInit ==
  /\ live = <<>>
  /\ tracking = <<>>
  /\ staging = NoStaging
  /\ dirty = FALSE
  /\ draft = <<>>
  /\ main = <<>>

----------------------------------------------------------------------------
(* What a history says about an operation. *)

\* The history holds a commit whose Operation-Id trailer names o.
Mentions(h, o) == \E i \in DOMAIN h : h[i].op = o

\* The history holds o's change and no revert of it: visitors of that tree see the change.
Shows(h, o) ==
  /\ \E i \in DOMAIN h : h[i].op = o /\ h[i].kind = "change"
  /\ ~ \E i \in DOMAIN h : h[i].op = o /\ h[i].kind = "revert"

----------------------------------------------------------------------------
(* The scripts. *)

\* Mutant: HEAD is not compared with origin/draft.
Clean == ~dirty

\* stageScript's precondition: nothing uncommitted, and HEAD where origin/draft is.
CleanAtDraft == ~dirty /\ live = tracking

\* HEAD is past origin/draft: an earlier commit was never pushed.
AheadOfDraft == ~dirty /\ live # tracking /\ IsPrefix(tracking, live)

\* removeStaging, then a fresh worktree on the operation's branch at HEAD.
StageWorktree(o) ==
  /\ staging' = [branch |-> o, base |-> live, good |-> TRUE]
  /\ UNCHANGED <<live, tracking, dirty, draft, main>>

\* Files written into the worktree, whoever's worktree it is by now.
Write(good) ==
  /\ staging' = [staging EXCEPT !.good = good]
  /\ UNCHANGED <<live, tracking, dirty, draft, main>>

\* removeStaging: the worktree and every operation branch.
RemoveStaging ==
  /\ staging' = NoStaging
  /\ UNCHANGED <<live, tracking, dirty, draft, main>>

\* The operation's own branch exists and the live tree can be fast-forwarded to it.
CanMerge(o) == staging.branch = o /\ IsPrefix(live, staging.base)

\* applyScript: commit in the worktree, fast-forward the live tree, remove the worktree.
CommitAndMerge(o) ==
  /\ live' = Append(staging.base, Change(o, staging.good))
  /\ staging' = NoStaging
  /\ UNCHANGED <<tracking, dirty, draft, main>>

\* Mutant: merged before the dependencies are linked.
MergeBeforeLinking(o) == IF CanMerge(o) THEN CommitAndMerge(o) ELSE UNCHANGED git

\* applyScript stops after the commit: linking dependencies failed, or the branch to merge is gone.
CommitOnly(o) ==
  /\ staging' = IF staging.branch = 0 THEN staging
                ELSE [staging EXCEPT !.base = Append(@, Change(o, staging.good))]
  /\ UNCHANGED <<live, tracking, dirty, draft, main>>

\* revertScript: undo HEAD with a commit that carries the same trailer.
RevertHead(o) ==
  /\ live' = Append(live, Revert(o))
  /\ UNCHANGED <<tracking, staging, dirty, draft, main>>

\* The script was cut short while it had package.json borrowed from another revision.
LeaveDirty ==
  /\ dirty' = TRUE
  /\ UNCHANGED <<live, tracking, staging, draft, main>>

\* Mutant: git push --force.
CanForce == TRUE

\* pushScript: GitHub takes HEAD only as a fast-forward of draft, and origin/draft follows.
CanPush == IsPrefix(draft, live)
PushDraft ==
  /\ draft' = live
  /\ tracking' = live
  /\ UNCHANGED <<live, staging, dirty, main>>

\* publishPushScript, never forced.
CanPublish(h) == IsPrefix(main, h)
PublishMain(h) ==
  /\ main' = h
  /\ UNCHANGED <<live, tracking, staging, dirty, draft>>

\* A new sandbox's clone of draft.
CloneDraft ==
  /\ live' = draft
  /\ tracking' = draft
  /\ staging' = NoStaging
  /\ dirty' = FALSE
  /\ UNCHANGED <<draft, main>>

\* The sandbox's disk is gone.
DropSandbox ==
  /\ live' = <<>>
  /\ tracking' = <<>>
  /\ staging' = NoStaging
  /\ dirty' = FALSE

=============================================================================
