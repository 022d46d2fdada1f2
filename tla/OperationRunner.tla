-------------------------- MODULE OperationRunner --------------------------
(***************************************************************************)
(* The safety net of one portfolio: OperationRunner and the queue consumer *)
(* that calls it (OperationsProcessor), with the lock they run under, the  *)
(* database rows they read and write, and the code they move (Workspace).  *)
(*                                                                         *)
(* A worker takes a job, takes the portfolio's lock, and runs every queued *)
(* operation, oldest first.  One action here is the code between two       *)
(* awaits on something another process, or a crash, can come between.      *)
(*                                                                         *)
(* The sandbox lifecycle is its own component; here it appears as the      *)
(* effect its lock-protected handlers have on the rows and the code.       *)
(***************************************************************************)
EXTENDS Workspace, FiniteSets

CONSTANTS
  Workers,          \* jobs processed at the same time
  Free, Dead,       \* the lock: nobody's, or a worker's that has died
  Types,            \* the types of operation that users submit
  Disturbances,     \* what the environment may do: see DisturbanceKinds
  MaxDisturbances,  \* how many times it may do so (a bound of the model)
  MaxAttempts       \* attempts of a job before it is dropped

OperationTypes == {"edit", "copilot", "integration", "publish"}

DisturbanceKinds ==
  { "thrown",      \* a call to the provider or GitHub throws before it has an effect
    "lost",        \* a call throws after it had its effect (a timeout, a lost connection)
    "refused",     \* GitHub refuses a push
    "crash",       \* a worker dies
    "lapse",       \* the lock's time to live ends while its holder is still working
    "sleep",       \* the provider pauses the sandbox at its own deadline
    "vanish",      \* the provider loses the sandbox
    "idle",        \* the sweep pauses an idle sandbox
    "stop",        \* a rebuild, or the sweep, destroys the sandbox
    "nostart",     \* a sandbox cannot be started
    "foreign" }    \* somebody pushes to GitHub without Plinth

ASSUME RunnerAssumption ==
  /\ Workers \cap {Free, Dead} = {}
  /\ Free # Dead
  /\ Types \subseteq OperationTypes
  /\ Disturbances \subseteq DisturbanceKinds
  /\ MaxDisturbances \in Nat
  /\ MaxAttempts \in Nat \ {0}

InProgress == {"staging", "checking", "applying"}
Finished   == {"applied", "rejected", "reverted", "failed"}
Statuses   == {"none", "queued"} \cup InProgress \cup Finished

VARIABLES
  \* the database
  status,       \* each operation's status ("none": not created yet)
  type,         \* each operation's type
  denied,       \* operations failed with a message that nothing changed
  installed,    \* operations whose onApplied transaction has run
  deployments,  \* publishes that have a deployment row
  row,          \* the sandbox row: "running", "paused" or "none" (nothing live)
  pendingPush,  \* the sandbox row's pending_push
  \* the queue
  job,          \* each operation's job: "none", "adding", "waiting", "active" or "gone"
  attempts,     \* its failed attempts
  stalled,      \* jobs whose worker died once
  pushJob,      \* the push retry: "none", "waiting" or "active"
  \* the lock and the provider
  lock,
  box,          \* the sandbox: "up", "asleep" or "none"
  \* the workers
  pc,           \* what each does next
  serving,      \* the operation whose job it took (0: the push retry, or none)
  run,          \* the locals of run() and publish()
  doomed,       \* the operations failQueued has read and not failed yet
  attached,     \* the sandbox row it read still names the provider's sandbox
  \* what the environment has done
  disturbed,
  \* history, read by no action
  built,        \* histories a production build succeeded on
  settled,      \* operations whose own run recorded them applied or reverted, with a commit
  vanished      \* the provider has lost a sandbox

ops     == <<status, type, denied, installed, deployments>>
sandbox == <<row, pendingPush, box>>
queue   == <<job, attempts, stalled, pushJob>>
stack   == <<serving, run, doomed, attached>>
ghosts  == <<built, settled, vanished>>
vars    == <<git, ops, sandbox, queue, lock, pc, stack, disturbed, ghosts>>

\* What the steps of a run leave alone, except where they say otherwise.
elsewhere == <<sandbox, queue, lock, serving, doomed, attached>>
records   == <<type, denied, installed, deployments>>

Labels ==
  { "idle", "drain", "recover", "next",
    "stage", "restage", "plan", "prepare", "check", "apply",
    "push", "pushed", "refused", "schedule", "health", "revert", "undone",
    "record", "finish", "noop", "reject", "fail", "followUps", "addFollowUp",
    "status", "build", "release", "deploy", "published",
    "pushJob", "ensure", "failQueued" }

\* "after": where push() returns to, or that an exception other than Plinth's own was thrown.
Run == [op : Ops \cup {0}, repaired : BOOLEAN, committed : BOOLEAN, head : History,
        after : {"none", "restage", "health", "undone", "pushJob", "thrown"}]
NoRun == [op |-> 0, repaired |-> FALSE, committed |-> FALSE, head |-> <<>>, after |-> "none"]

RowsTypeOK ==
  /\ status \in [Ops -> Statuses]
  /\ type \in [Ops -> OperationTypes]
  /\ denied \subseteq Ops
  /\ installed \subseteq Ops
  /\ deployments \subseteq Ops

SandboxTypeOK ==
  /\ row \in {"running", "paused", "none"}
  /\ pendingPush \in BOOLEAN
  /\ box \in {"up", "asleep", "none"}

QueueTypeOK ==
  /\ job \in [Ops -> {"none", "adding", "waiting", "active", "gone"}]
  /\ attempts \in [Ops -> Nat]
  /\ stalled \subseteq Ops
  /\ pushJob \in {"none", "waiting", "active"}

WorkersTypeOK ==
  /\ lock \in Workers \cup {Free, Dead}
  /\ pc \in [Workers -> Labels]
  /\ serving \in [Workers -> Ops \cup {0}]
  /\ run \in [Workers -> Run]
  /\ doomed \in [Workers -> SUBSET Ops]
  /\ attached \in [Workers -> BOOLEAN]

HistoryTypeOK ==
  /\ disturbed \in Nat
  /\ built \subseteq History
  /\ settled \subseteq Ops
  /\ vanished \in BOOLEAN

TypeOK ==
  /\ GitTypeOK
  /\ RowsTypeOK
  /\ SandboxTypeOK
  /\ QueueTypeOK
  /\ WorkersTypeOK
  /\ HistoryTypeOK

Init ==
  /\ GitInit
  /\ status = [o \in Ops |-> "none"]
  /\ type = [o \in Ops |-> "edit"]
  /\ denied = {} /\ installed = {} /\ deployments = {}
  /\ row = "none" /\ pendingPush = FALSE
  /\ job = [o \in Ops |-> "none"] /\ attempts = [o \in Ops |-> 0]
  /\ stalled = {} /\ pushJob = "none"
  /\ lock = Free /\ box = "none"
  /\ pc = [w \in Workers |-> "idle"]
  /\ serving = [w \in Workers |-> 0]
  /\ run = [w \in Workers |-> NoRun]
  /\ doomed = [w \in Workers |-> {}]
  /\ attached = [w \in Workers |-> FALSE]
  /\ disturbed = 0
  /\ built = {} /\ settled = {} /\ vanished = FALSE

----------------------------------------------------------------------------
(* Helpers. *)

Calm == UNCHANGED disturbed
Disturb(kind) ==
  /\ kind \in Disturbances
  /\ disturbed < MaxDisturbances
  /\ disturbed' = disturbed + 1

At(w, label) == pc[w] = label
Goto(w, label) == pc' = [pc EXCEPT ![w] = label]
SetStatus(o, s) == status' = [status EXCEPT ![o] = s]
Cur(w) == run[w].op

\* A call into the sandbox answers, throws with no effect (the sandbox is not running, or the
\* call fails), or throws after its effect.
Reachable(w) == box = "up" /\ attached[w]
Answers(w)   == Reachable(w) /\ Calm
Throws(w)    == IF Reachable(w) THEN Disturb("thrown") ELSE Calm
Loses(w)     == Reachable(w) /\ Disturb("lost")

\* An exception reaches run()'s catch: Plinth's own, or any other.
Abort(w) == Goto(w, "fail") /\ UNCHANGED run
Raise(w) == Goto(w, "fail") /\ run' = [run EXCEPT ![w].after = "thrown"]

Queued == {o \in Ops : status[o] = "queued"}
\* Mutant: a rejected operation counts as interrupted.
StuckOrRejected == {o \in Ops : status[o] \in InProgress \cup {"rejected"}}
Stuck  == {o \in Ops : status[o] \in InProgress}
\* Mutant: newest first.
IsNewest(o, S) == o \in S /\ \A p \in S : o >= p
IsOldest(o, S) == o \in S /\ \A p \in S : o <= p

HasWorktree == staging.branch # 0

\* The next operation to be created.
IsNew(o) == status[o] = "none" /\ \A p \in Ops : status[p] = "none" => o <= p

\* Mutant: SET without NX.
LockIsTaken == TRUE
\* SET NX: never waits, so a caller that finds the lock taken comes back later.
LockIsFree == lock = Free

\* Mutant: DEL without looking at the owner.
ReleaseAnyway(w) == lock' = Free /\ w \in Workers
\* RELEASE_IF_OWNER
Release(w) == lock' = IF lock = w THEN Free ELSE lock

\* The worker forgets everything it was doing.
Forget(w) ==
  /\ Goto(w, "idle")
  /\ serving' = [serving EXCEPT ![w] = 0]
  /\ run' = [run EXCEPT ![w] = NoRun]
  /\ doomed' = [doomed EXCEPT ![w] = {}]
  /\ attached' = [attached EXCEPT ![w] = FALSE]

SetJob(w, jobState, pushState) ==
  /\ job' = IF serving[w] = 0 THEN job ELSE [job EXCEPT ![serving[w]] = jobState]
  /\ pushJob' = IF serving[w] = 0 THEN pushState ELSE pushJob

\* The job is over and removed.
EndJob(w) ==
  /\ SetJob(w, "gone", "none")
  /\ Forget(w)
  /\ UNCHANGED <<attempts, stalled>>

\* Waiting for the lock or the sandbox: moved to delayed, which is not a failed attempt.
Later(w) ==
  /\ SetJob(w, "waiting", "waiting")
  /\ Forget(w)
  /\ UNCHANGED <<attempts, stalled>>

\* An exception leaves the processor: the job is retried while it has attempts left (the push
\* retry's attempts are not counted: it may or may not have one left).
JobFails(w) ==
  /\ Forget(w)
  /\ IF serving[w] = 0
     THEN /\ pushJob' \in {"waiting", "none"}
          /\ UNCHANGED <<job, attempts>>
     ELSE /\ attempts' = [attempts EXCEPT ![serving[w]] = @ + 1]
          /\ job' = [job EXCEPT ![serving[w]] =
                       IF attempts[serving[w]] + 1 < MaxAttempts THEN "waiting" ELSE "gone"]
          /\ UNCHANGED pushJob
  /\ UNCHANGED stalled

\* finish(), and back to drain's loop.
Conclude(w, s) ==
  /\ SetStatus(Cur(w), s)
  /\ run' = [run EXCEPT ![w] = NoRun]
  /\ Goto(w, "next")

----------------------------------------------------------------------------
(* The API and the queue. *)

\* enqueue: the row, then the job.  Two requests to publish can both find none queued before
\* either creates one, so the check in submitPublish excludes nothing.
Submit(o, t) ==
  /\ IsNew(o) /\ t \in Types
  /\ SetStatus(o, "queued")
  /\ type' = [type EXCEPT ![o] = t]
  /\ job' = [job EXCEPT ![o] = "adding"]
  /\ Calm
  /\ UNCHANGED <<git, denied, installed, deployments, sandbox, attempts, stalled, pushJob,
                 lock, pc, stack, ghosts>>

AddJob(o) ==
  /\ job[o] = "adding"
  /\ job' = [job EXCEPT ![o] = "waiting"]
  /\ Calm
  /\ UNCHANGED <<git, ops, sandbox, attempts, stalled, pushJob, lock, pc, stack, ghosts>>

\* The API process dies between the row and the job.
ApiDies(o) ==
  /\ job[o] = "adding"
  /\ Disturb("crash")
  /\ job' = [job EXCEPT ![o] = "none"]
  /\ UNCHANGED <<git, ops, sandbox, attempts, stalled, pushJob, lock, pc, stack, ghosts>>

\* A worker takes a job and the lock; a worker that finds the lock taken puts the job back.
TakeJob(w, o) ==
  /\ At(w, "idle") /\ job[o] = "waiting" /\ LockIsFree
  /\ job' = [job EXCEPT ![o] = "active"]
  /\ serving' = [serving EXCEPT ![w] = o]
  /\ lock' = w
  /\ Goto(w, "drain")
  /\ Calm
  /\ UNCHANGED <<git, ops, sandbox, attempts, stalled, pushJob, run, doomed, attached, ghosts>>

TakePushJob(w) ==
  /\ At(w, "idle") /\ pushJob = "waiting" /\ LockIsFree
  /\ pushJob' = "active"
  /\ lock' = w
  /\ Goto(w, "pushJob")
  /\ Calm
  /\ UNCHANGED <<git, ops, sandbox, job, attempts, stalled, stack, ghosts>>

----------------------------------------------------------------------------
(* drain. *)

Drain(w) ==
  /\ At(w, "drain")
  /\ Calm
  /\ IF row = "running"
     THEN /\ Goto(w, "recover")
          /\ attached' = [attached EXCEPT ![w] = TRUE]
          /\ UNCHANGED lock
     ELSE /\ Goto(w, "ensure")
          /\ Release(w)
          /\ UNCHANGED attached
  /\ UNCHANGED <<git, ops, sandbox, queue, serving, run, doomed, ghosts>>

\* The search for the commit failed or found none: both count as "not applied".
RecoverAs(w, o, s) ==
  /\ SetStatus(o, s)
  /\ denied' = IF s = "failed" THEN denied \cup {o} ELSE denied
  /\ UNCHANGED <<git, type, installed, deployments, elsewhere, pc, run, ghosts>>

Recover(w) ==
  /\ At(w, "recover")
  /\ \E o \in Stuck :
       /\ IsOldest(o, Stuck)
       /\ \/ Answers(w) /\ RecoverAs(w, o, IF Mentions(live, o) THEN "applied" ELSE "failed")
          \/ Throws(w) /\ RecoverAs(w, o, "failed")

\* Mutant: goes on without settling what was interrupted.
RecoversNothing(w) ==
  /\ At(w, "recover")
  /\ Goto(w, "next")
  /\ Calm
  /\ UNCHANGED <<git, ops, elsewhere, run, ghosts>>

Recovered(w) ==
  /\ At(w, "recover") /\ Stuck = {}
  /\ Goto(w, "next")
  /\ Calm
  /\ UNCHANGED <<git, ops, elsewhere, run, ghosts>>

NextOperation(w) ==
  /\ At(w, "next") /\ row = "running"
  /\ \E o \in Queued :
       /\ IsOldest(o, Queued)
       /\ SetStatus(o, "staging")
       /\ run' = [run EXCEPT ![w] = [NoRun EXCEPT !.op = o]]
  /\ attached' = [attached EXCEPT ![w] = TRUE]
  /\ Goto(w, "stage")
  /\ Calm
  /\ UNCHANGED <<git, records, sandbox, queue, lock, serving, doomed, ghosts>>

Drained(w) ==
  /\ At(w, "next") /\ Queued = {}
  /\ Release(w)
  /\ EndJob(w)
  /\ Calm
  /\ UNCHANGED <<git, ops, sandbox, ghosts>>

NotRunning(w) ==
  /\ At(w, "next") /\ Queued # {} /\ row # "running"
  /\ Release(w)
  /\ Goto(w, "ensure")
  /\ Calm
  /\ UNCHANGED <<git, ops, sandbox, queue, stack, ghosts>>

----------------------------------------------------------------------------
(* run: stage, plan, prepare, check. *)

\* Aborts when the tree is dirty or has diverged, when git fails, and before that when the input
\* is malformed.
Stage(w) ==
  /\ pc[w] \in {"stage", "restage"}
  /\ \/ /\ Answers(w) /\ CleanAtDraft
        /\ StageWorktree(Cur(w))
        /\ Goto(w, IF type[Cur(w)] = "publish" THEN "status" ELSE "plan")
        /\ UNCHANGED run
     \/ /\ Answers(w) /\ AheadOfDraft /\ At(w, "stage")
        /\ Goto(w, "push")
        /\ run' = [run EXCEPT ![w].after = "restage"]
        /\ UNCHANGED git
     \/ /\ Answers(w) /\ (AheadOfDraft => At(w, "restage"))
        /\ Abort(w)
        /\ UNCHANGED git
     \/ /\ At(w, "stage") /\ type[Cur(w)] # "publish" /\ Calm
        /\ Abort(w)
        /\ UNCHANGED git
     \/ Throws(w) /\ Raise(w) /\ UNCHANGED git
  /\ UNCHANGED <<ops, elsewhere, ghosts>>

\* The change to make: an edit's files, the copilot's or the integration planner's.
Plan(w) ==
  /\ At(w, "plan")
  /\ \/ /\ Answers(w) /\ HasWorktree
        /\ \E good \in BOOLEAN : Write(good)
        /\ Goto(w, "prepare")
        /\ UNCHANGED run
     \/ /\ Answers(w) /\ type[Cur(w)] # "edit"
        /\ \E answer \in {"noop", "reject"} : Goto(w, answer)
        /\ UNCHANGED <<git, run>>
     \/ Answers(w) /\ Abort(w) /\ UNCHANGED git
     \/ Throws(w) /\ Raise(w) /\ UNCHANGED git
  /\ UNCHANGED <<ops, elsewhere, ghosts>>

\* Dependencies and formatting.  After a repair, "no changes" is not expected and aborts.
Prepare(w) ==
  /\ At(w, "prepare")
  /\ \/ /\ Answers(w) /\ HasWorktree
        /\ SetStatus(Cur(w), "checking")
        /\ Goto(w, "check")
        /\ UNCHANGED run
     \/ /\ Answers(w)
        /\ \/ Goto(w, "reject") /\ UNCHANGED run
           \/ ~run[w].repaired /\ Goto(w, "noop") /\ UNCHANGED run
           \/ run[w].repaired /\ Abort(w)
        /\ UNCHANGED status
     \/ Throws(w) /\ Raise(w) /\ UNCHANGED status
  /\ UNCHANGED <<git, records, elsewhere, ghosts>>

\* Mutant: the verdict is not read.
ChecksRun == HasWorktree
\* plinth check and tsc over the worktree.
ChecksPass == HasWorktree /\ staging.good

\* The copilot repairs a change that fails the checks once.
Check(w) ==
  /\ At(w, "check")
  /\ \/ /\ Answers(w) /\ ChecksPass
        /\ SetStatus(Cur(w), "applying")
        /\ Goto(w, "apply")
        /\ UNCHANGED <<git, run>>
     \/ /\ Answers(w) /\ ~staging.good
        /\ type[Cur(w)] = "copilot" /\ ~run[w].repaired
        /\ SetStatus(Cur(w), "staging")
        /\ \E good \in BOOLEAN : Write(good)
        /\ run' = [run EXCEPT ![w].repaired = TRUE]
        /\ Goto(w, "prepare")
     \/ /\ Answers(w) /\ ~staging.good
        /\ Goto(w, "reject")
        /\ UNCHANGED <<git, status, run>>
     \/ Throws(w) /\ Raise(w) /\ UNCHANGED <<git, status>>
  /\ UNCHANGED <<records, elsewhere, ghosts>>

\* The worktree is gone from under a run that has lost the lock.
WorktreeMissing(w) ==
  /\ pc[w] \in {"plan", "prepare", "check", "build"} /\ ~HasWorktree
  /\ Answers(w)
  /\ Raise(w)
  /\ UNCHANGED <<git, ops, elsewhere, ghosts>>

----------------------------------------------------------------------------
(* run: apply, push, health, revert. *)

\* The live tree has the change as soon as the script reports its commit; a script that was cut
\* short may have stopped anywhere, and left package.json as the change has it.
Apply(w) ==
  /\ At(w, "apply")
  /\ \/ /\ Answers(w) /\ CanMerge(Cur(w))
        /\ CommitAndMerge(Cur(w))
        /\ run' = [run EXCEPT ![w] = [@ EXCEPT !.committed = TRUE, !.after = "health"]]
        /\ Goto(w, "push")
     \/ /\ Answers(w)
        /\ CommitOnly(Cur(w))
        /\ \/ Goto(w, "reject") /\ UNCHANGED run
           \/ Abort(w)
     \/ Loses(w) /\ CanMerge(Cur(w)) /\ CommitAndMerge(Cur(w)) /\ Raise(w)
     \/ Loses(w) /\ LeaveDirty /\ Raise(w)
     \/ Throws(w) /\ Raise(w) /\ UNCHANGED git
  /\ UNCHANGED <<ops, elsewhere, ghosts>>

\* An exception from push() other than PushFailedError.
PushThrows(w) ==
  IF run[w].after = "pushJob"
  THEN Release(w) /\ JobFails(w)
  ELSE Raise(w) /\ UNCHANGED <<queue, lock, serving, doomed, attached>>

Push(w) ==
  /\ At(w, "push")
  /\ \/ /\ Answers(w) /\ CanPush
        /\ PushDraft
        /\ Goto(w, "pushed")
        /\ UNCHANGED <<queue, lock, stack>>
     \/ /\ IF CanPush THEN Reachable(w) /\ Disturb("refused") ELSE Answers(w)
        /\ Goto(w, "refused")
        /\ UNCHANGED <<git, queue, lock, stack>>
     \/ Loses(w) /\ CanPush /\ PushDraft /\ PushThrows(w)
     \/ Throws(w) /\ PushThrows(w) /\ UNCHANGED git
  /\ UNCHANGED <<ops, sandbox, ghosts>>

\* Mutant: the push of a revert returns to the health check.
PushedTwice(w) ==
  /\ At(w, "pushed")
  /\ pendingPush' = FALSE
  /\ IF run[w].after = "pushJob"
     THEN Release(w) /\ EndJob(w)
     ELSE /\ Goto(w, IF run[w].after = "restage" THEN "restage" ELSE "health")
          /\ UNCHANGED <<queue, lock, stack>>
  /\ Calm
  /\ UNCHANGED <<git, ops, row, box, ghosts>>

Pushed(w) ==
  /\ At(w, "pushed")
  /\ pendingPush' = FALSE
  /\ IF run[w].after = "pushJob"
     THEN Release(w) /\ EndJob(w)
     ELSE Goto(w, run[w].after) /\ UNCHANGED <<queue, lock, stack>>
  /\ Calm
  /\ UNCHANGED <<git, ops, row, box, ghosts>>

\* The flag is set and PushFailedError thrown: pushOrSchedule catches it, the stage step and the
\* retry do not.
Refused(w) ==
  /\ At(w, "refused")
  /\ pendingPush' = TRUE
  /\ \/ /\ run[w].after = "pushJob"
        /\ Release(w) /\ JobFails(w)
     \/ /\ run[w].after = "restage"
        /\ Abort(w)
        /\ UNCHANGED <<queue, lock, serving, doomed, attached>>
     \/ /\ run[w].after \in {"health", "undone"}
        /\ Goto(w, "schedule")
        /\ UNCHANGED <<queue, lock, stack>>
  /\ Calm
  /\ UNCHANGED <<git, ops, row, box, ghosts>>

\* A retry that is already queued, or running, keeps its place: the job's id is the portfolio's.
Schedule(w) ==
  /\ At(w, "schedule")
  /\ pushJob' = IF pushJob = "none" THEN "waiting" ELSE pushJob
  /\ Goto(w, run[w].after)
  /\ Calm
  /\ UNCHANGED <<git, ops, sandbox, job, attempts, stalled, lock, stack, ghosts>>

Health(w) ==
  /\ At(w, "health")
  /\ \/ /\ Answers(w)
        /\ \/ Goto(w, "revert")
           \/ Goto(w, IF type[Cur(w)] = "integration" THEN "record" ELSE "finish")
        /\ UNCHANGED run
     \/ Throws(w) /\ Raise(w)
  /\ UNCHANGED <<git, ops, elsewhere, ghosts>>

\* Mutant: the exit code of the revert is not read.
RevertsOrNot(w) ==
  /\ At(w, "revert")
  /\ Answers(w)
  /\ RevertHead(Cur(w)) \/ UNCHANGED git
  /\ run' = [run EXCEPT ![w].after = "undone"]
  /\ Goto(w, "push")
  /\ UNCHANGED <<ops, elsewhere, ghosts>>

RevertChange(w) ==
  /\ At(w, "revert")
  /\ \/ /\ Answers(w)
        /\ RevertHead(Cur(w))
        /\ run' = [run EXCEPT ![w].after = "undone"]
        /\ Goto(w, "push")
     \/ Answers(w) /\ (UNCHANGED git \/ LeaveDirty) /\ Abort(w)
     \/ Loses(w) /\ (RevertHead(Cur(w)) \/ LeaveDirty) /\ Raise(w)
     \/ Throws(w) /\ Raise(w) /\ UNCHANGED git
  /\ UNCHANGED <<ops, elsewhere, ghosts>>

Undone(w) ==
  /\ At(w, "undone")
  /\ Conclude(w, "reverted")
  /\ settled' = settled \cup {Cur(w)}
  /\ Calm
  /\ UNCHANGED <<git, records, elsewhere, built, vanished>>

\* The integration planner's transaction: the installed_integrations row.
Record(w) ==
  /\ At(w, "record")
  /\ installed' = installed \cup {Cur(w)}
  /\ Goto(w, "finish")
  /\ Calm
  /\ UNCHANGED <<git, status, type, denied, deployments, elsewhere, run, ghosts>>

\* Finished as applied; a copilot's follow-ups are queued after it.
ConcludeApplied(w) ==
  IF type[Cur(w)] = "copilot"
  THEN SetStatus(Cur(w), "applied") /\ Goto(w, "followUps") /\ UNCHANGED run
  ELSE Conclude(w, "applied")

Finish(w) ==
  /\ At(w, "finish")
  /\ ConcludeApplied(w)
  /\ settled' = settled \cup {Cur(w)}
  /\ Calm
  /\ UNCHANGED <<git, records, elsewhere, built, vanished>>

----------------------------------------------------------------------------
(* run: the other endings. *)

\* Nothing to do: the worktree is thrown away, the operation is applied.
Noop(w) ==
  /\ At(w, "noop")
  /\ \/ Answers(w) /\ RemoveStaging /\ ConcludeApplied(w)
     \/ Throws(w) /\ Raise(w) /\ UNCHANGED <<git, status>>
  /\ UNCHANGED <<records, elsewhere, ghosts>>

\* run() returns reject()'s promise without awaiting it, so an exception from its discard passes
\* by run()'s catch and fails the job.
Reject(w) ==
  /\ At(w, "reject")
  /\ \/ /\ Answers(w) /\ RemoveStaging
        /\ Conclude(w, "rejected")
        /\ UNCHANGED <<queue, lock, serving, doomed, attached>>
     \/ /\ Throws(w)
        /\ Release(w) /\ JobFails(w)
        /\ UNCHANGED <<git, status>>
  /\ UNCHANGED <<records, sandbox, ghosts>>

\* Mutant: an operation that failed is queued again.
FailAndRetry(w) ==
  /\ At(w, "fail")
  /\ Answers(w) /\ RemoveStaging
  /\ Conclude(w, "queued")
  /\ UNCHANGED <<records, elsewhere, ghosts>>

\* The discard is best effort.  An exception other than Plinth's own is reported as "nothing
\* changed" unless the commit was reported first.
Fail(w) ==
  /\ At(w, "fail")
  /\ \/ Answers(w) /\ RemoveStaging
     \/ Throws(w) /\ UNCHANGED git
  /\ Conclude(w, "failed")
  /\ denied' = IF run[w].after = "thrown" /\ ~run[w].committed THEN denied \cup {Cur(w)} ELSE denied
  /\ UNCHANGED <<type, installed, deployments, elsewhere, ghosts>>

\* At most one follow-up (a bound of the model): an integration to install, recorded and queued.
FollowUps(w) ==
  /\ At(w, "followUps")
  /\ \/ /\ Goto(w, "next")
        /\ run' = [run EXCEPT ![w] = NoRun]
        /\ UNCHANGED <<status, type>>
     \/ \E o \in Ops :
          /\ IsNew(o)
          /\ SetStatus(o, "queued")
          /\ type' = [type EXCEPT ![o] = "integration"]
          /\ run' = [run EXCEPT ![w] = [NoRun EXCEPT !.op = o]]
          /\ Goto(w, "addFollowUp")
  /\ Calm
  /\ UNCHANGED <<git, denied, installed, deployments, elsewhere, ghosts>>

AddFollowUp(w) ==
  /\ At(w, "addFollowUp")
  /\ job' = [job EXCEPT ![Cur(w)] = "waiting"]
  /\ run' = [run EXCEPT ![w] = NoRun]
  /\ Goto(w, "next")
  /\ Calm
  /\ UNCHANGED <<git, ops, sandbox, attempts, stalled, pushJob, lock, serving, doomed, attached, ghosts>>

----------------------------------------------------------------------------
(* publish, after the stage step. *)

PublishStatus(w) ==
  /\ At(w, "status")
  /\ \/ /\ Answers(w) /\ ~CanPublish(live)
        /\ Abort(w) /\ UNCHANGED status
     \/ /\ Answers(w) /\ main = live
        /\ Goto(w, "noop") /\ UNCHANGED <<status, run>>
     \/ /\ Answers(w) /\ CanPublish(live) /\ main # live
        /\ run' = [run EXCEPT ![w].head = live]
        /\ SetStatus(Cur(w), "checking")
        /\ Goto(w, "build")
     \/ Throws(w) /\ Raise(w) /\ UNCHANGED status
  /\ UNCHANGED <<git, records, elsewhere, ghosts>>

\* Mutant: a failing build goes on to main.
BuildIgnored(w) ==
  /\ At(w, "build")
  /\ Answers(w) /\ HasWorktree
  /\ \/ built' = built \cup {staging.base}
     \/ UNCHANGED built
  /\ SetStatus(Cur(w), "applying")
  /\ Goto(w, "release")
  /\ UNCHANGED <<git, records, elsewhere, run, settled, vanished>>

\* A production build of the worktree.
Build(w) ==
  /\ At(w, "build")
  /\ \/ /\ Answers(w) /\ HasWorktree
        /\ built' = built \cup {staging.base}
        /\ SetStatus(Cur(w), "applying")
        /\ Goto(w, "release")
        /\ UNCHANGED run
     \/ /\ Answers(w) /\ HasWorktree
        /\ Goto(w, "reject")
        /\ UNCHANGED <<status, run, built>>
     \/ Throws(w) /\ Raise(w) /\ UNCHANGED <<status, built>>
  /\ UNCHANGED <<git, records, elsewhere, settled, vanished>>

\* publishPushScript.
ReleaseMain(w) ==
  /\ At(w, "release")
  /\ \/ /\ Answers(w) /\ CanPublish(run[w].head)
        /\ PublishMain(run[w].head)
        /\ Goto(w, "deploy")
        /\ UNCHANGED run
     \/ /\ IF CanPublish(run[w].head) THEN Reachable(w) /\ Disturb("refused") ELSE Answers(w)
        /\ Abort(w)
        /\ UNCHANGED git
     \/ /\ Loses(w) /\ CanPublish(run[w].head)
        /\ PublishMain(run[w].head)
        /\ Raise(w)
     \/ Throws(w) /\ Raise(w) /\ UNCHANGED git
  /\ UNCHANGED <<ops, elsewhere, built, settled, vanished>>

\* The worktree is discarded, best effort, and the deployment recorded.
Deploy(w) ==
  /\ At(w, "deploy")
  /\ \/ Answers(w) /\ RemoveStaging
     \/ Throws(w) /\ UNCHANGED git
  /\ deployments' = deployments \cup {Cur(w)}
  /\ Goto(w, "published")
  /\ UNCHANGED <<status, type, denied, installed, elsewhere, run, ghosts>>

\* Mutant: a status the schema does not have.
PublishedAsItself(w) ==
  /\ At(w, "published")
  /\ Conclude(w, "published")
  /\ Calm
  /\ UNCHANGED <<git, records, elsewhere, ghosts>>

Published(w) ==
  /\ At(w, "published")
  /\ Conclude(w, "applied")
  /\ Calm
  /\ UNCHANGED <<git, records, elsewhere, ghosts>>

----------------------------------------------------------------------------
(* The processor: the push retry, a sandbox that is not running. *)

PushJob(w) ==
  /\ At(w, "pushJob")
  /\ IF pendingPush /\ row = "running"
     THEN /\ run' = [run EXCEPT ![w].after = "pushJob"]
          /\ attached' = [attached EXCEPT ![w] = TRUE]
          /\ Goto(w, "push")
          /\ UNCHANGED <<queue, lock, serving, doomed>>
     ELSE Release(w) /\ EndJob(w)
  /\ Calm
  /\ UNCHANGED <<git, ops, sandbox, ghosts>>

\* ensureLoaded: keep a running sandbox, wake a sleeping one, or build one from draft.  A worker
\* that still holds the old sandbox's id can reach nothing with it.
BringUp ==
  /\ row' = "running" /\ box' = "up"
  /\ IF row = "none" \/ box = "none"
     THEN CloneDraft /\ attached' = [w \in Workers |-> FALSE]
     ELSE UNCHANGED <<git, attached>>

\* lifecycle.ensure takes the lock for itself: somebody else has it.
EnsureBusy(w) ==
  /\ At(w, "ensure") /\ ~LockIsFree
  /\ Later(w)
  /\ Calm
  /\ UNCHANGED <<git, ops, sandbox, lock, ghosts>>

\* The sandbox is brought up, and the job goes back to the queue for the queued operations.
Ensure(w) ==
  /\ At(w, "ensure") /\ LockIsFree
  /\ BringUp
  /\ Calm
  /\ SetJob(w, "waiting", "waiting")
  /\ Goto(w, "idle")
  /\ serving' = [serving EXCEPT ![w] = 0]
  /\ run' = [run EXCEPT ![w] = NoRun]
  /\ UNCHANGED <<ops, pendingPush, attempts, stalled, doomed, lock, ghosts>>

EnsureThrows(w) ==
  /\ At(w, "ensure") /\ LockIsFree
  /\ Disturb("thrown")
  /\ JobFails(w)
  /\ UNCHANGED <<git, ops, sandbox, lock, ghosts>>

\* A new sandbox cannot be bootstrapped; nothing is left of it.  failQueued then reads what is
\* queued.
EnsureFails(w) ==
  /\ At(w, "ensure") /\ LockIsFree
  /\ row = "none" \/ box = "none"
  /\ Disturb("nostart")
  /\ row' = "none" /\ box' = "none" /\ pendingPush' = FALSE
  /\ DropSandbox
  /\ doomed' = [doomed EXCEPT ![w] = Queued]
  /\ Goto(w, "failQueued")
  /\ UNCHANGED <<draft, main, ops, queue, serving, run, attached, lock, ghosts>>

\* One operation of those it read as queued, without the lock and whatever its status is by now.
FailQueued(w) ==
  /\ At(w, "failQueued")
  /\ IF doomed[w] = {}
     THEN EndJob(w) /\ UNCHANGED <<status, denied>>
     ELSE /\ \E o \in doomed[w] :
               /\ SetStatus(o, "failed")
               /\ denied' = denied \cup {o}
               /\ doomed' = [doomed EXCEPT ![w] = @ \ {o}]
          /\ UNCHANGED <<queue, pc, serving, run, attached>>
  /\ Calm
  /\ UNCHANGED <<git, type, installed, deployments, sandbox, lock, ghosts>>

----------------------------------------------------------------------------
(* What else happens to a worker and its lock. *)

\* The process dies: the lock stays until it expires, the job is taken up again once.
Crash(w) ==
  /\ ~At(w, "idle")
  /\ Disturb("crash")
  /\ lock' = IF lock = w THEN Dead ELSE lock
  /\ SetJob(w, IF serving[w] \in stalled THEN "gone" ELSE "waiting", "waiting")
  /\ stalled' = IF serving[w] = 0 THEN stalled ELSE stalled \cup {serving[w]}
  /\ Forget(w)
  /\ UNCHANGED <<git, ops, sandbox, attempts, ghosts>>

\* Mutant: SET without PX.
NeverExpires == FALSE /\ UNCHANGED vars

Expire ==
  /\ lock = Dead
  /\ lock' = Free
  /\ Calm
  /\ UNCHANGED <<git, ops, sandbox, queue, pc, stack, ghosts>>

\* Fifteen minutes are over and the holder is still working.
Lapse ==
  /\ lock \in Workers
  /\ Disturb("lapse")
  /\ lock' = Free
  /\ UNCHANGED <<git, ops, sandbox, queue, pc, stack, ghosts>>

----------------------------------------------------------------------------
(* The sandbox lifecycle, each handler under the lock. *)

\* A visit, a wake: ensure.
Visit ==
  /\ LockIsFree
  /\ row # "running" \/ box # "up"
  /\ BringUp
  /\ Calm
  /\ UNCHANGED <<ops, pendingPush, queue, lock, pc, serving, run, doomed, ghosts>>

\* Mutant: the flag is cleared whether or not the push succeeds.
FlushClears == pendingPush' = FALSE /\ UNCHANGED git

\* flush: an unpushed commit is pushed when the row says there is one.
Flush ==
  IF pendingPush /\ CanPush
  THEN PushDraft /\ pendingPush' = FALSE
  ELSE UNCHANGED <<git, pendingPush>>

\* The sweep's idle pause; a failed flush does not stop it.
Pause ==
  /\ LockIsFree /\ row = "running" /\ box = "up"
  /\ Disturb("idle")
  /\ row' = "paused" /\ box' = "asleep"
  /\ Flush \/ UNCHANGED <<git, pendingPush>>
  /\ UNCHANGED <<ops, queue, lock, pc, stack, ghosts>>

\* The sweep finds that the provider paused or lost the sandbox of a running row.
Reconcile ==
  /\ LockIsFree /\ row = "running" /\ box # "up"
  /\ row' = IF box = "asleep" THEN "paused" ELSE "none"
  /\ Calm
  /\ UNCHANGED <<git, ops, pendingPush, box, queue, lock, pc, stack, ghosts>>

\* Mutant: destroys whatever the flag says.
NeverFlushes == TRUE
NothingToFlush == ~pendingPush \/ box = "none"

\* stop: a rebuild, or the sweep, destroys the sandbox.  Flagged work is pushed first, and if
\* that fails nothing is destroyed (but the sandbox has been resumed to try).
Stop ==
  /\ LockIsFree /\ row # "none"
  /\ Disturb("stop")
  /\ \/ /\ NothingToFlush
        /\ DropSandbox
        /\ row' = "none" /\ box' = "none"
        /\ UNCHANGED <<pendingPush, draft, main>>
     \/ /\ ~NothingToFlush /\ CanPush
        /\ draft' = live
        /\ DropSandbox
        /\ row' = "none" /\ box' = "none" /\ pendingPush' = FALSE
        /\ UNCHANGED main
     \/ /\ ~NothingToFlush
        /\ box' = "up"
        /\ UNCHANGED <<git, row, pendingPush>>
  /\ UNCHANGED <<ops, queue, lock, pc, stack, ghosts>>

----------------------------------------------------------------------------
(* The provider and GitHub. *)

Sleep ==
  /\ box = "up"
  /\ Disturb("sleep")
  /\ box' = "asleep"
  /\ UNCHANGED <<git, ops, row, pendingPush, queue, lock, pc, stack, ghosts>>

Vanish ==
  /\ box # "none"
  /\ Disturb("vanish")
  /\ box' = "none"
  /\ DropSandbox
  /\ vanished' = TRUE
  /\ UNCHANGED <<draft, main, ops, row, pendingPush, queue, lock, pc, stack, built, settled>>

ForeignPush ==
  /\ Disturb("foreign")
  /\ \/ draft' = Append(draft, Foreign) /\ UNCHANGED main
     \/ main' = Append(main, Foreign) /\ UNCHANGED draft
  /\ UNCHANGED <<sandboxGit, ops, sandbox, queue, lock, pc, stack, ghosts>>

----------------------------------------------------------------------------
(* The specification. *)

Work(w) ==
  \/ Drain(w) \/ Recover(w) \/ Recovered(w)
  \/ NextOperation(w) \/ Drained(w) \/ NotRunning(w)
  \/ Stage(w) \/ Plan(w) \/ Prepare(w) \/ Check(w) \/ WorktreeMissing(w)
  \/ Apply(w) \/ Push(w) \/ Pushed(w) \/ Refused(w) \/ Schedule(w)
  \/ Health(w) \/ RevertChange(w) \/ Undone(w) \/ Record(w) \/ Finish(w)
  \/ Noop(w) \/ Reject(w) \/ Fail(w) \/ FollowUps(w) \/ AddFollowUp(w)
  \/ PublishStatus(w) \/ Build(w) \/ ReleaseMain(w) \/ Deploy(w) \/ Published(w)
  \/ PushJob(w) \/ EnsureBusy(w) \/ Ensure(w) \/ EnsureThrows(w) \/ EnsureFails(w)
  \/ FailQueued(w)

Lifecycle == Visit \/ Pause \/ Reconcile \/ Stop

Outside == Sleep \/ Vanish \/ ForeignPush

Next ==
  \/ \E o \in Ops, t \in OperationTypes : Submit(o, t)
  \/ \E o \in Ops : AddJob(o) \/ ApiDies(o)
  \/ \E w \in Workers, o \in Ops : TakeJob(w, o)
  \/ \E w \in Workers : TakePushJob(w) \/ Work(w) \/ Crash(w)
  \/ Expire \/ Lapse
  \/ Lifecycle
  \/ Outside

Spec == Init /\ [][Next]_vars

\* A worker goes on with what it is doing, and Redis expires a dead worker's lock.  A job that is
\* due, and a worker about to start the sandbox, find the lock free in the end if it is free again
\* and again: both come back every two seconds, and looking takes the others milliseconds.
Fairness ==
  /\ \A o \in Ops : WF_vars(AddJob(o))
  /\ \A o \in Ops : SF_vars(\E w \in Workers : TakeJob(w, o))
  /\ \A w \in Workers : WF_vars(Work(w)) /\ SF_vars(Ensure(w))
  /\ WF_vars(Expire)

FairSpec == Spec /\ Fairness

----------------------------------------------------------------------------
(* Properties. *)

\* "Nothing reaches the live tree until both checks pass" (run): every change in the live tree,
\* on draft and on main is one whose files passed plinth check and tsc.
LiveIsChecked ==
  \A h \in {live, draft, main} : \A i \in DOMAIN h : h[i].good

\* "Runs a portfolio's queued operations one at a time" (drain): never two in progress, across
\* workers, retries and recoveries.
OneInProgress == \A o, p \in Stuck : o = p

\* The operation a worker is running is in progress: nobody else has concluded it ("The lock is
\* held, so nothing else is running it", recoverInterrupted).
RunningLabels == Labels \ {"idle", "drain", "recover", "next", "followUps", "addFollowUp",
                           "pushJob", "ensure", "failQueued"}
RunsItsOwn ==
  \A w \in Workers :
    pc[w] \in RunningLabels /\ run[w].op # 0 => status[run[w].op] \in InProgress

\* "Oldest first" (drain): changes land in the order their operations were created, through
\* failures, recoveries and rebuilds of the sandbox.
CommitsInOrder ==
  \A i, j \in DOMAIN live :
    i < j /\ live[i].kind = "change" /\ live[j].kind = "change" => live[i].op < live[j].op

\* "Undoes the last commit" (revertScript reverts HEAD): a revert directly follows the change of
\* the operation it names, so it never undoes somebody else's.
UndoMatches ==
  \A h \in {live, draft, main} : \A i \in DOMAIN h :
    h[i].kind = "revert" => i > 1 /\ h[i - 1] = Change(h[i].op, TRUE)

\* "The live tree and the preview never saw the change" (reject): no branch ever holds a commit
\* of a rejected operation.
RejectedNeverLands ==
  \A o \in Ops : status[o] = "rejected" =>
    \A h \in {live, draft, main} : ~Mentions(h, o)

\* What the live tree, draft and main hold is a history of operations: in order, undone exactly,
\* and without those that the checks rejected.
HistoryIsTrue == CommitsInOrder /\ UndoMatches /\ RejectedNeverLands

\* "The sandbox won't be destroyed before it lands" (pushOrSchedule): a change whose run ended
\* as applied or reverted is on draft, or is in the live tree with pending_push set; only a
\* provider that loses the sandbox can lose it.
SettledWorkIsSafe ==
  vanished \/ \A o \in settled : Mentions(draft, o) \/ (pendingPush /\ Mentions(live, o))

\* "A render failure is reverted" (run): a change recorded as reverted shows neither in the live
\* tree nor on draft, unless its revert is still flagged for pushing.
RevertedIsUndone ==
  vanished \/ \A o \in Ops : status[o] = "reverted" =>
                ~Shows(live, o) /\ (pendingPush \/ ~Shows(draft, o))

\* An integration is recorded as installed only with its code in place.
InstalledIsInCode ==
  vanished \/ \A o \in installed : Shows(draft, o) \/ (pendingPush /\ Shows(live, o))

\* What the rows say is so: of an operation that is running, of one that was undone, of an
\* integration that was installed.
RecordsAreTrue == RunsItsOwn /\ RevertedIsUndone /\ InstalledIsInCode

\* "What is published is exactly what is on draft" (publish): unless somebody pushed to main
\* directly, main is a point in draft's history, even if the sandbox was ahead of draft.
PublishedIsOnDraft == (\E i \in DOMAIN main : main[i] = Foreign) \/ IsPrefix(main, draft)

\* "main only moves after a production build of that exact commit succeeded" (publish).
MainIsBuilt ==
  [][ main' # main /\ Last(main') # Foreign => main' \in built ]_vars

\* A finished operation stays as it was recorded: no late worker, retry or recovery changes it.
FinishedIsFinal ==
  [][ \A o \in Ops : status[o] \in Finished => status'[o] = status[o] ]_vars

\* "Never forced" (publishPushScript), and pushScript without --force: whatever happens, both
\* branches on GitHub only ever grow, and somebody else's commit there survives.
NeverForced == [][ IsPrefix(draft, draft') /\ IsPrefix(main, main') ]_<<draft, main>>

\* RELEASE_IF_OWNER: a worker's lock changes hands only by its own step, its death or the end of
\* the lock's time to live; a worker that lost the lock never frees the next holder's.
ReleaseOnlyOwn ==
  [][ \A w \in Workers :
        lock = w /\ lock' # w => pc'[w] # pc[w] \/ disturbed' # disturbed ]_vars

\* "One job per operation, so none is ever stranded" (operations.constants): an operation whose
\* job has been queued is concluded.
EveryOperationFinishes ==
  \A o \in Ops : job[o] = "waiting" ~> status[o] \in Finished

----------------------------------------------------------------------------
(* Refinement. *)

Phase(s) == CASE s = "none" -> "unborn"
              [] s = "queued" -> "waiting"
              [] s \in InProgress -> "working"
              [] s \in Finished -> "done"

CheckedChange(o) == Change(o, TRUE)

Net == INSTANCE SafetyNet WITH
  Landed <- CheckedChange, Undoing <- Revert, Outside <- Foreign,
  phase <- [o \in Ops |-> Phase(status[o])],
  preview <- live, saved <- draft, site <- main

\* Every run of this module, seen through its rows and branches, is a run of SafetyNet: retries,
\* recoveries, rebuilds and lost answers add nothing that the promise does not allow.
ImplementsSafetyNet == Net!NetSpec

----------------------------------------------------------------------------
(* What the repository says and the code does not keep. *)

\* "Nothing is lost: the repository is the source of truth" (rebuild), "destroying a sandbox
\* refuses to proceed until the push succeeds" (DEVELOPMENT_PHASES): destroying a sandbox that
\* still runs leaves on draft every operation recorded as applied that its live tree held.
StopLosesNothing ==
  [][ row # "none" /\ row' = "none" /\ box # "none" =>
        \A o \in Ops : status[o] = "applied" /\ Mentions(live, o) => Mentions(draft', o) ]_vars

\* "A render failure is reverted" and recorded so (status reverted, DEVELOPMENT_PHASES): a change
\* recorded as applied has not been undone.
AppliedIsShown ==
  \A o \in Ops : status[o] = "applied" /\ Mentions(live, o) => Shows(live, o)

=============================================================================
