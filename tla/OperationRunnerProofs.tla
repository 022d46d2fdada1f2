----------------------- MODULE OperationRunnerProofs -----------------------
(***************************************************************************)
(* What OperationRunner keeps for every number of operations and workers,  *)
(* every choice of disturbances and any number of them, in three parts:    *)
(* the types and the lock, the branches' histories, and the rows that say  *)
(* what became of the code.                                                *)
(***************************************************************************)
EXTENDS OperationRunner, TLAPS, SequenceTheorems

----------------------------------------------------------------------------
(***************************************************************************)
(* Part 1, the types, the lock and the checks:                             *)
(*   TypeCorrect         the types, and that a step finds its locals set   *)
(*   LockExcludes        one worker in a locked section (Mutex)            *)
(*   OneAtATime          one operation in progress (SoleInv)               *)
(*   OnlyCheckedChanges  only checked changes on any branch (CheckedInv)   *)
(*   ReleasesOnlyOwn     a lock is released by its holder (HolderInside)   *)
(*   NothingIsForced     draft and main on GitHub only grow                *)
(* LockExcludes, OneAtATime and OnlyCheckedChanges are false, and assumed  *)
(* away, if a lock lapses under its holder.                                *)
(*                                                                         *)
(* TypeOK is not inductive as it stands: an installed, settled or deployed *)
(* operation is one only because a run at the label that records it has an *)
(* operation, and the label push() returns to is one only because it was   *)
(* set before the push.  LocalsOK says so, and TypeInv is both.  One lemma *)
(* per part of TypeOK goes through the actions that change the part; the   *)
(* others leave it alone.  SoleInv and CheckedInv are inductive relative   *)
(* to Mutex, and everything relative to TypeInv.  Each is shown for the    *)
(* step of one worker first, and then for the others, who are out of the   *)
(* locked section while it is in it.                                       *)
(***************************************************************************)

----------------------------------------------------------------------------
(* Commits, histories and the worktree. *)

LEMMA CommitTypes ==
  /\ \A o \in Ops \cup {0}, good \in BOOLEAN : Change(o, good) \in Commit
  /\ \A o \in Ops \cup {0} : Revert(o) \in Commit
  /\ Foreign \in Commit
  BY DEF Change, Revert, Foreign, Commit

LEMMA AppendType ==
  ASSUME NEW h \in History, NEW c \in Commit
  PROVE  Append(h, c) \in History
  BY DEF History

LEMMA EmptyType == <<>> \in History
  BY DEF History

LEMMA NoStagingType == NoStaging \in Staging
  BY EmptyType DEF NoStaging, Staging

LEMMA StagingFields ==
  ASSUME GitTypeOK
  PROVE  /\ staging.branch \in Ops \cup {0}
         /\ staging.base \in History
         /\ staging.good \in BOOLEAN
  BY DEF GitTypeOK, Staging

\* Every script leaves the branches histories and the worktree a worktree.
LEMMA ScriptTypes ==
  ASSUME GitTypeOK
  PROVE  /\ UNCHANGED git => GitTypeOK'
         /\ \A o \in Ops \cup {0} :
              StageWorktree(o) \/ CommitAndMerge(o) \/ CommitOnly(o) \/ RevertHead(o) => GitTypeOK'
         /\ \A good \in BOOLEAN : Write(good) => GitTypeOK'
         /\ RemoveStaging \/ LeaveDirty \/ PushDraft \/ CloneDraft => GitTypeOK'
         /\ \A h \in History : PublishMain(h) => GitTypeOK'
<1>1. UNCHANGED git => GitTypeOK'
  BY DEF git, GitTypeOK
<1>2. ASSUME NEW o \in Ops \cup {0}, StageWorktree(o) PROVE GitTypeOK'
  BY <1>2 DEF StageWorktree, GitTypeOK, Staging
<1>3. ASSUME NEW o \in Ops \cup {0} PROVE Append(staging.base, Change(o, staging.good)) \in History
  BY CommitTypes, AppendType, StagingFields
<1>4. ASSUME NEW o \in Ops \cup {0}, CommitAndMerge(o) PROVE GitTypeOK'
  BY <1>3, <1>4, NoStagingType DEF GitTypeOK, CommitAndMerge
<1>5. ASSUME NEW o \in Ops \cup {0}, CommitOnly(o) PROVE GitTypeOK'
  <2>1. [staging EXCEPT !.base = Append(staging.base, Change(o, staging.good))] \in Staging
    BY <1>3, StagingFields DEF GitTypeOK, Staging
  <2> QED
    BY <1>5, <2>1 DEF GitTypeOK, CommitOnly
<1>6. ASSUME NEW o \in Ops \cup {0}, RevertHead(o) PROVE GitTypeOK'
  BY <1>6, CommitTypes, AppendType DEF RevertHead, GitTypeOK
<1>7. ASSUME NEW good \in BOOLEAN, Write(good) PROVE GitTypeOK'
  BY <1>7 DEF Write, GitTypeOK, Staging
<1>8. RemoveStaging \/ LeaveDirty \/ PushDraft \/ CloneDraft => GitTypeOK'
  BY NoStagingType DEF RemoveStaging, LeaveDirty, PushDraft, CloneDraft, GitTypeOK
<1>9. ASSUME NEW h \in History, PublishMain(h) PROVE GitTypeOK'
  BY <1>9 DEF PublishMain, GitTypeOK
<1> QED
  BY <1>1, <1>2, <1>4, <1>5, <1>6, <1>7, <1>8, <1>9

LEMMA DropSandboxType ==
  ASSUME GitTypeOK, DropSandbox, draft' \in History, main' \in History
  PROVE  GitTypeOK'
  BY EmptyType, NoStagingType DEF DropSandbox, GitTypeOK

LEMMA BringUpType ==
  ASSUME GitTypeOK, BringUp
  PROVE  GitTypeOK'
  BY ScriptTypes DEF BringUp

----------------------------------------------------------------------------
(* The types. *)

PushLabels == {"push", "pushed", "refused"}

\* What the locals of a run can be: push() knows where it returns to, and every step of a run but
\* the push retry's has an operation.
LocalOK(label, r) ==
  /\ label \in PushLabels => r.after \in {"restage", "health", "undone", "pushJob"}
  /\ label = "schedule" => r.after \in {"health", "undone"}
  /\ r.after = "pushJob" => label \in PushLabels
  /\ label \in RunningLabels /\ r.after # "pushJob" => r.op # 0

LocalsOK == \A w \in Workers : LocalOK(pc[w], run[w])

TypeInv == TypeOK /\ LocalsOK

\* The operation of a run, at the labels where it is used.
LEMMA CurTypes ==
  ASSUME TypeInv, NEW w \in Workers
  PROVE  /\ Cur(w) \in Ops \cup {0}
         /\ run[w].head \in History
         /\ pc[w] \in RunningLabels \ PushLabels => Cur(w) \in Ops
  BY DEF TypeInv, TypeOK, WorkersTypeOK, LocalsOK, LocalOK, Cur, Run, RunningLabels, PushLabels, Labels

LEMMA GitTypeKept ==
  ASSUME TypeInv, [Next]_vars
  PROVE  GitTypeOK'
<1> USE DEF TypeInv, TypeOK
<1>1. ASSUME NEW w \in Workers, Stage(w) PROVE GitTypeOK'
  BY <1>1, CurTypes, ScriptTypes DEF Stage
<1>2. ASSUME NEW w \in Workers, Plan(w) \/ Check(w) PROVE GitTypeOK'
  BY <1>2, ScriptTypes DEF Plan, Check
<1>3. ASSUME NEW w \in Workers, Apply(w) PROVE GitTypeOK'
  BY <1>3, CurTypes, ScriptTypes DEF Apply
<1>4. ASSUME NEW w \in Workers, Push(w) PROVE GitTypeOK'
  BY <1>4, ScriptTypes DEF Push
<1>5. ASSUME NEW w \in Workers, RevertChange(w) PROVE GitTypeOK'
  BY <1>5, CurTypes, ScriptTypes DEF RevertChange
<1>6. ASSUME NEW w \in Workers, Noop(w) \/ Reject(w) \/ Fail(w) \/ Deploy(w) PROVE GitTypeOK'
  BY <1>6, ScriptTypes DEF Noop, Reject, Fail, Deploy
<1>7. ASSUME NEW w \in Workers, ReleaseMain(w) PROVE GitTypeOK'
  BY <1>7, CurTypes, ScriptTypes DEF ReleaseMain
<1>8. ASSUME NEW w \in Workers, Ensure(w) PROVE GitTypeOK'
  BY <1>8, BringUpType DEF Ensure
<1>9. ASSUME NEW w \in Workers, EnsureFails(w) PROVE GitTypeOK'
  BY <1>9, DropSandboxType DEF EnsureFails, GitTypeOK
<1>10. ASSUME Visit PROVE GitTypeOK'
  BY <1>10, BringUpType DEF Visit
<1>11. ASSUME Pause PROVE GitTypeOK'
  BY <1>11, ScriptTypes DEF Pause, Flush
<1>12. ASSUME Stop PROVE GitTypeOK'
  BY <1>12, ScriptTypes, DropSandboxType DEF Stop, GitTypeOK
<1>13. ASSUME Vanish PROVE GitTypeOK'
  BY <1>13, DropSandboxType DEF Vanish, GitTypeOK
<1>14. ASSUME ForeignPush PROVE GitTypeOK'
  BY <1>14, CommitTypes, AppendType DEF ForeignPush, GitTypeOK, sandboxGit
<1>15. UNCHANGED git => GitTypeOK'
  BY ScriptTypes
<1>16. CASE \E o \in Ops : (\E t \in OperationTypes : Submit(o, t)) \/ AddJob(o) \/ ApiDies(o)
  BY <1>15, <1>16 DEF Submit, AddJob, ApiDies
<1>17. CASE \E w \in Workers : TakePushJob(w) \/ Crash(w) \/ \E o \in Ops : TakeJob(w, o)
  BY <1>15, <1>17 DEF TakePushJob, TakeJob, Crash
<1>18. CASE Expire \/ Lapse \/ Reconcile \/ Sleep
  BY <1>15, <1>18 DEF Expire, Lapse, Reconcile, Sleep
<1>19. ASSUME NEW w \in Workers,
              \/ Drain(w) \/ Recover(w) \/ Recovered(w) \/ NextOperation(w) \/ Drained(w)
              \/ NotRunning(w) \/ Prepare(w) \/ WorktreeMissing(w) \/ Pushed(w) \/ Refused(w)
              \/ Schedule(w) \/ Health(w) \/ Undone(w) \/ Record(w) \/ Finish(w)
       PROVE  GitTypeOK'
  BY <1>15, <1>19 DEF Drain, Recover, RecoverAs, Recovered, NextOperation, Drained, NotRunning,
       Prepare, WorktreeMissing, Pushed, Refused, Schedule, Health, Undone, Record, Finish
<1>20. ASSUME NEW w \in Workers,
              \/ FollowUps(w) \/ AddFollowUp(w) \/ PublishStatus(w) \/ Build(w) \/ Published(w)
              \/ PushJob(w) \/ EnsureBusy(w) \/ EnsureThrows(w) \/ FailQueued(w)
       PROVE  GitTypeOK'
  BY <1>15, <1>20 DEF FollowUps, AddFollowUp, PublishStatus, Build, Published, PushJob,
       EnsureBusy, EnsureThrows, FailQueued
<1>21. CASE UNCHANGED vars
  BY <1>15, <1>21 DEF vars
<1> QED
  BY <1>1, <1>2, <1>3, <1>4, <1>5, <1>6, <1>7, <1>8, <1>9, <1>10, <1>11, <1>12, <1>13, <1>14,
     <1>16, <1>17, <1>18, <1>19, <1>20, <1>21 DEF Next, Work, Lifecycle, Outside

LEMMA RowsTypeKept ==
  ASSUME TypeInv, [Next]_vars
  PROVE  RowsTypeOK'
<1> USE DEF TypeInv, TypeOK
<1>1. UNCHANGED ops => RowsTypeOK'
  BY DEF RowsTypeOK, ops
<1>2. ASSUME NEW o \in Ops, NEW s \in Statuses, SetStatus(o, s), UNCHANGED records PROVE RowsTypeOK'
  BY <1>2 DEF RowsTypeOK, SetStatus, records
<1>3. {"queued", "staging", "checking", "applying", "applied", "rejected", "reverted", "failed"}
         \subseteq Statuses
  BY DEF Statuses, InProgress, Finished
<1>4. ASSUME NEW o \in Ops, NEW t \in OperationTypes, Submit(o, t) PROVE RowsTypeOK'
  BY <1>3, <1>4 DEF RowsTypeOK, Submit, SetStatus
<1>5. ASSUME NEW w \in Workers, Recover(w) PROVE RowsTypeOK'
  BY <1>3, <1>5 DEF RowsTypeOK, Recover, RecoverAs, SetStatus, Stuck
<1>6. ASSUME NEW w \in Workers, NextOperation(w) PROVE RowsTypeOK'
  BY <1>2, <1>3, <1>6 DEF NextOperation, Queued
<1>7. ASSUME NEW w \in Workers, Prepare(w) \/ Check(w) \/ PublishStatus(w) \/ Build(w) \/ Undone(w)
                                \/ Finish(w) \/ Noop(w) \/ Reject(w) \/ Published(w)
      PROVE  RowsTypeOK'
  <2>1. Cur(w) \in Ops
    BY <1>7, CurTypes DEF Prepare, Check, PublishStatus, Build, Undone, Finish, Noop, Reject,
         Published, At, RunningLabels, PushLabels, Labels
  <2>2. \/ UNCHANGED ops
        \/ UNCHANGED records /\ \E s \in {"staging", "checking", "applying", "applied", "rejected",
                                          "reverted"} : SetStatus(Cur(w), s)
    BY <1>7 DEF Prepare, Check, PublishStatus, Build, Undone, Finish, Noop, Reject, Published,
         Conclude, ConcludeApplied, ops, records
  <2> QED
    BY <1>1, <1>2, <1>3, <2>1, <2>2
<1>8. ASSUME NEW w \in Workers, Record(w) PROVE RowsTypeOK'
  BY <1>8, CurTypes DEF RowsTypeOK, Record, At, RunningLabels, PushLabels, Labels
<1>9. ASSUME NEW w \in Workers, Fail(w) PROVE RowsTypeOK'
  BY <1>3, <1>9, CurTypes
     DEF RowsTypeOK, Fail, Conclude, SetStatus, At, RunningLabels, PushLabels, Labels
<1>10. ASSUME NEW w \in Workers, FollowUps(w) PROVE RowsTypeOK'
  BY <1>3, <1>10 DEF RowsTypeOK, FollowUps, SetStatus, OperationTypes
<1>11. ASSUME NEW w \in Workers, Deploy(w) PROVE RowsTypeOK'
  BY <1>11, CurTypes DEF RowsTypeOK, Deploy, At, RunningLabels, PushLabels, Labels
<1>12. ASSUME NEW w \in Workers, FailQueued(w) PROVE RowsTypeOK'
  BY <1>3, <1>12 DEF RowsTypeOK, FailQueued, SetStatus, WorkersTypeOK
<1>13. CASE \E o \in Ops : AddJob(o) \/ ApiDies(o)
  BY <1>1, <1>13 DEF AddJob, ApiDies
<1>14. CASE \E w \in Workers : TakePushJob(w) \/ Crash(w) \/ \E o \in Ops : TakeJob(w, o)
  BY <1>1, <1>14 DEF TakePushJob, TakeJob, Crash
<1>15. CASE Expire \/ Lapse \/ Lifecycle \/ Outside
  BY <1>1, <1>15 DEF Expire, Lapse, Lifecycle, Visit, Pause, Reconcile, Stop, Outside, Sleep, Vanish,
       ForeignPush
<1>16. ASSUME NEW w \in Workers,
              \/ Drain(w) \/ Recovered(w) \/ Drained(w) \/ NotRunning(w) \/ Stage(w) \/ Plan(w)
              \/ WorktreeMissing(w) \/ Apply(w) \/ Push(w) \/ Pushed(w) \/ Refused(w) \/ Schedule(w)
       PROVE  RowsTypeOK'
  BY <1>1, <1>16 DEF Drain, Recovered, Drained, NotRunning, Stage, Plan, WorktreeMissing, Apply,
       Push, Pushed, Refused, Schedule
<1>17. ASSUME NEW w \in Workers,
              \/ Health(w) \/ RevertChange(w) \/ AddFollowUp(w) \/ ReleaseMain(w) \/ PushJob(w)
              \/ EnsureBusy(w) \/ Ensure(w) \/ EnsureThrows(w) \/ EnsureFails(w)
       PROVE  RowsTypeOK'
  BY <1>1, <1>17 DEF Health, RevertChange, AddFollowUp, ReleaseMain, PushJob, EnsureBusy, Ensure,
       EnsureThrows, EnsureFails
<1>18. CASE UNCHANGED vars
  BY <1>1, <1>18 DEF vars
<1> QED
  BY <1>4, <1>5, <1>6, <1>7, <1>8, <1>9, <1>10, <1>11, <1>12, <1>13, <1>14, <1>15, <1>16, <1>17,
     <1>18 DEF Next, Work

LEMMA SandboxTypeKept ==
  ASSUME TypeInv, [Next]_vars
  PROVE  SandboxTypeOK'
<1> USE DEF TypeInv, TypeOK
<1>1. UNCHANGED sandbox => SandboxTypeOK'
  BY DEF SandboxTypeOK, sandbox
<1>2. ASSUME NEW w \in Workers, Pushed(w) \/ Refused(w) \/ Ensure(w) \/ EnsureFails(w)
      PROVE  SandboxTypeOK'
  BY <1>2 DEF SandboxTypeOK, Pushed, Refused, Ensure, EnsureFails, BringUp
<1>3. CASE Lifecycle \/ Outside
  BY <1>3 DEF SandboxTypeOK, sandbox, Lifecycle, Visit, BringUp, Pause, Flush, Reconcile, Stop, Outside,
       Sleep, Vanish, ForeignPush
<1>4. CASE \E o \in Ops : (\E t \in OperationTypes : Submit(o, t)) \/ AddJob(o) \/ ApiDies(o)
  BY <1>1, <1>4 DEF Submit, AddJob, ApiDies
<1>5. CASE \/ \E w \in Workers : TakePushJob(w) \/ Crash(w) \/ \E o \in Ops : TakeJob(w, o)
           \/ Expire \/ Lapse
  BY <1>1, <1>5 DEF TakePushJob, TakeJob, Crash, Expire, Lapse
<1>6. ASSUME NEW w \in Workers,
             \/ Drain(w) \/ Recover(w) \/ Recovered(w) \/ NextOperation(w) \/ Drained(w)
             \/ NotRunning(w) \/ Stage(w) \/ Plan(w) \/ Prepare(w) \/ Check(w)
             \/ WorktreeMissing(w) \/ Apply(w) \/ Push(w) \/ Schedule(w)
      PROVE  SandboxTypeOK'
  BY <1>1, <1>6 DEF Drain, Recover, RecoverAs, Recovered, NextOperation, Drained, NotRunning, Stage,
       Plan, Prepare, Check, WorktreeMissing, Apply, Push, Schedule, elsewhere
<1>7. ASSUME NEW w \in Workers,
             \/ Health(w) \/ RevertChange(w) \/ Undone(w) \/ Record(w) \/ Finish(w) \/ Noop(w)
             \/ Reject(w) \/ Fail(w) \/ FollowUps(w) \/ AddFollowUp(w) \/ PublishStatus(w)
             \/ Build(w) \/ ReleaseMain(w) \/ Deploy(w) \/ Published(w) \/ PushJob(w)
             \/ EnsureBusy(w) \/ EnsureThrows(w) \/ FailQueued(w)
      PROVE  SandboxTypeOK'
  BY <1>1, <1>7 DEF Health, RevertChange, Undone, Record, Finish, Noop, Reject, Fail, FollowUps,
       AddFollowUp, PublishStatus, Build, ReleaseMain, Deploy, Published, PushJob, EnsureBusy,
       EnsureThrows, FailQueued, elsewhere
<1>8. CASE UNCHANGED vars
  BY <1>1, <1>8 DEF vars
<1> QED
  BY <1>2, <1>3, <1>4, <1>5, <1>6, <1>7, <1>8 DEF Next, Work

LEMMA SetJobType ==
  ASSUME TypeInv, NEW w \in Workers, UNCHANGED <<attempts, stalled>>,
         NEW jobState \in {"waiting", "gone"}, NEW pushState \in {"waiting", "none"},
         SetJob(w, jobState, pushState)
  PROVE  QueueTypeOK'
  BY DEF SetJob, TypeInv, TypeOK, QueueTypeOK, WorkersTypeOK

LEMMA JobFailsType ==
  ASSUME TypeInv, NEW w \in Workers, JobFails(w)
  PROVE  QueueTypeOK'
<1> USE DEF TypeInv, TypeOK, QueueTypeOK, WorkersTypeOK
<1>1. CASE serving[w] = 0
  BY <1>1 DEF JobFails
<1>2. CASE serving[w] \in Ops
  <2>0. serving[w] # 0
    BY <1>2, NumOpsAssumption DEF Ops
  <2>1. attempts' \in [Ops -> Nat] /\ UNCHANGED <<stalled, pushJob>>
    BY <1>2, <2>0 DEF JobFails
  <2>2. job' \in [Ops -> {"none", "adding", "waiting", "active", "gone"}]
    BY <1>2, <2>0 DEF JobFails
  <2> QED
    BY <2>1, <2>2
<1> QED
  BY <1>1, <1>2

LEMMA QueueTypeKept ==
  ASSUME TypeInv, [Next]_vars
  PROVE  QueueTypeOK'
<1> USE DEF TypeInv, TypeOK
<1>1. UNCHANGED queue => QueueTypeOK'
  BY DEF QueueTypeOK, queue
<1>2. CASE \E o \in Ops : (\E t \in OperationTypes : Submit(o, t)) \/ AddJob(o) \/ ApiDies(o)
  BY <1>2 DEF QueueTypeOK, Submit, AddJob, ApiDies
<1>3. ASSUME NEW w \in Workers, TakePushJob(w) \/ \E o \in Ops : TakeJob(w, o) PROVE QueueTypeOK'
  BY <1>3 DEF QueueTypeOK, TakePushJob, TakeJob
<1>4. ASSUME NEW w \in Workers, Drained(w) \/ EnsureBusy(w) \/ Ensure(w) PROVE QueueTypeOK'
  BY <1>4, SetJobType DEF Drained, EndJob, EnsureBusy, Later, Ensure
<1>5. ASSUME NEW w \in Workers, Push(w) \/ Pushed(w) \/ Refused(w) \/ Reject(w) \/ PushJob(w)
                                \/ FailQueued(w) \/ EnsureThrows(w)
      PROVE  QueueTypeOK'
  BY <1>1, <1>5, SetJobType, JobFailsType
     DEF Push, PushThrows, Pushed, Refused, Reject, PushJob, FailQueued, EnsureThrows, EndJob, queue
<1>6. ASSUME NEW w \in Workers, Schedule(w) \/ AddFollowUp(w) PROVE QueueTypeOK'
  BY <1>6 DEF QueueTypeOK, Schedule, AddFollowUp
<1>7. ASSUME NEW w \in Workers, Crash(w) PROVE QueueTypeOK'
  BY <1>7 DEF QueueTypeOK, WorkersTypeOK, Crash, SetJob
<1>8. CASE Expire \/ Lapse \/ Lifecycle \/ Outside
  BY <1>1, <1>8 DEF Expire, Lapse, Lifecycle, Visit, Pause, Reconcile, Stop, Outside, Sleep, Vanish,
       ForeignPush
<1>9. ASSUME NEW w \in Workers,
             \/ Drain(w) \/ Recover(w) \/ Recovered(w) \/ NextOperation(w) \/ NotRunning(w)
             \/ Stage(w) \/ Plan(w) \/ Prepare(w) \/ Check(w) \/ WorktreeMissing(w) \/ Apply(w)
             \/ Health(w) \/ RevertChange(w) \/ Undone(w) \/ Record(w) \/ Finish(w)
      PROVE  QueueTypeOK'
  BY <1>1, <1>9 DEF Drain, Recover, RecoverAs, Recovered, NextOperation, NotRunning, Stage, Plan,
       Prepare, Check, WorktreeMissing, Apply, Health, RevertChange, Undone, Record, Finish,
       elsewhere
<1>10. ASSUME NEW w \in Workers,
              \/ Noop(w) \/ Fail(w) \/ FollowUps(w) \/ PublishStatus(w) \/ Build(w)
              \/ ReleaseMain(w) \/ Deploy(w) \/ Published(w) \/ EnsureFails(w)
       PROVE  QueueTypeOK'
  BY <1>1, <1>10 DEF Noop, Fail, FollowUps, PublishStatus, Build, ReleaseMain, Deploy, Published,
       EnsureFails, elsewhere
<1>11. CASE UNCHANGED vars
  BY <1>1, <1>11 DEF vars
<1> QED
  BY <1>2, <1>3, <1>4, <1>5, <1>6, <1>7, <1>8, <1>9, <1>10, <1>11 DEF Next, Work

LEMMA HistoryTypeKept ==
  ASSUME TypeInv, [Next]_vars
  PROVE  HistoryTypeOK'
<1> USE DEF TypeInv, TypeOK
<1>1. disturbed' \in Nat
  <2>1. Calm \/ disturbed' = disturbed + 1 => disturbed' \in Nat
    BY DEF Calm, HistoryTypeOK
  <2> USE DEF Answers, Throws, Loses, Disturb
  <2>2. CASE \/ \E o \in Ops : (\E t \in OperationTypes : Submit(o, t)) \/ AddJob(o) \/ ApiDies(o)
             \/ \E w \in Workers : TakePushJob(w) \/ Crash(w) \/ \E o \in Ops : TakeJob(w, o)
             \/ Expire \/ Lapse \/ Lifecycle \/ Outside \/ UNCHANGED vars
    BY <2>1, <2>2 DEF Submit, AddJob, ApiDies, TakePushJob, Crash, TakeJob, Expire, Lapse, Lifecycle,
         Visit, Pause, Reconcile, Stop, Outside, Sleep, Vanish, ForeignPush, vars, Calm
  <2>3. ASSUME NEW w \in Workers, Work(w) PROVE Calm \/ disturbed' = disturbed + 1
    BY <2>3 DEF Work, Drain, Recover, Recovered, NextOperation, Drained, NotRunning, Stage, Plan,
         Prepare, Check, WorktreeMissing, Apply, Push, Pushed, Refused, Schedule, Health,
         RevertChange, Undone, Record, Finish, Noop, Reject, Fail, FollowUps, AddFollowUp,
         PublishStatus, Build, ReleaseMain, Deploy, Published, PushJob, EnsureBusy, Ensure,
         EnsureThrows, EnsureFails, FailQueued
  <2> QED
    BY <2>1, <2>2, <2>3 DEF Next
<1>2. UNCHANGED ghosts => built' \subseteq History /\ settled' \subseteq Ops
                          /\ vanished' \in BOOLEAN
  BY DEF HistoryTypeOK, ghosts
<1>3. ASSUME NEW w \in Workers, Undone(w) \/ Finish(w) \/ Build(w) \/ ReleaseMain(w)
      PROVE  HistoryTypeOK'
  <2>1. Cur(w) \in Ops /\ staging.base \in History
    BY <1>3, CurTypes, StagingFields
       DEF Undone, Finish, Build, ReleaseMain, At, RunningLabels, PushLabels, Labels
  <2> QED
    BY <1>1, <1>3, <2>1 DEF HistoryTypeOK, Undone, Finish, Build, ReleaseMain
<1>4. CASE \/ \E o \in Ops : (\E t \in OperationTypes : Submit(o, t)) \/ AddJob(o) \/ ApiDies(o)
           \/ \E w \in Workers : TakePushJob(w) \/ Crash(w) \/ \E o \in Ops : TakeJob(w, o)
           \/ Expire \/ Lapse \/ UNCHANGED vars
  BY <1>1, <1>2, <1>4 DEF HistoryTypeOK, Submit, AddJob, ApiDies, TakePushJob, Crash, TakeJob,
       Expire, Lapse, vars
<1>5. CASE Lifecycle \/ Outside
  BY <1>1, <1>2, <1>5 DEF HistoryTypeOK, Lifecycle, Visit, Pause, Reconcile, Stop, Outside, Sleep,
       Vanish, ForeignPush
<1>6. ASSUME NEW w \in Workers,
             \/ Drain(w) \/ Recover(w) \/ Recovered(w) \/ NextOperation(w) \/ Drained(w)
             \/ NotRunning(w) \/ Stage(w) \/ Plan(w) \/ Prepare(w) \/ Check(w)
             \/ WorktreeMissing(w) \/ Apply(w) \/ Push(w) \/ Pushed(w) \/ Refused(w) \/ Schedule(w)
      PROVE  HistoryTypeOK'
  BY <1>1, <1>2, <1>6 DEF HistoryTypeOK, Drain, Recover, RecoverAs, Recovered, NextOperation,
       Drained, NotRunning, Stage, Plan, Prepare, Check, WorktreeMissing, Apply, Push, Pushed,
       Refused, Schedule
<1>7. ASSUME NEW w \in Workers,
             \/ Health(w) \/ RevertChange(w) \/ Record(w) \/ Noop(w) \/ Reject(w) \/ Fail(w)
             \/ FollowUps(w) \/ AddFollowUp(w) \/ PublishStatus(w) \/ Deploy(w) \/ Published(w)
             \/ PushJob(w) \/ EnsureBusy(w) \/ Ensure(w) \/ EnsureThrows(w) \/ EnsureFails(w)
             \/ FailQueued(w)
      PROVE  HistoryTypeOK'
  BY <1>1, <1>2, <1>7 DEF HistoryTypeOK, Health, RevertChange, Record, Noop, Reject, Fail,
       FollowUps, AddFollowUp, PublishStatus, Deploy, Published, PushJob, EnsureBusy, Ensure,
       EnsureThrows, EnsureFails, FailQueued
<1> QED
  BY <1>3, <1>4, <1>5, <1>6, <1>7 DEF Next, Work

\* The ways a step changes the locals of a run.
LEMMA NoRunType ==
  ASSUME TypeInv, NEW w \in Workers, run' = [run EXCEPT ![w] = NoRun]
  PROVE  run' \in [Workers -> Run]
  BY EmptyType DEF NoRun, TypeInv, TypeOK, WorkersTypeOK, Run

LEMMA NewRunType ==
  ASSUME TypeInv, NEW w \in Workers, NEW o \in Ops, run' = [run EXCEPT ![w] = [NoRun EXCEPT !.op = o]]
  PROVE  run' \in [Workers -> Run]
<1>1. [NoRun EXCEPT !.op = o] \in Run
  BY EmptyType DEF NoRun, Run
<1> QED
  BY <1>1 DEF TypeInv, TypeOK, WorkersTypeOK

LEMMA AfterType ==
  ASSUME TypeInv, NEW w \in Workers, NEW a \in {"restage", "undone", "pushJob", "thrown"},
         run' = [run EXCEPT ![w].after = a]
  PROVE  run' \in [Workers -> Run]
  BY DEF TypeInv, TypeOK, WorkersTypeOK, Run

LEMMA OtherLocalsType ==
  ASSUME TypeInv, NEW w \in Workers,
         \/ run' = [run EXCEPT ![w].repaired = TRUE]
         \/ run' = [run EXCEPT ![w] = [@ EXCEPT !.committed = TRUE, !.after = "health"]]
         \/ run' = [run EXCEPT ![w].head = live]
  PROVE  run' \in [Workers -> Run]
<1> USE DEF TypeInv, TypeOK, WorkersTypeOK, GitTypeOK, Run
<1>1. CASE run' = [run EXCEPT ![w].repaired = TRUE]
  BY <1>1
<1>2. CASE run' = [run EXCEPT ![w] = [@ EXCEPT !.committed = TRUE, !.after = "health"]]
  <2> DEFINE r == run[w]
  <2>0. r \in Run
    OBVIOUS
  <2>1. [r EXCEPT !.committed = TRUE, !.after = "health"] \in Run
    <3> HIDE DEF r
    <3> QED BY <2>0
  <2> QED
    BY <1>2, <2>1
<1>3. CASE run' = [run EXCEPT ![w].head = live]
  BY <1>3
<1> QED
  BY <1>1, <1>2, <1>3

LEMMA RunTypeKept ==
  ASSUME TypeInv, [Next]_vars
  PROVE  run' \in [Workers -> Run]
<1> USE DEF Abort, Raise, Forget, JobFails, PushThrows, Conclude, ConcludeApplied
<1>1. UNCHANGED run => run' \in [Workers -> Run]
  BY DEF TypeInv, TypeOK, WorkersTypeOK
<1>2. CASE \/ \E o \in Ops : (\E t \in OperationTypes : Submit(o, t)) \/ AddJob(o) \/ ApiDies(o)
           \/ \E w \in Workers : TakePushJob(w) \/ \E o \in Ops : TakeJob(w, o)
           \/ Expire \/ Lapse \/ UNCHANGED vars
  BY <1>1, <1>2 DEF Submit, AddJob, ApiDies, TakePushJob, TakeJob, Expire, Lapse, vars, stack
<1>3. CASE Lifecycle \/ Outside
  BY <1>1, <1>3 DEF Lifecycle, Visit, Pause, Reconcile, Stop, Outside, Sleep, Vanish, ForeignPush, stack
<1>4. ASSUME NEW w \in Workers,
             \/ Drain(w) \/ Recover(w) \/ Recovered(w) \/ NotRunning(w) \/ Schedule(w) \/ Record(w)
             \/ Deploy(w) \/ EnsureFails(w)
      PROVE  run' \in [Workers -> Run]
  BY <1>1, <1>4 DEF Drain, Recover, RecoverAs, Recovered, NotRunning, Schedule, Record, Deploy,
       EnsureFails, stack
<1>5. ASSUME NEW w \in Workers,
             \/ Plan(w) \/ Prepare(w) \/ WorktreeMissing(w) \/ Health(w) \/ Build(w) \/ ReleaseMain(w)
      PROVE  run' \in [Workers -> Run]
  BY <1>1, <1>5, AfterType DEF Plan, Prepare, WorktreeMissing, Health, Build, ReleaseMain
<1>6. ASSUME NEW w \in Workers,
             \/ Crash(w) \/ Drained(w) \/ Undone(w) \/ Finish(w) \/ Fail(w) \/ AddFollowUp(w)
             \/ Published(w) \/ EnsureBusy(w) \/ Ensure(w) \/ EnsureThrows(w)
      PROVE  run' \in [Workers -> Run]
  BY <1>1, <1>6, NoRunType DEF Crash, Drained, EndJob, Undone, Finish, Fail, AddFollowUp,
       Published, EnsureBusy, Later, Ensure, EnsureThrows
<1>7. ASSUME NEW w \in Workers, NextOperation(w) \/ FollowUps(w) PROVE run' \in [Workers -> Run]
  BY <1>7, NoRunType, NewRunType DEF NextOperation, FollowUps, Queued
<1>8. ASSUME NEW w \in Workers, Stage(w) PROVE run' \in [Workers -> Run]
  BY <1>1, <1>8, AfterType DEF Stage
<1>9. ASSUME NEW w \in Workers, Check(w) PROVE run' \in [Workers -> Run]
  BY <1>1, <1>9, AfterType, OtherLocalsType DEF Check
<1>10. ASSUME NEW w \in Workers, Apply(w) PROVE run' \in [Workers -> Run]
  BY <1>1, <1>10, AfterType, OtherLocalsType DEF Apply
<1>11. ASSUME NEW w \in Workers, Push(w) \/ Pushed(w) \/ Refused(w) PROVE run' \in [Workers -> Run]
  BY <1>1, <1>11, AfterType, NoRunType DEF Push, Pushed, EndJob, Refused, stack
<1>12. ASSUME NEW w \in Workers, RevertChange(w) \/ PublishStatus(w) PROVE run' \in [Workers -> Run]
  BY <1>1, <1>12, AfterType, OtherLocalsType DEF RevertChange, PublishStatus
<1>13. ASSUME NEW w \in Workers, Noop(w) \/ Reject(w) PROVE run' \in [Workers -> Run]
  BY <1>1, <1>13, AfterType, NoRunType DEF Noop, Reject
<1>14. ASSUME NEW w \in Workers, PushJob(w) \/ FailQueued(w) PROVE run' \in [Workers -> Run]
  BY <1>1, <1>14, AfterType, NoRunType DEF PushJob, EndJob, FailQueued
<1> QED
  BY <1>2, <1>3, <1>4, <1>5, <1>6, <1>7, <1>8, <1>9, <1>10, <1>11, <1>12, <1>13, <1>14
     DEF Next, Work

LEMMA LockType ==
  ASSUME TypeInv, [Next]_vars
  PROVE  lock' \in Workers \cup {Free, Dead}
<1> USE DEF Release, PushThrows
<1>1. lock \in Workers \cup {Free, Dead}
  BY DEF TypeInv, TypeOK, WorkersTypeOK
<1>2. CASE \/ \E o \in Ops : (\E t \in OperationTypes : Submit(o, t)) \/ AddJob(o) \/ ApiDies(o)
           \/ \E w \in Workers : TakePushJob(w) \/ Crash(w) \/ \E o \in Ops : TakeJob(w, o)
           \/ Expire \/ Lapse \/ UNCHANGED vars
  BY <1>1, <1>2 DEF Submit, AddJob, ApiDies, TakePushJob, TakeJob, Crash, Expire, Lapse, vars
<1>3. CASE Lifecycle \/ Outside
  BY <1>1, <1>3 DEF Lifecycle, Visit, Pause, Reconcile, Stop, Outside, Sleep, Vanish, ForeignPush
<1>4. ASSUME NEW w \in Workers,
             \/ Drain(w) \/ Recover(w) \/ Recovered(w) \/ NextOperation(w) \/ Drained(w)
             \/ NotRunning(w) \/ Stage(w) \/ Plan(w) \/ Prepare(w) \/ Check(w)
             \/ WorktreeMissing(w) \/ Apply(w)
      PROVE  lock' \in Workers \cup {Free, Dead}
  BY <1>1, <1>4 DEF Drain, Recover, RecoverAs, Recovered, NextOperation, Drained, NotRunning, Stage,
       Plan, Prepare, Check, WorktreeMissing, Apply, elsewhere
<1>5. ASSUME NEW w \in Workers,
             \/ Push(w) \/ Pushed(w) \/ Refused(w) \/ Schedule(w) \/ Health(w) \/ RevertChange(w)
             \/ Undone(w) \/ Record(w) \/ Finish(w) \/ Noop(w) \/ Reject(w) \/ Fail(w)
      PROVE  lock' \in Workers \cup {Free, Dead}
  BY <1>1, <1>5 DEF Push, Pushed, Refused, Schedule, Health, RevertChange, Undone, Record, Finish,
       Noop, Reject, Fail, elsewhere
<1>6. ASSUME NEW w \in Workers,
             \/ FollowUps(w) \/ AddFollowUp(w) \/ PublishStatus(w) \/ Build(w) \/ ReleaseMain(w)
             \/ Deploy(w) \/ Published(w) \/ PushJob(w) \/ EnsureBusy(w) \/ Ensure(w)
             \/ EnsureThrows(w) \/ EnsureFails(w) \/ FailQueued(w)
      PROVE  lock' \in Workers \cup {Free, Dead}
  BY <1>1, <1>6 DEF FollowUps, AddFollowUp, PublishStatus, Build, ReleaseMain, Deploy, Published,
       PushJob, EnsureBusy, Ensure, EnsureThrows, EnsureFails, FailQueued, elsewhere
<1> QED
  BY <1>2, <1>3, <1>4, <1>5, <1>6 DEF Next, Work

\* A step of one worker sets its own label, and nobody else's.
LEMMA PcType ==
  ASSUME TypeInv, [Next]_vars
  PROVE  pc' \in [Workers -> Labels]
<1> USE DEF Goto, Labels, Abort, Raise, Forget, JobFails, PushThrows, Conclude, ConcludeApplied, EndJob, Later
<1>1. pc \in [Workers -> Labels]
  BY DEF TypeInv, TypeOK, WorkersTypeOK
<1>2. CASE \/ \E o \in Ops : (\E t \in OperationTypes : Submit(o, t)) \/ AddJob(o) \/ ApiDies(o)
           \/ \E w \in Workers : TakePushJob(w) \/ Crash(w) \/ \E o \in Ops : TakeJob(w, o)
           \/ Expire \/ Lapse \/ UNCHANGED vars
  BY <1>1, <1>2 DEF Submit, AddJob, ApiDies, TakePushJob, TakeJob, Crash, Expire, Lapse, vars
<1>3. CASE Lifecycle \/ Outside
  BY <1>1, <1>3 DEF Lifecycle, Visit, Pause, Reconcile, Stop, Outside, Sleep, Vanish, ForeignPush
<1>4. ASSUME NEW w \in Workers,
             \/ Drain(w) \/ Recover(w) \/ Recovered(w) \/ NextOperation(w) \/ Drained(w)
             \/ NotRunning(w) \/ Stage(w) \/ Plan(w) \/ Prepare(w) \/ Check(w)
             \/ WorktreeMissing(w) \/ Apply(w)
      PROVE  pc' \in [Workers -> Labels]
  BY <1>1, <1>4 DEF Drain, Recover, RecoverAs, Recovered, NextOperation, Drained, NotRunning, Stage,
       Plan, Prepare, Check, WorktreeMissing, Apply, elsewhere
<1>5. ASSUME NEW w \in Workers,
             \/ Push(w) \/ Refused(w) \/ Health(w) \/ RevertChange(w)
             \/ Undone(w) \/ Record(w) \/ Finish(w) \/ Noop(w) \/ Reject(w) \/ Fail(w)
      PROVE  pc' \in [Workers -> Labels]
  BY <1>1, <1>5 DEF Push, Refused, Health, RevertChange, Undone, Record, Finish,
       Noop, Reject, Fail, elsewhere
<1>6. ASSUME NEW w \in Workers, Pushed(w) \/ Schedule(w) PROVE pc' \in [Workers -> Labels]
  <2>1. At(w, "pushed") \/ At(w, "schedule") => run[w].after \in {"restage", "health", "undone", "pushJob"}
    BY DEF At, TypeInv, LocalsOK, LocalOK, PushLabels
  <2> QED
    BY <1>1, <1>6, <2>1 DEF Pushed, Schedule
<1>7. ASSUME NEW w \in Workers,
             \/ FollowUps(w) \/ AddFollowUp(w) \/ PublishStatus(w) \/ Build(w) \/ ReleaseMain(w)
             \/ Deploy(w) \/ Published(w) \/ PushJob(w) \/ EnsureBusy(w) \/ Ensure(w)
             \/ EnsureThrows(w) \/ EnsureFails(w) \/ FailQueued(w)
      PROVE  pc' \in [Workers -> Labels]
  BY <1>1, <1>7 DEF FollowUps, AddFollowUp, PublishStatus, Build, ReleaseMain, Deploy, Published,
       PushJob, EnsureBusy, Ensure, EnsureThrows, EnsureFails, FailQueued, elsewhere
<1> QED
  BY <1>2, <1>3, <1>4, <1>5, <1>6, <1>7 DEF Next, Work

LEMMA OtherWorkerTypes ==
  ASSUME TypeInv, [Next]_vars
  PROVE  /\ serving' \in [Workers -> Ops \cup {0}]
         /\ doomed' \in [Workers -> SUBSET Ops]
         /\ attached' \in [Workers -> BOOLEAN]
<1> DEFINE Kept == UNCHANGED <<serving, doomed, attached>>
           Forgets(w) == /\ serving' = [serving EXCEPT ![w] = 0]
                         /\ doomed' = [doomed EXCEPT ![w] = {}]
                         /\ attached' = [attached EXCEPT ![w] = FALSE]
           Goal == /\ serving' \in [Workers -> Ops \cup {0}]
                   /\ doomed' \in [Workers -> SUBSET Ops]
                   /\ attached' \in [Workers -> BOOLEAN]
<1> USE DEF TypeInv, TypeOK, WorkersTypeOK, elsewhere, stack
<1>1. Kept => Goal
  OBVIOUS
<1>2. ASSUME NEW w \in Workers, Forgets(w) PROVE Goal
  BY <1>2
<1>3. CASE \/ \E o \in Ops : (\E t \in OperationTypes : Submit(o, t)) \/ AddJob(o) \/ ApiDies(o)
           \/ \E w \in Workers : TakePushJob(w)
           \/ Expire \/ Lapse \/ UNCHANGED vars
  BY <1>1, <1>3 DEF Submit, AddJob, ApiDies, TakePushJob, Expire, Lapse, vars
<1>4. CASE \E w \in Workers, o \in Ops : TakeJob(w, o)
  BY <1>4 DEF TakeJob
<1>5. CASE Visit
  BY <1>5 DEF Visit, BringUp
<1>6. CASE Pause \/ Reconcile \/ Stop \/ Outside
  BY <1>1, <1>6 DEF Pause, Reconcile, Stop, Outside, Sleep, Vanish, ForeignPush
<1>7. ASSUME NEW w \in Workers, Drain(w) \/ NextOperation(w) \/ PushJob(w) PROVE Goal
  BY <1>2, <1>7 DEF Drain, NextOperation, PushJob, EndJob, Forget
<1>8. ASSUME NEW w \in Workers,
             \/ Drained(w) \/ EnsureBusy(w) \/ EnsureThrows(w) \/ Crash(w) \/ Reject(w) \/ Push(w)
             \/ Pushed(w) \/ Refused(w)
      PROVE  Goal
  <2>1. Kept \/ Forgets(w)
    BY <1>8 DEF Drained, EnsureBusy, EnsureThrows, Crash, Reject, Push, PushThrows, Pushed, Refused,
         EndJob, Later, JobFails, Forget
  <2> QED
    BY <1>1, <1>2, <2>1
<1>9. ASSUME NEW w \in Workers, Ensure(w) PROVE Goal
  BY <1>9 DEF Ensure, BringUp
<1>10. ASSUME NEW w \in Workers, EnsureFails(w) PROVE Goal
  BY <1>10 DEF EnsureFails, Queued
<1>11. ASSUME NEW w \in Workers, FailQueued(w) PROVE Goal
  BY <1>2, <1>11 DEF FailQueued, EndJob, Forget
<1>12. ASSUME NEW w \in Workers,
              \/ Recover(w) \/ Recovered(w) \/ NotRunning(w) \/ Stage(w) \/ Plan(w) \/ Prepare(w)
              \/ Check(w) \/ WorktreeMissing(w) \/ Apply(w) \/ Schedule(w) \/ Health(w)
       PROVE  Goal
  BY <1>1, <1>12 DEF Recover, RecoverAs, Recovered, NotRunning, Stage, Plan, Prepare, Check,
       WorktreeMissing, Apply, Schedule, Health
<1>13. ASSUME NEW w \in Workers,
              \/ RevertChange(w) \/ Undone(w) \/ Record(w) \/ Finish(w) \/ Noop(w) \/ Fail(w)
              \/ FollowUps(w) \/ AddFollowUp(w) \/ PublishStatus(w) \/ Build(w) \/ ReleaseMain(w)
              \/ Deploy(w) \/ Published(w)
       PROVE  Goal
  BY <1>1, <1>13 DEF RevertChange, Undone, Record, Finish, Noop, Fail, FollowUps, AddFollowUp,
       PublishStatus, Build, ReleaseMain, Deploy, Published
<1> QED
  BY <1>3, <1>4, <1>5, <1>6, <1>7, <1>8, <1>9, <1>10, <1>11, <1>12, <1>13
     DEF Next, Work, Lifecycle

\* What a worker does is seen in its own label and locals only.
LEMMA OthersStand ==
  ASSUME TypeInv, NEW w \in Workers,
         \/ TakePushJob(w) \/ Work(w) \/ Crash(w)
         \/ \E o \in Ops : TakeJob(w, o),
         NEW v \in Workers, v # w
  PROVE  pc'[v] = pc[v] /\ run'[v] = run[v]
<1> USE DEF Goto, Abort, Raise, Forget, JobFails, PushThrows, Conclude, ConcludeApplied, EndJob, Later,
            stack
<1>0. DOMAIN pc = Workers /\ DOMAIN run = Workers
  BY DEF TypeInv, TypeOK, WorkersTypeOK
<1>1. CASE TakePushJob(w) \/ Crash(w) \/ \E o \in Ops : TakeJob(w, o)
  BY <1>0, <1>1 DEF TakePushJob, Crash, TakeJob
<1>2. CASE \/ Drain(w) \/ Recover(w) \/ Recovered(w) \/ NextOperation(w) \/ Drained(w)
           \/ NotRunning(w) \/ Stage(w) \/ Plan(w) \/ Prepare(w) \/ Check(w)
           \/ WorktreeMissing(w) \/ Apply(w)
  BY <1>0, <1>2 DEF Drain, Recover, RecoverAs, Recovered, NextOperation, Drained, NotRunning, Stage,
       Plan, Prepare, Check, WorktreeMissing, Apply
<1>3. CASE \/ Push(w) \/ Pushed(w) \/ Refused(w) \/ Schedule(w) \/ Health(w) \/ RevertChange(w)
           \/ Undone(w) \/ Record(w) \/ Finish(w) \/ Noop(w) \/ Reject(w) \/ Fail(w)
  BY <1>0, <1>3 DEF Push, Pushed, Refused, Schedule, Health, RevertChange, Undone, Record, Finish,
       Noop, Reject, Fail
<1>4. CASE \/ FollowUps(w) \/ AddFollowUp(w) \/ PublishStatus(w) \/ Build(w) \/ ReleaseMain(w)
           \/ Deploy(w) \/ Published(w) \/ PushJob(w) \/ EnsureBusy(w) \/ Ensure(w)
           \/ EnsureThrows(w) \/ EnsureFails(w) \/ FailQueued(w)
  BY <1>0, <1>4 DEF FollowUps, AddFollowUp, PublishStatus, Build, ReleaseMain, Deploy, Published,
       PushJob, EnsureBusy, Ensure, EnsureThrows, EnsureFails, FailQueued
<1> QED
  BY <1>1, <1>2, <1>3, <1>4 DEF Work

\* Nothing but a worker's step touches labels and locals.
LEMMA WorkersStand ==
  ASSUME \/ \E o \in Ops : (\E t \in OperationTypes : Submit(o, t)) \/ AddJob(o) \/ ApiDies(o)
         \/ Expire \/ Lapse \/ Lifecycle \/ Outside \/ UNCHANGED vars
  PROVE  UNCHANGED <<pc, run>>
<1>1. CASE \/ \E o \in Ops : (\E t \in OperationTypes : Submit(o, t)) \/ AddJob(o) \/ ApiDies(o)
           \/ Expire \/ Lapse \/ UNCHANGED vars
  BY <1>1 DEF Submit, AddJob, ApiDies, Expire, Lapse, vars, stack
<1>2. CASE Lifecycle \/ Outside
  BY <1>2 DEF Lifecycle, Visit, Pause, Reconcile, Stop, Outside, Sleep, Vanish, ForeignPush, stack
<1> QED
  BY <1>1, <1>2

LEMMA LocalsKept ==
  ASSUME TypeInv, [Next]_vars
  PROVE  LocalsOK'
<1> USE DEF Goto, At
<1> USE DEF LocalOK, PushLabels, RunningLabels, Labels
<1>0. /\ pc \in [Workers -> Labels] /\ run \in [Workers -> Run] /\ LocalsOK
      /\ \A w \in Workers : run[w].op \in Ops \cup {0}
      /\ 0 \notin Ops
  BY NumOpsAssumption DEF TypeInv, TypeOK, WorkersTypeOK, Run, Ops
<1>1. ASSUME NEW w \in Workers, 
             \/ TakePushJob(w) \/ Crash(w) \/ \E o \in Ops : TakeJob(w, o)
      PROVE  LocalOK(pc'[w], run'[w])
  BY <1>0, <1>1 DEF TakePushJob, Crash, TakeJob, Forget, NoRun, LocalsOK, stack
<1>2. ASSUME NEW w \in Workers,
             \/ Drain(w) \/ Recover(w) \/ Recovered(w) \/ Drained(w) \/ NotRunning(w)
      PROVE  LocalOK(pc'[w], run'[w])
  BY <1>0, <1>2 DEF Drain, Recover, RecoverAs, Recovered, Drained, NotRunning, EndJob, Forget, NoRun,
       LocalsOK, stack
<1>3. ASSUME NEW w \in Workers, NextOperation(w) PROVE LocalOK(pc'[w], run'[w])
  BY <1>0, <1>3 DEF NextOperation, NoRun, Queued
<1>4. ASSUME NEW w \in Workers, Stage(w) PROVE LocalOK(pc'[w], run'[w])
  BY <1>0, <1>4 DEF Stage, Abort, Raise, LocalsOK, Run
<1>5. ASSUME NEW w \in Workers,
             Plan(w) \/ Prepare(w) \/ Check(w) \/ WorktreeMissing(w) \/ Health(w)
      PROVE  LocalOK(pc'[w], run'[w])
  BY <1>0, <1>5 DEF Plan, Prepare, Check, WorktreeMissing, Health, Abort, Raise, LocalsOK, Run
<1>6. ASSUME NEW w \in Workers, Apply(w) \/ RevertChange(w) PROVE LocalOK(pc'[w], run'[w])
  <2>0. pc[w] \in {"apply", "revert"} /\ run[w].op # 0
    BY <1>0, <1>6 DEF Apply, RevertChange, LocalsOK
  <2>1. \/ Raise(w)
        \/ pc'[w] \in {"reject", "fail"} /\ UNCHANGED run
        \/ pc'[w] = "push" /\ run'[w].after \in {"health", "undone"} /\ run'[w].op = run[w].op
    <3>1. \A a : run' = [run EXCEPT ![w].after = a]
                   => run'[w].after = a /\ run'[w].op = run[w].op
      BY <1>0 DEF Run
    <3>2. run' = [run EXCEPT ![w] = [@ EXCEPT !.committed = TRUE, !.after = "health"]]
            => run'[w].after = "health" /\ run'[w].op = run[w].op
      BY <1>0 DEF Run
    <3>3. CASE Apply(w)
      BY <1>0, <3>2, <3>3 DEF Apply, Abort
    <3>4. CASE RevertChange(w)
      BY <1>0, <3>1, <3>4 DEF RevertChange, Abort
    <3> QED
      BY <1>6, <3>3, <3>4
  <2>2. CASE Raise(w)
    BY <1>0, <2>0, <2>2 DEF Raise, Run
  <2> QED
    BY <1>0, <2>0, <2>1, <2>2 DEF LocalsOK
<1>7. ASSUME NEW w \in Workers, Push(w) PROVE LocalOK(pc'[w], run'[w])
  <2>1. \/ pc'[w] \in {"pushed", "refused"} /\ UNCHANGED run
        \/ PushThrows(w)
    BY <1>0, <1>7 DEF Push, stack
  <2>2. CASE PushThrows(w)
    BY <1>0, <1>7, <2>2 DEF Push, PushThrows, JobFails, Forget, NoRun, Raise, LocalsOK, Run
  <2> QED
    BY <1>0, <1>7, <2>1, <2>2 DEF LocalsOK, Push
<1>8. ASSUME NEW w \in Workers, Pushed(w) \/ Refused(w) \/ Schedule(w)
      PROVE  LocalOK(pc'[w], run'[w])
  BY <1>0, <1>8 DEF Pushed, Refused, Schedule, EndJob, JobFails, Forget, NoRun, Abort, LocalsOK, Run, stack
<1>9. ASSUME NEW w \in Workers,
             \/ Undone(w) \/ Record(w) \/ Finish(w) \/ Noop(w) \/ Reject(w) \/ Fail(w)
      PROVE  LocalOK(pc'[w], run'[w])
  BY <1>0, <1>9 DEF Undone, Record, Finish, Noop, Reject, Fail, Conclude, ConcludeApplied,
       JobFails, Forget, NoRun, Raise, LocalsOK, Run
<1>10. ASSUME NEW w \in Workers, FollowUps(w) \/ AddFollowUp(w) PROVE LocalOK(pc'[w], run'[w])
  BY <1>0, <1>10 DEF FollowUps, AddFollowUp, NoRun
<1>11. ASSUME NEW w \in Workers,
              \/ PublishStatus(w) \/ Build(w) \/ ReleaseMain(w) \/ Deploy(w) \/ Published(w)
       PROVE  LocalOK(pc'[w], run'[w])
  BY <1>0, <1>11 DEF PublishStatus, Build, ReleaseMain, Deploy, Published, Conclude, NoRun, Abort, Raise,
       LocalsOK, Run
<1>12. ASSUME NEW w \in Workers,
              \/ PushJob(w) \/ EnsureBusy(w) \/ Ensure(w) \/ EnsureThrows(w) \/ EnsureFails(w)
              \/ FailQueued(w)
       PROVE  LocalOK(pc'[w], run'[w])
  BY <1>0, <1>12 DEF PushJob, EnsureBusy, Ensure, EnsureThrows, EnsureFails, FailQueued, EndJob,
       Later, JobFails, Forget, NoRun, LocalsOK, Run
<1>13. ASSUME NEW w \in Workers,
              \/ TakePushJob(w) \/ Work(w) \/ Crash(w) \/ \E o \in Ops : TakeJob(w, o)
       PROVE  LocalsOK'
  <2>1. LocalOK(pc'[w], run'[w])
    BY <1>1, <1>2, <1>3, <1>4, <1>5, <1>6, <1>7, <1>8, <1>9, <1>10, <1>11, <1>12, <1>13 DEF Work
  <2>2. \A v \in Workers : v # w => LocalOK(pc'[v], run'[v])
    <3> HIDE DEF LocalOK
    <3> QED BY <1>0, <1>13, OthersStand DEF LocalsOK
  <2> HIDE DEF LocalOK
  <2> QED
    BY <2>1, <2>2 DEF LocalsOK
<1>14. UNCHANGED <<pc, run>> => LocalsOK'
  BY <1>0 DEF LocalsOK
<1> QED
  BY <1>13, <1>14, WorkersStand DEF Next

LEMMA TypeInvInit == Init => TypeInv
<1> SUFFICES ASSUME Init PROVE TypeInv
  OBVIOUS
<1>1. GitTypeOK
  BY EmptyType, NoStagingType DEF Init, GitInit, GitTypeOK
<1>2. RowsTypeOK /\ SandboxTypeOK /\ QueueTypeOK /\ HistoryTypeOK
  BY DEF Init, RowsTypeOK, SandboxTypeOK, QueueTypeOK, HistoryTypeOK, Statuses, OperationTypes
<1>3. WorkersTypeOK
  <2>1. NoRun \in Run
    BY EmptyType DEF NoRun, Run
  <2> QED
    BY <2>1 DEF Init, WorkersTypeOK, Labels
<1>4. LocalsOK
  BY DEF Init, LocalsOK, LocalOK, NoRun, PushLabels, RunningLabels
<1> QED
  BY <1>1, <1>2, <1>3, <1>4 DEF TypeInv, TypeOK

LEMMA TypeInvKept ==
  ASSUME TypeInv, [Next]_vars
  PROVE  TypeInv'
<1>1. WorkersTypeOK'
  BY LockType, PcType, RunTypeKept, OtherWorkerTypes DEF WorkersTypeOK
<1> QED
  BY <1>1, GitTypeKept, RowsTypeKept, SandboxTypeKept, QueueTypeKept, HistoryTypeKept, LocalsKept
     DEF TypeInv, TypeOK

\* The rows, the queue, the branches and every worker's locals have the values their declarations
\* say, and each of the runner's steps finds the locals it reads set.
THEOREM TypesHold == Spec => []TypeInv
<1>1. TypeInv /\ [Next]_vars => TypeInv'
  BY TypeInvKept
<1> QED
  BY <1>1, TypeInvInit, PTL DEF Spec

\* Every status a step writes is one the schema has, every commit is an operation's, a revert or
\* somebody else's, and push() always knows where to return to.
THEOREM TypeCorrect == Spec => []TypeOK
<1>1. TypeInv => TypeOK
  BY DEF TypeInv
<1> QED
  BY <1>1, TypesHold, PTL

----------------------------------------------------------------------------
(* The lock. *)

HeldLabels == Labels \ {"idle", "ensure", "failQueued"}

\* A worker inside a locked section is the one the lock names, and only it.
Mutex == \A w \in Workers : pc[w] \in HeldLabels <=> lock = w

NoLapse == "lapse" \notin Disturbances

\* Every step of a worker keeps the lock as it is and stays on its side of it, takes it when it
\* is free, or leaves the locked section, giving up the lock if it is its own.
LockKept(w)  == UNCHANGED lock /\ (pc'[w] \in HeldLabels <=> pc[w] \in HeldLabels)
LockTaken(w) == lock = Free /\ lock' = w /\ pc'[w] \in HeldLabels
LockLeft(w)  == /\ pc'[w] \notin HeldLabels
                /\ IF lock = w THEN lock' \in {Free, Dead} ELSE lock' = lock

LEMMA LockSteps ==
  ASSUME TypeInv, NEW w \in Workers,
         \/ TakePushJob(w) \/ Work(w) \/ Crash(w)
         \/ \E o \in Ops : TakeJob(w, o)
  PROVE  LockKept(w) \/ LockTaken(w) \/ LockLeft(w)
<1> USE DEF HeldLabels, Labels, LockKept, LockTaken, LockLeft, At, Goto, Release, Forget,
            elsewhere, stack
<1>0. pc \in [Workers -> Labels]
  BY DEF TypeInv, TypeOK, WorkersTypeOK
<1>1. CASE TakePushJob(w) \/ Crash(w) \/ \E o \in Ops : TakeJob(w, o)
  BY <1>0, <1>1 DEF TakePushJob, Crash, TakeJob, LockIsFree
<1>2. CASE \/ Drain(w) \/ Recover(w) \/ Recovered(w) \/ NextOperation(w) \/ Drained(w)
           \/ NotRunning(w)
  BY <1>0, <1>2 DEF Drain, Recover, RecoverAs, Recovered, NextOperation, Drained, NotRunning, EndJob
<1>3. CASE \/ Stage(w) \/ Plan(w) \/ Prepare(w) \/ Check(w) \/ WorktreeMissing(w) \/ Apply(w)
           \/ Health(w) \/ RevertChange(w)
  BY <1>0, <1>3 DEF Stage, Plan, Prepare, Check, WorktreeMissing, Apply, Health, RevertChange,
       Abort, Raise
<1>4. CASE Push(w) \/ Reject(w)
  BY <1>0, <1>4 DEF Push, PushThrows, Reject, Raise, JobFails, Conclude
<1>5. CASE Pushed(w) \/ Refused(w) \/ Schedule(w)
  <2>1. run[w].after = "pushJob" \/ run[w].after \in {"restage", "health", "undone"}
    BY <1>5 DEF Pushed, Refused, Schedule, TypeInv, LocalsOK, LocalOK, PushLabels
  <2> QED
    BY <1>0, <1>5, <2>1 DEF Pushed, Refused, Schedule, EndJob, JobFails, Abort
<1>6. CASE \/ Undone(w) \/ Record(w) \/ Finish(w) \/ Noop(w) \/ Fail(w) \/ FollowUps(w)
           \/ AddFollowUp(w)
  BY <1>0, <1>6 DEF Undone, Record, Finish, Noop, Fail, FollowUps, AddFollowUp, Conclude,
       ConcludeApplied, Raise
<1>7. CASE PublishStatus(w) \/ Build(w) \/ ReleaseMain(w) \/ Deploy(w) \/ Published(w)
  BY <1>0, <1>7 DEF PublishStatus, Build, ReleaseMain, Deploy, Published, Conclude, Abort, Raise
<1>8. CASE \/ PushJob(w) \/ EnsureBusy(w) \/ Ensure(w) \/ EnsureThrows(w) \/ EnsureFails(w)
           \/ FailQueued(w)
  BY <1>0, <1>8 DEF PushJob, EnsureBusy, Ensure, EnsureThrows, EnsureFails, FailQueued, EndJob,
       Later, JobFails
<1> QED
  BY <1>1, <1>2, <1>3, <1>4, <1>5, <1>6, <1>7, <1>8 DEF Work

LEMMA MutexKept ==
  ASSUME TypeInv, Mutex, NoLapse, [Next]_vars
  PROVE  Mutex'
<1>0. /\ lock \in Workers \cup {Free, Dead} /\ Free \notin Workers /\ Dead \notin Workers
      /\ Free # Dead
  BY RunnerAssumption DEF TypeInv, TypeOK, WorkersTypeOK
<1>1. ASSUME NEW w \in Workers,
             \/ TakePushJob(w) \/ Work(w) \/ Crash(w)
             \/ \E o \in Ops : TakeJob(w, o)
      PROVE  Mutex'
  <2>1. \A v \in Workers : v # w => pc'[v] = pc[v]
    BY <1>1, OthersStand
  <2>2. LockKept(w) \/ LockTaken(w) \/ LockLeft(w)
    BY <1>1, LockSteps
  <2> QED
    BY <1>0, <2>1, <2>2 DEF Mutex, LockKept, LockTaken, LockLeft
<1>2. CASE \/ \E o \in Ops : (\E t \in OperationTypes : Submit(o, t)) \/ AddJob(o) \/ ApiDies(o)
           \/ Expire \/ Lapse \/ Lifecycle \/ Outside \/ UNCHANGED vars
  <2>1. UNCHANGED pc
    BY <1>2, WorkersStand
  <2>2. UNCHANGED lock \/ (lock = Dead /\ lock' = Free)
    BY <1>2 DEF Submit, AddJob, ApiDies, Expire, Lapse, Disturb, NoLapse, Lifecycle, Visit, Pause,
         Reconcile, Stop, Outside, Sleep, Vanish, ForeignPush, vars
  <2> QED
    BY <1>0, <2>1, <2>2 DEF Mutex
<1> QED
  BY <1>1, <1>2 DEF Next

LEMMA MutexInit == Init => Mutex
  BY RunnerAssumption DEF Init, Mutex, HeldLabels

\* "The lock is held, so nothing else is running it" (recoverInterrupted): as long as no lock
\* outlives its fifteen minutes, at most one worker is in a locked section, whatever crashes,
\* and the lock names it.
THEOREM LockExcludes == NoLapse => (Spec => []Mutex)
<1>1. SUFFICES ASSUME NoLapse PROVE Spec => []Mutex
  OBVIOUS
<1>2. TypeInv /\ Mutex /\ [Next]_vars => Mutex'
  BY <1>1, MutexKept
<1> QED
  BY <1>2, MutexInit, TypesHold, PTL DEF Spec

----------------------------------------------------------------------------
(* One operation at a time. *)

\* What a worker in a locked section knows of the operations in progress.
Sole(w) ==
  /\ pc[w] \in {"next", "followUps", "addFollowUp"} => Stuck = {}
  /\ pc[w] \in RunningLabels /\ run[w].after # "pushJob" => Stuck \subseteq {run[w].op}

SoleInv == OneInProgress /\ \A w \in Workers : Sole(w)

LEMMA StuckSame == UNCHANGED status => Stuck' = Stuck
  BY DEF Stuck

LEMMA StuckSet ==
  ASSUME TypeInv, NEW o \in Ops, NEW s, SetStatus(o, s)
  PROVE  /\ s \in InProgress => Stuck' = Stuck \cup {o}
         /\ s \notin InProgress => Stuck' = Stuck \ {o}
  BY DEF TypeInv, TypeOK, RowsTypeOK, SetStatus, Stuck

\* Creating an operation, or taking one up that is queued, disturbs no other.
LEMMA NotStuck ==
  ASSUME NEW o \in Ops, status[o] \in {"none", "queued"}
  PROVE  o \notin Stuck
  BY DEF Stuck, InProgress

LEMMA StatusKinds ==
  /\ {"staging", "checking", "applying"} = InProgress
  /\ {"none", "queued", "applied", "rejected", "reverted", "failed"} \cap InProgress = {}
  BY DEF InProgress

\* A worker's own step keeps what it knows; outside the locked section it starts nothing.
SoleStep(w) ==
  /\ OneInProgress'
  /\ Sole(w)'
  /\ pc[w] \notin HeldLabels => Stuck' \subseteq Stuck

LEMMA SoleSteps ==
  ASSUME TypeInv, NEW w \in Workers, Sole(w), OneInProgress,
         \/ TakePushJob(w) \/ Work(w) \/ Crash(w)
         \/ \E o \in Ops : TakeJob(w, o)
  PROVE  SoleStep(w)
<1> USE DEF At, Goto, OneInProgress
<1>0. /\ pc \in [Workers -> Labels] /\ run \in [Workers -> Run]
      /\ status \in [Ops -> Statuses] /\ LocalOK(pc[w], run[w])
      /\ Cur(w) = run[w].op /\ Cur(w) \in Ops \cup {0} /\ 0 \notin Ops
  BY NumOpsAssumption DEF TypeInv, TypeOK, WorkersTypeOK, RowsTypeOK, LocalsOK, Run, Cur, Ops
<1>1. ASSUME Stuck' \subseteq Stuck, pc'[w] \notin RunningLabels,
             pc'[w] \in {"next", "followUps", "addFollowUp"} => Stuck' = {}
      PROVE  SoleStep(w)
  BY <1>1 DEF SoleStep, Sole
<1>2. ASSUME pc[w] \in RunningLabels, pc'[w] \in RunningLabels, run[w].after # "pushJob",
             run'[w].op = run[w].op, Stuck' \subseteq Stuck \cup {run[w].op}
      PROVE  SoleStep(w)
  BY <1>2 DEF SoleStep, Sole, HeldLabels, RunningLabels
<1>3. ASSUME pc[w] \in RunningLabels, run[w].after # "pushJob",
             pc'[w] \in {"next", "followUps", "addFollowUp"}, Stuck' = Stuck \ {run[w].op}
      PROVE  SoleStep(w)
  <2>1. Stuck' = {}
    BY <1>3 DEF Sole
  <2> QED
    BY <1>3, <2>1 DEF SoleStep, Sole, HeldLabels, RunningLabels
<1>4. pc'[w] \in {"idle", "ensure", "failQueued", "drain", "recover", "pushJob"}
        => pc'[w] \notin RunningLabels /\ pc'[w] \notin {"next", "followUps", "addFollowUp"}
  BY DEF RunningLabels
<1>5. CASE TakePushJob(w) \/ Crash(w) \/ \E o \in Ops : TakeJob(w, o)
  BY <1>0, <1>1, <1>4, <1>5, StuckSame DEF TakePushJob, Crash, TakeJob, Forget, ops
<1>6. CASE Drain(w) \/ Drained(w) \/ NotRunning(w)
  BY <1>0, <1>1, <1>4, <1>6, StuckSame DEF Drain, Drained, NotRunning, EndJob, Forget, ops
<1>7. CASE Recover(w)
  <2>1. pc'[w] = "recover" /\ Stuck' \subseteq Stuck
    BY <1>7, StuckSet, StatusKinds DEF Recover, RecoverAs, Stuck
  <2> QED
    BY <1>1, <1>4, <2>1
<1>8. CASE Recovered(w)
  <2>1. pc'[w] = "next" /\ Stuck' = {}
    BY <1>0, <1>8, StuckSame DEF Recovered, ops
  <2> QED
    BY <1>1, <2>1 DEF RunningLabels
<1>9. CASE NextOperation(w)
  <2>1. PICK o \in Ops : SetStatus(o, "staging") /\ run' = [run EXCEPT ![w] = [NoRun EXCEPT !.op = o]]
    BY <1>9 DEF NextOperation, Queued
  <2>2. Stuck = {} /\ pc[w] = "next" /\ pc'[w] = "stage"
    BY <1>0, <1>9 DEF NextOperation, Sole
  <2>3. Stuck' = {o} /\ run'[w].op = o
    BY <1>0, <2>1, <2>2, StuckSet, StatusKinds DEF NoRun
  <2> QED
    BY <2>2, <2>3 DEF SoleStep, Sole, HeldLabels, Labels
<1>10. ASSUME pc[w] \in RunningLabels, run[w].after # "pushJob", UNCHANGED status,
              pc'[w] \in RunningLabels, run'[w].op = run[w].op
       PROVE  SoleStep(w)
  BY <1>2, <1>10, StuckSame
<1>11. ASSUME pc[w] \in RunningLabels, run[w].after # "pushJob",
              pc'[w] \in RunningLabels, run'[w].op = run[w].op,
              NEW s \in {"staging", "checking", "applying"}, SetStatus(Cur(w), s)
       PROVE  SoleStep(w)
  <2>1. Cur(w) \in Ops
    BY <1>0, <1>11 DEF LocalOK
  <2> QED
    BY <1>0, <1>2, <1>11, <2>1, StuckSet, StatusKinds
<1>12. ASSUME pc[w] \in RunningLabels, run[w].after # "pushJob",
              pc'[w] \in {"next", "followUps", "addFollowUp"},
              NEW s \in {"applied", "rejected", "reverted", "failed"}, SetStatus(Cur(w), s)
       PROVE  SoleStep(w)
  <2>1. Cur(w) \in Ops
    BY <1>0, <1>12 DEF LocalOK
  <2> QED
    BY <1>0, <1>3, <1>12, <2>1, StuckSet, StatusKinds
<1>13. /\ \A a : run' = [run EXCEPT ![w].after = a] => run'[w].op = run[w].op
       /\ run' = [run EXCEPT ![w] = [@ EXCEPT !.committed = TRUE, !.after = "health"]]
            => run'[w].op = run[w].op
       /\ run' = [run EXCEPT ![w].repaired = TRUE] => run'[w].op = run[w].op
       /\ run' = [run EXCEPT ![w].head = live] => run'[w].op = run[w].op
       /\ UNCHANGED run => run'[w].op = run[w].op
  <2>1. \A a : run' = [run EXCEPT ![w].after = a] => run'[w].op = run[w].op
    BY <1>0 DEF Run
  <2>2. run' = [run EXCEPT ![w] = [@ EXCEPT !.committed = TRUE, !.after = "health"]]
            => run'[w].op = run[w].op
    BY <1>0 DEF Run
  <2>3. run' = [run EXCEPT ![w].repaired = TRUE] => run'[w].op = run[w].op
    BY <1>0 DEF Run
  <2>4. run' = [run EXCEPT ![w].head = live] => run'[w].op = run[w].op
    BY <1>0 DEF Run
  <2> QED
    BY <2>1, <2>2, <2>3, <2>4
<1>14. pc[w] \in RunningLabels \ PushLabels => run[w].after # "pushJob"
  BY <1>0 DEF LocalOK
<1>15. CASE Stage(w) \/ Plan(w) \/ WorktreeMissing(w) \/ Health(w) \/ Record(w)
  <2>1. /\ pc[w] \in RunningLabels \ PushLabels /\ pc'[w] \in RunningLabels /\ UNCHANGED status
        /\ UNCHANGED run \/ \E a : run' = [run EXCEPT ![w].after = a]
    BY <1>0, <1>15 DEF Stage, Plan, WorktreeMissing, Health, Record, Abort, Raise, ops,
         RunningLabels, PushLabels, Labels
  <2> QED
    BY <1>10, <1>13, <1>14, <2>1
<1>16. CASE Apply(w) \/ RevertChange(w)
  <2>1. /\ pc[w] \in RunningLabels \ PushLabels /\ pc'[w] \in RunningLabels /\ UNCHANGED status
    BY <1>0, <1>16 DEF Apply, RevertChange, Abort, Raise, ops, RunningLabels, PushLabels, Labels
  <2>2. run'[w].op = run[w].op
    <3>1. CASE Apply(w)
      BY <1>13, <3>1 DEF Apply, Abort, Raise
    <3>2. CASE RevertChange(w)
      BY <1>13, <3>2 DEF RevertChange, Abort, Raise
    <3> QED
      BY <1>16, <3>1, <3>2
  <2> QED
    BY <1>10, <1>14, <2>1, <2>2
<1>17. CASE ReleaseMain(w) \/ Deploy(w)
  <2>1. /\ pc[w] \in RunningLabels \ PushLabels /\ pc'[w] \in RunningLabels /\ UNCHANGED status
        /\ UNCHANGED run \/ \E a : run' = [run EXCEPT ![w].after = a]
    BY <1>0, <1>17 DEF ReleaseMain, Deploy, Abort, Raise, ops, RunningLabels, PushLabels, Labels
  <2> QED
    BY <1>10, <1>13, <1>14, <2>1
<1>18. CASE Prepare(w) \/ Build(w)
  <2>1. /\ pc[w] \in RunningLabels \ PushLabels /\ pc'[w] \in RunningLabels
        /\ UNCHANGED status \/ \E s \in {"checking", "applying"} : SetStatus(Cur(w), s)
        /\ UNCHANGED run \/ \E a : run' = [run EXCEPT ![w].after = a]
    BY <1>0, <1>18 DEF Prepare, Build, Abort, Raise, RunningLabels, PushLabels, Labels
  <2> QED
    BY <1>10, <1>11, <1>13, <1>14, <2>1
<1>19. CASE Check(w) \/ PublishStatus(w)
  <2>1. /\ pc[w] \in RunningLabels \ PushLabels /\ pc'[w] \in RunningLabels
        /\ UNCHANGED status \/ \E s \in {"staging", "checking", "applying"} : SetStatus(Cur(w), s)
    BY <1>0, <1>19 DEF Check, PublishStatus, Abort, Raise, RunningLabels, PushLabels, Labels
  <2>2. run'[w].op = run[w].op
    <3>1. CASE Check(w)
      BY <1>13, <3>1 DEF Check, Raise
    <3>2. CASE PublishStatus(w)
      BY <1>13, <3>2 DEF PublishStatus, Abort, Raise
    <3> QED
      BY <1>19, <3>1, <3>2
  <2> QED
    BY <1>10, <1>11, <1>14, <2>1, <2>2
<1>20. CASE Undone(w) \/ Finish(w) \/ Fail(w) \/ Published(w)
  <2>1. /\ pc[w] \in RunningLabels \ PushLabels /\ pc'[w] \in {"next", "followUps", "addFollowUp"}
        /\ \E s \in {"applied", "reverted", "failed"} : SetStatus(Cur(w), s)
    BY <1>0, <1>20 DEF Undone, Finish, Fail, Published, Conclude, ConcludeApplied, RunningLabels,
         PushLabels, Labels
  <2> QED
    BY <1>12, <1>14, <2>1
<1>21. CASE Noop(w)
  <2>1. /\ pc[w] \in RunningLabels \ PushLabels
        /\ \/ pc'[w] \in {"next", "followUps", "addFollowUp"} /\ SetStatus(Cur(w), "applied")
           \/ /\ pc'[w] = "fail" /\ UNCHANGED status
              /\ \E a : run' = [run EXCEPT ![w].after = a]
    BY <1>0, <1>21 DEF Noop, Conclude, ConcludeApplied, Raise, RunningLabels, PushLabels, Labels
  <2> QED
    BY <1>10, <1>12, <1>13, <1>14, <2>1 DEF RunningLabels, Labels
<1>22. CASE Reject(w)
  <2>1. /\ pc[w] \in RunningLabels \ PushLabels
        /\ \/ pc'[w] = "next" /\ SetStatus(Cur(w), "rejected")
           \/ pc'[w] = "idle" /\ UNCHANGED status
    BY <1>0, <1>22 DEF Reject, Conclude, JobFails, Forget, RunningLabels, PushLabels, Labels
  <2> QED
    BY <1>1, <1>4, <1>12, <1>14, <2>1, StuckSame
<1>23. CASE FollowUps(w)
  <2>1. Stuck = {} /\ pc[w] = "followUps" /\ pc'[w] \in {"next", "addFollowUp"}
    BY <1>0, <1>23 DEF FollowUps, Sole
  <2>2. Stuck' = {}
    BY <1>23, <2>1, StuckSame, StuckSet, StatusKinds DEF FollowUps
  <2> QED
    BY <1>1, <2>1, <2>2 DEF RunningLabels
<1>24. CASE AddFollowUp(w)
  <2>1. Stuck = {} /\ pc'[w] = "next" /\ UNCHANGED status
    BY <1>0, <1>24 DEF AddFollowUp, Sole, ops
  <2> QED
    BY <1>1, <2>1, StuckSame DEF RunningLabels
<1>25. CASE Push(w) \/ Pushed(w) \/ Refused(w) \/ Schedule(w)
  <2>1. pc[w] \in RunningLabels /\ UNCHANGED status
    BY <1>0, <1>25 DEF Push, Pushed, Refused, Schedule, ops, RunningLabels, Labels
  <2>2. CASE run[w].after = "pushJob" /\ pc'[w] \in {"push", "pushed", "refused"} /\ UNCHANGED run
    BY <2>1, <2>2, StuckSame DEF SoleStep, Sole, HeldLabels, RunningLabels
  <2>3. CASE pc'[w] = "idle"
    BY <1>1, <1>4, <2>1, <2>3, StuckSame
  <2>4. CASE run[w].after # "pushJob"
    <3>1. CASE Push(w)
      <4>1. pc'[w] \in RunningLabels /\ (UNCHANGED run \/ \E a : run' = [run EXCEPT ![w].after = a])
        BY <1>0, <2>4, <3>1 DEF Push, PushThrows, Raise, stack, RunningLabels, Labels
      <4> QED
        BY <1>10, <1>13, <2>1, <2>4, <4>1
    <3>2. CASE Pushed(w) \/ Refused(w) \/ Schedule(w)
      <4>1. run[w].after \in {"restage", "health", "undone"}
        BY <1>0, <2>4, <3>2 DEF Pushed, Refused, Schedule, LocalOK, PushLabels
      <4>2. pc'[w] \in RunningLabels /\ UNCHANGED run
        BY <1>0, <2>4, <3>2, <4>1 DEF Pushed, Refused, Schedule, Abort, stack, RunningLabels, Labels
      <4> QED
        BY <1>10, <1>13, <2>1, <2>4, <4>2
    <3> QED
      BY <1>25, <3>1, <3>2
  <2>5. run[w].after = "pushJob"
          => \/ pc'[w] = "idle"
             \/ pc'[w] \in {"push", "pushed", "refused"} /\ UNCHANGED run
    BY <1>0, <1>25 DEF Push, Pushed, Refused, Schedule, PushThrows, EndJob, JobFails, Forget,
         LocalOK, PushLabels, stack
  <2> QED
    BY <2>2, <2>3, <2>4, <2>5
<1>26. CASE PushJob(w)
  <2>1. UNCHANGED status /\ pc[w] \notin RunningLabels
    BY <1>26 DEF PushJob, ops, RunningLabels
  <2>2. \/ pc'[w] = "idle"
        \/ pc'[w] = "push" /\ run'[w].after = "pushJob"
    BY <1>0, <1>26 DEF PushJob, EndJob, Forget, Run
  <2> QED
    BY <1>1, <1>4, <2>1, <2>2, StuckSame DEF SoleStep, Sole
<1>27. CASE EnsureBusy(w) \/ Ensure(w) \/ EnsureThrows(w) \/ EnsureFails(w)
  BY <1>0, <1>1, <1>4, <1>27, StuckSame DEF EnsureBusy, Ensure, EnsureThrows, EnsureFails, Later,
       JobFails, Forget, ops
<1>28. CASE FailQueued(w)
  <2>1. pc'[w] \in {"idle", "failQueued"}
    BY <1>0, <1>28 DEF FailQueued, EndJob, Forget
  <2>2. UNCHANGED status \/ \E o \in Ops : SetStatus(o, "failed")
    BY <1>28 DEF FailQueued, TypeInv, TypeOK, WorkersTypeOK
  <2> QED
    BY <1>1, <1>4, <2>1, <2>2, StuckSame, StuckSet, StatusKinds
<1> QED
  BY <1>5, <1>6, <1>7, <1>8, <1>9, <1>15, <1>16, <1>17, <1>18, <1>19, <1>20, <1>21, <1>22, <1>23,
     <1>24, <1>25, <1>26, <1>27, <1>28 DEF Work

LEMMA SoleInvKept ==
  ASSUME TypeInv, Mutex, SoleInv, [Next]_vars
  PROVE  SoleInv'
<1>1. ASSUME NEW w \in Workers,
             \/ TakePushJob(w) \/ Work(w) \/ Crash(w)
             \/ \E o \in Ops : TakeJob(w, o)
      PROVE  SoleInv'
  <2>1. SoleStep(w)
    BY <1>1, SoleSteps DEF SoleInv
  <2>2. ASSUME NEW v \in Workers, v # w PROVE Sole(v)'
    <3>1. pc'[v] = pc[v] /\ run'[v] = run[v]
      BY <1>1, <2>2, OthersStand
    <3>2. CASE pc[v] \in HeldLabels
      <4>1. pc[w] \notin HeldLabels
        BY <2>2, <3>2 DEF Mutex
      <4> QED
        BY <2>1, <3>1, <4>1 DEF SoleStep, SoleInv, Sole
    <3>3. CASE pc[v] \notin HeldLabels
      BY <3>1, <3>3 DEF Sole, HeldLabels, RunningLabels, Labels
    <3> QED
      BY <3>2, <3>3
  <2> QED
    BY <2>1, <2>2 DEF SoleInv, SoleStep
<1>2. CASE \/ \E o \in Ops : (\E t \in OperationTypes : Submit(o, t)) \/ AddJob(o) \/ ApiDies(o)
           \/ Expire \/ Lapse \/ Lifecycle \/ Outside \/ UNCHANGED vars
  <2>1. UNCHANGED <<pc, run>>
    BY <1>2, WorkersStand
  <2>2. Stuck' = Stuck
    <3>1. CASE \E o \in Ops, t \in OperationTypes : Submit(o, t)
      BY <3>1, NotStuck, StuckSet, StatusKinds DEF Submit, IsNew
    <3>2. CASE \/ \E o \in Ops : AddJob(o) \/ ApiDies(o)
               \/ Expire \/ Lapse \/ Lifecycle \/ Outside \/ UNCHANGED vars
      BY <3>2, StuckSame DEF AddJob, ApiDies, Expire, Lapse, Lifecycle, Visit, Pause, Reconcile,
           Stop, Outside, Sleep, Vanish, ForeignPush, vars, ops
    <3> QED
      BY <1>2, <3>1, <3>2
  <2> QED
    BY <2>1, <2>2 DEF SoleInv, Sole, OneInProgress
<1> QED
  BY <1>1, <1>2 DEF Next

LEMMA SoleInvInit == Init => SoleInv
<1> SUFFICES ASSUME Init PROVE SoleInv
  OBVIOUS
<1>1. Stuck = {}
  BY DEF Init, Stuck, InProgress
<1> QED
  BY <1>1 DEF SoleInv, Sole, OneInProgress

LEMMA SoleInvHolds == NoLapse => (Spec => []SoleInv)
<1>1. SUFFICES ASSUME NoLapse PROVE Spec => []SoleInv
  OBVIOUS
<1>2. TypeInv /\ Mutex /\ SoleInv /\ [Next]_vars => SoleInv'
  BY SoleInvKept
<1>3. Spec => []Mutex
  BY <1>1, LockExcludes
<1> QED
  BY <1>2, <1>3, SoleInvInit, TypesHold, PTL DEF Spec

\* "Runs a portfolio's queued operations one at a time" (drain): with any number of workers and
\* any crashes, retries and recoveries, two operations are never in progress together, as long as
\* no lock outlives its fifteen minutes.
THEOREM OneAtATime == NoLapse => (Spec => []OneInProgress)
<1>1. SUFFICES ASSUME NoLapse PROVE Spec => []OneInProgress
  OBVIOUS
<1>2. SoleInv => OneInProgress
  BY DEF SoleInv
<1>3. Spec => []SoleInv
  BY <1>1, SoleInvHolds
<1> QED
  BY <1>2, <1>3, PTL

----------------------------------------------------------------------------
(* The preview, draft and main. *)

GoodHistory(h) == \A i \in DOMAIN h : h[i].good

\* Everything a commit can be made from, or a branch moved to.
BranchesGood == /\ GoodHistory(live) /\ GoodHistory(tracking) /\ GoodHistory(staging.base)
                /\ GoodHistory(draft) /\ GoodHistory(main)

CheckedInv ==
  /\ BranchesGood
  /\ \A w \in Workers : GoodHistory(run[w].head)
  /\ \A w \in Workers : pc[w] = "apply" => staging.good

LEMMA AppendGood ==
  ASSUME NEW h \in History, NEW c \in Commit, GoodHistory(h), c.good
  PROVE  GoodHistory(Append(h, c))
<1> SUFFICES ASSUME NEW i \in DOMAIN Append(h, c) PROVE Append(h, c)[i].good
  BY DEF GoodHistory
<1>1. CASE i \in DOMAIN h
  BY <1>1 DEF GoodHistory, History
<1>2. CASE i = Len(h) + 1
  BY <1>2 DEF History
<1> QED
  BY <1>1, <1>2 DEF History

LEMMA EmptyGood == GoodHistory(<<>>)
  BY DEF GoodHistory

LEMMA GoodCommits ==
  /\ \A o \in Ops \cup {0} : Change(o, TRUE).good /\ Revert(o).good
  /\ Foreign.good
  BY DEF Change, Revert, Foreign

\* Each script keeps the branches good; a commit does if the worktree's files passed the checks.
LEMMA ScriptsGood ==
  ASSUME GitTypeOK, BranchesGood
  PROVE  /\ UNCHANGED git => BranchesGood'
         /\ \A o \in Ops \cup {0} : StageWorktree(o) \/ RevertHead(o) => BranchesGood'
         /\ \A o \in Ops \cup {0} :
              staging.good /\ (CommitAndMerge(o) \/ CommitOnly(o)) => BranchesGood'
         /\ \A good \in BOOLEAN : Write(good) => BranchesGood'
         /\ RemoveStaging \/ LeaveDirty \/ PushDraft \/ CloneDraft => BranchesGood'
         /\ \A h \in History : GoodHistory(h) /\ PublishMain(h) => BranchesGood'
<1> USE DEF BranchesGood
<1>0. GoodHistory(NoStaging.base)
  BY EmptyGood DEF NoStaging
<1>1. UNCHANGED git => BranchesGood'
  BY DEF git
<1>2. ASSUME NEW o \in Ops \cup {0}, StageWorktree(o) PROVE BranchesGood'
  BY <1>2 DEF StageWorktree
<1>3. ASSUME NEW o \in Ops \cup {0}, RevertHead(o) PROVE BranchesGood'
  BY <1>3, AppendGood, GoodCommits, CommitTypes DEF RevertHead, GitTypeOK
<1>4. ASSUME NEW o \in Ops \cup {0}, staging.good
      PROVE  GoodHistory(Append(staging.base, Change(o, staging.good)))
  <2>1. staging.good = TRUE
    BY <1>4, StagingFields
  <2> QED
    BY <2>1, AppendGood, GoodCommits, CommitTypes, StagingFields
<1>5. ASSUME NEW o \in Ops \cup {0}, staging.good, CommitAndMerge(o) PROVE BranchesGood'
  BY <1>0, <1>4, <1>5 DEF CommitAndMerge
<1>6. ASSUME NEW o \in Ops \cup {0}, staging.good, CommitOnly(o) PROVE BranchesGood'
  <2>1. staging'.base = staging.base \/ staging'.base = Append(staging.base, Change(o, staging.good))
    BY <1>6 DEF CommitOnly, GitTypeOK, Staging
  <2> QED
    BY <1>4, <1>6, <2>1 DEF CommitOnly
<1>7. ASSUME NEW good \in BOOLEAN, Write(good) PROVE BranchesGood'
  <2>1. staging'.base = staging.base
    BY <1>7 DEF Write, GitTypeOK, Staging
  <2> QED
    BY <1>7, <2>1 DEF Write
<1>8. RemoveStaging \/ LeaveDirty \/ PushDraft \/ CloneDraft => BranchesGood'
  BY <1>0 DEF RemoveStaging, LeaveDirty, PushDraft, CloneDraft
<1>9. ASSUME NEW h \in History, GoodHistory(h), PublishMain(h) PROVE BranchesGood'
  BY <1>9 DEF PublishMain
<1> QED
  BY <1>1, <1>2, <1>3, <1>5, <1>6, <1>7, <1>8, <1>9

LEMMA BranchesKept ==
  ASSUME TypeInv, CheckedInv, [Next]_vars
  PROVE  BranchesGood'
<1> USE DEF TypeInv, TypeOK, CheckedInv
<1>0. GoodHistory(NoStaging.base) /\ GoodHistory(<<>>)
  BY EmptyGood DEF NoStaging
<1>1. ASSUME NEW w \in Workers, Stage(w) PROVE BranchesGood'
  BY <1>1, CurTypes, ScriptsGood DEF Stage
<1>2. ASSUME NEW w \in Workers, Plan(w) \/ Check(w) PROVE BranchesGood'
  BY <1>2, ScriptsGood DEF Plan, Check
<1>3. ASSUME NEW w \in Workers, Apply(w) PROVE BranchesGood'
  <2>1. staging.good
    BY <1>3 DEF Apply, At
  <2> QED
    BY <1>3, <2>1, CurTypes, ScriptsGood DEF Apply
<1>4. ASSUME NEW w \in Workers, Push(w) PROVE BranchesGood'
  BY <1>4, ScriptsGood DEF Push
<1>5. ASSUME NEW w \in Workers, RevertChange(w) PROVE BranchesGood'
  BY <1>5, CurTypes, ScriptsGood DEF RevertChange
<1>6. ASSUME NEW w \in Workers, Noop(w) \/ Reject(w) \/ Fail(w) \/ Deploy(w) PROVE BranchesGood'
  BY <1>6, ScriptsGood DEF Noop, Reject, Fail, Deploy
<1>7. ASSUME NEW w \in Workers, ReleaseMain(w) PROVE BranchesGood'
  BY <1>7, CurTypes, ScriptsGood DEF ReleaseMain
<1>8. ASSUME Visit \/ \E w \in Workers : Ensure(w) PROVE BranchesGood'
  BY <1>8, ScriptsGood DEF Visit, Ensure, BringUp
<1>9. ASSUME Vanish \/ \E w \in Workers : EnsureFails(w) PROVE BranchesGood'
  BY <1>0, <1>9 DEF EnsureFails, Vanish, DropSandbox, BranchesGood
<1>10. ASSUME Pause PROVE BranchesGood'
  BY <1>10, ScriptsGood DEF Pause, Flush
<1>11. ASSUME Stop PROVE BranchesGood'
  <2>1. ASSUME DropSandbox, draft' = draft \/ draft' = live, UNCHANGED main PROVE BranchesGood'
    BY <1>0, <2>1 DEF DropSandbox, BranchesGood
  <2> QED
    BY <1>11, <2>1, ScriptsGood DEF Stop
<1>12. ASSUME ForeignPush PROVE BranchesGood'
  BY <1>12, AppendGood, GoodCommits, CommitTypes DEF ForeignPush, GitTypeOK, BranchesGood, sandboxGit
<1>13. UNCHANGED git => BranchesGood'
  BY ScriptsGood
<1>14. CASE \E o \in Ops : (\E t \in OperationTypes : Submit(o, t)) \/ AddJob(o) \/ ApiDies(o)
  BY <1>13, <1>14 DEF Submit, AddJob, ApiDies
<1>15. CASE \E w \in Workers : TakePushJob(w) \/ Crash(w) \/ \E o \in Ops : TakeJob(w, o)
  BY <1>13, <1>15 DEF TakePushJob, TakeJob, Crash
<1>16. CASE Expire \/ Lapse \/ Reconcile \/ Sleep
  BY <1>13, <1>16 DEF Expire, Lapse, Reconcile, Sleep
<1>17. ASSUME NEW w \in Workers,
              \/ Drain(w) \/ Recover(w) \/ Recovered(w) \/ NextOperation(w) \/ Drained(w)
              \/ NotRunning(w) \/ Prepare(w) \/ WorktreeMissing(w) \/ Pushed(w) \/ Refused(w)
              \/ Schedule(w) \/ Health(w) \/ Undone(w) \/ Record(w) \/ Finish(w)
       PROVE  BranchesGood'
  BY <1>13, <1>17 DEF Drain, Recover, RecoverAs, Recovered, NextOperation, Drained, NotRunning,
       Prepare, WorktreeMissing, Pushed, Refused, Schedule, Health, Undone, Record, Finish
<1>18. ASSUME NEW w \in Workers,
              \/ FollowUps(w) \/ AddFollowUp(w) \/ PublishStatus(w) \/ Build(w) \/ Published(w)
              \/ PushJob(w) \/ EnsureBusy(w) \/ EnsureThrows(w) \/ FailQueued(w)
       PROVE  BranchesGood'
  BY <1>13, <1>18 DEF FollowUps, AddFollowUp, PublishStatus, Build, Published, PushJob,
       EnsureBusy, EnsureThrows, FailQueued
<1>19. CASE UNCHANGED vars
  BY <1>13, <1>19 DEF vars
<1> QED
  BY <1>1, <1>2, <1>3, <1>4, <1>5, <1>6, <1>7, <1>8, <1>9, <1>10, <1>11, <1>12, <1>14, <1>15,
     <1>16, <1>17, <1>18, <1>19 DEF Next, Work, Lifecycle, Outside

\* A worker keeps its head commit, forgets it, or notes the live tree's; it reaches "apply" only
\* from checks that passed.
LEMMA CheckedSteps ==
  ASSUME TypeInv, NEW w \in Workers,
         \/ TakePushJob(w) \/ Work(w) \/ Crash(w)
         \/ \E o \in Ops : TakeJob(w, o)
  PROVE  /\ run'[w].head \in {run[w].head, live, <<>>}
         /\ pc'[w] = "apply" => staging'.good
<1> USE DEF At, Goto
<1>0. /\ pc \in [Workers -> Labels] /\ run \in [Workers -> Run] /\ LocalOK(pc[w], run[w])
      /\ run[w] \in Run
  BY DEF TypeInv, TypeOK, WorkersTypeOK, LocalsOK
<1> DEFINE Goal == run'[w].head \in {run[w].head, live, <<>>} /\ pc'[w] # "apply"
<1>1. /\ UNCHANGED run => run'[w].head = run[w].head
      /\ run' = [run EXCEPT ![w] = NoRun] => run'[w].head = <<>>
      /\ \A o : run' = [run EXCEPT ![w] = [NoRun EXCEPT !.op = o]] => run'[w].head = <<>>
      /\ \A a : run' = [run EXCEPT ![w].after = a] => run'[w].head = run[w].head
      /\ run' = [run EXCEPT ![w] = [@ EXCEPT !.committed = TRUE, !.after = "health"]]
            => run'[w].head = run[w].head
      /\ run' = [run EXCEPT ![w].repaired = TRUE] => run'[w].head = run[w].head
      /\ run' = [run EXCEPT ![w].head = live] => run'[w].head = live
  <2>1. run' = [run EXCEPT ![w] = NoRun] => run'[w].head = <<>>
    BY <1>0 DEF NoRun
  <2>2. \A o : run' = [run EXCEPT ![w] = [NoRun EXCEPT !.op = o]] => run'[w].head = <<>>
    BY <1>0 DEF NoRun
  <2>3. \A a : run' = [run EXCEPT ![w].after = a] => run'[w].head = run[w].head
    BY <1>0 DEF Run
  <2>4. run' = [run EXCEPT ![w] = [@ EXCEPT !.committed = TRUE, !.after = "health"]]
            => run'[w].head = run[w].head
    BY <1>0 DEF Run
  <2>5. run' = [run EXCEPT ![w].repaired = TRUE] => run'[w].head = run[w].head
    BY <1>0 DEF Run
  <2>6. run' = [run EXCEPT ![w].head = live] => run'[w].head = live
    BY <1>0 DEF Run
  <2> QED
    BY <2>1, <2>2, <2>3, <2>4, <2>5, <2>6
<1>2. CASE TakePushJob(w) \/ Crash(w) \/ \E o \in Ops : TakeJob(w, o)
  <2>1. Goal
    BY <1>0, <1>1, <1>2 DEF TakePushJob, Crash, TakeJob, Forget, stack
  <2> QED
    BY <2>1
<1>3. CASE \/ Drain(w) \/ Recover(w) \/ Recovered(w) \/ NextOperation(w) \/ Drained(w)
           \/ NotRunning(w)
  <2>1. Goal
    BY <1>0, <1>1, <1>3 DEF Drain, Recover, RecoverAs, Recovered, NextOperation, Drained,
         NotRunning, EndJob, Forget, stack
  <2> QED
    BY <2>1
<1>4. CASE Stage(w) \/ Plan(w) \/ Prepare(w) \/ WorktreeMissing(w) \/ Health(w)
  <2>1. Goal
    BY <1>0, <1>1, <1>4 DEF Stage, Plan, Prepare, WorktreeMissing, Health, Abort, Raise
  <2> QED
    BY <2>1
<1>5. CASE Check(w)
  <2>1. run'[w].head = run[w].head
    BY <1>1, <1>5 DEF Check, Raise
  <2>2. pc'[w] = "apply" => staging'.good
    BY <1>0, <1>5 DEF Check, Raise, ChecksPass, git
  <2> QED
    BY <2>1, <2>2
<1>6. CASE Apply(w)
  <2>1. run'[w].head = run[w].head
    BY <1>1, <1>6 DEF Apply, Abort, Raise
  <2>2. pc'[w] # "apply"
    BY <1>0, <1>6 DEF Apply, Abort, Raise
  <2> QED
    BY <2>1, <2>2
<1>7. CASE RevertChange(w)
  <2>1. Goal
    BY <1>0, <1>1, <1>7 DEF RevertChange, Abort, Raise
  <2> QED
    BY <2>1
<1>8. CASE Push(w) \/ Pushed(w) \/ Refused(w) \/ Schedule(w)
  <2>1. run[w].after \in {"restage", "health", "undone", "pushJob"}
    BY <1>0, <1>8 DEF Push, Pushed, Refused, Schedule, LocalOK, PushLabels
  <2>2. Goal
    BY <1>0, <1>1, <1>8, <2>1 DEF Push, PushThrows, Pushed, Refused, Schedule, EndJob, JobFails,
         Forget, Abort, Raise, stack
  <2> QED
    BY <2>2
<1>9. CASE \/ Undone(w) \/ Record(w) \/ Finish(w) \/ Noop(w) \/ Reject(w) \/ Fail(w)
           \/ FollowUps(w) \/ AddFollowUp(w)
  <2>1. Goal
    BY <1>0, <1>1, <1>9 DEF Undone, Record, Finish, Noop, Reject, Fail, FollowUps, AddFollowUp,
         Conclude, ConcludeApplied, JobFails, Forget, Raise
  <2> QED
    BY <2>1
<1>10. CASE PublishStatus(w) \/ Build(w) \/ ReleaseMain(w) \/ Deploy(w) \/ Published(w)
  <2>1. Goal
    BY <1>0, <1>1, <1>10 DEF PublishStatus, Build, ReleaseMain, Deploy, Published, Conclude, Abort,
         Raise
  <2> QED
    BY <2>1
<1>11. CASE \/ PushJob(w) \/ EnsureBusy(w) \/ Ensure(w) \/ EnsureThrows(w) \/ EnsureFails(w)
            \/ FailQueued(w)
  <2>1. Goal
    BY <1>0, <1>1, <1>11 DEF PushJob, EnsureBusy, Ensure, EnsureThrows, EnsureFails, FailQueued,
         EndJob, Later, JobFails, Forget
  <2> QED
    BY <2>1
<1> QED
  BY <1>2, <1>3, <1>4, <1>5, <1>6, <1>7, <1>8, <1>9, <1>10, <1>11 DEF Work

\* Outside the locked section a worker touches the code only when nobody holds the lock.
LEMMA CodeIsLocked ==
  ASSUME TypeInv, NEW w \in Workers, pc[w] \notin HeldLabels, lock # Free,
         \/ TakePushJob(w) \/ Work(w) \/ Crash(w)
         \/ \E o \in Ops : TakeJob(w, o)
  PROVE  UNCHANGED git
<1> USE DEF At, HeldLabels, Labels
<1>0. pc[w] \in {"idle", "ensure", "failQueued"}
  BY DEF TypeInv, TypeOK, WorkersTypeOK
<1>1. \/ TakePushJob(w) \/ Crash(w) \/ \E o \in Ops : TakeJob(w, o)
      \/ EnsureBusy(w) \/ Ensure(w) \/ EnsureThrows(w) \/ EnsureFails(w) \/ FailQueued(w)
  BY <1>0 DEF Work, Drain, Recover, Recovered, NextOperation, Drained, NotRunning, Stage, Plan,
       Prepare, Check, WorktreeMissing, Apply, Push, Pushed, Refused, Schedule, Health,
       RevertChange, Undone, Record, Finish, Noop, Reject, Fail, FollowUps, AddFollowUp,
       PublishStatus, Build, ReleaseMain, Deploy, Published, PushJob
<1> QED
  BY <1>1 DEF TakePushJob, Crash, TakeJob, EnsureBusy, Ensure, EnsureThrows, EnsureFails,
       FailQueued, LockIsFree

LEMMA CheckedInvKept ==
  ASSUME TypeInv, Mutex, CheckedInv, [Next]_vars
  PROVE  CheckedInv'
<1>0. BranchesGood'
  BY BranchesKept
<1>1. GoodHistory(live) /\ GoodHistory(<<>>) /\ \A w \in Workers : GoodHistory(run[w].head)
  BY EmptyGood DEF CheckedInv, BranchesGood
<1>2. ASSUME NEW w \in Workers,
             \/ TakePushJob(w) \/ Work(w) \/ Crash(w)
             \/ \E o \in Ops : TakeJob(w, o)
      PROVE  CheckedInv'
  <2>1. GoodHistory(run'[w].head) /\ (pc'[w] = "apply" => staging'.good)
    BY <1>1, <1>2, CheckedSteps
  <2>2. ASSUME NEW v \in Workers, v # w
        PROVE  GoodHistory(run'[v].head) /\ (pc'[v] = "apply" => staging'.good)
    <3>1. pc'[v] = pc[v] /\ run'[v] = run[v]
      BY <1>2, <2>2, OthersStand
    <3>2. ASSUME pc[v] = "apply" PROVE staging'.good
      <4>1. lock = v /\ pc[w] \notin HeldLabels /\ v # Free
        BY <2>2, <3>2, RunnerAssumption DEF Mutex, HeldLabels, Labels
      <4>2. UNCHANGED git
        BY <1>2, <4>1, CodeIsLocked
      <4> QED
        BY <3>2, <4>2 DEF CheckedInv, git
    <3> QED
      BY <1>1, <3>1, <3>2
  <2>3. \A v \in Workers : GoodHistory(run'[v].head) /\ (pc'[v] = "apply" => staging'.good)
    BY <2>1, <2>2
  <2> QED
    BY <1>0, <2>3 DEF CheckedInv, GoodHistory
<1>3. CASE \/ \E o \in Ops : (\E t \in OperationTypes : Submit(o, t)) \/ AddJob(o) \/ ApiDies(o)
           \/ Expire \/ Lapse \/ Lifecycle \/ Outside \/ UNCHANGED vars
  <2>1. UNCHANGED <<pc, run>>
    BY <1>3, WorkersStand
  <2>2. UNCHANGED staging \/ staging'.good \/ lock = Free
    BY <1>3 DEF Submit, AddJob, ApiDies, Expire, Lapse, Lifecycle, Visit, Pause, Reconcile, Stop,
         LockIsFree, Outside, Sleep, Vanish, DropSandbox, NoStaging, ForeignPush, sandboxGit, git, vars
  <2>3. \A w \in Workers : pc[w] = "apply" => lock = w /\ lock # Free
    BY RunnerAssumption DEF Mutex, HeldLabels, Labels
  <2> QED
    BY <1>0, <2>1, <2>2, <2>3 DEF CheckedInv, GoodHistory
<1> QED
  BY <1>2, <1>3 DEF Next

LEMMA CheckedInvInit == Init => CheckedInv
  BY EmptyGood DEF Init, GitInit, CheckedInv, BranchesGood, NoStaging, NoRun

\* "Nothing reaches the live tree until both checks pass" (run): every change in the preview, on
\* draft or on main is one whose files passed plinth check and tsc, whatever crashes, is lost or
\* is retried, as long as no lock outlives its fifteen minutes (the run finding_lock_lapses shows that the
\* condition is needed).
THEOREM OnlyCheckedChanges == NoLapse => (Spec => []LiveIsChecked)
<1>1. SUFFICES ASSUME NoLapse PROVE Spec => []LiveIsChecked
  OBVIOUS
<1>2. TypeInv /\ Mutex /\ CheckedInv /\ [Next]_vars => CheckedInv'
  BY CheckedInvKept
<1>3. Spec => []Mutex
  BY <1>1, LockExcludes
<1>4. CheckedInv => LiveIsChecked
  BY DEF CheckedInv, BranchesGood, GoodHistory, LiveIsChecked
<1> QED
  BY <1>2, <1>3, <1>4, CheckedInvInit, TypesHold, PTL DEF Spec

----------------------------------------------------------------------------
(* What holds even when locks lapse. *)

\* A worker whose lock lapsed does not get it back by going on.
HolderInside == \A w \in Workers : lock = w => pc[w] \in HeldLabels

LEMMA HolderInsideKept ==
  ASSUME TypeInv, HolderInside, [Next]_vars
  PROVE  HolderInside'
<1>0. /\ lock \in Workers \cup {Free, Dead} /\ Free \notin Workers /\ Dead \notin Workers
  BY RunnerAssumption DEF TypeInv, TypeOK, WorkersTypeOK
<1>1. ASSUME NEW w \in Workers,
             \/ TakePushJob(w) \/ Work(w) \/ Crash(w)
             \/ \E o \in Ops : TakeJob(w, o)
      PROVE  HolderInside'
  <2>1. \A v \in Workers : v # w => pc'[v] = pc[v]
    BY <1>1, OthersStand
  <2>2. LockKept(w) \/ LockTaken(w) \/ LockLeft(w)
    BY <1>1, LockSteps
  <2> QED
    BY <1>0, <2>1, <2>2 DEF HolderInside, LockKept, LockTaken, LockLeft
<1>2. CASE \/ \E o \in Ops : (\E t \in OperationTypes : Submit(o, t)) \/ AddJob(o) \/ ApiDies(o)
           \/ Expire \/ Lapse \/ Lifecycle \/ Outside \/ UNCHANGED vars
  <2>1. UNCHANGED pc
    BY <1>2, WorkersStand
  <2>2. UNCHANGED lock \/ lock' = Free
    BY <1>2 DEF Submit, AddJob, ApiDies, Expire, Lapse, Lifecycle, Visit, Pause, Reconcile, Stop,
         Outside, Sleep, Vanish, ForeignPush, vars
  <2> QED
    BY <1>0, <2>1, <2>2 DEF HolderInside
<1> QED
  BY <1>1, <1>2 DEF Next

LEMMA LockChanges ==
  ASSUME TypeInv, HolderInside, [Next]_vars,
         NEW v \in Workers, lock = v, lock' # v
  PROVE  pc'[v] # pc[v] \/ disturbed' # disturbed
<1>0. Free \notin Workers /\ Dead \notin Workers /\ disturbed \in Nat
  BY RunnerAssumption DEF TypeInv, TypeOK, HistoryTypeOK
<1>1. ASSUME NEW w \in Workers,
             \/ TakePushJob(w) \/ Work(w) \/ Crash(w)
             \/ \E o \in Ops : TakeJob(w, o)
      PROVE  pc'[v] # pc[v]
  <2>1. LockKept(w) \/ LockTaken(w) \/ LockLeft(w)
    BY <1>1, LockSteps
  <2> QED
    BY <1>0, <2>1 DEF LockKept, LockTaken, LockLeft, HolderInside
<1>2. CASE Lapse
  BY <1>0, <1>2 DEF Lapse, Disturb
<1>3. CASE \/ \E o \in Ops : (\E t \in OperationTypes : Submit(o, t)) \/ AddJob(o) \/ ApiDies(o)
           \/ Expire \/ Lifecycle \/ Outside \/ UNCHANGED vars
  <2>1. UNCHANGED lock \/ lock = Dead
    BY <1>3 DEF Submit, AddJob, ApiDies, Expire, Lifecycle, Visit, Pause, Reconcile, Stop,
         Outside, Sleep, Vanish, ForeignPush, vars
  <2> QED
    BY <1>0, <2>1
<1> QED
  BY <1>1, <1>2, <1>3 DEF Next

\* RELEASE_IF_OWNER: a worker that lost its lock to the fifteen minutes never frees the next
\* holder's, so a holder's lock goes only by its own step, its death, or the end of its time.
THEOREM ReleasesOnlyOwn == Spec => ReleaseOnlyOwn
<1>1. TypeInv /\ HolderInside /\ [Next]_vars => HolderInside'
  BY HolderInsideKept
<1>2. Init => HolderInside
  BY RunnerAssumption DEF Init, HolderInside
<1>3. TypeInv /\ HolderInside /\ [Next]_vars
        => [\A w \in Workers :
              lock = w /\ lock' # w => pc'[w] # pc[w] \/ disturbed' # disturbed]_vars
  BY LockChanges
<1> QED
  BY <1>1, <1>2, <1>3, TypesHold, PTL DEF Spec, ReleaseOnlyOwn

LEMMA PrefixItself ==
  ASSUME NEW h \in History
  PROVE  IsPrefix(h, h)
  BY DEF IsPrefix, History

LEMMA PrefixOfAppend ==
  ASSUME NEW h \in History, NEW c \in Commit
  PROVE  IsPrefix(h, Append(h, c))
<1>1. Append(h, c) \in Seq(Commit) /\ Len(Append(h, c)) = Len(h) + 1 /\ Len(h) \in Nat
  BY AppendProperties DEF History
<1>2. SubSeq(h, 1, Len(h)) = h
  BY SubSeqFull DEF History
<1>3. SubSeq(Append(h, c), 1, Len(h)) = h
  BY HeadTailAppend, AppendProperties DEF History
<1> QED
  BY <1>1, <1>2, <1>3 DEF IsPrefix

\* Both branches on GitHub keep everything they have.
BranchesGrow == IsPrefix(draft, draft') /\ IsPrefix(main, main')

LEMMA ScriptsGrow ==
  ASSUME GitTypeOK
  PROVE  /\ UNCHANGED <<draft, main>> => BranchesGrow
         /\ UNCHANGED git => BranchesGrow
         /\ \A o \in Ops \cup {0} :
              StageWorktree(o) \/ RevertHead(o) \/ CommitAndMerge(o) \/ CommitOnly(o) => BranchesGrow
         /\ \A good \in BOOLEAN : Write(good) => BranchesGrow
         /\ RemoveStaging \/ LeaveDirty \/ CloneDraft => BranchesGrow
         /\ CanPush /\ PushDraft => BranchesGrow
         /\ \A h \in History : CanPublish(h) /\ PublishMain(h) => BranchesGrow
  BY PrefixItself DEF BranchesGrow, GitTypeOK, git, StageWorktree, RevertHead, CommitAndMerge,
     CommitOnly, Write, RemoveStaging, LeaveDirty, CloneDraft, CanPush, PushDraft, CanPublish,
     PublishMain

LEMMA GrowsOnly ==
  ASSUME TypeInv, [Next]_vars
  PROVE  BranchesGrow
<1> USE DEF TypeInv, TypeOK
<1>1. ASSUME NEW w \in Workers, Stage(w) \/ Apply(w) \/ RevertChange(w) PROVE BranchesGrow
  BY <1>1, CurTypes, ScriptsGrow DEF Stage, Apply, RevertChange
<1>2. ASSUME NEW w \in Workers, Plan(w) \/ Check(w) \/ Noop(w) \/ Reject(w) \/ Fail(w) \/ Deploy(w)
      PROVE BranchesGrow
  BY <1>2, ScriptsGrow DEF Plan, Check, Noop, Reject, Fail, Deploy
<1>3. ASSUME NEW w \in Workers, Push(w) PROVE BranchesGrow
  BY <1>3, ScriptsGrow DEF Push
<1>4. ASSUME NEW w \in Workers, ReleaseMain(w) PROVE BranchesGrow
  BY <1>4, CurTypes, ScriptsGrow DEF ReleaseMain
<1>5. CASE Visit \/ \E w \in Workers : Ensure(w)
  BY <1>5, ScriptsGrow DEF Visit, Ensure, BringUp
<1>6. CASE Vanish \/ \E w \in Workers : EnsureFails(w)
  BY <1>6, ScriptsGrow DEF EnsureFails, Vanish
<1>7. CASE Pause
  BY <1>7, ScriptsGrow DEF Pause, Flush
<1>8. CASE Stop
  <2>1. \/ UNCHANGED <<draft, main>>
        \/ CanPush /\ draft' = live /\ UNCHANGED main
    BY <1>8 DEF Stop, git
  <2> QED
    BY <2>1, PrefixItself DEF BranchesGrow, CanPush, GitTypeOK
<1>9. CASE ForeignPush
  BY <1>9, PrefixItself, PrefixOfAppend, CommitTypes DEF ForeignPush, BranchesGrow, GitTypeOK
<1>10. CASE \E o \in Ops : (\E t \in OperationTypes : Submit(o, t)) \/ AddJob(o) \/ ApiDies(o)
  BY <1>10, ScriptsGrow DEF Submit, AddJob, ApiDies
<1>11. CASE \E w \in Workers : TakePushJob(w) \/ Crash(w) \/ \E o \in Ops : TakeJob(w, o)
  BY <1>11, ScriptsGrow DEF TakePushJob, TakeJob, Crash
<1>12. CASE Expire \/ Lapse \/ Reconcile \/ Sleep \/ UNCHANGED vars
  BY <1>12, ScriptsGrow DEF Expire, Lapse, Reconcile, Sleep, vars
<1>13. ASSUME NEW w \in Workers,
              \/ Drain(w) \/ Recover(w) \/ Recovered(w) \/ NextOperation(w) \/ Drained(w)
              \/ NotRunning(w) \/ Prepare(w) \/ WorktreeMissing(w) \/ Pushed(w) \/ Refused(w)
              \/ Schedule(w) \/ Health(w) \/ Undone(w) \/ Record(w) \/ Finish(w)
       PROVE  BranchesGrow
  BY <1>13, ScriptsGrow DEF Drain, Recover, RecoverAs, Recovered, NextOperation, Drained,
       NotRunning, Prepare, WorktreeMissing, Pushed, Refused, Schedule, Health, Undone, Record, Finish
<1>14. ASSUME NEW w \in Workers,
              \/ FollowUps(w) \/ AddFollowUp(w) \/ PublishStatus(w) \/ Build(w) \/ Published(w)
              \/ PushJob(w) \/ EnsureBusy(w) \/ EnsureThrows(w) \/ FailQueued(w)
       PROVE  BranchesGrow
  BY <1>14, ScriptsGrow DEF FollowUps, AddFollowUp, PublishStatus, Build, Published, PushJob,
       EnsureBusy, EnsureThrows, FailQueued
<1> QED
  BY <1>1, <1>2, <1>3, <1>4, <1>5, <1>6, <1>7, <1>8, <1>9, <1>10, <1>11, <1>12, <1>13, <1>14
     DEF Next, Work, Lifecycle, Outside

\* "Never forced" (publishPushScript): whatever is done, interrupted or pushed from elsewhere,
\* draft and main on GitHub only grow.
THEOREM NothingIsForced == Spec => NeverForced
<1>1. TypeInv /\ [Next]_vars
        => [IsPrefix(draft, draft') /\ IsPrefix(main, main')]_<<draft, main>>
  BY GrowsOnly DEF BranchesGrow
<1> QED
  BY <1>1, TypesHold, PTL DEF Spec, NeverForced

----------------------------------------------------------------------------
(***************************************************************************)
(* Part 2, what the branches' histories are, whatever happens but that a   *)
(* lock lapses:                                                            *)
(*   PublishesTheDraft  main is a point of draft (PublishedIsOnDraft)      *)
(*   PublishesTheBuilt  main is what a build passed (MainIsBuilt)          *)
(*   HistoriesAreTrue   each change once, in the order asked for, undone   *)
(*                      at most once, right after it (HistoryIsTrue)       *)
(* BaseInv and FactsInv say how draft, the live tree, what the sandbox     *)
(* knows of draft and the worktree lie over one another at each label of   *)
(* the worker inside the lock; UndoInv and OrderInv add what a history     *)
(* holds of the operation that is run.  A worker outside the lock leaves   *)
(* the branches alone.                                                     *)
(***************************************************************************)

----------------------------------------------------------------------------
(* Histories and their prefixes. *)

LEMMA HistoryFacts ==
  ASSUME NEW h \in History
  PROVE  /\ Len(h) \in Nat /\ DOMAIN h = 1 .. Len(h)
         /\ \A i \in DOMAIN h : /\ h[i] \in Commit
                                /\ h[i].op \in Ops \cup {0}
                                /\ h[i].kind \in {"change", "revert", "foreign"}
<1>1. Len(h) \in Nat /\ DOMAIN h = 1 .. Len(h) /\ \A i \in DOMAIN h : h[i] \in Commit
  BY DEF History
<1>2. \A c \in Commit : c.op \in Ops \cup {0} /\ c.kind \in {"change", "revert", "foreign"}
  BY DEF Commit
<1> QED
  BY <1>1, <1>2

LEMMA AppendFacts ==
  ASSUME NEW h \in History, NEW c \in Commit
  PROVE  /\ Append(h, c) \in History
         /\ Len(Append(h, c)) = Len(h) + 1
         /\ DOMAIN Append(h, c) = DOMAIN h \cup {Len(h) + 1}
         /\ Len(h) + 1 \notin DOMAIN h
         /\ \A i \in DOMAIN h : Append(h, c)[i] = h[i]
         /\ Append(h, c)[Len(h) + 1] = c
  BY DEF History

\* A prefix says the same as the history as far as it goes.
LEMMA PrefixFacts ==
  ASSUME NEW g \in History, NEW h \in History
  PROVE  IsPrefix(g, h) <=> Len(g) <= Len(h) /\ \A i \in DOMAIN g : i \in DOMAIN h /\ h[i] = g[i]
<1> USE DEF History
<1>0. /\ Len(g) \in Nat /\ Len(h) \in Nat /\ DOMAIN g = 1 .. Len(g) /\ DOMAIN h = 1 .. Len(h)
      /\ SubSeq(g, 1, Len(g)) = g
  BY SubSeqFull
<1>1. ASSUME Len(g) <= Len(h)
      PROVE  /\ SubSeq(h, 1, Len(g)) \in Seq(Commit)
             /\ Len(SubSeq(h, 1, Len(g))) = Len(g)
             /\ \A i \in 1 .. Len(g) : SubSeq(h, 1, Len(g))[i] = h[i]
  BY <1>0, <1>1, SubSeqProperties
<1>2. ASSUME Len(g) <= Len(h), \A i \in DOMAIN g : h[i] = g[i] PROVE SubSeq(h, 1, Len(g)) = g
  BY <1>0, <1>1, <1>2, SeqEqual
<1> QED
  BY <1>0, <1>1, <1>2 DEF IsPrefix

LEMMA PrefixTransitive ==
  ASSUME NEW f \in History, NEW g \in History, NEW h \in History, IsPrefix(f, g), IsPrefix(g, h)
  PROVE  IsPrefix(f, h)
<1>1. /\ Len(f) <= Len(g) /\ \A i \in DOMAIN f : i \in DOMAIN g /\ g[i] = f[i]
      /\ Len(g) <= Len(h) /\ \A i \in DOMAIN g : i \in DOMAIN h /\ h[i] = g[i]
  BY PrefixFacts
<1>2. Len(f) <= Len(h)
  BY <1>1, HistoryFacts
<1> QED
  BY <1>1, <1>2, PrefixFacts

LEMMA EmptyPrefix ==
  ASSUME NEW h \in History
  PROVE  IsPrefix(<<>>, h)
  BY EmptyType, PrefixFacts, HistoryFacts

----------------------------------------------------------------------------
(* The steps of a worker, and of the others while it is in a locked section. *)

WorkerStep(w) == TakePushJob(w) \/ Work(w) \/ Crash(w) \/ \E o \in Ops : TakeJob(w, o)

WorldStep == \/ \E o \in Ops : (\E t \in OperationTypes : Submit(o, t)) \/ AddJob(o) \/ ApiDies(o)
             \/ Expire \/ Lapse \/ Lifecycle \/ Outside \/ UNCHANGED vars

LEMMA Steps == [Next]_vars => WorldStep \/ \E w \in Workers : WorkerStep(w)
  BY DEF Next, WorldStep, WorkerStep

\* A worker's locals are its own.
LEMMA Bystanders ==
  ASSUME TypeInv, [Next]_vars, NEW w \in Workers, ~WorkerStep(w)
  PROVE  pc'[w] = pc[w] /\ run'[w] = run[w]
<1>1. CASE WorldStep
  BY <1>1, WorkersStand DEF WorldStep
<1>2. ASSUME NEW v \in Workers, WorkerStep(v), v # w PROVE pc'[w] = pc[w] /\ run'[w] = run[w]
  BY <1>2, OthersStand DEF WorkerStep
<1> QED
  BY <1>1, <1>2, Steps

\* The steps that bring a worker to a label.
LEMMA Arrivals ==
  ASSUME TypeInv, NEW w \in Workers, WorkerStep(w)
  PROVE  /\ pc'[w] = "stage" => NextOperation(w)
         /\ pc'[w] \in {"plan", "status"} => Stage(w)
         /\ pc'[w] = "restage" => Pushed(w)
         /\ pc'[w] = "prepare" => Plan(w) \/ Check(w)
         /\ pc'[w] = "check" => Prepare(w)
         /\ pc'[w] = "apply" => Check(w)
         /\ pc'[w] = "push" => Stage(w) \/ Apply(w) \/ RevertChange(w) \/ PushJob(w)
         /\ pc'[w] \in {"pushed", "refused"} => Push(w)
         /\ pc'[w] = "schedule" => Refused(w)
         /\ pc'[w] \in {"health", "undone"} => Pushed(w) \/ Schedule(w)
         /\ pc'[w] \in {"revert", "record"} => Health(w)
         /\ pc'[w] = "finish" => Health(w) \/ Record(w)
         /\ pc'[w] = "reject" => Plan(w) \/ Prepare(w) \/ Check(w) \/ Apply(w) \/ Build(w)
         /\ pc'[w] = "build" => PublishStatus(w)
         /\ pc'[w] = "release" => Build(w)
         /\ pc'[w] = "deploy" => ReleaseMain(w)
         /\ pc'[w] = "published" => Deploy(w)
         /\ pc'[w] = "noop" => Plan(w) \/ Prepare(w) \/ PublishStatus(w)
<1> USE DEF At, Goto, Abort, Raise, Forget, EndJob, JobFails
<1>0. pc \in [Workers -> Labels] /\ LocalOK(pc[w], run[w])
  BY DEF TypeInv, TypeOK, WorkersTypeOK, LocalsOK
<1>1. CASE TakePushJob(w) \/ Crash(w) \/ \E o \in Ops : TakeJob(w, o)
  BY <1>0, <1>1 DEF TakePushJob, Crash, TakeJob
<1>2. CASE Drain(w) \/ Recover(w) \/ Recovered(w) \/ Drained(w) \/ NotRunning(w)
  BY <1>0, <1>2 DEF Drain, Recover, RecoverAs, Recovered, Drained, NotRunning
<1>3. CASE NextOperation(w)
  BY <1>0, <1>3 DEF NextOperation
<1>4. CASE Stage(w)
  BY <1>0, <1>4 DEF Stage
<1>5. CASE Plan(w)
  BY <1>0, <1>5 DEF Plan
<1>6. CASE Prepare(w)
  BY <1>0, <1>6 DEF Prepare
<1>7. CASE Check(w)
  BY <1>0, <1>7 DEF Check
<1>8. CASE WorktreeMissing(w)
  BY <1>0, <1>8 DEF WorktreeMissing
<1>9. CASE Apply(w)
  BY <1>0, <1>9 DEF Apply
<1>10. CASE Push(w)
  BY <1>0, <1>10 DEF Push, PushThrows
<1>11. CASE Pushed(w)
  <2>1. run[w].after \in {"restage", "health", "undone", "pushJob"}
    BY <1>0, <1>11 DEF Pushed, LocalOK, PushLabels
  <2>2. pc'[w] \in {"idle", "restage", "health", "undone"}
    BY <1>0, <1>11, <2>1 DEF Pushed
  <2> QED
    BY <1>11, <2>2
<1>12. CASE Refused(w)
  BY <1>0, <1>12 DEF Refused
<1>13. CASE Schedule(w)
  <2>1. run[w].after \in {"health", "undone"}
    BY <1>0, <1>13 DEF Schedule, LocalOK
  <2>2. pc'[w] \in {"health", "undone"}
    BY <1>0, <1>13, <2>1 DEF Schedule
  <2> QED
    BY <1>13, <2>2
<1>14. CASE Health(w)
  BY <1>0, <1>14 DEF Health
<1>15. CASE RevertChange(w)
  BY <1>0, <1>15 DEF RevertChange
<1>16. CASE Record(w)
  BY <1>0, <1>16 DEF Record
<1>17. CASE Undone(w) \/ Finish(w) \/ Noop(w) \/ Reject(w) \/ Fail(w) \/ FollowUps(w) \/ AddFollowUp(w)
  BY <1>0, <1>17 DEF Undone, Finish, Noop, Reject, Fail, FollowUps, AddFollowUp, Conclude, ConcludeApplied
<1>18. CASE PublishStatus(w)
  BY <1>0, <1>18 DEF PublishStatus
<1>19. CASE Build(w)
  BY <1>0, <1>19 DEF Build
<1>20. CASE ReleaseMain(w)
  BY <1>0, <1>20 DEF ReleaseMain
<1>21. CASE Deploy(w)
  BY <1>0, <1>21 DEF Deploy
<1>22. CASE Published(w)
  BY <1>0, <1>22 DEF Published, Conclude
<1>23. CASE PushJob(w)
  BY <1>0, <1>23 DEF PushJob
<1>24. CASE EnsureBusy(w) \/ Ensure(w) \/ EnsureThrows(w) \/ EnsureFails(w) \/ FailQueued(w)
  BY <1>0, <1>24 DEF EnsureBusy, Ensure, EnsureThrows, EnsureFails, FailQueued, Later
<1> QED
  BY <1>1, <1>2, <1>3, <1>4, <1>5, <1>6, <1>7, <1>8, <1>9, <1>10, <1>11, <1>12, <1>13, <1>14,
     <1>15, <1>16, <1>17, <1>18, <1>19, <1>20, <1>21, <1>22, <1>23, <1>24 DEF Work, WorkerStep

\* While a worker is in a locked section, the rest of the world can put its sandbox to sleep, lose
\* it, or push to GitHub; it can create an operation, or fail one that was queued.
SandboxStands == UNCHANGED sandboxGit /\ box' \in {box, "asleep"} /\ (box = "none" => box' = "none")
SandboxLost   == DropSandbox /\ box' = "none" /\ vanished'
GitHubGrows   == \/ UNCHANGED <<draft, main>>
                 \/ draft' = Append(draft, Foreign) /\ UNCHANGED main
                 \/ main' = Append(main, Foreign) /\ UNCHANGED draft

LEMMA UnderLock ==
  ASSUME TypeInv, Mutex, [Next]_vars, NEW w \in Workers, pc[w] \in HeldLabels, ~WorkerStep(w)
  PROVE  /\ pc'[w] = pc[w] /\ run'[w] = run[w]
         /\ SandboxStands \/ (SandboxLost /\ UNCHANGED <<draft, main>>)
         /\ GitHubGrows
         /\ UNCHANGED <<row, pendingPush, installed, built, settled>>
         /\ \/ UNCHANGED status
            \/ \E o \in Ops : IsNew(o) /\ SetStatus(o, "queued")
            \/ \E v \in Workers : FailQueued(v) /\ \E o \in doomed[v] : SetStatus(o, "failed")
<1>0. lock = w /\ lock # Free
  BY RunnerAssumption DEF Mutex
<1>1. CASE WorldStep
  <2>1. UNCHANGED <<pc, run>>
    BY <1>1, WorkersStand DEF WorldStep
  <2>2. CASE \E o \in Ops : (\E t \in OperationTypes : Submit(o, t)) \/ AddJob(o) \/ ApiDies(o)
    BY <2>1, <2>2 DEF Submit, AddJob, ApiDies, SandboxStands, GitHubGrows, git, sandboxGit, sandbox, ops, ghosts
  <2>3. CASE Expire \/ Lapse \/ UNCHANGED vars
    BY <2>1, <2>3 DEF Expire, Lapse, vars, SandboxStands, GitHubGrows, git, sandboxGit, sandbox, ops, ghosts
  <2>4. CASE Lifecycle
    BY <1>0, <2>4 DEF Lifecycle, Visit, Pause, Reconcile, Stop, LockIsFree
  <2>5. CASE Outside
    BY <2>1, <2>5 DEF Outside, Sleep, Vanish, ForeignPush, SandboxStands, SandboxLost, GitHubGrows, git,
         sandboxGit, sandbox, ops, ghosts
  <2> QED
    BY <1>1, <2>2, <2>3, <2>4, <2>5 DEF WorldStep
<1>2. ASSUME NEW v \in Workers, v # w, WorkerStep(v)
      PROVE  /\ pc'[w] = pc[w] /\ run'[w] = run[w]
             /\ SandboxStands /\ UNCHANGED <<draft, main>>
             /\ UNCHANGED <<row, pendingPush, installed, built, settled>>
             /\ \/ UNCHANGED status
                \/ FailQueued(v) /\ \E o \in doomed[v] : SetStatus(o, "failed")
  <2>1. pc[v] \in {"idle", "ensure", "failQueued"}
    BY <1>0, <1>2 DEF Mutex, HeldLabels, TypeInv, TypeOK, WorkersTypeOK
  <2>2. Crash(v) \/ EnsureBusy(v) \/ FailQueued(v)
    BY <1>0, <1>2, <2>1 DEF WorkerStep, Work, At, LockIsFree, TakePushJob, TakeJob, Drain, Recover,
         Recovered, NextOperation, Drained, NotRunning, Stage, Plan, Prepare, Check, WorktreeMissing,
         Apply, Push, Pushed, Refused, Schedule, Health, RevertChange, Undone, Record, Finish, Noop,
         Reject, Fail, FollowUps, AddFollowUp, PublishStatus, Build, ReleaseMain, Deploy, Published,
         PushJob, Ensure, EnsureThrows, EnsureFails
  <2>3. pc'[w] = pc[w] /\ run'[w] = run[w]
    BY <1>2, OthersStand DEF WorkerStep
  <2>4. CASE Crash(v) \/ EnsureBusy(v)
    BY <2>3, <2>4 DEF Crash, EnsureBusy, SandboxStands, git, sandboxGit, sandbox, ops, ghosts
  <2>5. CASE FailQueued(v)
    <3>1. UNCHANGED status \/ \E o \in doomed[v] : SetStatus(o, "failed")
      BY <2>5 DEF FailQueued
    <3> QED
      BY <2>3, <2>5, <3>1 DEF FailQueued, SandboxStands, git, sandboxGit, sandbox, ghosts
  <2> QED
    BY <2>2, <2>4, <2>5
<1> QED
  BY <1>1, <1>2, Steps DEF GitHubGrows

\* What a step of a run does to its locals.
LEMMA LocalSteps ==
  ASSUME TypeInv, NEW w \in Workers
  PROVE  /\ \A a : run' = [run EXCEPT ![w].after = a]
               => run'[w].op = run[w].op /\ run'[w].head = run[w].head /\ run'[w].after = a
         /\ run' = [run EXCEPT ![w] = [@ EXCEPT !.committed = TRUE, !.after = "health"]]
               => run'[w].op = run[w].op /\ run'[w].head = run[w].head /\ run'[w].after = "health"
         /\ run' = [run EXCEPT ![w].repaired = TRUE]
               => run'[w].op = run[w].op /\ run'[w].head = run[w].head /\ run'[w].after = run[w].after
         /\ run' = [run EXCEPT ![w].head = live]
               => run'[w].op = run[w].op /\ run'[w].head = live /\ run'[w].after = run[w].after
<1>0. run \in [Workers -> Run]
  BY DEF TypeInv, TypeOK, WorkersTypeOK
<1>1. \A a : run' = [run EXCEPT ![w].after = a]
        => run'[w].op = run[w].op /\ run'[w].head = run[w].head /\ run'[w].after = a
  BY <1>0 DEF Run
<1>2. run' = [run EXCEPT ![w] = [@ EXCEPT !.committed = TRUE, !.after = "health"]]
        => run'[w].op = run[w].op /\ run'[w].head = run[w].head /\ run'[w].after = "health"
  BY <1>0 DEF Run
<1>3. run' = [run EXCEPT ![w].repaired = TRUE]
        => run'[w].op = run[w].op /\ run'[w].head = run[w].head /\ run'[w].after = run[w].after
  BY <1>0 DEF Run
<1>4. run' = [run EXCEPT ![w].head = live]
        => run'[w].op = run[w].op /\ run'[w].head = live /\ run'[w].after = run[w].after
  BY <1>0 DEF Run
<1> QED
  BY <1>1, <1>2, <1>3, <1>4

\* The steps that bring a worker to push(), with where it returns to, and through it.
LEMMA PushSteps ==
  ASSUME TypeInv, NEW w \in Workers, WorkerStep(w), pc'[w] \in PushLabels \cup {"schedule"}
  PROVE  \/ pc[w] \in PushLabels /\ run'[w] = run[w]
         \/ pc[w] = "stage" /\ Stage(w) /\ run'[w].after = "restage"
         \/ pc[w] = "apply" /\ Apply(w) /\ run'[w].after = "health"
         \/ pc[w] = "revert" /\ RevertChange(w) /\ run'[w].after = "undone"
         \/ pc[w] = "pushJob" /\ PushJob(w) /\ run'[w].after = "pushJob"
<1>0. pc \in [Workers -> Labels]
  BY DEF TypeInv, TypeOK, WorkersTypeOK
<1>1. CASE pc'[w] = "push"
  <2>1. Stage(w) \/ Apply(w) \/ RevertChange(w) \/ PushJob(w)
    BY <1>1, Arrivals
  <2>2. CASE Stage(w)
    <3>1. pc[w] = "stage" /\ run' = [run EXCEPT ![w].after = "restage"]
      BY <1>0, <1>1, <2>2 DEF Stage, At, Goto, Raise, Abort
    <3> QED
      BY <2>2, <3>1, LocalSteps
  <2>3. CASE Apply(w)
    <3>1. pc[w] = "apply" /\ run' = [run EXCEPT ![w] = [@ EXCEPT !.committed = TRUE, !.after = "health"]]
      BY <1>0, <1>1, <2>3 DEF Apply, At, Goto, Raise, Abort
    <3> QED
      BY <2>3, <3>1, LocalSteps
  <2>4. CASE RevertChange(w)
    <3>1. pc[w] = "revert" /\ run' = [run EXCEPT ![w].after = "undone"]
      BY <1>0, <1>1, <2>4 DEF RevertChange, At, Goto, Raise, Abort
    <3> QED
      BY <2>4, <3>1, LocalSteps
  <2>5. CASE PushJob(w)
    <3>1. pc[w] = "pushJob" /\ run' = [run EXCEPT ![w].after = "pushJob"]
      BY <1>0, <1>1, <2>5 DEF PushJob, At, Goto, EndJob, Forget
    <3> QED
      BY <2>5, <3>1, LocalSteps
  <2> QED
    BY <2>1, <2>2, <2>3, <2>4, <2>5
<1>2. CASE pc'[w] \in {"pushed", "refused"}
  <2>1. pc[w] = "push" /\ (UNCHANGED run \/ PushThrows(w))
    BY <1>2, Arrivals DEF Push, At, stack
  <2>2. ~PushThrows(w)
    BY <1>0, <1>2 DEF PushThrows, Raise, JobFails, Forget, Goto
  <2> QED
    BY <2>1, <2>2 DEF PushLabels
<1>3. CASE pc'[w] = "schedule"
  <2>1. pc[w] = "refused" /\ run'[w] = run[w]
    BY <1>0, <1>3, Arrivals DEF Refused, At, Goto, stack, JobFails, Forget, Abort
  <2> QED
    BY <2>1 DEF PushLabels
<1> QED
  BY <1>1, <1>2, <1>3 DEF PushLabels

----------------------------------------------------------------------------
(* What a step does to the branches.  All that follows about them is from this list. *)

CodeStands ==
  /\ UNCHANGED <<live, tracking, draft, main>>
  /\ box' = "none" => box = "none"
  /\ UNCHANGED pendingPush \/ \E w \in Workers : Pushed(w) \/ Refused(w)

Lands(w) ==
  /\ pc[w] = "apply" /\ Reachable(w) /\ CanMerge(Cur(w)) /\ CommitAndMerge(Cur(w))
  /\ pc'[w] = "fail" \/ (pc'[w] = "push" /\ run'[w].after = "health")
  /\ UNCHANGED <<sandbox, status>>

Undoes(w) ==
  /\ pc[w] = "revert" /\ Reachable(w) /\ RevertHead(Cur(w))
  /\ pc'[w] = "fail" \/ (pc'[w] = "push" /\ run'[w].after = "undone")
  /\ UNCHANGED <<sandbox, status>>

Saves ==
  /\ CanPush /\ PushDraft
  /\ box' # "none"
  /\ UNCHANGED status /\ pendingPush' \in {pendingPush, FALSE}

Publishes(w) ==
  /\ pc[w] = "release" /\ CanPublish(run[w].head) /\ PublishMain(run[w].head)
  /\ UNCHANGED <<sandbox, status>>

Rebuilds ==
  /\ (lock = Free /\ row = "none") \/ box = "none"
  /\ CloneDraft
  /\ box' = "up" /\ UNCHANGED <<pendingPush, status>>

Destroys ==
  /\ DropSandbox /\ UNCHANGED <<main, status>>
  /\ box' = "none"
  /\ \/ UNCHANGED <<draft, pendingPush>> /\ (~pendingPush \/ box = "none" \/ vanished')
     \/ UNCHANGED draft /\ pendingPush' = FALSE /\ (row = "none" \/ box = "none")
     \/ CanPush /\ draft' = live /\ pendingPush' = FALSE

PushedFromOutside ==
  /\ UNCHANGED <<sandboxGit, sandbox, status>>
  /\ \/ draft' = Append(draft, Foreign) /\ UNCHANGED main
     \/ main' = Append(main, Foreign) /\ UNCHANGED draft

CodeStep ==
  \/ CodeStands
  \/ \E w \in Workers : Lands(w) \/ Undoes(w) \/ Publishes(w)
  \/ Saves \/ Rebuilds \/ Destroys \/ PushedFromOutside

LEMMA CodeSteps ==
  ASSUME TypeInv, [Next]_vars
  PROVE  CodeStep
<1> USE DEF elsewhere, git, ops, sandbox
<1>1. ASSUME NEW w \in Workers, Stage(w) \/ Plan(w) \/ Check(w)
      PROVE  CodeStands
  BY <1>1 DEF CodeStands, Stage, Plan, Check, StageWorktree, Write
<1>2. ASSUME NEW w \in Workers, Noop(w) \/ Reject(w) \/ Fail(w) \/ Deploy(w)
      PROVE  CodeStands
  BY <1>2 DEF CodeStands, Noop, Reject, Fail, Deploy, RemoveStaging
<1>0. pc \in [Workers -> Labels] /\ run \in [Workers -> Run]
  BY DEF TypeInv, TypeOK, WorkersTypeOK
<1>3. ASSUME NEW w \in Workers, Apply(w) PROVE CodeStands \/ Lands(w)
  <2>1. CASE CommitOnly(Cur(w)) \/ LeaveDirty \/ UNCHANGED git
    BY <1>3, <2>1 DEF CodeStands, Apply, CommitOnly, LeaveDirty
  <2>2. ASSUME Reachable(w), CanMerge(Cur(w)), CommitAndMerge(Cur(w)),
               \/ Goto(w, "push") /\ run' = [run EXCEPT ![w] = [@ EXCEPT !.committed = TRUE, !.after = "health"]]
               \/ Raise(w)
        PROVE  Lands(w)
    <3>1. pc'[w] = "fail" \/ (pc'[w] = "push" /\ run'[w].after = "health")
      BY <1>0, <2>2, LocalSteps DEF Goto, Raise
    <3> QED
      BY <1>3, <2>2, <3>1 DEF Lands, Apply, At
  <2> QED
    BY <1>3, <2>1, <2>2 DEF Apply, Answers, Loses
<1>4. ASSUME NEW w \in Workers, RevertChange(w) PROVE CodeStands \/ Undoes(w)
  <2>1. CASE LeaveDirty \/ UNCHANGED git
    BY <1>4, <2>1 DEF CodeStands, RevertChange, LeaveDirty
  <2>2. ASSUME Reachable(w), RevertHead(Cur(w)),
               \/ Goto(w, "push") /\ run' = [run EXCEPT ![w].after = "undone"]
               \/ Raise(w)
        PROVE  Undoes(w)
    <3>1. pc'[w] = "fail" \/ (pc'[w] = "push" /\ run'[w].after = "undone")
      BY <1>0, <2>2 DEF Goto, Raise, Run
    <3> QED
      BY <1>4, <2>2, <3>1 DEF Undoes, RevertChange, At
  <2> QED
    BY <1>4, <2>1, <2>2 DEF RevertChange, Answers, Loses
<1>5. ASSUME NEW w \in Workers, Push(w) PROVE CodeStands \/ Saves
  BY <1>5 DEF CodeStands, Saves, Push, Answers, Loses, Reachable
<1>6. ASSUME NEW w \in Workers, ReleaseMain(w) PROVE CodeStands \/ Publishes(w)
  BY <1>6 DEF CodeStands, Publishes, ReleaseMain, At
<1>7. ASSUME NEW w \in Workers, Pushed(w) \/ Refused(w) PROVE CodeStands
  BY <1>7 DEF CodeStands, Pushed, Refused
<1>8. CASE Visit \/ \E w \in Workers : Ensure(w)
  BY <1>8 DEF CodeStep, CodeStands, Rebuilds, Visit, Ensure, BringUp, LockIsFree
<1>9. CASE Vanish \/ \E w \in Workers : EnsureFails(w)
  BY <1>9 DEF CodeStep, Destroys, Vanish, EnsureFails
<1>10. CASE Pause
  BY <1>10 DEF CodeStep, CodeStands, Saves, Pause, Flush
<1>11. CASE Stop
  BY <1>11 DEF CodeStep, CodeStands, Destroys, Stop, NothingToFlush
<1>12. CASE ForeignPush
  BY <1>12 DEF CodeStep, PushedFromOutside, ForeignPush
<1>13. CASE \E o \in Ops : (\E t \in OperationTypes : Submit(o, t)) \/ AddJob(o) \/ ApiDies(o)
  BY <1>13 DEF CodeStep, CodeStands, Submit, AddJob, ApiDies
<1>14. CASE \E w \in Workers : TakePushJob(w) \/ Crash(w) \/ \E o \in Ops : TakeJob(w, o)
  BY <1>14 DEF CodeStep, CodeStands, TakePushJob, TakeJob, Crash
<1>15. CASE Expire \/ Lapse \/ Reconcile \/ Sleep \/ UNCHANGED vars
  BY <1>15 DEF CodeStep, CodeStands, Expire, Lapse, Reconcile, Sleep, vars
<1>16. ASSUME NEW w \in Workers,
              \/ Drain(w) \/ Recover(w) \/ Recovered(w) \/ NextOperation(w) \/ Drained(w)
              \/ NotRunning(w) \/ Prepare(w) \/ WorktreeMissing(w)
              \/ Schedule(w) \/ Health(w) \/ Undone(w) \/ Record(w) \/ Finish(w)
       PROVE  CodeStands
  BY <1>16 DEF CodeStands, Drain, Recover, RecoverAs, Recovered, NextOperation, Drained,
       NotRunning, Prepare, WorktreeMissing, Schedule, Health, Undone, Record, Finish
<1>17. ASSUME NEW w \in Workers,
              \/ FollowUps(w) \/ AddFollowUp(w) \/ PublishStatus(w) \/ Build(w) \/ Published(w)
              \/ PushJob(w) \/ EnsureBusy(w) \/ EnsureThrows(w) \/ FailQueued(w)
       PROVE  CodeStands
  BY <1>17 DEF CodeStands, FollowUps, AddFollowUp, PublishStatus, Build, Published, PushJob,
       EnsureBusy, EnsureThrows, FailQueued
<1> QED
  BY <1>1, <1>2, <1>3, <1>4, <1>5, <1>6, <1>7, <1>8, <1>9, <1>10, <1>11, <1>12, <1>13, <1>14,
     <1>15, <1>16, <1>17 DEF CodeStep, Next, Work, Lifecycle, Outside

----------------------------------------------------------------------------
(* What a run knows of the code at each of its steps. *)

\* origin/draft is a point in draft's history, and a sandbox that is gone has no code.
BaseInv == IsPrefix(tracking, draft) /\ (box = "none" => live = <<>>)

LEMMA BaseInvKept ==
  ASSUME TypeInv, TypeInv', BaseInv, [Next]_vars
  PROVE  BaseInv'
<1>0. /\ live \in History /\ tracking \in History /\ draft \in History /\ Foreign \in Commit
      /\ live' \in History /\ tracking' \in History /\ draft' \in History
  BY CommitTypes DEF TypeInv, TypeOK, GitTypeOK
<1> USE DEF BaseInv
<1>1. CASE CodeStands
  BY <1>1 DEF CodeStands
<1>2. CASE \E w \in Workers : Lands(w) \/ Undoes(w) \/ Publishes(w)
  BY <1>2 DEF Lands, Undoes, Publishes, CommitAndMerge, RevertHead, PublishMain, Reachable, sandbox
<1>3. CASE Saves
  BY <1>0, <1>3, PrefixItself DEF Saves, PushDraft
<1>4. CASE Rebuilds
  BY <1>0, <1>4, PrefixItself DEF Rebuilds, CloneDraft
<1>5. CASE Destroys
  BY <1>0, <1>5, EmptyPrefix DEF Destroys, DropSandbox
<1>6. CASE PushedFromOutside
  <2>1. IsPrefix(draft, draft')
    BY <1>0, <1>6, PrefixItself, PrefixOfAppend DEF PushedFromOutside
  <2> QED
    BY <1>0, <1>6, <2>1, PrefixTransitive DEF PushedFromOutside, sandboxGit, sandbox
<1> QED
  BY <1>1, <1>2, <1>3, <1>4, <1>5, <1>6, CodeSteps DEF CodeStep

EndsWith(h, c) == h # <<>> /\ h[Len(h)] = c
Pushing(w, a) == pc[w] \in PushLabels \cup {"schedule"} /\ run[w].after = a

StagedLabels == {"plan", "prepare", "check", "apply", "status", "build"}

\* The worktree is the operation's own and at the live tree's head, as long as the sandbox exists.
WorktreeIsOwn(w) ==
  pc[w] \in StagedLabels => box = "none" \/ (staging.branch = Cur(w) /\ staging.base = live)

\* A publish has a head that is on draft, and has built that head before it moves main.
HeadIsDrafted(w) ==
  /\ pc[w] \in {"status", "build", "pushed"} => IsPrefix(live, draft)
  /\ pc[w] = "build" => box = "none" \/ run[w].head = live
  /\ pc[w] \in {"build", "release"} => IsPrefix(run[w].head, draft)
  /\ pc[w] = "release" => run[w].head \in built

\* The operation's change, later its revert, is the last commit of the live tree.
Landed(w) == Pushing(w, "health") \/ pc[w] \in {"health", "revert"}
Reverted(w) == Pushing(w, "undone") \/ pc[w] = "undone"
TipIsOwn(w) ==
  /\ Landed(w) => box = "none" \/ EndsWith(live, Change(Cur(w), TRUE))
  /\ Reverted(w) => box = "none" \/ EndsWith(live, Revert(Cur(w)))

\* A retry is scheduled for a commit that is flagged, and a run has a sandbox recorded as running.
RowIsSet(w) ==
  /\ pc[w] = "schedule" => pendingPush
  /\ pc[w] \in RunningLabels => row = "running"

FactsInv == \A w \in Workers : WorktreeIsOwn(w) /\ HeadIsDrafted(w) /\ TipIsOwn(w) /\ RowIsSet(w)

\* Nobody but the worker itself disturbs what it knows.
LEMMA FactsStand ==
  ASSUME TypeInv, Mutex, BaseInv, FactsInv, [Next]_vars, NEW w \in Workers, ~WorkerStep(w)
  PROVE  WorktreeIsOwn(w)' /\ HeadIsDrafted(w)' /\ TipIsOwn(w)' /\ RowIsSet(w)'
<1>0. /\ live \in History /\ draft \in History /\ run[w].head \in History /\ Foreign \in Commit
      /\ pc \in [Workers -> Labels]
  BY CommitTypes, CurTypes DEF TypeInv, TypeOK, GitTypeOK, WorkersTypeOK
<1>1. CASE pc[w] \in HeldLabels
  <2>1. /\ pc'[w] = pc[w] /\ run'[w] = run[w]
        /\ SandboxStands \/ SandboxLost
        /\ GitHubGrows
        /\ UNCHANGED <<row, pendingPush, built>>
    BY <1>1, UnderLock
  <2>2. \/ UNCHANGED <<live, staging>> /\ (box = "none" => box' = "none")
        \/ live' = <<>> /\ box' = "none"
    BY <2>1 DEF SandboxStands, SandboxLost, DropSandbox, sandboxGit
  <2>3. IsPrefix(draft, draft') /\ draft' \in History
    <3>1. IsPrefix(draft, draft) /\ IsPrefix(draft, Append(draft, Foreign))
      BY <1>0, PrefixItself, PrefixOfAppend
    <3>2. Append(draft, Foreign) \in History
      BY <1>0, AppendType
    <3> QED
      BY <1>0, <2>1, <3>1, <3>2 DEF GitHubGrows
  <2>4. \A h \in History : IsPrefix(h, draft) => IsPrefix(h, draft')
    BY <1>0, <2>3, PrefixTransitive
  <2>5. IsPrefix(<<>>, draft')
    BY <2>3, EmptyPrefix
  <2>6. Cur(w)' = Cur(w)
    BY <2>1 DEF Cur
  <2>7. WorktreeIsOwn(w)'
    BY <2>1, <2>2, <2>6 DEF FactsInv, WorktreeIsOwn
  <2>8. HeadIsDrafted(w)'
    BY <1>0, <2>1, <2>2, <2>4, <2>5 DEF FactsInv, HeadIsDrafted
  <2>9. TipIsOwn(w)'
    BY <2>1, <2>2, <2>6 DEF FactsInv, TipIsOwn, Landed, Reverted, Pushing
  <2>10. RowIsSet(w)'
    BY <2>1 DEF FactsInv, RowIsSet
  <2> QED
    BY <2>7, <2>8, <2>9, <2>10
<1>2. CASE pc[w] \notin HeldLabels
  <2>1. pc'[w] = pc[w]
    BY Bystanders
  <2>2. pc'[w] \in {"idle", "ensure", "failQueued"}
    BY <1>0, <1>2, <2>1 DEF HeldLabels
  <2> QED
    BY <2>2 DEF WorktreeIsOwn, HeadIsDrafted, TipIsOwn, Landed, Reverted, Pushing, RowIsSet, StagedLabels,
       PushLabels, RunningLabels
<1> QED
  BY <1>1, <1>2

LEMMA WorktreeStep ==
  ASSUME TypeInv, NEW w \in Workers, WorktreeIsOwn(w), WorkerStep(w)
  PROVE  WorktreeIsOwn(w)'
<1> USE DEF WorktreeIsOwn, StagedLabels, At, Goto, Cur
<1>0. /\ pc \in [Workers -> Labels] /\ staging \in Staging
  BY DEF TypeInv, TypeOK, WorkersTypeOK, GitTypeOK
<1>1. CASE pc'[w] \in {"plan", "status"}
  <2>1. Stage(w)
    BY <1>1, Arrivals
  <2>2. StageWorktree(Cur(w)) /\ UNCHANGED run
    BY <1>0, <1>1, <2>1 DEF Stage, Abort, Raise
  <2> QED
    BY <2>2 DEF StageWorktree
<1>2. CASE pc'[w] = "prepare"
  <2>1. /\ pc[w] \in {"plan", "check"}
        /\ \E good \in BOOLEAN : Write(good)
        /\ run'[w].op = run[w].op /\ UNCHANGED box
    BY <1>0, <1>2, Arrivals, LocalSteps DEF Plan, Check, Abort, Raise, elsewhere, sandbox
  <2>2. staging'.branch = staging.branch /\ staging'.base = staging.base
    BY <1>0, <2>1 DEF Write, Staging
  <2> QED
    BY <2>1, <2>2 DEF Write
<1>3. CASE pc'[w] \in {"check", "apply", "build"}
  <2>1. Prepare(w) \/ Check(w) \/ PublishStatus(w)
    BY <1>3, Arrivals
  <2>2. pc[w] \in {"prepare", "check", "status"} /\ UNCHANGED <<git, box>>
    BY <1>0, <1>3, <2>1 DEF Prepare, Check, PublishStatus, Abort, Raise, elsewhere, sandbox
  <2>3. run'[w].op = run[w].op
    <3>1. CASE Prepare(w) \/ Check(w)
      BY <1>0, <1>3, <3>1 DEF Prepare, Check, Abort, Raise
    <3>2. CASE PublishStatus(w)
      BY <1>0, <1>3, <3>2, LocalSteps DEF PublishStatus, Abort, Raise
    <3> QED
      BY <2>1, <3>1, <3>2
  <2> QED
    BY <2>2, <2>3 DEF git
<1> QED
  BY <1>1, <1>2, <1>3

LEMMA HeadStep ==
  ASSUME TypeInv, BaseInv, NEW w \in Workers, WorktreeIsOwn(w), HeadIsDrafted(w), WorkerStep(w)
  PROVE  HeadIsDrafted(w)'
<1> USE DEF At, Goto
<1>0. /\ pc \in [Workers -> Labels] /\ live \in History
  BY DEF TypeInv, TypeOK, WorkersTypeOK, GitTypeOK
<1>1. CASE pc'[w] = "status"
  <2>1. Stage(w)
    BY <1>1, Arrivals
  <2>2. live = tracking /\ UNCHANGED <<live, draft>>
    BY <1>0, <1>1, <2>1 DEF Stage, Abort, Raise, CleanAtDraft, StageWorktree
  <2> QED
    BY <1>1, <2>2 DEF HeadIsDrafted, BaseInv
<1>2. CASE pc'[w] = "pushed"
  <2>1. Push(w)
    BY <1>2, Arrivals
  <2>2. PushDraft
    BY <1>0, <1>2, <2>1, LocalSteps DEF Push, PushThrows, Raise, JobFails, Forget
  <2>3. live' = live /\ draft' = live
    BY <2>2 DEF PushDraft
  <2> QED
    BY <1>0, <1>2, <2>3, PrefixItself DEF HeadIsDrafted
<1>3. CASE pc'[w] = "build"
  <2>1. PublishStatus(w)
    BY <1>3, Arrivals
  <2>2. run'[w].head = live /\ UNCHANGED git /\ pc[w] = "status"
    BY <1>0, <1>3, <2>1, LocalSteps DEF PublishStatus, Abort, Raise
  <2> QED
    BY <1>3, <2>2 DEF HeadIsDrafted, git
<1>4. CASE pc'[w] = "release"
  <2>1. Build(w)
    BY <1>4, Arrivals
  <2>2. /\ pc[w] = "build" /\ UNCHANGED <<git, run>>
        /\ staging.base \in built' /\ box # "none"
    BY <1>0, <1>4, <2>1 DEF Build, Raise, Answers, Reachable
  <2>3. run[w].head = staging.base /\ IsPrefix(run[w].head, draft)
    BY <2>2 DEF HeadIsDrafted, WorktreeIsOwn, StagedLabels
  <2> QED
    BY <1>4, <2>2, <2>3 DEF HeadIsDrafted, git
<1> QED
  BY <1>1, <1>2, <1>3, <1>4 DEF HeadIsDrafted

LEMMA EndsWithAppended ==
  ASSUME NEW h \in History, NEW c \in Commit
  PROVE  EndsWith(Append(h, c), c)
<1>1. Len(Append(h, c)) = Len(h) + 1 /\ Append(h, c)[Len(h) + 1] = c /\ Append(h, c) # <<>>
  BY AppendProperties DEF History
<1> QED
  BY <1>1 DEF EndsWith

LEMMA TipStep ==
  ASSUME TypeInv, CheckedInv, NEW w \in Workers, TipIsOwn(w), WorkerStep(w)
  PROVE  TipIsOwn(w)'
<1> USE DEF At, Goto, Cur
<1>0. /\ pc \in [Workers -> Labels] /\ live \in History /\ staging.base \in History
      /\ run \in [Workers -> Run]
  BY StagingFields DEF TypeInv, TypeOK, WorkersTypeOK, GitTypeOK
<1>1. CASE pc'[w] = "push"
  <2>1. Stage(w) \/ Apply(w) \/ RevertChange(w) \/ PushJob(w)
    BY <1>1, Arrivals
  <2>2. CASE Stage(w) \/ PushJob(w)
    <3>1. run'[w].after \in {"restage", "pushJob"}
      BY <1>0, <1>1, <2>2, LocalSteps DEF Stage, PushJob, Abort, Raise, EndJob, Forget
    <3> QED
      BY <1>1, <3>1 DEF TipIsOwn, Landed, Reverted, Pushing
  <2>3. CASE Apply(w)
    <3>1. /\ CommitAndMerge(Cur(w)) /\ pc[w] = "apply"
          /\ run'[w].after = "health" /\ run'[w].op = run[w].op
      BY <1>0, <1>1, <2>3, LocalSteps DEF Apply, Abort, Raise
    <3>2. staging.good = TRUE
      BY <3>1, StagingFields DEF CheckedInv, TypeInv, TypeOK
    <3>3. live' = Append(staging.base, Change(Cur(w), TRUE))
      BY <3>1, <3>2 DEF CommitAndMerge
    <3>4. Change(Cur(w), TRUE) \in Commit
      BY CommitTypes, CurTypes
    <3>5. EndsWith(live', Change(Cur(w), TRUE))
      BY <1>0, <3>3, <3>4, EndsWithAppended
    <3> QED
      BY <1>1, <3>1, <3>5 DEF TipIsOwn, Landed, Reverted, Pushing
  <2>4. CASE RevertChange(w)
    <3>1. /\ RevertHead(Cur(w))
          /\ run'[w].after = "undone" /\ run'[w].op = run[w].op
      BY <1>0, <1>1, <2>4, LocalSteps DEF RevertChange, Abort, Raise
    <3>2. Revert(Cur(w)) \in Commit
      BY CommitTypes, CurTypes
    <3>3. EndsWith(live', Revert(Cur(w)))
      BY <1>0, <3>1, <3>2, EndsWithAppended DEF RevertHead
    <3> QED
      BY <1>1, <3>1, <3>3 DEF TipIsOwn, Landed, Reverted, Pushing
  <2> QED
    BY <2>1, <2>2, <2>3, <2>4
<1>2. CASE pc'[w] \in {"pushed", "refused", "schedule", "health", "undone", "revert"}
  <2>1. Push(w) \/ Refused(w) \/ Pushed(w) \/ Schedule(w) \/ Health(w)
    BY <1>2, Arrivals
  <2>2. UNCHANGED <<live, box, run>>
    BY <1>0, <1>2, <2>1 DEF Push, Refused, Pushed, Schedule, Health, PushThrows, PushDraft, EndJob,
         JobFails, Forget, Raise, Abort, git, sandbox, stack, elsewhere
  <2>3. \/ pc[w] = "push" /\ pc'[w] \in {"pushed", "refused"}
        \/ pc[w] = "refused" /\ pc'[w] = "schedule"
        \/ pc[w] \in {"pushed", "schedule"} /\ pc'[w] = run[w].after /\ pc'[w] \in {"health", "undone"}
        \/ pc[w] = "health" /\ pc'[w] = "revert"
    <3>1. CASE Push(w)
      BY <1>0, <1>2, <3>1 DEF Push, PushThrows, Raise, JobFails, Forget
    <3>2. CASE Refused(w)
      BY <1>0, <1>2, <3>2 DEF Refused, JobFails, Abort, Forget
    <3>3. CASE Pushed(w) \/ Schedule(w)
      <4>1. pc[w] \in {"pushed", "schedule"} /\ (pc'[w] = "idle" \/ pc'[w] = run[w].after)
        BY <1>0, <3>3 DEF Pushed, Schedule, EndJob, Forget
      <4>2. run[w].after \in {"restage", "health", "undone", "pushJob"}
        BY <4>1 DEF TypeInv, LocalsOK, LocalOK, PushLabels
      <4> QED
        BY <1>2, <4>1, <4>2
    <3>4. CASE Health(w)
      BY <1>0, <1>2, <3>4 DEF Health, Raise
    <3> QED
      BY <2>1, <3>1, <3>2, <3>3, <3>4
  <2>4. /\ Landed(w)' => Landed(w)
        /\ Reverted(w)' => Reverted(w)
    BY <2>2, <2>3 DEF Landed, Reverted, Pushing, PushLabels
  <2> QED
    BY <2>2, <2>4 DEF TipIsOwn, Cur
<1> QED
  BY <1>1, <1>2 DEF TipIsOwn, Landed, Reverted, Pushing, PushLabels

LEMMA RowStep ==
  ASSUME TypeInv, NEW w \in Workers, RowIsSet(w), WorkerStep(w)
  PROVE  RowIsSet(w)'
<1> USE DEF At, Goto, Abort, Raise, Forget, EndJob, JobFails, sandbox, elsewhere
<1>0. pc \in [Workers -> Labels]
  BY DEF TypeInv, TypeOK, WorkersTypeOK
<1>1. ASSUME pc'[w] = "schedule" PROVE pendingPush'
  BY <1>1, Arrivals DEF Refused
<1>2. pc'[w] \in RunningLabels => row' = "running"
  <2>1. pc[w] \in RunningLabels /\ UNCHANGED row => row' = "running"
    BY DEF RowIsSet
  <2>2. CASE TakePushJob(w) \/ Crash(w) \/ \E o \in Ops : TakeJob(w, o)
    BY <1>0, <2>2 DEF TakePushJob, Crash, TakeJob, RunningLabels
  <2>3. CASE \/ Drain(w) \/ Recover(w) \/ Recovered(w) \/ NextOperation(w) \/ Drained(w)
             \/ NotRunning(w) \/ PushJob(w)
    BY <1>0, <2>3 DEF Drain, Recover, RecoverAs, Recovered, NextOperation, Drained, NotRunning, PushJob,
         RunningLabels
  <2>4. CASE Stage(w) \/ Plan(w) \/ Prepare(w) \/ Check(w) \/ WorktreeMissing(w) \/ Apply(w)
    BY <1>0, <2>1, <2>4 DEF Stage, Plan, Prepare, Check, WorktreeMissing, Apply, RunningLabels, Labels
  <2>5. CASE Push(w) \/ Pushed(w) \/ Refused(w) \/ Schedule(w) \/ Health(w) \/ RevertChange(w)
    BY <1>0, <2>1, <2>5 DEF Push, Pushed, Refused, Schedule, Health, RevertChange, PushThrows,
         RunningLabels, Labels
  <2>6. CASE Undone(w) \/ Record(w) \/ Finish(w) \/ Noop(w) \/ Reject(w) \/ Fail(w)
    BY <1>0, <2>1, <2>6 DEF Undone, Record, Finish, Noop, Reject, Fail, Conclude, ConcludeApplied,
         RunningLabels, Labels
  <2>7. CASE FollowUps(w) \/ AddFollowUp(w)
    BY <1>0, <2>7 DEF FollowUps, AddFollowUp, RunningLabels
  <2>8. CASE PublishStatus(w) \/ Build(w) \/ ReleaseMain(w) \/ Deploy(w) \/ Published(w)
    BY <1>0, <2>1, <2>8 DEF PublishStatus, Build, ReleaseMain, Deploy, Published, Conclude,
         RunningLabels, Labels
  <2>9. CASE EnsureBusy(w) \/ Ensure(w) \/ EnsureThrows(w) \/ EnsureFails(w) \/ FailQueued(w)
    BY <1>0, <2>9 DEF EnsureBusy, Ensure, EnsureThrows, EnsureFails, FailQueued, Later, RunningLabels
  <2> QED
    BY <2>2, <2>3, <2>4, <2>5, <2>6, <2>7, <2>8, <2>9 DEF WorkerStep, Work
<1> QED
  BY <1>1, <1>2 DEF RowIsSet

LEMMA FactsInvKept ==
  ASSUME TypeInv, Mutex, BaseInv, CheckedInv, FactsInv, [Next]_vars
  PROVE  FactsInv'
<1> SUFFICES ASSUME NEW w \in Workers
             PROVE  WorktreeIsOwn(w)' /\ HeadIsDrafted(w)' /\ TipIsOwn(w)' /\ RowIsSet(w)'
  BY DEF FactsInv
<1>1. CASE WorkerStep(w)
  BY <1>1, WorktreeStep, HeadStep, TipStep, RowStep DEF FactsInv
<1>2. CASE ~WorkerStep(w)
  BY <1>2, FactsStand
<1> QED
  BY <1>1, <1>2

LEMMA BaseInvInit == Init => BaseInv
<1>1. Init => tracking = <<>> /\ live = <<>> /\ draft \in History
  BY EmptyType DEF Init, GitInit
<1> QED
  BY <1>1, EmptyPrefix DEF BaseInv

LEMMA FactsInvInit == Init => FactsInv
<1> SUFFICES ASSUME Init, NEW w \in Workers PROVE pc[w] = "idle"
  BY DEF FactsInv, WorktreeIsOwn, HeadIsDrafted, TipIsOwn, Landed, Reverted, Pushing, RowIsSet,
     StagedLabels, PushLabels, RunningLabels
<1> QED
  BY DEF Init

\* What a run knows, in every reachable state.
LEMMA FactsHold == NoLapse => (Spec => [](Mutex /\ BaseInv /\ CheckedInv /\ FactsInv))
<1>1. SUFFICES ASSUME NoLapse PROVE Spec => [](Mutex /\ BaseInv /\ CheckedInv /\ FactsInv)
  OBVIOUS
<1>2. TypeInv /\ Mutex /\ BaseInv /\ CheckedInv /\ FactsInv /\ [Next]_vars
        => BaseInv' /\ CheckedInv' /\ FactsInv'
  BY TypeInvKept, BaseInvKept, CheckedInvKept, FactsInvKept
<1>3. Spec => []Mutex
  BY <1>1, LockExcludes
<1> QED
  BY <1>2, <1>3, BaseInvInit, CheckedInvInit, FactsInvInit, TypesHold, PTL DEF Spec

----------------------------------------------------------------------------
(* What is published. *)

LEMMA PublishedKept ==
  ASSUME TypeInv, TypeInv', FactsInv, PublishedIsOnDraft, [Next]_vars
  PROVE  PublishedIsOnDraft'
<1>0. /\ main \in History /\ draft \in History /\ Foreign \in Commit
      /\ main' \in History /\ draft' \in History
  BY CommitTypes DEF TypeInv, TypeOK, GitTypeOK
<1>1. IsPrefix(draft, draft')
  BY GrowsOnly DEF BranchesGrow
<1>2. CASE UNCHANGED main
  BY <1>0, <1>1, <1>2, PrefixTransitive DEF PublishedIsOnDraft
<1>3. CASE \E w \in Workers : Publishes(w)
  BY <1>3 DEF Publishes, PublishMain, FactsInv, HeadIsDrafted, PublishedIsOnDraft
<1>4. CASE main' = Append(main, Foreign)
  <2>1. Len(main) + 1 \in DOMAIN main' /\ main'[Len(main) + 1] = Foreign
    BY <1>0, <1>4, AppendFacts
  <2> QED
    BY <2>1 DEF PublishedIsOnDraft
<1> QED
  BY <1>2, <1>3, <1>4, CodeSteps DEF CodeStep, CodeStands, Lands, Undoes, Saves, Rebuilds, Destroys,
     PushedFromOutside, CommitAndMerge, RevertHead, PushDraft, CloneDraft

\* "What is published is exactly what is on draft" (publish): whatever crashes, is lost or is
\* retried, and however far ahead of draft a sandbox gets, main is a point in draft's history,
\* unless somebody pushed to main directly.
THEOREM PublishesTheDraft == NoLapse => (Spec => []PublishedIsOnDraft)
<1>1. SUFFICES ASSUME NoLapse PROVE Spec => []PublishedIsOnDraft
  OBVIOUS
<1>2. TypeInv /\ FactsInv /\ PublishedIsOnDraft /\ [Next]_vars => PublishedIsOnDraft'
  BY TypeInvKept, PublishedKept
<1>3. Init => PublishedIsOnDraft
  BY EmptyType, EmptyPrefix DEF Init, GitInit, PublishedIsOnDraft
<1>4. Spec => [](Mutex /\ BaseInv /\ CheckedInv /\ FactsInv)
  BY <1>1, FactsHold
<1> QED
  BY <1>2, <1>3, <1>4, TypesHold, PTL DEF Spec

LEMMA MainMoves ==
  ASSUME TypeInv, FactsInv, [Next]_vars, main' # main, Last(main') # Foreign
  PROVE  main' \in built
<1>1. CASE \E w \in Workers : Publishes(w)
  BY <1>1 DEF Publishes, PublishMain, FactsInv, HeadIsDrafted
<1>2. CASE main' = Append(main, Foreign)
  <2>1. Last(main') = Foreign
    BY <1>2, CommitTypes, AppendFacts DEF Last, TypeInv, TypeOK, GitTypeOK
  <2> QED
    BY <2>1
<1> QED
  BY <1>1, <1>2, CodeSteps DEF CodeStep, CodeStands, Lands, Undoes, Saves, Rebuilds, Destroys,
     PushedFromOutside, CommitAndMerge, RevertHead, PushDraft, CloneDraft

\* "main only moves after a production build of that exact commit succeeded" (publish): so does
\* every step of every run that moves main otherwise than by a push from outside.
THEOREM PublishesTheBuilt == NoLapse => (Spec => MainIsBuilt)
<1>1. SUFFICES ASSUME NoLapse PROVE Spec => MainIsBuilt
  OBVIOUS
<1>2. TypeInv /\ FactsInv /\ [Next]_vars
        => [main' # main /\ Last(main') # Foreign => main' \in built]_vars
  BY MainMoves
<1>3. Spec => [](Mutex /\ BaseInv /\ CheckedInv /\ FactsInv)
  BY <1>1, FactsHold
<1> QED
  BY <1>2, <1>3, TypesHold, PTL DEF Spec, MainIsBuilt

----------------------------------------------------------------------------
(* What is undone. *)

\* An operation's change lands on top of the live tree, whose head its worktree was made from.
LEMMA LandsOnTop ==
  ASSUME TypeInv, CheckedInv, FactsInv, NEW w \in Workers, Lands(w)
  PROVE  /\ Cur(w) \in Ops
         /\ live' = Append(live, Change(Cur(w), TRUE))
         /\ UNCHANGED <<tracking, draft, main>>
<1>1. staging.base = live
  BY DEF Lands, Reachable, FactsInv, WorktreeIsOwn, StagedLabels
<1>2. staging.good = TRUE
  BY StagingFields DEF Lands, CheckedInv, TypeInv, TypeOK
<1>3. Cur(w) \in Ops
  BY CurTypes DEF Lands, RunningLabels, PushLabels, Labels
<1> QED
  BY <1>1, <1>2, <1>3 DEF Lands, CommitAndMerge

\* What is undone is the last commit of the live tree, and it is the operation's change.
LEMMA UndoesTheTip ==
  ASSUME TypeInv, FactsInv, NEW w \in Workers, Undoes(w)
  PROVE  /\ Cur(w) \in Ops
         /\ EndsWith(live, Change(Cur(w), TRUE))
         /\ live' = Append(live, Revert(Cur(w)))
         /\ UNCHANGED <<tracking, draft, main>>
<1>1. Cur(w) \in Ops
  BY CurTypes DEF Undoes, RunningLabels, PushLabels, Labels
<1> QED
  BY <1>1 DEF Undoes, Reachable, FactsInv, TipIsOwn, Landed, RevertHead

UndoneRight(h) ==
  \A i \in DOMAIN h : h[i].kind = "revert" => i > 1 /\ h[i - 1] = Change(h[i].op, TRUE)

LEMMA AppendUndone ==
  ASSUME NEW h \in History, NEW c \in Commit, UndoneRight(h),
         c.kind = "revert" => EndsWith(h, Change(c.op, TRUE))
  PROVE  UndoneRight(Append(h, c))
<1>1. /\ Len(h) \in Nat /\ DOMAIN h = 1 .. Len(h) /\ DOMAIN Append(h, c) = DOMAIN h \cup {Len(h) + 1}
      /\ \A i \in DOMAIN h : Append(h, c)[i] = h[i]
      /\ Append(h, c)[Len(h) + 1] = c
  BY HistoryFacts, AppendFacts
<1> SUFFICES ASSUME NEW i \in DOMAIN Append(h, c), Append(h, c)[i].kind = "revert"
             PROVE  i > 1 /\ Append(h, c)[i - 1] = Change(Append(h, c)[i].op, TRUE)
  BY DEF UndoneRight
<1>2. CASE i \in DOMAIN h
  <2>1. i > 1 /\ h[i - 1] = Change(h[i].op, TRUE)
    BY <1>1, <1>2 DEF UndoneRight
  <2>2. i - 1 \in DOMAIN h
    BY <1>1, <1>2, <2>1
  <2> QED
    BY <1>1, <1>2, <2>1, <2>2
<1>3. CASE i = Len(h) + 1
  <2>1. h # <<>> /\ h[Len(h)] = Change(c.op, TRUE)
    BY <1>1, <1>3 DEF EndsWith
  <2>2. Len(h) > 0
    BY <1>1, <2>1 DEF History
  <2>3. Len(h) \in DOMAIN h
    BY <1>1, <2>2
  <2>4. Append(h, c)[Len(h)] = Change(c.op, TRUE) /\ Append(h, c)[Len(h) + 1] = c
    BY <1>1, <2>1, <2>3
  <2>5. i > 1 /\ i - 1 = Len(h)
    BY <1>1, <1>3, <2>2
  <2> QED
    BY <1>3, <2>4, <2>5
<1> QED
  BY <1>1, <1>2, <1>3

LEMMA PrefixUndone ==
  ASSUME NEW g \in History, NEW h \in History, IsPrefix(g, h), UndoneRight(h)
  PROVE  UndoneRight(g)
<1>1. /\ Len(g) \in Nat /\ DOMAIN g = 1 .. Len(g)
      /\ \A i \in DOMAIN g : i \in DOMAIN h /\ h[i] = g[i]
  BY HistoryFacts, PrefixFacts
<1> SUFFICES ASSUME NEW i \in DOMAIN g, g[i].kind = "revert"
             PROVE  i > 1 /\ g[i - 1] = Change(g[i].op, TRUE)
  BY DEF UndoneRight
<1>2. i > 1 /\ h[i - 1] = Change(h[i].op, TRUE)
  BY <1>1 DEF UndoneRight
<1>3. i - 1 \in DOMAIN g
  BY <1>1, <1>2
<1> QED
  BY <1>1, <1>2, <1>3

LEMMA CommitFields ==
  /\ \A o : Change(o, TRUE).kind = "change" /\ Change(o, TRUE).op = o
  /\ \A o : Revert(o).kind = "revert" /\ Revert(o).op = o
  /\ Foreign.kind = "foreign" /\ Foreign.op = 0
  BY DEF Change, Revert, Foreign

UndoInv == UndoneRight(live) /\ UndoneRight(draft) /\ UndoneRight(main)

LEMMA UndoInvKept ==
  ASSUME TypeInv, CheckedInv, FactsInv, UndoInv, [Next]_vars
  PROVE  UndoInv'
<1>0. /\ live \in History /\ draft \in History /\ main \in History
      /\ \A w \in Workers : run[w].head \in History
      /\ Foreign \in Commit /\ UndoneRight(<<>>)
  BY CommitTypes, CurTypes DEF TypeInv, TypeOK, GitTypeOK, UndoneRight
<1>1. ASSUME NEW w \in Workers, Lands(w) PROVE UndoInv'
  <2>1. /\ live' = Append(live, Change(Cur(w), TRUE)) /\ UNCHANGED <<draft, main>>
        /\ Change(Cur(w), TRUE) \in Commit /\ Change(Cur(w), TRUE).kind # "revert"
    BY <1>1, LandsOnTop, CommitTypes, CommitFields
  <2>2. UndoneRight(Append(live, Change(Cur(w), TRUE)))
    BY <1>0, <2>1, AppendUndone DEF UndoInv
  <2> QED
    BY <2>1, <2>2 DEF UndoInv
<1>2. ASSUME NEW w \in Workers, Undoes(w) PROVE UndoInv'
  <2>1. /\ live' = Append(live, Revert(Cur(w))) /\ UNCHANGED <<draft, main>>
        /\ Revert(Cur(w)) \in Commit /\ EndsWith(live, Change(Revert(Cur(w)).op, TRUE))
    BY <1>2, UndoesTheTip, CommitTypes, CommitFields
  <2>2. UndoneRight(Append(live, Revert(Cur(w))))
    BY <1>0, <2>1, AppendUndone DEF UndoInv
  <2> QED
    BY <2>1, <2>2 DEF UndoInv
<1>3. ASSUME NEW w \in Workers, Publishes(w) PROVE UndoInv'
  <2>1. IsPrefix(run[w].head, draft)
    BY <1>3 DEF Publishes, FactsInv, HeadIsDrafted
  <2> QED
    BY <1>0, <1>3, <2>1, PrefixUndone DEF Publishes, PublishMain, UndoInv
<1>4. CASE CodeStands \/ Saves \/ Rebuilds \/ Destroys
  BY <1>0, <1>4 DEF CodeStands, Saves, Rebuilds, Destroys, PushDraft, CloneDraft, DropSandbox, UndoInv
<1>5. CASE PushedFromOutside
  <2>1. \A h \in History : UndoneRight(h) => UndoneRight(Append(h, Foreign))
    BY <1>0, CommitFields, AppendUndone
  <2> QED
    BY <1>0, <1>5, <2>1 DEF PushedFromOutside, sandboxGit, UndoInv
<1> QED
  BY <1>1, <1>2, <1>3, <1>4, <1>5, CodeSteps DEF CodeStep

LEMMA UndoInvInit == Init => UndoInv
  BY DEF Init, GitInit, UndoInv, UndoneRight

----------------------------------------------------------------------------
(* What a step does to the operations' statuses. *)

Created == \E o \in Ops : IsNew(o) /\ SetStatus(o, "queued")

Begins(w) ==
  /\ pc[w] = "next" /\ pc'[w] = "stage"
  /\ \E o \in Queued : /\ IsOldest(o, Queued) /\ SetStatus(o, "staging")
                       /\ run' = [run EXCEPT ![w] = [NoRun EXCEPT !.op = o]]

Advances(w) ==
  /\ pc[w] \in {"prepare", "check", "status", "build"}
  /\ \E s \in InProgress : SetStatus(Cur(w), s)
  /\ pc'[w] \in {"prepare", "check", "apply", "build", "release"}

Endings == { <<"noop", "applied">>, <<"finish", "applied">>, <<"published", "applied">>,
             <<"undone", "reverted">>, <<"reject", "rejected">>, <<"fail", "failed">> }
Concludes(w) ==
  /\ \E s \in Finished : <<pc[w], s>> \in Endings /\ SetStatus(Cur(w), s)
  /\ pc'[w] \in {"next", "followUps"}

Recovers(w) ==
  /\ pc[w] = "recover" /\ UNCHANGED <<pc, run>>
  /\ \E o \in Stuck, s \in {"applied", "failed"} : SetStatus(o, s)

Denies(w) == FailQueued(w) /\ \E o \in doomed[w] : SetStatus(o, "failed")

StatusStep ==
  \/ UNCHANGED status
  \/ Created
  \/ \E w \in Workers : Begins(w) \/ Advances(w) \/ Concludes(w) \/ Recovers(w) \/ Denies(w)

LEMMA StatusSteps ==
  ASSUME TypeInv, [Next]_vars
  PROVE  StatusStep
<1> USE DEF ops, records
<1>0. pc \in [Workers -> Labels]
  BY DEF TypeInv, TypeOK, WorkersTypeOK
<1>1. \/ UNCHANGED status => StatusStep
      \/ Created => StatusStep
  BY DEF StatusStep
<1>2. ASSUME NEW w \in Workers, NextOperation(w) PROVE Begins(w)
  BY <1>0, <1>2 DEF NextOperation, Begins, At, Goto
<1>3. ASSUME NEW w \in Workers, Prepare(w) \/ Check(w) \/ PublishStatus(w) \/ Build(w)
      PROVE  UNCHANGED status \/ Advances(w)
  BY <1>0, <1>3 DEF Prepare, Check, PublishStatus, Build, Advances, InProgress, At, Goto
<1>4. ASSUME NEW w \in Workers, Undone(w) \/ Finish(w) \/ Noop(w) \/ Reject(w) \/ Fail(w) \/ Published(w)
      PROVE  UNCHANGED status \/ Concludes(w)
  BY <1>0, <1>4 DEF Undone, Finish, Noop, Reject, Fail, Published, Conclude, ConcludeApplied, Concludes,
     Endings, Finished, At, Goto
<1>5. ASSUME NEW w \in Workers, Recover(w) PROVE Recovers(w)
  BY <1>5 DEF Recover, RecoverAs, Recovers, At
<1>6. ASSUME NEW w \in Workers, FailQueued(w) PROVE UNCHANGED status \/ Denies(w)
  BY <1>6 DEF FailQueued, Denies
<1>7. ASSUME NEW w \in Workers, FollowUps(w) PROVE UNCHANGED status \/ Created
  BY <1>7 DEF FollowUps, Created
<1>8. ASSUME NEW o \in Ops, (\E t \in OperationTypes : Submit(o, t)) \/ AddJob(o) \/ ApiDies(o)
      PROVE  UNCHANGED status \/ Created
  BY <1>8 DEF Submit, AddJob, ApiDies, Created
<1>9. CASE Expire \/ Lapse \/ Lifecycle \/ Outside \/ UNCHANGED vars
  BY <1>9 DEF StatusStep, Expire, Lapse, Lifecycle, Visit, Pause, Reconcile, Stop, Outside, Sleep, Vanish,
     ForeignPush, vars
<1>10. ASSUME NEW w \in Workers,
              \/ TakePushJob(w) \/ Crash(w) \/ (\E o \in Ops : TakeJob(w, o))
              \/ Drain(w) \/ Recovered(w) \/ Drained(w) \/ NotRunning(w)
              \/ Stage(w) \/ Plan(w) \/ WorktreeMissing(w)
       PROVE  UNCHANGED status
  BY <1>10 DEF TakePushJob, Crash, TakeJob, Drain, Recovered, Drained, NotRunning, Stage, Plan,
     WorktreeMissing
<1>11. ASSUME NEW w \in Workers,
              \/ Apply(w) \/ Push(w) \/ Pushed(w) \/ Refused(w) \/ Schedule(w) \/ Health(w)
              \/ RevertChange(w) \/ Record(w) \/ AddFollowUp(w) \/ ReleaseMain(w) \/ Deploy(w)
              \/ PushJob(w) \/ EnsureBusy(w) \/ Ensure(w) \/ EnsureThrows(w) \/ EnsureFails(w)
       PROVE  UNCHANGED status
  BY <1>11 DEF Apply, Push, Pushed, Refused, Schedule, Health, RevertChange, Record, AddFollowUp,
     ReleaseMain, Deploy, PushJob, EnsureBusy, Ensure, EnsureThrows, EnsureFails
<1> QED
  BY <1>2, <1>3, <1>4, <1>5, <1>6, <1>7, <1>8, <1>9, <1>10, <1>11 DEF StatusStep, Next, Work

\* A status that was set: the others stand.
LEMMA StatusSet ==
  ASSUME TypeInv, NEW o \in Ops \cup {0}, NEW s, SetStatus(o, s)
  PROVE  /\ o \in Ops => status'[o] = s
         /\ \A p \in Ops : p # o => status'[p] = status[p]
  BY NumOpsAssumption DEF TypeInv, TypeOK, RowsTypeOK, SetStatus, Ops

\* An operation that has neither begun nor ended.
Unstarted(o) == status[o] \in {"none", "queued"}

\* An operation is created once, and begins once.
Ages(o) == (Unstarted(o)' => Unstarted(o)) /\ (status'[o] = "none" => status[o] = "none")

LEMMA NeverAgain ==
  ASSUME TypeInv, [Next]_vars, NEW o \in Ops
  PROVE  Ages(o)
<1> USE DEF Ages, Unstarted, InProgress, Finished
<1>1. CASE Created
  BY <1>1, StatusSet DEF Created, IsNew
<1>2. ASSUME NEW w \in Workers, Begins(w) PROVE Ages(o)
  BY <1>2, StatusSet DEF Begins, Queued
<1>3. ASSUME NEW w \in Workers, Advances(w) PROVE Ages(o)
  BY <1>3, StatusSet, CurTypes DEF Advances
<1>4. ASSUME NEW w \in Workers, Concludes(w) PROVE Ages(o)
  BY <1>4, StatusSet, CurTypes DEF Concludes
<1>5. ASSUME NEW w \in Workers, Recovers(w) PROVE Ages(o)
  BY <1>5, StatusSet DEF Recovers, Stuck
<1>6. ASSUME NEW w \in Workers, Denies(w) PROVE Ages(o)
  <2>1. doomed[w] \subseteq Ops
    BY DEF TypeInv, TypeOK, WorkersTypeOK
  <2> QED
    BY <1>6, <2>1, StatusSet DEF Denies
<1> QED
  BY <1>1, <1>2, <1>3, <1>4, <1>5, <1>6, StatusSteps DEF StatusStep

----------------------------------------------------------------------------
(* The order of operations. *)

\* The history is made of commits from C.
Within(h, C) == \A i \in DOMAIN h : h[i] \in C

LEMMA AppendWithin ==
  ASSUME NEW h \in History, NEW c \in Commit, NEW C
  PROVE  Within(Append(h, c), C) <=> Within(h, C) /\ c \in C
  BY AppendFacts DEF Within

LEMMA PrefixWithin ==
  ASSUME NEW g \in History, NEW h \in History, IsPrefix(g, h), NEW C, Within(h, C)
  PROVE  Within(g, C)
  BY PrefixFacts DEF Within

\* The commits of other operations, of those before o, and all that are not o's revert.
OfOthers(o) == {c \in Commit : c.op # o}
Earlier(o)  == {c \in Commit : c.op < o}

Behind(h, o) == Within(h, Earlier(o))
NotYet(o) == Behind(live, o) /\ Behind(draft, o) /\ Behind(main, o)
Absent(o) == Within(live, OfOthers(o)) /\ Within(draft, OfOthers(o)) /\ Within(main, OfOthers(o))

InOrder(h) ==
  \A i, j \in DOMAIN h : i < j /\ h[i].kind = "change" /\ h[j].kind = "change" => h[i].op < h[j].op

LEMMA AppendInOrder ==
  ASSUME NEW h \in History, NEW c \in Commit, InOrder(h), c.kind = "change" => Behind(h, c.op)
  PROVE  InOrder(Append(h, c))
<1>1. /\ Len(h) \in Nat /\ DOMAIN h = 1 .. Len(h) /\ DOMAIN Append(h, c) = DOMAIN h \cup {Len(h) + 1}
      /\ \A i \in DOMAIN h : Append(h, c)[i] = h[i]
      /\ Append(h, c)[Len(h) + 1] = c
  BY HistoryFacts, AppendFacts
<1> SUFFICES ASSUME NEW i \in DOMAIN Append(h, c), NEW j \in DOMAIN Append(h, c), i < j,
                    Append(h, c)[i].kind = "change", Append(h, c)[j].kind = "change"
             PROVE  Append(h, c)[i].op < Append(h, c)[j].op
  BY DEF InOrder
<1>2. i \in DOMAIN h
  BY <1>1
<1>3. CASE j \in DOMAIN h
  BY <1>1, <1>2, <1>3 DEF InOrder
<1>4. CASE j = Len(h) + 1
  BY <1>1, <1>2, <1>4 DEF Behind, Within, Earlier
<1> QED
  BY <1>1, <1>3, <1>4

\* No step brings to a branch a commit that was on none, except an operation's own landing and
\* undoing, and somebody's push.
LEMMA WithinStep ==
  ASSUME TypeInv, CheckedInv, FactsInv, [Next]_vars, NEW C, Foreign \in C,
         \A w \in Workers : /\ Lands(w) => Change(Cur(w), TRUE) \in C
                            /\ Undoes(w) => Revert(Cur(w)) \in C,
         Within(live, C), Within(draft, C)
  PROVE  /\ Within(live', C) /\ Within(draft', C)
         /\ Within(main, C) => Within(main', C)
<1> DEFINE Goal == Within(live', C) /\ Within(draft', C) /\ (Within(main, C) => Within(main', C))
<1>0. /\ live \in History /\ draft \in History /\ main \in History
      /\ \A w \in Workers : run[w].head \in History
      /\ Foreign \in Commit /\ Within(<<>>, C)
  BY CommitTypes, CurTypes DEF TypeInv, TypeOK, GitTypeOK, Within
<1>1. ASSUME NEW w \in Workers, Lands(w) PROVE Goal
  <2>1. /\ live' = Append(live, Change(Cur(w), TRUE)) /\ UNCHANGED <<draft, main>>
        /\ Change(Cur(w), TRUE) \in Commit
    BY <1>1, LandsOnTop, CommitTypes
  <2>2. Within(Append(live, Change(Cur(w), TRUE)), C)
    BY <1>0, <1>1, <2>1, AppendWithin
  <2> QED
    BY <2>1, <2>2
<1>2. ASSUME NEW w \in Workers, Undoes(w) PROVE Goal
  <2>1. /\ live' = Append(live, Revert(Cur(w))) /\ UNCHANGED <<draft, main>>
        /\ Revert(Cur(w)) \in Commit
    BY <1>2, UndoesTheTip, CommitTypes
  <2>2. Within(Append(live, Revert(Cur(w))), C)
    BY <1>0, <1>2, <2>1, AppendWithin
  <2> QED
    BY <2>1, <2>2
<1>3. ASSUME NEW w \in Workers, Publishes(w) PROVE Goal
  <2>1. IsPrefix(run[w].head, draft)
    BY <1>3 DEF Publishes, FactsInv, HeadIsDrafted
  <2>2. Within(run[w].head, C)
    BY <1>0, <2>1, PrefixWithin
  <2> QED
    BY <1>3, <2>2 DEF Publishes, PublishMain
<1>4. CASE CodeStands \/ Saves \/ Rebuilds \/ Destroys
  BY <1>0, <1>4 DEF CodeStands, Saves, Rebuilds, Destroys, PushDraft, CloneDraft, DropSandbox
<1>5. CASE PushedFromOutside
  <2>1. \A h \in History : Within(h, C) => Within(Append(h, Foreign), C)
    BY <1>0, AppendWithin
  <2> QED
    BY <1>0, <1>5, <2>1 DEF PushedFromOutside, sandboxGit
<1> QED
  BY <1>1, <1>2, <1>3, <1>4, <1>5, CodeSteps DEF CodeStep

LEMMA CommitKinds ==
  ASSUME NEW o \in Ops, NEW p \in Ops
  PROVE  /\ p < o => Change(p, TRUE) \in Earlier(o) /\ Revert(p) \in Earlier(o)
         /\ p # o => Change(p, TRUE) \in OfOthers(o) /\ Revert(p) \in OfOthers(o)
         /\ Foreign \in Earlier(o) /\ Foreign \in OfOthers(o)
<1>1. /\ Change(p, TRUE) \in Commit /\ Revert(p) \in Commit /\ Foreign \in Commit
      /\ Change(p, TRUE).op = p /\ Revert(p).op = p /\ Foreign.op = 0
  BY CommitTypes, CommitFields
<1>2. 0 < o /\ o # 0
  BY DEF Ops
<1> QED
  BY <1>1, <1>2 DEF Earlier, OfOthers

LEMMA NotYetStep ==
  ASSUME TypeInv, CheckedInv, FactsInv, [Next]_vars, NEW o \in Ops, NotYet(o),
         \A w \in Workers : Lands(w) \/ Undoes(w) => Cur(w) < o
  PROVE  NotYet(o)'
<1>1. \A w \in Workers : /\ Lands(w) => Change(Cur(w), TRUE) \in Earlier(o)
                         /\ Undoes(w) => Revert(Cur(w)) \in Earlier(o)
  BY LandsOnTop, UndoesTheTip, CommitKinds
<1>2. Foreign \in Earlier(o)
  BY CommitKinds
<1> QED
  BY <1>1, <1>2, WithinStep DEF NotYet, Behind, Earlier

LEMMA AbsentStep ==
  ASSUME TypeInv, CheckedInv, FactsInv, [Next]_vars, NEW o \in Ops, Absent(o),
         \A w \in Workers : Lands(w) \/ Undoes(w) => Cur(w) # o
  PROVE  Absent(o)'
<1>1. \A w \in Workers : /\ Lands(w) => Change(Cur(w), TRUE) \in OfOthers(o)
                         /\ Undoes(w) => Revert(Cur(w)) \in OfOthers(o)
  BY LandsOnTop, UndoesTheTip, CommitKinds
<1>2. Foreign \in OfOthers(o)
  BY CommitKinds
<1> QED
  BY <1>1, <1>2, WithinStep DEF Absent, OfOthers

LEMMA NotYetAbsent ==
  ASSUME NEW o \in Ops, NotYet(o)
  PROVE  Absent(o)
  BY DEF NotYet, Behind, Absent, Within, Earlier, OfOthers, Ops

LEMMA AbsentMeans ==
  ASSUME TypeInv, NEW o \in Ops
  PROVE  Absent(o) <=> \A h \in {live, draft, main} : ~Mentions(h, o)
<1>1. \A h \in {live, draft, main} : \A i \in DOMAIN h : h[i] \in Commit
  BY HistoryFacts DEF TypeInv, TypeOK, GitTypeOK
<1> QED
  BY <1>1 DEF Absent, Within, OfOthers, Mentions

\* A worker that owns the operation it runs, and one that has not landed anything yet.
Owning(w) == pc[w] \in RunningLabels /\ run[w].after # "pushJob"
Unlanded(w) == Pushing(w, "restage") \/ pc[w] \in StagedLabels \cup {"stage", "restage", "reject"}

LEMMA OwnedTypes ==
  ASSUME TypeInv, NEW w \in Workers, Owning(w)
  PROVE  Cur(w) \in Ops
<1>1. Cur(w) \in Ops \cup {0}
  BY CurTypes
<1>2. LocalOK(pc[w], run[w])
  BY DEF TypeInv, LocalsOK
<1> QED
  BY <1>1, <1>2 DEF LocalOK, Owning, Cur

Numbered == \A p, q \in Ops : status[p] = "none" /\ status[q] # "none" => q < p
DoomedExist == \A w \in Workers : \A o \in doomed[w] : status[o] # "none"

OrderInv ==
  /\ Numbered /\ DoomedExist
  /\ \A o \in Ops : Unstarted(o) => NotYet(o)
  /\ \A w \in Workers : Unlanded(w) => NotYet(Cur(w))
  /\ \A w \in Workers : Owning(w) => /\ status[Cur(w)] \in InProgress \cup {"failed"}
                                     /\ \A o \in Ops : Unstarted(o) => Cur(w) < o
  /\ InOrder(live) /\ InOrder(draft)
  /\ RejectedNeverLands

\* Whoever advances or concludes an operation owns it.
LEMMA OwnersConclude ==
  ASSUME TypeInv, NEW w \in Workers, Advances(w) \/ Concludes(w) \/ Lands(w) \/ Undoes(w)
  PROVE  Owning(w) /\ Cur(w) \in Ops /\ pc[w] \in HeldLabels
<1>1. pc[w] \in {"prepare", "check", "status", "build", "noop", "finish", "published", "undone",
                "reject", "fail", "apply", "revert"}
  BY DEF Advances, Concludes, Endings, Lands, Undoes
<1>2. pc[w] \in RunningLabels \ PushLabels /\ pc[w] \in HeldLabels
  BY <1>1 DEF RunningLabels, PushLabels, Labels, HeldLabels
<1> QED
  BY <1>2, CurTypes DEF Owning, TypeInv, LocalsOK, LocalOK

LEMMA NumberedKept ==
  ASSUME TypeInv, OrderInv, [Next]_vars
  PROVE  Numbered'
<1> SUFFICES ASSUME NEW p \in Ops, NEW q \in Ops, status'[p] = "none", status'[q] # "none"
             PROVE  q < p
  BY DEF Numbered
<1>1. status[p] = "none"
  BY NeverAgain DEF Ages
<1>2. CASE status[q] # "none"
  BY <1>1, <1>2 DEF OrderInv, Numbered
<1>3. CASE status[q] = "none"
  <2>1. ASSUME NEW w \in Workers, Advances(w) \/ Concludes(w) PROVE FALSE
    <3>1. Cur(w) \in Ops /\ status[Cur(w)] # "none"
      BY <2>1, OwnersConclude DEF OrderInv, InProgress
    <3>2. \E s : SetStatus(Cur(w), s)
      BY <2>1 DEF Advances, Concludes
    <3> QED
      BY <1>3, <3>1, <3>2, StatusSet
  <2>2. ASSUME NEW w \in Workers, Begins(w) \/ Recovers(w) \/ Denies(w) PROVE FALSE
    <3>1. doomed[w] \subseteq Ops
      BY DEF TypeInv, TypeOK, WorkersTypeOK
    <3>2. \E o \in Ops, s \in Statuses : status[o] # "none" /\ SetStatus(o, s)
      BY <2>2, <3>1 DEF Begins, Recovers, Denies, Queued, Stuck, OrderInv, DoomedExist, InProgress,
         Statuses, Finished
    <3> QED
      BY <1>3, <3>2, StatusSet
  <2>3. Created
    BY <1>3, <2>1, <2>2, StatusSteps DEF StatusStep
  <2> QED
    BY <1>1, <1>3, <2>3, StatusSet DEF Created, IsNew, Ops
<1> QED
  BY <1>2, <1>3

\* failQueued's list is what is queued when the sandbox cannot be started, and then gets shorter.
Dooms(w)  == EnsureFails(w) /\ doomed' = [doomed EXCEPT ![w] = Queued]
Spares(w) == \E S \in SUBSET doomed[w] : doomed' = [doomed EXCEPT ![w] = S]

LEMMA DoomSteps ==
  ASSUME TypeInv, [Next]_vars
  PROVE  \/ UNCHANGED doomed
         \/ \E w \in Workers : Dooms(w) \/ Spares(w)
<1> USE DEF Forget, EndJob, JobFails, elsewhere, stack
<1>0. doomed \in [Workers -> SUBSET Ops]
  BY DEF TypeInv, TypeOK, WorkersTypeOK
<1> DEFINE Kept(w) == UNCHANGED doomed \/ Dooms(w) \/ Spares(w)
<1> USE DEF Dooms, Spares
<1>1. ASSUME NEW w \in Workers, TakePushJob(w) \/ Crash(w) \/ \E o \in Ops : TakeJob(w, o) PROVE Kept(w)
  BY <1>1 DEF TakePushJob, Crash, TakeJob
<1>2. ASSUME NEW w \in Workers,
             \/ Drain(w) \/ Recover(w) \/ Recovered(w) \/ NextOperation(w) \/ Drained(w) \/ NotRunning(w)
             \/ Stage(w) \/ Plan(w) \/ Prepare(w) \/ Check(w) \/ WorktreeMissing(w) \/ Apply(w)
      PROVE  Kept(w)
  BY <1>2 DEF Drain, Recover, RecoverAs, Recovered, NextOperation, Drained, NotRunning, Stage, Plan, Prepare,
     Check, WorktreeMissing, Apply
<1>3. ASSUME NEW w \in Workers,
             \/ Push(w) \/ Pushed(w) \/ Refused(w) \/ Schedule(w) \/ Health(w) \/ RevertChange(w)
             \/ Undone(w) \/ Record(w) \/ Finish(w) \/ Noop(w) \/ Reject(w) \/ Fail(w)
      PROVE  Kept(w)
  BY <1>3 DEF Push, PushThrows, Pushed, Refused, Schedule, Health, RevertChange, Undone, Record, Finish,
     Noop, Reject, Fail
<1>4. ASSUME NEW w \in Workers,
             \/ FollowUps(w) \/ AddFollowUp(w) \/ PublishStatus(w) \/ Build(w) \/ ReleaseMain(w)
             \/ Deploy(w) \/ Published(w) \/ PushJob(w) \/ EnsureBusy(w) \/ Ensure(w) \/ EnsureThrows(w)
      PROVE  Kept(w)
  BY <1>4 DEF FollowUps, AddFollowUp, PublishStatus, Build, ReleaseMain, Deploy, Published, PushJob,
     EnsureBusy, Later, Ensure, EnsureThrows
<1>5. ASSUME NEW w \in Workers, EnsureFails(w) \/ FailQueued(w) PROVE Kept(w)
  BY <1>5 DEF EnsureFails, FailQueued
<1>6. CASE \/ \E o \in Ops : (\E t \in OperationTypes : Submit(o, t)) \/ AddJob(o) \/ ApiDies(o)
           \/ Expire \/ Lapse \/ Lifecycle \/ Outside \/ UNCHANGED vars
  BY <1>6 DEF Submit, AddJob, ApiDies, Expire, Lapse, Lifecycle, Visit, Pause, Reconcile, Stop, Outside,
       Sleep, Vanish, ForeignPush, vars
<1> QED
  BY <1>1, <1>2, <1>3, <1>4, <1>5, <1>6 DEF Next, Work

LEMMA DoomedKept ==
  ASSUME TypeInv, DoomedExist, [Next]_vars
  PROVE  DoomedExist'
<1>1. /\ doomed \in [Workers -> SUBSET Ops] /\ Queued \subseteq Ops
  BY DEF TypeInv, TypeOK, WorkersTypeOK, Queued
<1>2. \A v \in Workers : doomed'[v] \subseteq doomed[v] \cup Queued /\ doomed[v] \subseteq Ops
  BY <1>1, DoomSteps DEF Dooms, Spares
<1>3. \A v \in Workers : \A o \in doomed'[v] : o \in Ops /\ status[o] # "none"
  BY <1>1, <1>2 DEF DoomedExist, Queued
<1> QED
  BY <1>3, NeverAgain DEF DoomedExist, Ages

\* A worker that owns its operation has just taken it up, or owned it already.
LEMMA OwningSteps ==
  ASSUME TypeInv, NEW w \in Workers, WorkerStep(w), Owning(w)'
  PROVE  NextOperation(w) \/ (Owning(w) /\ Cur(w)' = Cur(w))
<1> USE DEF At, Goto, Abort, Raise, Forget, EndJob, JobFails, elsewhere, stack
<1>0. /\ pc \in [Workers -> Labels] /\ run \in [Workers -> Run]
      /\ LocalOK(pc[w], run[w])
      /\ pc'[w] \in RunningLabels /\ run'[w].after # "pushJob"
      /\ RunningLabels = Labels \ {"idle", "drain", "recover", "next", "followUps", "addFollowUp",
                           "pushJob", "ensure", "failQueued"}
  BY DEF TypeInv, TypeOK, WorkersTypeOK, LocalsOK, Owning, RunningLabels
<1>1. CASE TakePushJob(w) \/ Crash(w) \/ \E o \in Ops : TakeJob(w, o)
  BY <1>0, <1>1 DEF TakePushJob, Crash, TakeJob
<1>2. CASE Drain(w) \/ Recover(w) \/ Recovered(w) \/ Drained(w) \/ NotRunning(w)
  BY <1>0, <1>2 DEF Drain, Recover, RecoverAs, Recovered, Drained, NotRunning
<1>3. ASSUME pc[w] \in RunningLabels \ PushLabels, run'[w].op = run[w].op
      PROVE  Owning(w) /\ Cur(w)' = Cur(w)
  BY <1>0, <1>3 DEF LocalOK, Owning, Cur
<1>4. CASE \/ Stage(w) \/ Plan(w) \/ Prepare(w) \/ Check(w) \/ WorktreeMissing(w) \/ Apply(w)
           \/ Health(w) \/ RevertChange(w)
  <2>1. pc[w] \in RunningLabels \ PushLabels
    BY <1>0, <1>4 DEF Stage, Plan, Prepare, Check, WorktreeMissing, Apply, Health, RevertChange, PushLabels, Labels
  <2>2. \/ UNCHANGED run \/ (\E a : run' = [run EXCEPT ![w].after = a])
        \/ run' = [run EXCEPT ![w].repaired = TRUE]
        \/ run' = [run EXCEPT ![w] = [@ EXCEPT !.committed = TRUE, !.after = "health"]]
    BY <1>4 DEF Stage, Plan, Prepare, Check, WorktreeMissing, Apply, Health, RevertChange
  <2> QED
    BY <1>3, <2>1, <2>2, LocalSteps
<1>5. CASE Push(w) \/ Pushed(w) \/ Refused(w) \/ Schedule(w)
  <2>1. pc[w] \in RunningLabels
    BY <1>0, <1>5 DEF Push, Pushed, Refused, Schedule, Labels
  <2>2. \/ UNCHANGED run \/ pc'[w] = "idle"
        \/ run[w].after # "pushJob" /\ run' = [run EXCEPT ![w].after = "thrown"]
    BY <1>0, <1>5 DEF Push, Pushed, Refused, Schedule, PushThrows
  <2>3. run'[w].op = run[w].op /\ run[w].after # "pushJob"
    BY <1>0, <2>2, LocalSteps
  <2> QED
    BY <2>1, <2>3 DEF Owning, Cur
<1>6. CASE Undone(w) \/ Record(w) \/ Finish(w) \/ Noop(w) \/ Reject(w) \/ Fail(w)
  <2>1. pc[w] \in RunningLabels \ PushLabels
    BY <1>0, <1>6 DEF Undone, Record, Finish, Noop, Reject, Fail, PushLabels, Labels
  <2>2. UNCHANGED run \/ (\E a : run' = [run EXCEPT ![w].after = a])
    BY <1>0, <1>6 DEF Undone, Record, Finish, Noop, Reject, Fail, Conclude, ConcludeApplied
  <2> QED
    BY <1>3, <2>1, <2>2, LocalSteps
<1>7. CASE FollowUps(w) \/ AddFollowUp(w)
  BY <1>0, <1>7 DEF FollowUps, AddFollowUp
<1>8. CASE PublishStatus(w) \/ Build(w) \/ ReleaseMain(w) \/ Deploy(w) \/ Published(w)
  <2>1. pc[w] \in RunningLabels \ PushLabels
    BY <1>0, <1>8 DEF PublishStatus, Build, ReleaseMain, Deploy, Published, PushLabels, Labels
  <2>2. \/ UNCHANGED run \/ (\E a : run' = [run EXCEPT ![w].after = a])
        \/ run' = [run EXCEPT ![w].head = live]
    BY <1>0, <1>8 DEF PublishStatus, Build, ReleaseMain, Deploy, Published, Conclude
  <2> QED
    BY <1>3, <2>1, <2>2, LocalSteps
<1>9. CASE PushJob(w)
  BY <1>0, <1>9, LocalSteps DEF PushJob
<1>10. CASE EnsureBusy(w) \/ Ensure(w) \/ EnsureThrows(w) \/ EnsureFails(w) \/ FailQueued(w)
  BY <1>0, <1>10 DEF EnsureBusy, Ensure, EnsureThrows, EnsureFails, FailQueued, Later
<1> QED
  BY <1>1, <1>2, <1>4, <1>5, <1>6, <1>7, <1>8, <1>9, <1>10 DEF WorkerStep, Work

LEMMA StillOwning ==
  ASSUME TypeInv, [Next]_vars, NEW w \in Workers, Owning(w)'
  PROVE  NextOperation(w) \/ (Owning(w) /\ Cur(w)' = Cur(w))
<1>1. CASE WorkerStep(w)
  BY <1>1, OwningSteps
<1>2. CASE ~WorkerStep(w)
  <2>1. pc'[w] = pc[w] /\ run'[w] = run[w]
    BY <1>2, Bystanders
  <2> QED
    BY <2>1 DEF Owning, Cur
<1> QED
  BY <1>1, <1>2

LEMMA StillUnlanded ==
  ASSUME TypeInv, TypeInv', [Next]_vars, NEW w \in Workers, Unlanded(w)'
  PROVE  NextOperation(w) \/ (Unlanded(w) /\ Cur(w)' = Cur(w))
<1>0. /\ pc \in [Workers -> Labels] /\ run \in [Workers -> Run] /\ LocalOK(pc[w], run[w])
      /\ LocalOK(pc'[w], run'[w]) /\ pc'[w] \in Labels
  BY DEF TypeInv, TypeOK, WorkersTypeOK, LocalsOK
<1>1. CASE ~WorkerStep(w)
  <2>1. pc'[w] = pc[w] /\ run'[w] = run[w]
    BY <1>1, Bystanders
  <2> QED
    BY <2>1 DEF Unlanded, Pushing, Cur
<1>2. CASE WorkerStep(w)
  <2>1. pc'[w] \in StagedLabels \cup {"stage", "restage", "reject"} \/ Pushing(w, "restage")'
    BY DEF Unlanded
  <2>2. Owning(w)'
    BY <1>0, <2>1 DEF Owning, Pushing, PushLabels, StagedLabels, RunningLabels, Labels, LocalOK
  <2>3. NextOperation(w) \/ Cur(w)' = Cur(w)
    BY <1>2, <2>2, OwningSteps
  <2>4. CASE pc'[w] \in StagedLabels \cup {"stage", "reject"}
    <3>1. \/ NextOperation(w) \/ Stage(w) \/ Plan(w) \/ Check(w) \/ Prepare(w) \/ PublishStatus(w)
          \/ Apply(w) \/ Build(w)
      BY <1>2, <2>4, Arrivals DEF StagedLabels
    <3>2. NextOperation(w) \/ pc[w] \in StagedLabels \cup {"stage", "restage"}
      BY <3>1 DEF Stage, Plan, Check, Prepare, PublishStatus, Apply, Build, StagedLabels, At
    <3> QED
      BY <2>3, <3>2 DEF Unlanded
  <2>5. CASE pc'[w] = "restage"
    <3>1. Pushed(w)
      BY <1>2, <2>5, Arrivals
    <3>2. pc[w] = "pushed" /\ run[w].after = "restage"
      BY <1>0, <2>5, <3>1 DEF Pushed, At, Goto, EndJob, Forget
    <3> QED
      BY <2>3, <3>2 DEF Unlanded, Pushing, PushLabels
  <2>6. CASE Pushing(w, "restage")'
    <3>1. pc'[w] \in PushLabels \cup {"schedule"} /\ run'[w].after = "restage"
      BY <2>6 DEF Pushing
    <3>2. pc[w] = "stage" \/ (pc[w] \in PushLabels /\ run'[w] = run[w])
      BY <1>2, <3>1, PushSteps
    <3> QED
      BY <2>3, <3>1, <3>2 DEF Unlanded, Pushing, Stage
  <2> QED
    BY <2>1, <2>4, <2>5, <2>6
<1> QED
  BY <1>1, <1>2

LEMMA OneHolds ==
  ASSUME Mutex, NEW v \in Workers, NEW w \in Workers, pc[v] \in HeldLabels, pc[w] \in HeldLabels
  PROVE  v = w
  BY DEF Mutex

\* What a worker knows of the operation it owns: nobody else concludes it, except failQueued.
LEMMA OwnedKept ==
  ASSUME TypeInv, Mutex, OrderInv, [Next]_vars, NEW w \in Workers, Owning(w)'
  PROVE  /\ status'[Cur(w)'] \in InProgress \cup {"failed"}
         /\ \A o \in Ops : Unstarted(o)' => Cur(w)' < o
<1>0. \A o \in Ops : Unstarted(o)' => Unstarted(o)
  BY NeverAgain DEF Ages
<1>1. CASE NextOperation(w)
  <2>1. PICK o \in Queued : /\ IsOldest(o, Queued) /\ SetStatus(o, "staging")
                            /\ run' = [run EXCEPT ![w] = [NoRun EXCEPT !.op = o]]
    BY <1>1 DEF NextOperation
  <2>2. o \in Ops /\ status[o] = "queued" /\ Cur(w)' = o
    BY <2>1 DEF Queued, Cur, TypeInv, TypeOK, WorkersTypeOK, NoRun
  <2>3. status'[o] = "staging"
    BY <2>1, <2>2, StatusSet
  <2>4. ASSUME NEW p \in Ops, Unstarted(p)' PROVE o < p
    <3>1. p # o /\ Unstarted(p)
      BY <1>0, <2>3, <2>4 DEF Unstarted
    <3>2. CASE status[p] = "queued"
      BY <2>1, <2>2, <3>1, <3>2 DEF IsOldest, Queued, Ops
    <3>3. CASE status[p] = "none"
      BY <2>2, <3>3 DEF OrderInv, Numbered
    <3> QED
      BY <3>1, <3>2, <3>3 DEF Unstarted
  <2> QED
    BY <2>2, <2>3, <2>4 DEF InProgress
<1>2. CASE Owning(w) /\ Cur(w)' = Cur(w)
  <2>1. /\ status[Cur(w)] \in InProgress \cup {"failed"}
        /\ \A o \in Ops : Unstarted(o) => Cur(w) < o
    BY <1>2 DEF OrderInv
  <2>2. pc[w] \in HeldLabels /\ pc[w] \in RunningLabels /\ pc'[w] \in RunningLabels
    BY <1>2 DEF Owning, RunningLabels, HeldLabels
  <2>3. status'[Cur(w)] \in InProgress \cup {"failed"}
    <3>0. \A v \in Workers : Begins(v) \/ Advances(v) \/ Concludes(v) \/ Recovers(v) => v = w
      BY <2>2, OneHolds, OwnersConclude DEF Begins, Recovers, HeldLabels, Labels
    <3>1. CASE UNCHANGED status
      BY <2>1, <3>1
    <3>2. CASE Created
      <4>1. PICK o \in Ops : IsNew(o) /\ SetStatus(o, "queued")
        BY <3>2 DEF Created
      <4>2. Cur(w) \in Ops /\ Cur(w) # o
        BY <1>2, <2>1, <4>1, OwnedTypes DEF IsNew, InProgress
      <4>3. status'[Cur(w)] = status[Cur(w)]
        BY <4>1, <4>2, StatusSet
      <4> QED
        BY <2>1, <4>3
    <3>3. CASE Advances(w)
      <4>1. Cur(w) \in Ops
        BY <3>3, OwnersConclude
      <4>2. PICK s \in InProgress : SetStatus(Cur(w), s)
        BY <3>3 DEF Advances
      <4>3. status'[Cur(w)] = s
        BY <4>1, <4>2, StatusSet
      <4> QED
        BY <4>3
    <3>4. ASSUME NEW v \in Workers, Denies(v) PROVE status'[Cur(w)] \in InProgress \cup {"failed"}
      <4>1. doomed[v] \subseteq Ops
        BY DEF TypeInv, TypeOK, WorkersTypeOK
      <4>2. PICK o \in Ops : SetStatus(o, "failed")
        BY <3>4, <4>1 DEF Denies
      <4>3. status'[o] = "failed" /\ \A p \in Ops : p # o => status'[p] = status[p]
        BY <4>2, StatusSet
      <4>4. Cur(w) \in Ops
        BY <1>2, OwnedTypes
      <4> QED
        BY <2>1, <4>3, <4>4
    <3>5. ~Begins(w) /\ ~Concludes(w) /\ ~Recovers(w)
      BY <2>2 DEF Begins, Concludes, Recovers, RunningLabels
    <3> QED
      BY <3>0, <3>1, <3>2, <3>3, <3>4, <3>5, StatusSteps DEF StatusStep
  <2> QED
    BY <1>0, <1>2, <2>1, <2>3
<1> QED
  BY <1>1, <1>2, StillOwning

\* Only a run that ends so makes an operation rejected, or reverted.
LEMMA Verdicts ==
  ASSUME TypeInv, [Next]_vars, NEW o \in Ops, NEW s \in {"rejected", "reverted"},
         status'[o] = s, status[o] # s
  PROVE  \E w \in Workers : Concludes(w) /\ Cur(w) = o /\ <<pc[w], s>> \in Endings
<1>1. ASSUME NEW p \in Ops, NEW r, r # s, SetStatus(p, r) PROVE FALSE
  BY <1>1, StatusSet
<1>2. ASSUME NEW w \in Workers, Concludes(w) PROVE Cur(w) = o /\ <<pc[w], s>> \in Endings
  <2>1. PICK r \in Finished : <<pc[w], r>> \in Endings /\ SetStatus(Cur(w), r)
    BY <1>2 DEF Concludes
  <2>2. Cur(w) \in Ops
    BY <1>2, OwnersConclude
  <2>3. Cur(w) = o /\ r = s
    BY <2>1, <2>2, StatusSet
  <2> QED
    BY <2>1, <2>3
<1>3. ASSUME NEW w \in Workers, Advances(w) PROVE FALSE
  BY <1>1, <1>3, OwnersConclude DEF Advances, InProgress
<1>4. ASSUME NEW w \in Workers, Begins(w) \/ Recovers(w) \/ Denies(w) PROVE FALSE
  <2>1. doomed[w] \subseteq Ops
    BY DEF TypeInv, TypeOK, WorkersTypeOK
  <2> QED
    BY <1>1, <1>4, <2>1 DEF Begins, Recovers, Denies, Queued, Stuck
<1>5. Created => FALSE
  BY <1>1 DEF Created
<1> QED
  BY <1>2, <1>3, <1>4, <1>5, StatusSteps DEF StatusStep

LEMMA RejectedKept ==
  ASSUME TypeInv, TypeInv', Mutex, CheckedInv, FactsInv, OrderInv, [Next]_vars,
         NEW o \in Ops, status'[o] = "rejected"
  PROVE  Absent(o)'
<1>1. CASE status[o] = "rejected"
  <2>1. Absent(o)
    BY <1>1, AbsentMeans DEF OrderInv, RejectedNeverLands
  <2>2. \A w \in Workers : Lands(w) \/ Undoes(w) => Cur(w) # o
    BY <1>1, OwnersConclude DEF OrderInv, InProgress
  <2> QED
    BY <2>1, <2>2, AbsentStep
<1>2. CASE status[o] # "rejected"
  <2>1. PICK w \in Workers : pc[w] = "reject" /\ Concludes(w) /\ Cur(w) = o
    BY <1>2, Verdicts DEF Endings
  <2>2. Absent(o)
    BY <2>1, NotYetAbsent DEF OrderInv, Unlanded
  <2>3. \A v \in Workers : Lands(v) \/ Undoes(v) => Cur(v) # o
    BY <2>1, OneHolds, OwnersConclude DEF Lands, Undoes
  <2> QED
    BY <2>2, <2>3, AbsentStep
<1> QED
  BY <1>1, <1>2

LEMMA OrderInvKept ==
  ASSUME TypeInv, TypeInv', Mutex, CheckedInv, FactsInv, OrderInv, [Next]_vars
  PROVE  OrderInv'
<1>0. /\ live \in History /\ draft \in History /\ Foreign \in Commit /\ InOrder(<<>>)
  BY CommitTypes DEF TypeInv, TypeOK, GitTypeOK, InOrder
<1>1. ASSUME NEW o \in Ops, Unstarted(o) PROVE NotYet(o)'
  <2>1. \A w \in Workers : Lands(w) \/ Undoes(w) => Cur(w) < o
    BY <1>1, OwnersConclude DEF OrderInv
  <2> QED
    BY <1>1, <2>1, NotYetStep DEF OrderInv
<1>2. ASSUME NEW w \in Workers, Unlanded(w)' PROVE NotYet(Cur(w))'
  <2>1. CASE NextOperation(w)
    <3>1. PICK o \in Queued : run' = [run EXCEPT ![w] = [NoRun EXCEPT !.op = o]]
      BY <2>1 DEF NextOperation
    <3>2. o \in Ops /\ status[o] = "queued" /\ Cur(w)' = o
      BY <3>1 DEF Queued, Cur, TypeInv, TypeOK, WorkersTypeOK, NoRun
    <3>3. NotYet(o)'
      BY <1>1, <3>2 DEF Unstarted
    <3> QED
      BY <3>2, <3>3 DEF NotYet, Behind
  <2>2. CASE Unlanded(w) /\ Cur(w)' = Cur(w)
    <3>1. Owning(w) /\ pc[w] \in HeldLabels
      BY <2>2 DEF Unlanded, Owning, Pushing, PushLabels, StagedLabels, RunningLabels, Labels, HeldLabels,
         TypeInv, LocalsOK, LocalOK
    <3>2. Cur(w) \in Ops /\ NotYet(Cur(w))
      BY <2>2, <3>1, OwnedTypes DEF OrderInv
    <3>3. ASSUME NEW v \in Workers, Lands(v) \/ Undoes(v) PROVE FALSE
      <4>1. v = w
        BY <3>1, <3>3, OneHolds, OwnersConclude
      <4> QED
        BY <1>2, <3>3, <4>1 DEF Lands, Undoes, Unlanded, Pushing, StagedLabels, PushLabels
    <3>4. PICK o \in Ops : o = Cur(w) /\ NotYet(o)
      BY <3>2
    <3>5. NotYet(o)'
      BY <3>3, <3>4, NotYetStep
    <3> QED
      BY <2>2, <3>4, <3>5 DEF NotYet, Behind
  <2> QED
    BY <1>2, <2>1, <2>2, StillUnlanded
<1>3. InOrder(live') /\ InOrder(draft')
  <2>1. ASSUME NEW w \in Workers, Lands(w) PROVE InOrder(live') /\ UNCHANGED draft
    <3>1. /\ live' = Append(live, Change(Cur(w), TRUE)) /\ UNCHANGED draft
          /\ Change(Cur(w), TRUE) \in Commit /\ Change(Cur(w), TRUE).op = Cur(w)
      BY <2>1, LandsOnTop, CommitTypes, CommitFields
    <3>2. Behind(live, Cur(w))
      BY <2>1 DEF Lands, OrderInv, Unlanded, StagedLabels, NotYet
    <3> QED
      BY <1>0, <3>1, <3>2, AppendInOrder DEF OrderInv
  <2>2. ASSUME NEW w \in Workers, Undoes(w) PROVE InOrder(live') /\ UNCHANGED draft
    <3>1. /\ live' = Append(live, Revert(Cur(w))) /\ UNCHANGED draft
          /\ Revert(Cur(w)) \in Commit /\ Revert(Cur(w)).kind = "revert"
      BY <2>2, UndoesTheTip, CommitTypes, CommitFields
    <3> QED
      BY <1>0, <3>1, AppendInOrder DEF OrderInv
  <2>3. InOrder(Append(draft, Foreign))
    BY <1>0, CommitFields, AppendInOrder DEF OrderInv
  <2>4. \/ live' = live /\ draft' = draft
        \/ live' = live /\ draft' = Append(draft, Foreign)
        \/ live' \in {live, draft, <<>>} /\ draft' \in {draft, live}
        \/ \E w \in Workers : Lands(w) \/ Undoes(w)
    BY CodeSteps DEF CodeStep, CodeStands, Saves, Rebuilds, Destroys, PushedFromOutside, Publishes, PushDraft,
       CloneDraft, DropSandbox, PublishMain, sandboxGit
  <2>5. InOrder(live) /\ InOrder(draft)
    BY DEF OrderInv
  <2> QED
    BY <1>0, <2>1, <2>2, <2>3, <2>4, <2>5
<1>4. \A o \in Ops : status'[o] = "rejected" => Absent(o)'
  BY RejectedKept
<1>5. RejectedNeverLands'
  BY <1>4 DEF RejectedNeverLands, Absent, Within, OfOthers, Mentions
<1>6. \A o \in Ops : Unstarted(o)' => NotYet(o)'
  BY <1>1, NeverAgain DEF Ages
<1>7. \A w \in Workers : Owning(w)' => /\ status'[Cur(w)'] \in InProgress \cup {"failed"}
                                       /\ \A o \in Ops : Unstarted(o)' => Cur(w)' < o
  BY OwnedKept
<1> QED
  BY <1>2, <1>3, <1>5, <1>6, <1>7, NumberedKept, DoomedKept DEF OrderInv

LEMMA OrderInvInit == Init => OrderInv
<1> SUFFICES ASSUME Init PROVE OrderInv
  OBVIOUS
<1>1. /\ \A o \in Ops : status[o] = "none"
      /\ \A w \in Workers : pc[w] = "idle" /\ doomed[w] = {}
      /\ live = <<>> /\ draft = <<>> /\ main = <<>>
  BY DEF Init, GitInit
<1>2. Numbered /\ DoomedExist /\ RejectedNeverLands
  BY <1>1 DEF Numbered, DoomedExist, RejectedNeverLands
<1>3. InOrder(live) /\ InOrder(draft) /\ \A o \in Ops : NotYet(o)
  BY <1>1 DEF InOrder, NotYet, Behind, Within
<1>4. \A w \in Workers : ~Unlanded(w) /\ ~Owning(w)
  BY <1>1 DEF Unlanded, Owning, Pushing, PushLabels, StagedLabels, RunningLabels
<1> QED
  BY <1>2, <1>3, <1>4 DEF OrderInv

LEMMA HistoryInvHolds == NoLapse => (Spec => [](UndoInv /\ OrderInv))
<1>1. SUFFICES ASSUME NoLapse PROVE Spec => [](UndoInv /\ OrderInv)
  OBVIOUS
<1>2. TypeInv /\ Mutex /\ CheckedInv /\ FactsInv /\ UndoInv /\ OrderInv /\ [Next]_vars
        => UndoInv' /\ OrderInv'
  BY TypeInvKept, UndoInvKept, OrderInvKept
<1>3. Spec => [](Mutex /\ BaseInv /\ CheckedInv /\ FactsInv)
  BY <1>1, FactsHold
<1> QED
  BY <1>2, <1>3, UndoInvInit, OrderInvInit, TypesHold, PTL DEF Spec

\* What the live tree, draft and main hold is a history of operations: the changes in the order the
\* operations were created ("oldest first", drain), each undone exactly if at all (revertScript
\* reverts HEAD), and none that the checks rejected; through crashes, retries, recoveries and
\* rebuilds, as long as no lock outlives its fifteen minutes.
THEOREM HistoriesAreTrue == NoLapse => (Spec => []HistoryIsTrue)
<1>1. SUFFICES ASSUME NoLapse PROVE Spec => []HistoryIsTrue
  OBVIOUS
<1>2. UndoInv /\ OrderInv => HistoryIsTrue
  BY DEF UndoInv, UndoneRight, OrderInv, InOrder, HistoryIsTrue, CommitsInOrder, UndoMatches
<1>3. Spec => [](UndoInv /\ OrderInv)
  BY <1>1, HistoryInvHolds
<1> QED
  BY <1>2, <1>3, PTL

----------------------------------------------------------------------------
(***************************************************************************)
(* Part 3, that the rows say what became of the code:                      *)
(*   SettledWorkStays  settled work is on draft, or flagged for pushing    *)
(*   RecordsHold       a status says what the code holds (RecordsAreTrue)  *)
(*   FinishedForGood   a concluded operation stays so (FinishedIsFinal)    *)
(*   KeepsThePromise   the runner implements SafetyNet                     *)
(* All assume that no lock lapses, and the last three that every sandbox   *)
(* starts: failQueued works without the lock, on what it read before.      *)
(* SandboxInv relates the sandbox's row to the sandbox, KeptInv says where *)
(* a change is at each label, OwnInv what a run's operation is recorded as.*)
(***************************************************************************)

----------------------------------------------------------------------------
(* The sandbox row and the sandbox. *)

\* The provider has lost no sandbox: a row that names one is there exactly when the sandbox is, and
\* only such a row has work flagged for pushing.
RowIsTrue == (row = "none" <=> box = "none") /\ (pendingPush => row # "none")
SandboxInv == vanished \/ RowIsTrue

\* What a step does to the row, the flag and the sandbox.
SandboxStep ==
  \/ UNCHANGED <<row, box, pendingPush>>
  \/ \E w \in Workers : pc[w] \in RunningLabels /\ UNCHANGED <<row, box>>
  \/ row' = "running" /\ box' = "up" /\ UNCHANGED pendingPush
  \/ row' = "none" /\ box' = "none" /\ pendingPush' = FALSE
  \/ row = "running" /\ box = "up" /\ row' = "paused" /\ box' = "asleep"
  \/ row = "running" /\ box # "up" /\ UNCHANGED <<box, pendingPush>>
     /\ row' = IF box = "asleep" THEN "paused" ELSE "none"
  \/ row # "none" /\ NothingToFlush /\ row' = "none" /\ box' = "none" /\ UNCHANGED pendingPush
  \/ ~NothingToFlush /\ box' = "up" /\ UNCHANGED <<row, pendingPush>>
  \/ box = "up" /\ box' = "asleep" /\ UNCHANGED <<row, pendingPush>>
  \/ vanished'

LEMMA SandboxSteps ==
  ASSUME TypeInv, [Next]_vars
  PROVE  SandboxStep /\ (vanished => vanished')
<1> USE DEF sandbox, elsewhere, ghosts
<1> DEFINE Still == UNCHANGED <<row, box, pendingPush, vanished>>
<1>1. ASSUME NEW w \in Workers, Pushed(w) \/ Refused(w)
      PROVE  pc[w] \in RunningLabels /\ UNCHANGED <<row, box, vanished>>
  BY <1>1 DEF Pushed, Refused, At, RunningLabels, Labels
<1>2. CASE Visit \/ \E w \in Workers : Ensure(w)
  BY <1>2 DEF SandboxStep, Visit, Ensure, BringUp
<1>3. CASE \E w \in Workers : EnsureFails(w)
  BY <1>3 DEF SandboxStep, EnsureFails
<1>4. CASE Pause
  BY <1>4 DEF SandboxStep, Pause
<1>5. CASE Reconcile
  BY <1>5 DEF SandboxStep, Reconcile
<1>6. CASE Stop
  BY <1>6 DEF SandboxStep, Stop
<1>7. CASE Outside
  BY <1>7 DEF SandboxStep, Outside, Sleep, Vanish, ForeignPush
<1>8. CASE \/ \E o \in Ops : (\E t \in OperationTypes : Submit(o, t)) \/ AddJob(o) \/ ApiDies(o)
           \/ \E w \in Workers : TakePushJob(w) \/ Crash(w) \/ \E o \in Ops : TakeJob(w, o)
           \/ Expire \/ Lapse \/ UNCHANGED vars
  BY <1>8 DEF SandboxStep, Submit, AddJob, ApiDies, TakePushJob, TakeJob, Crash, Expire, Lapse, vars
<1>9. ASSUME NEW w \in Workers,
             \/ Drain(w) \/ Recover(w) \/ Recovered(w) \/ NextOperation(w) \/ Drained(w) \/ NotRunning(w)
             \/ Stage(w) \/ Plan(w) \/ Prepare(w) \/ Check(w) \/ WorktreeMissing(w) \/ Apply(w)
      PROVE  Still
  BY <1>9 DEF Drain, Recover, RecoverAs, Recovered, NextOperation, Drained, NotRunning, Stage, Plan,
     Prepare, Check, WorktreeMissing, Apply
<1>10. ASSUME NEW w \in Workers,
             \/ Push(w) \/ Schedule(w) \/ Health(w) \/ RevertChange(w) \/ Undone(w) \/ Record(w)
             \/ Finish(w) \/ Noop(w) \/ Reject(w) \/ Fail(w) \/ FollowUps(w) \/ AddFollowUp(w)
      PROVE  Still
  BY <1>10 DEF Push, Schedule, Health, RevertChange, Undone, Record, Finish, Noop, Reject, Fail,
     FollowUps, AddFollowUp
<1>11. ASSUME NEW w \in Workers,
             \/ PublishStatus(w) \/ Build(w) \/ ReleaseMain(w) \/ Deploy(w) \/ Published(w)
             \/ PushJob(w) \/ EnsureBusy(w) \/ EnsureThrows(w) \/ FailQueued(w)
      PROVE  Still
  BY <1>11 DEF PublishStatus, Build, ReleaseMain, Deploy, Published, PushJob, EnsureBusy, EnsureThrows,
     FailQueued
<1>12. Still => SandboxStep
  BY DEF SandboxStep
<1> QED
  BY <1>1, <1>2, <1>3, <1>4, <1>5, <1>6, <1>7, <1>8, <1>9, <1>10, <1>11, <1>12 DEF SandboxStep, Next, Work,
     Lifecycle

LEMMA SandboxInvKept ==
  ASSUME TypeInv, FactsInv, SandboxInv, [Next]_vars
  PROVE  SandboxInv'
<1>1. row \in {"running", "paused", "none"} /\ box \in {"up", "asleep", "none"}
  BY DEF TypeInv, TypeOK, SandboxTypeOK
<1>2. \A w \in Workers : pc[w] \in RunningLabels => row = "running"
  BY DEF FactsInv, RowIsSet
<1> QED
  BY <1>1, <1>2, SandboxSteps DEF SandboxInv, RowIsTrue, SandboxStep, NothingToFlush

LEMMA SandboxInvInit == Init => SandboxInv
  BY DEF Init, SandboxInv, RowIsTrue

----------------------------------------------------------------------------
(* What the sandbox and GitHub keep. *)

LEMMA CommitNames ==
  \A o, p : /\ o # p => Change(o, TRUE) # Change(p, TRUE) /\ Revert(o) # Revert(p)
           /\ Change(o, TRUE) # Revert(p) /\ Foreign # Change(o, TRUE) /\ Foreign # Revert(o)
<1> SUFFICES ASSUME NEW o, NEW p
             PROVE  /\ o # p => Change(o, TRUE) # Change(p, TRUE) /\ Revert(o) # Revert(p)
                    /\ Change(o, TRUE) # Revert(p) /\ Foreign # Change(o, TRUE) /\ Foreign # Revert(o)
  OBVIOUS
<1>1. /\ Change(o, TRUE).kind = "change" /\ Change(o, TRUE).op = o /\ Change(p, TRUE).op = p
      /\ Revert(o).kind = "revert" /\ Revert(p).kind = "revert" /\ Revert(o).op = o /\ Revert(p).op = p
      /\ Foreign.kind = "foreign"
  BY CommitFields
<1>2. o # p => Change(o, TRUE) # Change(p, TRUE) /\ Revert(o) # Revert(p)
  BY <1>1
<1>3. Change(o, TRUE) # Revert(p)
  BY <1>1
<1>4. Foreign # Change(o, TRUE) /\ Foreign # Revert(o)
  BY <1>1
<1> QED
  BY <1>2, <1>3, <1>4

Holds(h, c) == \E i \in DOMAIN h : h[i] = c

\* The commit is on draft, or in the live tree and flagged for pushing.
Kept(c) == Holds(draft, c) \/ (pendingPush /\ Holds(live, c))

LEMMA AppendHolds ==
  ASSUME NEW h \in History, NEW c \in Commit, NEW d
  PROVE  Holds(Append(h, c), d) <=> Holds(h, d) \/ d = c
  BY AppendFacts DEF Holds

LEMMA PrefixHolds ==
  ASSUME NEW g \in History, NEW h \in History, IsPrefix(g, h), NEW c, Holds(g, c)
  PROVE  Holds(h, c)
  BY PrefixFacts DEF Holds

LEMMA EndHolds ==
  ASSUME NEW h \in History, NEW c, EndsWith(h, c)
  PROVE  Holds(h, c)
<1>1. Len(h) \in DOMAIN h
  BY DEF History, EndsWith
<1> QED
  BY <1>1 DEF Holds, EndsWith

\* A sandbox that is not there has nothing flagged.
LEMMA NothingFlagged ==
  ASSUME RowIsTrue, row = "none" \/ box = "none"
  PROVE  ~pendingPush
  BY DEF RowIsTrue

\* "The sandbox won't be destroyed before it lands" (pushOrSchedule): no step loses a commit that is
\* kept, unless the provider loses the sandbox.
LEMMA KeptStays ==
  ASSUME TypeInv, BaseInv, CheckedInv, FactsInv, RowIsTrue, [Next]_vars, ~vanished', NEW c, Kept(c)
  PROVE  Kept(c)'
<1>0. /\ live \in History /\ draft \in History /\ Foreign \in Commit /\ pendingPush \in BOOLEAN
  BY CommitTypes DEF TypeInv, TypeOK, GitTypeOK, SandboxTypeOK
<1>1. CASE CodeStands
  <2>1. CASE UNCHANGED pendingPush
    BY <1>1, <2>1 DEF CodeStands, Kept
  <2>2. ASSUME NEW w \in Workers, Pushed(w) PROVE Kept(c)'
    <3>1. IsPrefix(live, draft)
      BY <2>2 DEF Pushed, At, FactsInv, HeadIsDrafted
    <3>2. Holds(draft, c)
      BY <1>0, <3>1, PrefixHolds DEF Kept
    <3> QED
      BY <1>1, <3>2 DEF CodeStands, Kept
  <2>3. ASSUME NEW w \in Workers, Refused(w) PROVE Kept(c)'
    BY <1>1, <2>3 DEF Refused, CodeStands, Kept
  <2> QED
    BY <1>1, <2>1, <2>2, <2>3 DEF CodeStands
<1>2. ASSUME NEW w \in Workers, Lands(w) PROVE Kept(c)'
  <2>1. /\ live' = Append(live, Change(Cur(w), TRUE)) /\ UNCHANGED <<draft, pendingPush>>
        /\ Change(Cur(w), TRUE) \in Commit
    BY <1>2, LandsOnTop, CommitTypes DEF Lands, sandbox
  <2> QED
    BY <1>0, <2>1, AppendHolds DEF Kept
<1>3. ASSUME NEW w \in Workers, Undoes(w) PROVE Kept(c)'
  <2>1. /\ live' = Append(live, Revert(Cur(w))) /\ UNCHANGED <<draft, pendingPush>>
        /\ Revert(Cur(w)) \in Commit
    BY <1>3, UndoesTheTip, CommitTypes DEF Undoes, sandbox
  <2> QED
    BY <1>0, <2>1, AppendHolds DEF Kept
<1>4. CASE \E w \in Workers : Publishes(w)
  BY <1>4 DEF Publishes, PublishMain, sandbox, Kept
<1>5. CASE CanPush /\ draft' = live
  BY <1>0, <1>5, PrefixHolds DEF CanPush, Kept
<1>6. CASE Rebuilds
  BY <1>6, NothingFlagged DEF Rebuilds, CloneDraft, Kept
<1>7. CASE Destroys
  <2>1. ~Holds(<<>>, c)
    BY DEF Holds
  <2>2. pendingPush /\ Holds(live, c) => box # "none" /\ row # "none"
    BY <2>1 DEF RowIsTrue, BaseInv
  <2> QED
    BY <1>5, <1>7, <2>2 DEF Destroys, Kept
<1>8. CASE PushedFromOutside
  <2>1. Holds(draft, c) => Holds(Append(draft, Foreign), c)
    BY <1>0, AppendHolds
  <2> QED
    BY <1>8, <2>1 DEF PushedFromOutside, sandboxGit, sandbox, Kept
<1> QED
  BY <1>1, <1>2, <1>3, <1>4, <1>5, <1>6, <1>7, <1>8, CodeSteps DEF CodeStep, Saves, PushDraft

----------------------------------------------------------------------------
(* What the rows say of an operation, and what a run knows of it before it writes them. *)

Unreverted(o) == ~Holds(live, Revert(o)) /\ ~Holds(draft, Revert(o))

\* A run whose change is kept, and one whose change is in the code.
Secured(w) == Reverted(w) \/ pc[w] \in {"health", "record", "finish", "revert"}
InCode(w)  == Landed(w) \/ pc[w] \in {"record", "finish"}

\* Back from push(): the commit is on draft, or a retry is scheduled and it is flagged.
Returns(w, a) == run[w].after = a /\ (pc[w] = "pushed" \/ pc[w] = "schedule")

KeptInv ==
  /\ \A o \in settled : Kept(Change(o, TRUE))
  /\ \A w \in Workers :
       /\ Secured(w) => Kept(Change(Cur(w), TRUE))
       /\ pc[w] = "undone" => Kept(Revert(Cur(w)))
       /\ InCode(w) => Unreverted(Cur(w))
       /\ Owning(w) /\ pc[w] # "finish" => Cur(w) \notin installed
  /\ \A o \in Ops : status[o] = "reverted" =>
       Kept(Revert(o)) /\ (Holds(live, Revert(o)) \/ ~Holds(live, Change(o, TRUE)))
  /\ \A o \in installed : Kept(Change(o, TRUE)) /\ Unreverted(o) /\ ~Unstarted(o)

\* The pushes, the health check and what follows it go on with the same operation.
LEMMA LateSteps ==
  ASSUME TypeInv, TypeInv', [Next]_vars, NEW w \in Workers
  PROVE  /\ Secured(w)' \/ InCode(w)' \/ pc'[w] = "undone"
              => Owning(w) /\ Cur(w)' = Cur(w) /\ Owning(w)'
         /\ Secured(w)' => Secured(w) \/ Returns(w, "health")
         /\ pc'[w] = "undone" => pc[w] = "undone" \/ Returns(w, "undone")
         /\ InCode(w)' => InCode(w) \/ pc[w] = "apply"
<1> USE DEF Secured, InCode, Landed, Reverted, Pushing, Returns
<1>0. /\ LocalOK(pc'[w], run'[w]) /\ pc \in [Workers -> Labels]
  BY DEF TypeInv, TypeOK, WorkersTypeOK, LocalsOK
<1>1. ASSUME Secured(w)' \/ InCode(w)' \/ pc'[w] = "undone"
      PROVE  Owning(w) /\ Cur(w)' = Cur(w) /\ Owning(w)'
  <2>1. pc'[w] \in RunningLabels /\ run'[w].after # "pushJob" /\ pc'[w] # "stage"
    BY <1>0, <1>1 DEF LocalOK, PushLabels, RunningLabels, Labels
  <2>2. ~NextOperation(w)
    BY <1>0, <2>1 DEF NextOperation, Goto
  <2> QED
    BY <2>1, <2>2, StillOwning DEF Owning
<1>2. CASE ~WorkerStep(w)
  <2>1. pc'[w] = pc[w] /\ run'[w] = run[w]
    BY <1>2, Bystanders
  <2> QED
    BY <1>1, <2>1
<1>3. CASE WorkerStep(w)
  <2>1. pc'[w] \in {"revert", "record"} => pc[w] = "health"
    BY <1>3, Arrivals DEF Health, At
  <2>2. pc'[w] = "finish" => pc[w] \in {"health", "record"}
    BY <1>3, Arrivals DEF Health, Record, At
  <2>3. \A a \in {"health", "undone"} : pc'[w] = a => Returns(w, a)
    <3> SUFFICES ASSUME NEW a \in {"health", "undone"}, pc'[w] = a PROVE Returns(w, a)
      OBVIOUS
    <3>1. Pushed(w) \/ Schedule(w)
      BY <1>3, Arrivals
    <3>2. CASE Pushed(w)
      BY <1>0, <3>2 DEF Pushed, At, Goto, EndJob, Forget
    <3>3. CASE Schedule(w)
      BY <1>0, <3>3 DEF Schedule, At, Goto
    <3> QED
      BY <3>1, <3>2, <3>3
  <2>4. \A a \in {"health", "undone"} :
          pc'[w] \in PushLabels \cup {"schedule"} /\ run'[w].after = a
            => \/ pc[w] \in PushLabels /\ run[w].after = a
               \/ a = "health" /\ pc[w] = "apply"
               \/ a = "undone" /\ pc[w] = "revert"
    BY <1>3, PushSteps
  <2>5. Returns(w, "undone") => Reverted(w)
    BY DEF PushLabels
  <2>6. Returns(w, "health") => Landed(w)
    BY DEF PushLabels
  <2>7. Reverted(w)' => Reverted(w) \/ pc[w] = "revert"
    BY <2>3, <2>4, <2>5
  <2>8. Landed(w)' => Landed(w) \/ pc[w] = "apply"
    BY <2>1, <2>3, <2>4, <2>6
  <2> QED
    BY <1>1, <2>1, <2>2, <2>3, <2>7, <2>8
<1> QED
  BY <1>2, <1>3

\* When a run is back from push(), what it pushed is kept.
LEMMA ReturnsKept ==
  ASSUME TypeInv, FactsInv, RowIsTrue, NEW w \in Workers, NEW a \in {"health", "undone"}, Returns(w, a)
  PROVE  Kept(IF a = "health" THEN Change(Cur(w), TRUE) ELSE Revert(Cur(w)))
<1> DEFINE c == IF a = "health" THEN Change(Cur(w), TRUE) ELSE Revert(Cur(w))
<1>0. live \in History /\ draft \in History
  BY DEF TypeInv, TypeOK, GitTypeOK
<1>1. row = "running"
  BY DEF FactsInv, RowIsSet, Returns, RunningLabels, Labels
<1>2. box # "none"
  BY <1>1 DEF RowIsTrue
<1>3. EndsWith(live, c)
  BY <1>2 DEF FactsInv, TipIsOwn, Landed, Reverted, Pushing, PushLabels, Returns
<1>4. Holds(live, c)
  BY <1>0, <1>3, EndHolds
<1>5. CASE pc[w] = "pushed"
  <2>1. IsPrefix(live, draft)
    BY <1>5 DEF FactsInv, HeadIsDrafted
  <2>2. Holds(draft, c)
    BY <1>0, <1>4, <2>1, PrefixHolds
  <2> QED
    BY <2>2 DEF Kept
<1>6. CASE pc[w] = "schedule"
  <2>1. pendingPush
    BY <1>6 DEF FactsInv, RowIsSet
  <2> QED
    BY <1>4, <2>1 DEF Kept
<1> QED
  BY <1>5, <1>6 DEF Returns

\* What is written of an operation by its own run.
LEMMA RecordSteps ==
  ASSUME TypeInv, [Next]_vars
  PROVE  /\ \/ UNCHANGED settled
            \/ \E w \in Workers : pc[w] \in {"undone", "finish"} /\ settled' = settled \cup {Cur(w)}
         /\ \/ UNCHANGED installed
            \/ \E w \in Workers : pc[w] = "record" /\ pc'[w] = "finish" /\ installed' = installed \cup {Cur(w)}
<1> USE DEF ops, records, ghosts
<1>0. pc \in [Workers -> Labels]
  BY DEF TypeInv, TypeOK, WorkersTypeOK
<1> DEFINE Still == UNCHANGED <<settled, installed>>
<1>1. ASSUME NEW w \in Workers, Undone(w) \/ Finish(w)
      PROVE  pc[w] \in {"undone", "finish"} /\ settled' = settled \cup {Cur(w)} /\ UNCHANGED installed
  BY <1>1 DEF Undone, Finish, At
<1>2. ASSUME NEW w \in Workers, Record(w)
      PROVE  /\ pc[w] = "record" /\ pc'[w] = "finish" /\ installed' = installed \cup {Cur(w)}
             /\ UNCHANGED settled
  BY <1>0, <1>2 DEF Record, At, Goto
<1>3. CASE \/ \E o \in Ops : (\E t \in OperationTypes : Submit(o, t)) \/ AddJob(o) \/ ApiDies(o)
           \/ \E w \in Workers : TakePushJob(w) \/ Crash(w) \/ \E o \in Ops : TakeJob(w, o)
           \/ Expire \/ Lapse \/ Lifecycle \/ Outside \/ UNCHANGED vars
  BY <1>3 DEF Submit, AddJob, ApiDies, TakePushJob, TakeJob, Crash, Expire, Lapse, Lifecycle, Visit, Pause,
     Reconcile, Stop, Outside, Sleep, Vanish, ForeignPush, vars
<1>4. ASSUME NEW w \in Workers,
             \/ Drain(w) \/ Recover(w) \/ Recovered(w) \/ NextOperation(w) \/ Drained(w) \/ NotRunning(w)
             \/ Stage(w) \/ Plan(w) \/ Prepare(w) \/ Check(w) \/ WorktreeMissing(w) \/ Apply(w)
      PROVE  Still
  BY <1>4 DEF Drain, Recover, RecoverAs, Recovered, NextOperation, Drained, NotRunning, Stage, Plan,
     Prepare, Check, WorktreeMissing, Apply
<1>5. ASSUME NEW w \in Workers,
             \/ Push(w) \/ Pushed(w) \/ Refused(w) \/ Schedule(w) \/ Health(w) \/ RevertChange(w)
             \/ Noop(w) \/ Reject(w) \/ Fail(w) \/ FollowUps(w) \/ AddFollowUp(w)
      PROVE  Still
  BY <1>5 DEF Push, Pushed, Refused, Schedule, Health, RevertChange, Noop, Reject, Fail, FollowUps, AddFollowUp
<1>6. ASSUME NEW w \in Workers,
             \/ PublishStatus(w) \/ Build(w) \/ ReleaseMain(w) \/ Deploy(w) \/ Published(w)
             \/ PushJob(w) \/ EnsureBusy(w) \/ Ensure(w) \/ EnsureThrows(w) \/ EnsureFails(w) \/ FailQueued(w)
      PROVE  Still
  BY <1>6 DEF PublishStatus, Build, ReleaseMain, Deploy, Published, PushJob, EnsureBusy, Ensure,
     EnsureThrows, EnsureFails, FailQueued
<1> QED
  BY <1>1, <1>2, <1>3, <1>4, <1>5, <1>6 DEF Next, Work

\* Nobody brings a revert of o to the live tree or draft but the run of o.
LEMMA UnrevertedStays ==
  ASSUME TypeInv, CheckedInv, FactsInv, [Next]_vars, NEW o \in Ops, Unreverted(o),
         \A w \in Workers : Undoes(w) => Cur(w) # o
  PROVE  Unreverted(o)'
<1> DEFINE C == Commit \ {Revert(o)}
<1>1. /\ live \in History /\ draft \in History
      /\ \A h \in History : Within(h, C) <=> ~Holds(h, Revert(o))
  BY HistoryFacts DEF TypeInv, TypeOK, GitTypeOK, Within, Holds
<1>2. Foreign \in C
  BY CommitTypes, CommitNames
<1>3. \A w \in Workers : Lands(w) => Change(Cur(w), TRUE) \in C
  BY LandsOnTop, CommitTypes, CommitNames
<1>4. \A w \in Workers : Undoes(w) => Revert(Cur(w)) \in C
  BY UndoesTheTip, CommitTypes, CommitNames
<1>5. Within(live, C) /\ Within(draft, C)
  BY <1>1 DEF Unreverted
<1> HIDE DEF C
<1>6. Within(live', C) /\ Within(draft', C)
  BY <1>2, <1>3, <1>4, <1>5, WithinStep
<1> QED
  BY <1>6 DEF C, Unreverted, Within, Holds

\* The live tree has o's revert, or not o's change.
LiveIsRid(o) == Holds(live, Revert(o)) \/ ~Holds(live, Change(o, TRUE))

LEMMA RidStays ==
  ASSUME TypeInv, CheckedInv, FactsInv, RowIsTrue, [Next]_vars, NEW o \in Ops,
         LiveIsRid(o), Kept(Revert(o)), \A w \in Workers : Lands(w) => Cur(w) # o
  PROVE  LiveIsRid(o)'
<1>0. live \in History
  BY DEF TypeInv, TypeOK, GitTypeOK
<1>1. ASSUME NEW w \in Workers, Lands(w) PROVE LiveIsRid(o)'
  <2>1. /\ live' = Append(live, Change(Cur(w), TRUE)) /\ Change(Cur(w), TRUE) \in Commit
        /\ Change(Cur(w), TRUE) # Change(o, TRUE)
    BY <1>1, LandsOnTop, CommitTypes, CommitNames
  <2> QED
    BY <1>0, <2>1, AppendHolds DEF LiveIsRid
<1>2. ASSUME NEW w \in Workers, Undoes(w) PROVE LiveIsRid(o)'
  <2>1. /\ live' = Append(live, Revert(Cur(w))) /\ Revert(Cur(w)) \in Commit
        /\ Revert(Cur(w)) # Change(o, TRUE)
    BY <1>2, UndoesTheTip, CommitTypes, CommitNames
  <2> QED
    BY <1>0, <2>1, AppendHolds DEF LiveIsRid
<1>3. CASE Rebuilds
  <2>1. Holds(draft, Revert(o))
    BY <1>3, NothingFlagged DEF Rebuilds, Kept
  <2> QED
    BY <1>3, <2>1 DEF Rebuilds, CloneDraft, LiveIsRid
<1>4. CASE Destroys
  BY <1>4 DEF Destroys, DropSandbox, LiveIsRid, Holds
<1>5. CASE UNCHANGED live
  BY <1>5 DEF LiveIsRid
<1> QED
  BY <1>1, <1>2, <1>3, <1>4, <1>5, CodeSteps DEF CodeStep, CodeStands, Saves, Publishes, PushedFromOutside,
     PushDraft, PublishMain, sandboxGit

LEMMA FinishEnds ==
  ASSUME TypeInv, NEW w \in Workers, WorkerStep(w), pc[w] = "finish"
  PROVE  ~Owning(w)'
<1>0. pc \in [Workers -> Labels]
  BY DEF TypeInv, TypeOK, WorkersTypeOK
<1>1. CASE Finish(w)
  <2>1. pc'[w] \in {"followUps", "next"}
    BY <1>0, <1>1 DEF Finish, ConcludeApplied, Conclude, Goto
  <2> QED
    BY <2>1 DEF Owning, RunningLabels
<1>2. CASE Crash(w)
  BY <1>0, <1>2 DEF Crash, Forget, Goto, Owning, RunningLabels
<1>3. ~TakePushJob(w) /\ \A o \in Ops : ~TakeJob(w, o)
  BY DEF TakePushJob, TakeJob, At
<1>4. /\ ~Drain(w) /\ ~Recover(w) /\ ~Recovered(w) /\ ~NextOperation(w) /\ ~Drained(w) /\ ~NotRunning(w)
      /\ ~Stage(w) /\ ~Plan(w) /\ ~Prepare(w) /\ ~Check(w) /\ ~WorktreeMissing(w) /\ ~Apply(w)
  BY DEF Drain, Recover, Recovered, NextOperation, Drained, NotRunning, Stage, Plan, Prepare, Check,
     WorktreeMissing, Apply, At
<1>5. /\ ~Push(w) /\ ~Pushed(w) /\ ~Refused(w) /\ ~Schedule(w) /\ ~Health(w) /\ ~RevertChange(w)
      /\ ~Undone(w) /\ ~Record(w) /\ ~Noop(w) /\ ~Reject(w) /\ ~Fail(w) /\ ~FollowUps(w) /\ ~AddFollowUp(w)
  BY DEF Push, Pushed, Refused, Schedule, Health, RevertChange, Undone, Record, Noop, Reject, Fail,
     FollowUps, AddFollowUp, At
<1>6. /\ ~PublishStatus(w) /\ ~Build(w) /\ ~ReleaseMain(w) /\ ~Deploy(w) /\ ~Published(w) /\ ~PushJob(w)
      /\ ~EnsureBusy(w) /\ ~Ensure(w) /\ ~EnsureThrows(w) /\ ~EnsureFails(w) /\ ~FailQueued(w)
  BY DEF PublishStatus, Build, ReleaseMain, Deploy, Published, PushJob, EnsureBusy, Ensure, EnsureThrows,
     EnsureFails, FailQueued, At
<1> QED
  BY <1>1, <1>2, <1>3, <1>4, <1>5, <1>6 DEF WorkerStep, Work

\* An operation that nothing has landed of is not undone anywhere.
LEMMA NotYetUnreverted ==
  ASSUME NEW o \in Ops, NotYet(o)
  PROVE  Unreverted(o)
<1>1. Revert(o).op = o /\ o \in Nat
  BY CommitFields, NumOpsAssumption DEF Ops
<1>2. Revert(o) \notin Earlier(o)
  BY <1>1 DEF Earlier
<1> QED
  BY <1>2 DEF NotYet, Behind, Within, Unreverted, Holds

\* KeptInv's parts, each with what it needs of the others.
LEMMA SettledKept ==
  ASSUME TypeInv, BaseInv, CheckedInv, FactsInv, RowIsTrue, KeptInv, [Next]_vars, ~vanished',
         NEW o \in settled'
  PROVE  Kept(Change(o, TRUE))'
<1>1. Kept(Change(o, TRUE))
  <2>1. CASE o \in settled
    BY <2>1 DEF KeptInv
  <2>2. ASSUME NEW w \in Workers, pc[w] \in {"undone", "finish"}, o = Cur(w) PROVE Kept(Change(o, TRUE))
    BY <2>2 DEF KeptInv, Secured, Reverted
  <2> QED
    BY <2>1, <2>2, RecordSteps
<1> QED
  BY <1>1, KeptStays

LEMMA SecuredKept ==
  ASSUME TypeInv, TypeInv', BaseInv, CheckedInv, FactsInv, RowIsTrue, KeptInv, [Next]_vars, ~vanished',
         NEW w \in Workers
  PROVE  /\ Secured(w)' => Kept(Change(Cur(w), TRUE))'
         /\ pc'[w] = "undone" => Kept(Revert(Cur(w)))'
<1>1. ASSUME Secured(w)' PROVE Kept(Change(Cur(w), TRUE))'
  <2>1. Owning(w) /\ Cur(w)' = Cur(w) /\ (Secured(w) \/ Returns(w, "health"))
    BY <1>1, LateSteps
  <2>2. PICK o \in Ops : o = Cur(w)
    BY <2>1, OwnedTypes
  <2>3. Kept(Change(o, TRUE))
    <3>1. CASE Secured(w)
      BY <2>2, <3>1 DEF KeptInv
    <3>2. CASE Returns(w, "health")
      BY <2>2, <3>2, ReturnsKept
    <3> QED
      BY <2>1, <3>1, <3>2
  <2>4. Kept(Change(o, TRUE))'
    BY <2>3, KeptStays
  <2>5. Cur(w)' = o
    BY <2>1, <2>2
  <2> QED
    BY <2>4, <2>5 DEF Kept
<1>2. ASSUME pc'[w] = "undone" PROVE Kept(Revert(Cur(w)))'
  <2>1. Owning(w) /\ Cur(w)' = Cur(w) /\ (pc[w] = "undone" \/ Returns(w, "undone"))
    BY <1>2, LateSteps
  <2>2. PICK o \in Ops : o = Cur(w)
    BY <2>1, OwnedTypes
  <2>3. Kept(Revert(o))
    <3>1. CASE pc[w] = "undone"
      BY <2>2, <3>1 DEF KeptInv
    <3>2. CASE Returns(w, "undone")
      BY <2>2, <3>2, ReturnsKept
    <3> QED
      BY <2>1, <3>1, <3>2
  <2>4. Kept(Revert(o))'
    BY <2>3, KeptStays
  <2>5. Cur(w)' = o
    BY <2>1, <2>2
  <2> QED
    BY <2>4, <2>5 DEF Kept
<1> QED
  BY <1>1, <1>2

LEMMA InCodeKept ==
  ASSUME TypeInv, TypeInv', Mutex, CheckedInv, FactsInv, OrderInv, KeptInv, [Next]_vars,
         NEW w \in Workers, InCode(w)'
  PROVE  Unreverted(Cur(w))'
<1>1. Owning(w) /\ Cur(w)' = Cur(w) /\ (InCode(w) \/ pc[w] = "apply")
  BY LateSteps
<1>2. PICK o \in Ops : o = Cur(w)
  BY <1>1, OwnedTypes
<1>3. Unreverted(o)
  <2>1. CASE InCode(w)
    BY <1>2, <2>1 DEF KeptInv
  <2>2. CASE pc[w] = "apply"
    <3>1. NotYet(o)
      BY <1>2, <2>2 DEF OrderInv, Unlanded, StagedLabels
    <3> QED
      BY <3>1, NotYetUnreverted
  <2> QED
    BY <1>1, <2>1, <2>2
<1>4. ASSUME NEW v \in Workers, Undoes(v) PROVE Cur(v) # o
  <2>1. pc[v] \in HeldLabels /\ pc[w] \in HeldLabels
    BY <1>1, <1>4, OwnersConclude DEF Owning, RunningLabels, HeldLabels
  <2>2. v = w
    BY <2>1, OneHolds
  <2>3. pc'[w] = "fail" \/ (pc'[w] = "push" /\ run'[w].after = "undone")
    BY <1>4, <2>2 DEF Undoes
  <2> QED
    BY <2>3 DEF InCode, Landed, Pushing, PushLabels
<1>5. Unreverted(o)'
  BY <1>3, <1>4, UnrevertedStays
<1>6. Cur(w)' = o
  BY <1>1, <1>2
<1> QED
  BY <1>5, <1>6 DEF Unreverted

LEMMA NotInstalledKept ==
  ASSUME TypeInv, Mutex, KeptInv, [Next]_vars, NEW w \in Workers, Owning(w)', pc'[w] # "finish"
  PROVE  Cur(w)' \notin installed'
<1>1. CASE NextOperation(w)
  <2>1. PICK o \in Queued : run' = [run EXCEPT ![w] = [NoRun EXCEPT !.op = o]]
    BY <1>1 DEF NextOperation
  <2>2. Cur(w)' = o
    BY <2>1 DEF TypeInv, TypeOK, WorkersTypeOK, Cur, NoRun
  <2>3. o \notin installed
    BY DEF KeptInv, Queued, Unstarted
  <2> QED
    BY <1>1, <2>2, <2>3 DEF NextOperation, records
<1>2. CASE Owning(w) /\ Cur(w)' = Cur(w)
  <2>1. pc[w] # "finish"
    BY FinishEnds, Bystanders
  <2>2. Cur(w) \notin installed
    BY <1>2, <2>1 DEF KeptInv
  <2>3. ASSUME NEW v \in Workers, pc[v] = "record", pc'[v] = "finish" PROVE FALSE
    <3>1. pc[v] \in HeldLabels /\ pc[w] \in HeldLabels
      BY <1>2, <2>3 DEF Owning, RunningLabels, HeldLabels, Labels
    <3> QED
      BY <2>3, <3>1, OneHolds
  <2> QED
    BY <1>2, <2>2, <2>3, RecordSteps
<1> QED
  BY <1>1, <1>2, StillOwning

LEMMA RevertedKept ==
  ASSUME TypeInv, Mutex, BaseInv, CheckedInv, FactsInv, OrderInv, RowIsTrue, KeptInv, [Next]_vars,
         ~vanished', NEW o \in Ops, status'[o] = "reverted"
  PROVE  Kept(Revert(o))' /\ LiveIsRid(o)'
<1>1. Kept(Revert(o)) /\ LiveIsRid(o) /\ \A v \in Workers : Lands(v) => Cur(v) # o
  <2>1. CASE status[o] = "reverted"
    <3>1. ASSUME NEW v \in Workers, Lands(v) PROVE Cur(v) # o
      <4>1. status[Cur(v)] \in InProgress \cup {"failed"}
        BY <3>1, OwnersConclude DEF OrderInv
      <4> QED
        BY <2>1, <4>1 DEF InProgress
    <3> QED
      BY <2>1, <3>1 DEF KeptInv, LiveIsRid
  <2>2. CASE status[o] # "reverted"
    <3>1. PICK w \in Workers : Cur(w) = o /\ <<pc[w], "reverted">> \in Endings
      BY <2>2, Verdicts
    <3>2. pc[w] = "undone"
      BY <3>1 DEF Endings
    <3>3. row = "running"
      BY <3>2 DEF FactsInv, RowIsSet, RunningLabels, Labels
    <3>4. EndsWith(live, Revert(o))
      BY <3>1, <3>2, <3>3 DEF RowIsTrue, FactsInv, TipIsOwn, Reverted
    <3>5. Holds(live, Revert(o))
      BY <3>4, EndHolds DEF TypeInv, TypeOK, GitTypeOK
    <3>6. \A v \in Workers : ~Lands(v)
      <4> SUFFICES ASSUME NEW v \in Workers, Lands(v) PROVE FALSE
        OBVIOUS
      <4>1. pc[v] = "apply"
        BY DEF Lands
      <4> QED
        BY <3>2, <4>1, OneHolds DEF HeldLabels, Labels
    <3> QED
      BY <3>1, <3>2, <3>5, <3>6 DEF KeptInv, LiveIsRid
  <2> QED
    BY <2>1, <2>2
<1>2. Kept(Revert(o))'
  BY <1>1, KeptStays
<1>3. LiveIsRid(o)'
  BY <1>1, RidStays
<1> QED
  BY <1>2, <1>3

LEMMA InstalledKept ==
  ASSUME TypeInv, Mutex, BaseInv, CheckedInv, FactsInv, OrderInv, RowIsTrue, KeptInv, [Next]_vars,
         ~vanished', NEW o \in installed'
  PROVE  Kept(Change(o, TRUE))' /\ Unreverted(o)' /\ ~Unstarted(o)'
<1>1. /\ o \in Ops /\ Kept(Change(o, TRUE)) /\ Unreverted(o) /\ ~Unstarted(o)
      /\ \A v \in Workers : Undoes(v) => Cur(v) # o
  <2>1. CASE o \in installed
    <3>1. ASSUME NEW v \in Workers, Undoes(v) PROVE Cur(v) # o
      <4>1. Owning(v) /\ pc[v] = "revert"
        BY <3>1, OwnersConclude DEF Undoes
      <4> QED
        BY <2>1, <4>1 DEF KeptInv
    <3>2. o \in Ops
      BY <2>1 DEF TypeInv, TypeOK, RowsTypeOK
    <3> QED
      BY <2>1, <3>1, <3>2 DEF KeptInv
  <2>2. ASSUME NEW w \in Workers, pc[w] = "record", o = Cur(w)
        PROVE  /\ o \in Ops /\ Kept(Change(o, TRUE)) /\ Unreverted(o) /\ ~Unstarted(o)
               /\ \A v \in Workers : Undoes(v) => Cur(v) # o
    <3>1. pc[w] \in HeldLabels /\ pc[w] \in RunningLabels
      BY <2>2 DEF HeldLabels, RunningLabels, Labels
    <3>2. run[w].after # "pushJob"
      BY <2>2 DEF TypeInv, LocalsOK, LocalOK, PushLabels
    <3>3. Owning(w) /\ o \in Ops
      BY <2>2, <3>1, <3>2, OwnedTypes DEF Owning
    <3>4. ~Unstarted(o)
      BY <2>2, <3>3 DEF OrderInv, Unstarted, InProgress
    <3>5. Kept(Change(o, TRUE)) /\ Unreverted(o)
      BY <2>2 DEF KeptInv, Secured, InCode
    <3>6. ASSUME NEW v \in Workers, Undoes(v) PROVE FALSE
      <4>1. pc[v] = "revert" /\ pc[v] \in HeldLabels
        BY <3>6, OwnersConclude DEF Undoes
      <4> QED
        BY <2>2, <3>1, <4>1, OneHolds
    <3> QED
      BY <3>3, <3>4, <3>5, <3>6
  <2> QED
    BY <2>1, <2>2, RecordSteps
<1>2. Kept(Change(o, TRUE))'
  BY <1>1, KeptStays
<1>3. Unreverted(o)'
  BY <1>1, UnrevertedStays
<1>4. ~Unstarted(o)'
  BY <1>1, NeverAgain DEF Ages
<1> QED
  BY <1>2, <1>3, <1>4

LEMMA KeptInvKept ==
  ASSUME TypeInv, TypeInv', Mutex, BaseInv, CheckedInv, FactsInv, OrderInv, RowIsTrue, KeptInv,
         [Next]_vars, ~vanished'
  PROVE  KeptInv'
<1>1. \A o \in settled' : Kept(Change(o, TRUE))'
  BY SettledKept
<1>2. \A w \in Workers : /\ Secured(w)' => Kept(Change(Cur(w), TRUE))'
                         /\ pc'[w] = "undone" => Kept(Revert(Cur(w)))'
  BY SecuredKept
<1>3. \A w \in Workers : InCode(w)' => Unreverted(Cur(w))'
  BY InCodeKept
<1>4. \A w \in Workers : Owning(w)' /\ pc'[w] # "finish" => Cur(w)' \notin installed'
  BY NotInstalledKept
<1>5. \A o \in Ops : status'[o] = "reverted" => Kept(Revert(o))' /\ LiveIsRid(o)'
  BY RevertedKept
<1>6. \A o \in installed' : Kept(Change(o, TRUE))' /\ Unreverted(o)' /\ ~Unstarted(o)'
  BY InstalledKept
<1> QED
  BY <1>1, <1>2, <1>3, <1>4, <1>5, <1>6 DEF KeptInv, LiveIsRid

KInv == vanished \/ (RowIsTrue /\ KeptInv)

LEMMA KInvKept ==
  ASSUME TypeInv, TypeInv', Mutex, BaseInv, CheckedInv, FactsInv, OrderInv, KInv, [Next]_vars
  PROVE  KInv'
<1>1. vanished => vanished'
  BY SandboxSteps
<1>2. ASSUME ~vanished' PROVE RowIsTrue' /\ KeptInv'
  BY <1>1, <1>2, KeptInvKept, SandboxInvKept DEF KInv, SandboxInv
<1> QED
  BY <1>2 DEF KInv

LEMMA KInvInit == Init => KInv
<1> SUFFICES ASSUME Init PROVE RowIsTrue /\ KeptInv
  BY DEF KInv
<1>1. \A w \in Workers : pc[w] = "idle"
  BY DEF Init
<1>2. settled = {} /\ installed = {} /\ \A o \in Ops : status[o] = "none"
  BY DEF Init
<1>3. RowIsTrue
  BY DEF Init, RowIsTrue
<1>4. \A w \in Workers : ~Secured(w) /\ ~InCode(w) /\ ~Owning(w) /\ pc[w] # "undone"
  BY <1>1 DEF Secured, InCode, Owning, Reverted, Landed, Pushing, PushLabels, RunningLabels
<1> QED
  BY <1>2, <1>3, <1>4 DEF KeptInv

LEMMA KInvHolds == NoLapse => (Spec => []KInv)
<1>1. SUFFICES ASSUME NoLapse PROVE Spec => []KInv
  OBVIOUS
<1>2. TypeInv /\ Mutex /\ BaseInv /\ CheckedInv /\ FactsInv /\ OrderInv /\ KInv /\ [Next]_vars => KInv'
  BY TypeInvKept, KInvKept
<1>3. Spec => [](Mutex /\ BaseInv /\ CheckedInv /\ FactsInv)
  BY <1>1, FactsHold
<1>4. Spec => [](UndoInv /\ OrderInv)
  BY <1>1, HistoryInvHolds
<1> QED
  BY <1>2, <1>3, <1>4, KInvInit, TypesHold, PTL DEF Spec

\* "The sandbox won't be destroyed before it lands" (pushOrSchedule): a change whose run ended as
\* applied or reverted is on draft, or in the live tree and flagged for pushing, through refused
\* pushes, crashes, pauses and rebuilds, as long as no lock outlives its fifteen minutes and the
\* provider loses no sandbox.
THEOREM SettledWorkStays == NoLapse => (Spec => []SettledWorkIsSafe)
<1>1. SUFFICES ASSUME NoLapse PROVE Spec => []SettledWorkIsSafe
  OBVIOUS
<1>2. \A h, o : Holds(h, Change(o, TRUE)) => Mentions(h, o)
  BY CommitFields DEF Holds, Mentions
<1>3. KInv => SettledWorkIsSafe
  BY <1>2 DEF KInv, KeptInv, Kept, SettledWorkIsSafe
<1>4. Spec => []KInv
  BY <1>1, KInvHolds
<1> QED
  BY <1>3, <1>4, PTL

\* What a history shows, when its commits are checked ones.
LEMMA ShowsMeans ==
  ASSUME NEW h \in History, GoodHistory(h), NEW o \in Ops
  PROVE  /\ Shows(h, o) => Holds(h, Change(o, TRUE))
         /\ Holds(h, Change(o, TRUE)) /\ ~Holds(h, Revert(o)) => Shows(h, o)
         /\ Holds(h, Revert(o)) => ~Shows(h, o)
<1>1. ASSUME NEW i \in DOMAIN h, h[i].op = o
      PROVE  /\ h[i].kind = "change" => h[i] = Change(o, TRUE)
             /\ h[i].kind = "revert" => h[i] = Revert(o)
  <2>1. h[i] \in Commit /\ h[i].good
    BY HistoryFacts DEF GoodHistory
  <2> QED
    BY <1>1, <2>1 DEF Commit, Change, Revert
<1>2. Shows(h, o) => Holds(h, Change(o, TRUE))
  BY <1>1 DEF Shows, Holds
<1>3. \A i \in DOMAIN h : h[i].op = o /\ h[i].kind = "revert" => Holds(h, Revert(o))
  BY <1>1 DEF Holds
<1>4. Holds(h, Change(o, TRUE)) => \E i \in DOMAIN h : h[i].op = o /\ h[i].kind = "change"
  BY CommitFields DEF Holds
<1>5. Holds(h, Revert(o)) => \E i \in DOMAIN h : h[i].op = o /\ h[i].kind = "revert"
  BY CommitFields DEF Holds
<1> QED
  BY <1>2, <1>3, <1>4, <1>5 DEF Shows

\* The two of RecordsAreTrue that need no sandbox to start.
LEMMA VerdictsAreTrue ==
  ASSUME TypeInv, CheckedInv, KInv
  PROVE  RevertedIsUndone /\ InstalledIsInCode
<1>1. /\ live \in History /\ draft \in History /\ installed \subseteq Ops
      /\ GoodHistory(live) /\ GoodHistory(draft)
  BY DEF TypeInv, TypeOK, GitTypeOK, RowsTypeOK, CheckedInv, BranchesGood
<1>2. ASSUME ~vanished, NEW o \in Ops, status[o] = "reverted"
      PROVE  ~Shows(live, o) /\ (pendingPush \/ ~Shows(draft, o))
  BY <1>1, <1>2, ShowsMeans DEF KInv, KeptInv, Kept
<1>3. ASSUME ~vanished, NEW o \in installed
      PROVE  Shows(draft, o) \/ (pendingPush /\ Shows(live, o))
  BY <1>1, <1>3, ShowsMeans DEF KInv, KeptInv, Kept, Unreverted
<1> QED
  BY <1>2, <1>3 DEF RevertedIsUndone, InstalledIsInCode

----------------------------------------------------------------------------
(* A worker and the row of the operation it runs.                          *)
(*                                                                         *)
(* failQueued marks as failed whatever it read as queued, without the lock *)
(* and whatever has become of it (OperationsProcessor): the rows say what  *)
(* is so only while every sandbox starts.                                  *)

AlwaysStarts == "nostart" \notin Disturbances

NobodyDoomed == \A w \in Workers : doomed[w] = {}

\* Where a worker has no operation: before it takes one up, and around the push retry.
Away == {"idle", "drain", "recover", "next", "pushJob", "ensure", "failQueued"}
Unburdened(w) == pc[w] \in Away \/ run[w].after = "pushJob"

OwnInv ==
  /\ NobodyDoomed
  /\ \A w \in Workers : Owning(w) => status[Cur(w)] \in InProgress
  /\ \A w \in Workers : Unburdened(w) => Cur(w) = 0

LEMMA NobodyDoomedKept ==
  ASSUME TypeInv, AlwaysStarts, NobodyDoomed, [Next]_vars
  PROVE  NobodyDoomed'
<1>1. \A w \in Workers : ~EnsureFails(w)
  BY DEF EnsureFails, Disturb, AlwaysStarts
<1>2. doomed \in [Workers -> SUBSET Ops]
  BY DEF TypeInv, TypeOK, WorkersTypeOK
<1> QED
  BY <1>1, <1>2, DoomSteps DEF NobodyDoomed, Dooms, Spares

LEMMA OwnedStays ==
  ASSUME TypeInv, Mutex, OwnInv, [Next]_vars, NEW w \in Workers, Owning(w)'
  PROVE  status'[Cur(w)'] \in InProgress
<1>1. CASE NextOperation(w)
  <2>1. PICK o \in Queued : /\ SetStatus(o, "staging")
                            /\ run' = [run EXCEPT ![w] = [NoRun EXCEPT !.op = o]]
    BY <1>1 DEF NextOperation
  <2>2. o \in Ops /\ Cur(w)' = o
    BY <2>1 DEF Queued, Cur, TypeInv, TypeOK, WorkersTypeOK, NoRun
  <2>3. status'[o] = "staging"
    BY <2>1, <2>2, StatusSet
  <2> QED
    BY <2>2, <2>3 DEF InProgress
<1>2. CASE Owning(w) /\ Cur(w)' = Cur(w)
  <2>1. status[Cur(w)] \in InProgress /\ Cur(w) \in Ops
    BY <1>2, OwnedTypes DEF OwnInv
  <2>2. pc[w] \in HeldLabels /\ pc[w] \in RunningLabels /\ pc'[w] \in RunningLabels
    BY <1>2 DEF Owning, RunningLabels, HeldLabels
  <2>3. \A v \in Workers : Begins(v) \/ Advances(v) \/ Concludes(v) \/ Recovers(v) => v = w
    BY <2>2, OneHolds, OwnersConclude DEF Begins, Recovers, HeldLabels, Labels
  <2>4. CASE Created
    <3>1. PICK o \in Ops : IsNew(o) /\ SetStatus(o, "queued")
      BY <2>4 DEF Created
    <3>2. Cur(w) # o
      BY <2>1, <3>1 DEF IsNew, InProgress
    <3>3. status'[Cur(w)] = status[Cur(w)]
      BY <2>1, <3>1, <3>2, StatusSet
    <3> QED
      BY <1>2, <2>1, <3>3
  <2>5. CASE Advances(w)
    <3>1. PICK s \in InProgress : SetStatus(Cur(w), s)
      BY <2>5 DEF Advances
    <3>2. status'[Cur(w)] = s
      BY <2>1, <3>1, StatusSet
    <3> QED
      BY <1>2, <3>2
  <2>6. \A v \in Workers : ~Denies(v)
    BY DEF OwnInv, NobodyDoomed, Denies
  <2>7. ~Begins(w) /\ ~Concludes(w) /\ ~Recovers(w)
    BY <2>2 DEF Begins, Concludes, Recovers, RunningLabels
  <2> QED
    BY <1>2, <2>1, <2>3, <2>4, <2>5, <2>6, <2>7, StatusSteps DEF StatusStep
<1> QED
  BY <1>1, <1>2, StillOwning

\* A worker comes to a label of Unburdened with its run over, or from another.
LEMMA AwaySteps ==
  ASSUME TypeInv, NEW w \in Workers, WorkerStep(w), pc'[w] \in Away
  PROVE  run'[w] = NoRun \/ (pc[w] \in Away /\ run'[w] = run[w])
<1> USE DEF At, Goto, Abort, Raise, Forget, EndJob, JobFails, Away, elsewhere, stack
<1>0. /\ pc \in [Workers -> Labels] /\ run \in [Workers -> Run]
      /\ LocalOK(pc[w], run[w])
  BY DEF TypeInv, TypeOK, WorkersTypeOK, LocalsOK
<1>1. CASE TakePushJob(w) \/ Crash(w) \/ \E o \in Ops : TakeJob(w, o)
  BY <1>0, <1>1 DEF TakePushJob, Crash, TakeJob
<1>2. CASE Drain(w) \/ Recover(w) \/ Recovered(w) \/ NextOperation(w) \/ Drained(w) \/ NotRunning(w)
  BY <1>0, <1>2 DEF Drain, Recover, RecoverAs, Recovered, NextOperation, Drained, NotRunning
<1>3. CASE \/ Stage(w) \/ Plan(w) \/ Prepare(w) \/ Check(w) \/ WorktreeMissing(w) \/ Apply(w)
           \/ Health(w) \/ RevertChange(w) \/ Record(w)
  <2>1. pc'[w] \notin Away
    BY <1>0, <1>3 DEF Stage, Plan, Prepare, Check, WorktreeMissing, Apply, Health, RevertChange, Record
  <2> QED
    BY <2>1
<1>4. CASE Push(w) \/ Refused(w)
  BY <1>0, <1>4 DEF Push, PushThrows, Refused
<1>5. CASE Pushed(w) \/ Schedule(w)
  <2>1. run[w].after \in {"restage", "health", "undone", "pushJob"}
    BY <1>0, <1>5 DEF Pushed, Schedule, LocalOK, PushLabels
  <2>2. CASE Pushed(w) /\ run[w].after = "pushJob"
    BY <1>0, <2>2 DEF Pushed
  <2>3. CASE Pushed(w) /\ run[w].after # "pushJob"
    BY <1>0, <2>1, <2>3 DEF Pushed
  <2>4. CASE Schedule(w)
    BY <1>0, <2>4 DEF Schedule, LocalOK
  <2> QED
    BY <1>5, <2>2, <2>3, <2>4
<1>6. CASE \/ Undone(w) \/ Finish(w) \/ Noop(w) \/ Reject(w) \/ Fail(w)
           \/ FollowUps(w) \/ AddFollowUp(w) \/ Published(w)
  BY <1>0, <1>6 DEF Undone, Finish, Noop, Reject, Fail, FollowUps, AddFollowUp, Published, Conclude,
     ConcludeApplied
<1>7. CASE PublishStatus(w) \/ Build(w) \/ ReleaseMain(w) \/ Deploy(w)
  <2>1. pc'[w] \notin Away
    BY <1>0, <1>7 DEF PublishStatus, Build, ReleaseMain, Deploy
  <2> QED
    BY <2>1
<1>8. CASE PushJob(w) \/ EnsureBusy(w) \/ Ensure(w) \/ EnsureThrows(w) \/ EnsureFails(w) \/ FailQueued(w)
  BY <1>0, <1>8 DEF PushJob, EnsureBusy, Ensure, EnsureThrows, EnsureFails, FailQueued, Later
<1> QED
  BY <1>1, <1>2, <1>3, <1>4, <1>5, <1>6, <1>7, <1>8 DEF WorkerStep, Work

LEMMA UnburdenedKept ==
  ASSUME TypeInv, TypeInv', OwnInv, [Next]_vars, NEW w \in Workers, Unburdened(w)'
  PROVE  Cur(w)' = 0
<1>0. NoRun.op = 0 /\ LocalOK(pc'[w], run'[w])
  BY DEF NoRun, TypeInv, LocalsOK
<1>1. CASE ~WorkerStep(w)
  <2>1. pc'[w] = pc[w] /\ run'[w] = run[w]
    BY <1>1, Bystanders
  <2> QED
    BY <2>1 DEF OwnInv, Unburdened, Cur
<1>2. CASE WorkerStep(w) /\ pc'[w] \in Away
  <2>1. run'[w] = NoRun \/ (pc[w] \in Away /\ run'[w] = run[w])
    BY <1>2, AwaySteps
  <2> QED
    BY <1>0, <2>1 DEF OwnInv, Unburdened, Away, Cur
<1>3. CASE WorkerStep(w) /\ run'[w].after = "pushJob"
  <2>1. pc'[w] \in PushLabels
    BY <1>0, <1>3 DEF LocalOK
  <2>2. \/ pc[w] \in PushLabels /\ run'[w] = run[w]
        \/ PushJob(w)
    BY <1>3, <2>1, PushSteps
  <2>3. CASE PushJob(w)
    <3>1. pc[w] = "pushJob" /\ (run' = [run EXCEPT ![w].after = "pushJob"] \/ pc'[w] = "idle")
      BY <2>3 DEF PushJob, At, EndJob, Forget, Goto, TypeInv, TypeOK, WorkersTypeOK
    <3>2. run'[w].op = run[w].op
      BY <2>1, <3>1, LocalSteps DEF PushLabels
    <3> QED
      BY <3>1, <3>2 DEF OwnInv, Unburdened, Away, Cur
  <2> QED
    BY <1>3, <2>2, <2>3 DEF OwnInv, Unburdened, Cur
<1> QED
  BY <1>1, <1>2, <1>3 DEF Unburdened, Away

LEMMA OwnInvKept ==
  ASSUME TypeInv, TypeInv', Mutex, AlwaysStarts, OwnInv, [Next]_vars
  PROVE  OwnInv'
<1>1. \A w \in Workers : Owning(w)' => status'[Cur(w)'] \in InProgress
  BY OwnedStays
<1>2. \A w \in Workers : Unburdened(w)' => Cur(w)' = 0
  BY UnburdenedKept
<1>3. NobodyDoomed'
  BY NobodyDoomedKept DEF OwnInv
<1> QED
  BY <1>1, <1>2, <1>3 DEF OwnInv

LEMMA OwnInvInit == Init => OwnInv
  BY DEF Init, OwnInv, NobodyDoomed, Owning, RunningLabels, NoRun, Cur

LEMMA OwnInvHolds == NoLapse /\ AlwaysStarts => (Spec => []OwnInv)
<1>1. SUFFICES ASSUME NoLapse, AlwaysStarts PROVE Spec => []OwnInv
  OBVIOUS
<1>2. TypeInv /\ Mutex /\ OwnInv /\ [Next]_vars => OwnInv'
  BY <1>1, TypeInvKept, OwnInvKept
<1>3. Spec => []Mutex
  BY <1>1, LockExcludes
<1> QED
  BY <1>2, <1>3, OwnInvInit, TypesHold, PTL DEF Spec

\* What the rows say is so.  The operation a worker runs is in progress: nobody else has concluded
\* it ("the lock is held, so nothing else is running it", recoverInterrupted); a change recorded as
\* reverted shows nowhere, but for a revert still to be pushed; an integration recorded as
\* installed has its code in place.
THEOREM RecordsHold == NoLapse /\ AlwaysStarts => (Spec => []RecordsAreTrue)
<1>1. SUFFICES ASSUME NoLapse, AlwaysStarts PROVE Spec => []RecordsAreTrue
  OBVIOUS
<1>2. OwnInv => RunsItsOwn
  BY DEF OwnInv, RunsItsOwn, Owning, Unburdened, Cur
<1>3. TypeInv /\ CheckedInv /\ KInv /\ OwnInv => RecordsAreTrue
  BY <1>2, VerdictsAreTrue DEF RecordsAreTrue
<1>4. Spec => [](Mutex /\ BaseInv /\ CheckedInv /\ FactsInv)
  BY <1>1, FactsHold
<1>5. Spec => []KInv
  BY <1>1, KInvHolds
<1>6. Spec => []OwnInv
  BY <1>1, OwnInvHolds
<1> QED
  BY <1>3, <1>4, <1>5, <1>6, TypesHold, PTL

\* A worker writes the status of the operation it owns, or of one that is interrupted or queued.
LEMMA FinishedStay ==
  ASSUME TypeInv, OwnInv, [Next]_vars, NEW o \in Ops, status[o] \in Finished
  PROVE  status'[o] = status[o]
<1>0. Finished \cap InProgress = {} /\ "none" \notin Finished /\ "queued" \notin Finished
  BY DEF Finished, InProgress
<1>1. CASE Created
  BY <1>0, <1>1, StatusSet DEF Created, IsNew
<1>2. ASSUME NEW w \in Workers, Begins(w) PROVE status'[o] = status[o]
  BY <1>0, <1>2, StatusSet DEF Begins, Queued
<1>3. ASSUME NEW w \in Workers, Advances(w) \/ Concludes(w) PROVE status'[o] = status[o]
  <2>1. Cur(w) \in Ops /\ Cur(w) # o
    BY <1>0, <1>3, OwnersConclude DEF OwnInv
  <2>2. \E s : SetStatus(Cur(w), s)
    BY <1>3 DEF Advances, Concludes
  <2> QED
    BY <2>1, <2>2, StatusSet
<1>4. ASSUME NEW w \in Workers, Recovers(w) PROVE status'[o] = status[o]
  BY <1>0, <1>4, StatusSet DEF Recovers, Stuck
<1>5. \A w \in Workers : ~Denies(w)
  BY DEF OwnInv, NobodyDoomed, Denies
<1> QED
  BY <1>1, <1>2, <1>3, <1>4, <1>5, StatusSteps DEF StatusStep

\* A finished operation stays as it was recorded: no late worker, retry or recovery changes it.
THEOREM FinishedForGood == NoLapse /\ AlwaysStarts => (Spec => FinishedIsFinal)
<1>1. SUFFICES ASSUME NoLapse, AlwaysStarts PROVE Spec => FinishedIsFinal
  OBVIOUS
<1>2. TypeInv /\ OwnInv /\ [Next]_vars
        => [\A o \in Ops : status[o] \in Finished => status'[o] = status[o]]_vars
  BY FinishedStay
<1>3. Spec => []OwnInv
  BY <1>1, OwnInvHolds
<1> QED
  BY <1>2, <1>3, TypesHold, PTL DEF Spec, FinishedIsFinal

----------------------------------------------------------------------------
(* SafetyNet. *)

\* What the promise sees of the rows and branches before and after a step.
NetPhase == [o \in Ops |-> Phase(status[o])]

LEMMA Phases ==
  /\ Phase("none") = "unborn" /\ Phase("queued") = "waiting"
  /\ \A s \in InProgress : Phase(s) = "working"
  /\ \A s \in Finished : Phase(s) = "done"
<1>1. /\ "none" \notin InProgress \cup Finished /\ "queued" \notin InProgress \cup Finished
      /\ InProgress \cap Finished = {}
  BY DEF InProgress, Finished
<1> QED
  BY <1>1 DEF Phase

LEMMA PhaseSet ==
  ASSUME TypeInv, NEW o \in Ops, NEW s, SetStatus(o, s)
  PROVE  /\ NetPhase' = [NetPhase EXCEPT ![o] = Phase(s)]
         /\ NetPhase[o] = Phase(status[o])
  BY DEF TypeInv, TypeOK, RowsTypeOK, SetStatus, NetPhase

LEMMA NetStatus ==
  ASSUME TypeInv, SoleInv, OwnInv, StatusStep, UNCHANGED <<live, draft, main>>
  PROVE  [Net!NetNext]_(Net!netVars)
<1> DEFINE Goal == [Net!NetNext]_(Net!netVars)
<1> USE DEF Net!NetNext, Net!CodeUnchanged, Net!Move, NetPhase
<1>1. CASE UNCHANGED status
  BY <1>1 DEF Net!netVars
<1>2. ASSUME NEW o \in Ops, IsNew(o), SetStatus(o, "queued") PROVE Goal
  BY <1>2, PhaseSet, Phases DEF Net!Ask, IsNew
<1>3. ASSUME NEW w \in Workers, Begins(w) PROVE Goal
  <2>1. PICK o \in Queued : SetStatus(o, "staging")
    BY <1>3 DEF Begins
  <2>2. o \in Ops /\ status[o] = "queued" /\ "staging" \in InProgress
    BY DEF Queued, InProgress
  <2>3. Stuck = {}
    BY <1>3 DEF SoleInv, Sole, Begins
  <2>4. \A p \in Ops : NetPhase[p] # "working"
    BY <2>3, Phases DEF Stuck, TypeInv, TypeOK, RowsTypeOK, Statuses, NetPhase
  <2> QED
    BY <2>1, <2>2, <2>4, PhaseSet, Phases DEF Net!Begin, Net!Idle
<1>4. ASSUME NEW o \in Ops, status[o] \in InProgress, NEW s \in Finished, SetStatus(o, s) PROVE Goal
  BY <1>4, PhaseSet, Phases DEF Net!Conclude
<1>5. ASSUME NEW w \in Workers, Advances(w) PROVE Goal
  <2>1. Cur(w) \in Ops /\ status[Cur(w)] \in InProgress
    BY <1>5, OwnersConclude DEF OwnInv
  <2>2. PICK s \in InProgress : SetStatus(Cur(w), s)
    BY <1>5 DEF Advances
  <2>3. NetPhase' = NetPhase
    BY <2>1, <2>2, Phases DEF NetPhase, SetStatus, TypeInv, TypeOK, RowsTypeOK
  <2> QED
    BY <2>3 DEF Net!netVars
<1>6. ASSUME NEW w \in Workers, Concludes(w) PROVE Goal
  <2>1. Cur(w) \in Ops /\ status[Cur(w)] \in InProgress
    BY <1>6, OwnersConclude DEF OwnInv
  <2>2. PICK s \in Finished : SetStatus(Cur(w), s)
    BY <1>6 DEF Concludes
  <2> QED
    BY <1>4, <2>1, <2>2
<1>7. ASSUME NEW w \in Workers, Recovers(w) PROVE Goal
  <2>1. PICK o \in Stuck, s \in {"applied", "failed"} : SetStatus(o, s)
    BY <1>7 DEF Recovers
  <2> QED
    BY <1>4, <2>1 DEF Stuck, Finished
<1>8. \A w \in Workers : ~Denies(w)
  BY DEF OwnInv, NobodyDoomed, Denies
<1> QED
  BY <1>1, <1>2, <1>3, <1>5, <1>6, <1>7, <1>8 DEF StatusStep, Created

LEMMA NotYetUnlanded ==
  ASSUME NEW o \in Ops, NotYet(o), NEW i \in DOMAIN live
  PROVE  live[i] # Change(o, TRUE)
<1>1. o \in Nat
  BY NumOpsAssumption DEF Ops
<1>2. \A c \in Earlier(o) : c.op # o
  BY <1>1 DEF Earlier, Commit
<1>3. Change(o, TRUE).op = o
  BY DEF Change
<1>4. Change(o, TRUE) \notin Earlier(o)
  BY <1>2, <1>3, Zenon
<1> QED
  BY <1>4 DEF NotYet, Behind, Within

LEMMA NetPrefixes ==
  ASSUME NEW g, NEW h
  PROVE  Net!IsPrefix(g, h) <=> IsPrefix(g, h)
  BY DEF Net!IsPrefix, IsPrefix

LEMMA NetCode ==
  ASSUME TypeInv, Mutex, CheckedInv, FactsInv, OrderInv, OwnInv, CodeStep, ~CodeStands
  PROVE  [Net!NetNext]_(Net!netVars)
<1> DEFINE Goal == [Net!NetNext]_(Net!netVars)
<1> USE DEF Net!NetNext, NetPhase
<1>0. live \in History /\ draft \in History /\ main \in History
  BY DEF TypeInv, TypeOK, GitTypeOK
<1>1. UNCHANGED status => UNCHANGED NetPhase
  OBVIOUS
<1>2. ASSUME NEW w \in Workers, Owning(w)
      PROVE  Cur(w) \in Ops /\ NetPhase[Cur(w)] = "working"
  BY <1>2, OwnedTypes, Phases DEF OwnInv
<1>3. ASSUME NEW w \in Workers, Lands(w) PROVE Goal
  <2>1. Owning(w) /\ UNCHANGED status /\ pc[w] = "apply"
    BY <1>3, OwnersConclude DEF Lands
  <2>2. live' = Append(live, Change(Cur(w), TRUE)) /\ UNCHANGED <<draft, main>>
    BY <1>3, LandsOnTop
  <2>3. NotYet(Cur(w))
    BY <2>1 DEF OrderInv, Unlanded, StagedLabels
  <2>4. ASSUME NEW i \in DOMAIN live PROVE live[i] # Change(Cur(w), TRUE)
    BY <1>2, <2>1, <2>3, NotYetUnlanded
  <2> QED
    BY <1>1, <1>2, <2>1, <2>2, <2>4 DEF Net!Land, CheckedChange
<1>4. ASSUME NEW w \in Workers, Undoes(w) PROVE Goal
  <2>1. Owning(w) /\ UNCHANGED status
    BY <1>4, OwnersConclude DEF Undoes
  <2>2. /\ EndsWith(live, Change(Cur(w), TRUE)) /\ live' = Append(live, Revert(Cur(w)))
        /\ UNCHANGED <<draft, main>>
    BY <1>4, UndoesTheTip
  <2>3. live # <<>> /\ Net!Last(live) = Change(Cur(w), TRUE)
    BY <2>2 DEF EndsWith, Net!Last
  <2> QED
    BY <1>1, <1>2, <2>1, <2>2, <2>3 DEF Net!Undo, CheckedChange
<1>5. ASSUME NEW w \in Workers, Publishes(w) PROVE Goal
  <2>1. /\ pc[w] = "release" /\ UNCHANGED <<status, live, draft>>
        /\ main' = run[w].head /\ IsPrefix(main, main')
    BY <1>5 DEF Publishes, PublishMain, CanPublish
  <2>2. Owning(w)
    BY <2>1 DEF Owning, RunningLabels, Labels, TypeInv, LocalsOK, LocalOK, PushLabels
  <2>3. run[w].head \in History /\ IsPrefix(run[w].head, draft)
    BY <2>1, CurTypes DEF FactsInv, HeadIsDrafted
  <2>4. Len(main') \in 0 .. Len(draft) /\ main' = SubSeq(draft, 1, Len(main'))
    <3>1. SubSeq(main', 1, Len(main')) = main' /\ Len(main') \in Nat /\ Len(draft) \in Nat
      BY <1>0, <2>1, <2>3, SubSeqFull DEF History
    <3> QED
      BY <2>1, <2>3, <3>1 DEF IsPrefix
  <2> QED
    BY <1>1, <1>2, <2>1, <2>2, <2>4, NetPrefixes DEF Net!Release
<1>6. CASE Saves
  BY <1>1, <1>6, NetPrefixes DEF Saves, CanPush, PushDraft, Net!Save
<1>7. IsPrefix(draft, draft)
  BY <1>0, PrefixItself
<1>8. CASE Rebuilds
  BY <1>1, <1>7, <1>8, NetPrefixes DEF Rebuilds, CloneDraft, Net!Reset
<1>9. CASE Destroys
  BY <1>1, <1>7, <1>9, NetPrefixes DEF Destroys, DropSandbox, CanPush, Net!Reset
<1>10. CASE PushedFromOutside
  BY <1>1, <1>10 DEF PushedFromOutside, sandboxGit, Net!Outsider
<1> QED
  BY <1>3, <1>4, <1>5, <1>6, <1>8, <1>9, <1>10 DEF CodeStep

LEMMA NetStart == Init => Net!NetInit
  BY Phases DEF Init, GitInit, Net!NetInit

\* The promise of SafetyNet: one operation at a time is worked on; the preview changes only by its
\* checked change, once, or by undoing exactly that change; draft follows the preview and loses
\* nothing; main only ever shows a version that draft has.  Retries, recoveries, refused pushes,
\* crashes and rebuilds add nothing to it, as long as no lock outlives its fifteen minutes and
\* every sandbox starts (what failQueued marks as failed was never begun).
THEOREM KeepsThePromise == NoLapse /\ AlwaysStarts => (Spec => ImplementsSafetyNet)
<1>1. SUFFICES ASSUME NoLapse, AlwaysStarts PROVE Spec => ImplementsSafetyNet
  OBVIOUS
<1>2. TypeInv /\ Mutex /\ CheckedInv /\ FactsInv /\ SoleInv /\ OrderInv /\ OwnInv /\ [Next]_vars
        => [Net!NetNext]_(Net!netVars)
  <2> SUFFICES ASSUME TypeInv, Mutex, CheckedInv, FactsInv, SoleInv, OrderInv, OwnInv, [Next]_vars
               PROVE  [Net!NetNext]_(Net!netVars)
    OBVIOUS
  <2>1. CASE CodeStands
    BY <2>1, NetStatus, StatusSteps DEF CodeStands
  <2>2. CASE ~CodeStands
    BY <2>2, NetCode, CodeSteps
  <2> QED
    BY <2>1, <2>2
<1>3. Spec => [](Mutex /\ BaseInv /\ CheckedInv /\ FactsInv)
  BY <1>1, FactsHold
<1>4. Spec => [](UndoInv /\ OrderInv)
  BY <1>1, HistoryInvHolds
<1>5. Spec => []OwnInv
  BY <1>1, OwnInvHolds
<1>6. Spec => []SoleInv
  BY <1>1, SoleInvHolds
<1> QED
  BY <1>2, <1>3, <1>4, <1>5, <1>6, NetStart, TypesHold, PTL DEF Spec, ImplementsSafetyNet, Net!NetSpec

=============================================================================
