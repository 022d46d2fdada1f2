---------------------------- MODULE Provisioning ----------------------------
(***************************************************************************)
(* How a portfolio comes to be: the row that onboarding creates, the job   *)
(* that turns it into a repository with main and draft branches, the first *)
(* change with the user's details, and the setup page that watches it.     *)
(*                                                                         *)
(* One portfolio, with one repository name of its own: create enforces the *)
(* limit of one in a transaction under the user's advisory lock, and the   *)
(* name is unique in the database.  A run of the job is a worker's steps,  *)
(* one call to GitHub or to the database each.  A worker can crash, and it *)
(* can stall: BullMQ then gives the job to another while it goes on.       *)
(***************************************************************************)
EXTENDS Naturals, FiniteSets

CONSTANTS
  Workers,
  Attempts,      \* PROVISION_JOB_OPTIONS
  MaxFaults,     \* crashes, stalls, failed calls, revoked tokens, foreign repositories (bound)
  MaxRequests    \* retries asked for on the setup page (bound)

VARIABLES
  status,       \* the portfolio's row
  personalise,  \* its first operation: "none", "created", "queued" (a job runs it), or how it ended
  repo,         \* GitHub's repository of that name
  token,        \* the cached installation token
  enqueuing,    \* the api is about to add the job
  job,
  at,           \* where each worker is; its job was given to another
  sandbox,      \* the preview's status
  opened,       \* the setup page has asked for the preview
  faults, asked,
  stalled       \* history: a job ran twice at once

server == <<status, personalise, enqueuing, job, at>>
world  == <<repo, token, sandbox, opened>>
bounds == <<faults, asked, stalled>>
vars   == <<server, world, bounds>>

NoRepo  == [origin |-> "none", main |-> FALSE, draft |-> FALSE]
Foreign == [origin |-> "foreign", main |-> TRUE, draft |-> FALSE]
Idle    == [pc |-> "idle", zombie |-> FALSE]
NoJob   == [state |-> "none", failed |-> 0]

Init ==
  /\ status = "none" /\ personalise = "none"
  /\ repo \in {NoRepo, Foreign} /\ token = "good"
  /\ enqueuing = FALSE /\ job = NoJob
  /\ at = [w \in Workers |-> Idle]
  /\ sandbox = "none" /\ opened = FALSE
  /\ faults = 0 /\ asked = 0 /\ stalled = FALSE

Fault == faults < MaxFaults /\ faults' = faults + 1

-----------------------------------------------------------------------------
(* The api *)

\* create, up to the commit of its transaction
Create ==
  /\ status = "none"
  /\ status' = "provisioning"
  /\ enqueuing' = TRUE
  /\ UNCHANGED <<personalise, job, at, world, bounds>>

\* retry: the update's where clause lets a failed portfolio pass once.
Retry ==
  /\ status = "failed"
  /\ asked < MaxRequests /\ asked' = asked + 1
  /\ status' = "provisioning"
  /\ enqueuing' = TRUE
  /\ UNCHANGED <<personalise, job, at, world, faults, stalled>>

\* A job of that id that still exists is left as it is.
Add == job' = IF job.state = "none" THEN [state |-> "waiting", failed |-> 0] ELSE job

Enqueue ==
  /\ enqueuing
  /\ enqueuing' = FALSE
  /\ Add
  /\ UNCHANGED <<status, personalise, at, world, bounds>>

\* The api stops between the row and the job.
ApiDies ==
  /\ enqueuing
  /\ Fault
  /\ enqueuing' = FALSE
  /\ UNCHANGED <<status, personalise, job, at, world, asked, stalled>>

\* ProvisioningRecovery.run; that a row rests a while first is left out.
Recover ==
  /\ status = "provisioning" /\ ~enqueuing
  /\ Add
  /\ UNCHANGED <<status, personalise, enqueuing, at, world, bounds>>

-----------------------------------------------------------------------------
(* The worker *)

Goto(w, pc) == at' = [at EXCEPT ![w].pc = pc]

\* Mutant: a job that is over keeps its id.
EndKeepsJob(w) ==
  /\ at' = [at EXCEPT ![w] = Idle]
  /\ job' = IF at[w].zombie THEN job ELSE [job EXCEPT !.state = "done"]

\* The run returns.  A job that was given to another is not its own to end.
End(w) ==
  /\ at' = [at EXCEPT ![w] = Idle]
  /\ job' = IF at[w].zombie THEN job ELSE NoJob

\* process's catch: try again, or fail, deleting the repository unless it is somebody else's.
Throws(w, retryable, foreign) ==
  IF retryable /\ job.failed + 1 < Attempts
    THEN /\ at' = [at EXCEPT ![w] = Idle]
         /\ job' = IF at[w].zombie THEN job ELSE [state |-> "waiting", failed |-> job.failed + 1]
    ELSE Goto(w, IF foreign THEN "fail-foreign" ELSE "fail") /\ UNCHANGED job

Take(w) ==
  /\ at[w] = Idle
  /\ job.state = "waiting"
  /\ job' = [job EXCEPT !.state = "active"]
  /\ Goto(w, "start")
  /\ UNCHANGED <<status, personalise, enqueuing, world, bounds>>

Start(w) ==
  /\ at[w].pc = "start"
  /\ IF status = "provisioning" THEN Goto(w, "find") /\ UNCHANGED job ELSE End(w)
  /\ UNCHANGED <<status, personalise, enqueuing, world, bounds>>

Find(w) ==
  /\ at[w].pc = "find" /\ token = "good"
  /\ CASE repo.origin = "foreign" -> Throws(w, FALSE, TRUE)
       [] repo.origin = "none"    -> Goto(w, "generate") /\ UNCHANGED job
       [] OTHER                   -> Goto(w, "main") /\ UNCHANGED job
  /\ UNCHANGED <<status, personalise, enqueuing, world, bounds>>

\* generateFromTemplate: one that exists by now is taken for an earlier attempt's.
Generate(w) ==
  /\ at[w].pc = "generate" /\ token = "good"
  /\ repo' = IF repo.origin = "none" THEN [NoRepo EXCEPT !.origin = "ours"] ELSE repo
  /\ Goto(w, "main")
  /\ UNCHANGED <<status, personalise, enqueuing, job, token, sandbox, opened, bounds>>

\* Mutant: the portfolio is ready as soon as main is there.
ReadyEarly(w) ==
  /\ at[w].pc = "main" /\ token = "good" /\ repo.main
  /\ status' = "ready"
  /\ Goto(w, "draft")
  /\ UNCHANGED <<personalise, enqueuing, job, world, bounds>>

\* waitForBranch: GitHub is asked for main until it is there, or too often.
WaitForBranch(w) ==
  /\ at[w].pc = "main" /\ token = "good"
  /\ \/ repo.main /\ Goto(w, "draft") /\ UNCHANGED <<job, faults>>
     \/ repo.origin = "none" /\ Throws(w, TRUE, FALSE) /\ UNCHANGED faults
     \/ repo.origin # "none" /\ ~repo.main /\ Fault /\ Throws(w, TRUE, FALSE)
  /\ UNCHANGED <<status, personalise, enqueuing, world, asked, stalled>>

\* getBranchSha and createBranch; in a repository that is gone the branch is refused for good.
CreateDraft(w) ==
  /\ at[w].pc = "draft" /\ token = "good"
  /\ IF repo.origin = "none"
       THEN Throws(w, FALSE, FALSE) /\ UNCHANGED repo
       ELSE repo' = [repo EXCEPT !.draft = TRUE] /\ Goto(w, "ready") /\ UNCHANGED job
  /\ UNCHANGED <<status, personalise, enqueuing, token, sandbox, opened, bounds>>

MakeReady(w) ==
  /\ at[w].pc = "ready"
  /\ status' = "ready"
  /\ Goto(w, "personalise")
  /\ UNCHANGED <<personalise, enqueuing, job, world, bounds>>

\* queueFor, up to the profile, which GitHub may or may not give
QueueFor(w) ==
  /\ at[w].pc = "personalise"
  /\ IF status = "ready" /\ personalise = "none" THEN Goto(w, "claim") /\ UNCHANGED job ELSE End(w)
  /\ UNCHANGED <<status, personalise, enqueuing, world, bounds>>

\* The transaction: the operation, and the portfolio's claim to it, which only one run gets.
Claim(w) ==
  /\ at[w].pc = "claim"
  /\ IF personalise = "none" THEN personalise' = "created" /\ Goto(w, "add") /\ UNCHANGED job
                             ELSE End(w) /\ UNCHANGED personalise
  /\ UNCHANGED <<status, enqueuing, world, bounds>>

AddOperation(w) ==
  /\ at[w].pc = "add"
  /\ personalise' = "queued"
  /\ End(w)
  /\ UNCHANGED <<status, enqueuing, world, bounds>>

\* fail: nothing for a portfolio that became ready
Fail(w) ==
  /\ at[w].pc \in {"fail", "fail-foreign"}
  /\ IF status = "ready" THEN End(w)
     ELSE Goto(w, IF at[w].pc = "fail" THEN "inspect" ELSE "record") /\ UNCHANGED job
  /\ UNCHANGED <<status, personalise, enqueuing, world, bounds>>

Inspect(w) ==
  /\ at[w].pc = "inspect" /\ token = "good"
  /\ Goto(w, IF repo.origin = "ours" THEN "delete" ELSE "record")
  /\ UNCHANGED <<status, personalise, enqueuing, job, world, bounds>>

DeleteRepo(w) ==
  /\ at[w].pc = "delete" /\ token = "good"
  /\ repo' = NoRepo
  /\ Goto(w, "record")
  /\ UNCHANGED <<status, personalise, enqueuing, job, token, sandbox, opened, bounds>>

RecordFailure(w) ==
  /\ at[w].pc = "record"
  /\ status' = "failed"
  /\ End(w)
  /\ UNCHANGED <<personalise, enqueuing, world, bounds>>

GitHubCalls == {"find", "generate", "main", "draft", "inspect", "delete"}

\* What an error in fail leaves: the job is tried again or dropped, and nothing is recorded.
FailThrows(w) ==
  /\ at' = [at EXCEPT ![w] = Idle]
  /\ job' = IF at[w].zombie THEN job
            ELSE IF job.failed + 1 < Attempts THEN [state |-> "waiting", failed |-> job.failed + 1] ELSE NoJob

\* request: a token GitHub refuses is forgotten, and the error is one to retry.
Unauthorized(w) ==
  /\ at[w].pc \in GitHubCalls /\ token = "revoked"
  /\ token' = "good"
  /\ IF at[w].pc \in {"inspect", "delete"} THEN FailThrows(w) ELSE Throws(w, TRUE, FALSE)
  /\ UNCHANGED <<status, personalise, enqueuing, repo, sandbox, opened, bounds>>

\* toGitHubError, isRetryable: a rate limit puts the job off without using up an attempt.
GitHubFails(w) ==
  /\ at[w].pc \in GitHubCalls
  /\ Fault
  /\ IF at[w].pc \in {"inspect", "delete"} THEN FailThrows(w)
     ELSE \/ \E retryable \in BOOLEAN : Throws(w, retryable, FALSE)
          \/ /\ at' = [at EXCEPT ![w] = Idle]
             /\ job' = IF at[w].zombie THEN job ELSE [job EXCEPT !.state = "waiting"]
  /\ UNCHANGED <<status, personalise, enqueuing, world, asked, stalled>>

Crash(w) ==
  /\ at[w] # Idle
  /\ Fault
  /\ at' = [at EXCEPT ![w] = Idle]
  /\ job' = IF at[w].zombie THEN job ELSE [job EXCEPT !.state = "waiting"]
  /\ UNCHANGED <<status, personalise, enqueuing, world, asked, stalled>>

\* The worker misses its heartbeats: the job is given to another while it goes on.
Stall(w) ==
  /\ at[w] # Idle /\ ~at[w].zombie
  /\ Fault
  /\ at' = [at EXCEPT ![w].zombie = TRUE]
  /\ job' = [job EXCEPT !.state = "waiting"]
  /\ stalled' = TRUE
  /\ UNCHANGED <<status, personalise, enqueuing, world, asked>>

-----------------------------------------------------------------------------
(* The setup page *)

Active == {"created", "queued"}

\* setupProgress: what the page is told of each step.
Progress ==
  LET preview ==
        CASE status # "ready" -> "pending"
          [] status = "ready" /\ (sandbox = "running" \/ personalise \notin Active \cup {"none"}) -> "done"
          [] status = "ready" /\ sandbox = "unhealthy" /\ personalise \in Active \cup {"none"} -> "failed"
          [] OTHER -> "active"
      details ==
        IF preview # "done" THEN "pending"
        ELSE IF personalise \in Active THEN "active"
        ELSE IF personalise = "applied" THEN "done" ELSE "skipped"
  IN [ready   |-> details \in {"done", "skipped"},
      failure |-> status = "failed" \/ preview = "failed",
      retry   |-> IF status = "failed" THEN "provisioning" ELSE IF preview = "failed" THEN "preview" ELSE "none"]

\* The page opens the preview once, when the site is done; it does not look at the answer.
OpenPreview ==
  /\ status = "ready" /\ ~opened
  /\ opened' = TRUE
  /\ \/ /\ sandbox' = IF sandbox \in {"none", "unhealthy"} THEN "starting" ELSE sandbox
        /\ UNCHANGED faults
     \/ Fault /\ UNCHANGED sandbox
  /\ UNCHANGED <<server, repo, token, asked, stalled>>

RetryPreview ==
  /\ Progress.retry = "preview"
  /\ asked < MaxRequests /\ asked' = asked + 1
  /\ sandbox' = "starting"
  /\ UNCHANGED <<server, repo, token, opened, faults, stalled>>

-----------------------------------------------------------------------------
(* GitHub, the preview and the operations *)

Generated ==
  /\ repo.origin = "ours" /\ ~repo.main
  /\ repo' = [repo EXCEPT !.main = TRUE]
  /\ UNCHANGED <<server, token, sandbox, opened, bounds>>

CreateForeign ==
  /\ repo = NoRepo
  /\ Fault
  /\ repo' = Foreign
  /\ UNCHANGED <<server, token, sandbox, opened, asked, stalled>>

Revoke ==
  /\ token = "good"
  /\ Fault
  /\ token' = "revoked"
  /\ UNCHANGED <<server, repo, sandbox, opened, asked, stalled>>

PreviewStarts ==
  /\ sandbox = "starting"
  /\ \/ sandbox' = "running" /\ UNCHANGED faults
     \/ sandbox' = "unhealthy" /\ Fault
  /\ UNCHANGED <<server, repo, token, opened, asked, stalled>>

\* The operation's job starts the preview if nothing else has, and concludes it.
OperationRuns ==
  /\ personalise = "queued"
  /\ \/ sandbox = "running" /\ personalise' \in {"applied", "rejected"} /\ UNCHANGED sandbox
     \/ sandbox = "unhealthy" /\ personalise' = "failed" /\ UNCHANGED sandbox
     \/ sandbox = "none" /\ sandbox' = "starting" /\ UNCHANGED personalise
  /\ UNCHANGED <<status, enqueuing, job, at, repo, token, opened, bounds>>

Outside == Generated \/ PreviewStarts \/ OperationRuns

Step(w) ==
  \/ Start(w) \/ Find(w) \/ Generate(w) \/ WaitForBranch(w) \/ CreateDraft(w) \/ MakeReady(w)
  \/ QueueFor(w) \/ Claim(w) \/ AddOperation(w)
  \/ Fail(w) \/ Inspect(w) \/ DeleteRepo(w) \/ RecordFailure(w) \/ Unauthorized(w)

Next ==
  \/ Create \/ Retry \/ Enqueue \/ ApiDies \/ Recover
  \/ \E w \in Workers : Take(w) \/ Step(w) \/ GitHubFails(w) \/ Crash(w) \/ Stall(w)
  \/ OpenPreview \/ RetryPreview
  \/ Outside \/ CreateForeign \/ Revoke

Spec == Init /\ [][Next]_vars

\* Workers go on and take what waits, the api finishes its requests, the recovery job recurs, the
\* page polls, and GitHub and the operations queue do their part in the end.
FairSpec ==
  /\ Spec
  /\ WF_vars(Enqueue) /\ WF_vars(Recover) /\ WF_vars(OpenPreview) /\ WF_vars(Outside)
  /\ \A w \in Workers : WF_vars(Step(w))
  /\ SF_vars(\E w \in Workers : Take(w))

-----------------------------------------------------------------------------
(* Properties *)

TypeOK ==
  /\ status \in {"none", "provisioning", "ready", "failed"}
  /\ personalise \in {"none", "created", "queued", "applied", "rejected", "failed"}
  /\ repo \in [origin : {"none", "ours", "foreign"}, main : BOOLEAN, draft : BOOLEAN]
  /\ job.state \in {"none", "waiting", "active"} /\ job.failed \in 0..(Attempts - 1)
  /\ \A w \in Workers : at[w].zombie => stalled
  /\ Cardinality({w \in Workers : at[w] # Idle /\ ~at[w].zombie}) = IF job.state = "active" THEN 1 ELSE 0

\* provision and fail: a portfolio that is ready has its repository with the draft branch, whatever
\* failed, crashed or was retried.
ReadyHasRepo == status = "ready" => repo.origin # "none" /\ repo.draft

\* fail, "for a portfolio that never became ready": only a job that stalled, and so ran twice at
\* once, can take the repository from a ready portfolio.
OnlyAStallDeletesTheRepo == ~stalled => ReadyHasRepo

\* queueFor: the operation is in the database and nobody is going to queue it.
Forgotten == personalise = "created" /\ \A w \in Workers : at[w].pc # "add"

\* OpenPreview: the page's one request was lost, and there is no operation that would start the preview.
Unasked == opened /\ sandbox = "none" /\ personalise = "none"

Waits == status # "none"
Served == Progress.ready \/ Progress.failure \/ Forgotten \/ Unasked

\* create, the recovery job and the setup page: setup ends, with the editor or with a failure to
\* retry, through crashes, stalls and failing calls; only what Forgotten and Unasked describe is
\* waited for for ever.
SetupEnds == Waits ~> Served

=============================================================================
