----------------------------- MODULE ServicesProofs -----------------------------
(***************************************************************************)
(* What the services that keep a portfolio's machines promise, for every   *)
(* number of workers, attempts, commits, builds, links and faults:         *)
(*   ReadyKeepsItsRepo  a portfolio that is ready keeps its repository     *)
(*                      with the draft branch (Provisioning)               *)
(*   OneBuildAlways     a publish makes one production deployment          *)
(*                      (Hosting)                                          *)
(*   TypesAlways        the types of all four (with Previews)              *)
(* The sandbox's own promises are proved in LifecycleProofs.  v1, v2, ...  *)
(* have the names of a component's variables in its section.               *)
(***************************************************************************)
EXTENDS MCServices, LifecycleProofs, FiniteSetTheorems

-----------------------------------------------------------------------------
(* Provisioning *)

(***************************************************************************)
(* What Provisioning promises for every number of workers, of attempts, of *)
(* retries and of faults: a portfolio that is ready keeps its repository   *)
(* with the draft branch, as long as no job ran twice at once.             *)
(*                                                                         *)
(* The property is not inductive.  What may delete a repository does so    *)
(* several calls after it looked whether the portfolio is ready (fail,     *)
(* inspect, delete), and what makes the portfolio ready does so a call     *)
(* after it made the branch; that nothing comes in between is the queue's  *)
(* doing (OneRuns), which a stall breaks.                                  *)
(***************************************************************************)
status == v1
personalise == v2
repo == v3
token == v4
enqueuing == v5
setup == v6
run == v7
preview == v8
opened == v9
setupFaults == v10
retries == v11
stalled == v12

USE DEF status, personalise, repo, token, enqueuing, setup, run, preview, opened, setupFaults, retries, stalled

SetupSteps == {"idle", "start", "find", "generate", "main", "draft", "ready", "personalise", "claim", "add",
        "fail", "fail-foreign", "inspect", "delete", "record"}

Repos == [origin : {"none", "ours", "foreign"}, main : BOOLEAN, draft : BOOLEAN]

\* All of TypeOK but the count of runs, and what a worker is.
SetupTyped ==
  /\ status \in {"none", "provisioning", "ready", "failed"}
  /\ personalise \in {"none", "created", "queued", "applied", "rejected", "failed"}
  /\ repo \in Repos
  /\ setup \in [state : {"none", "waiting", "active"}, failed : Nat]
  /\ run \in [Workers -> [pc : SetupSteps, zombie : BOOLEAN]]

\* A worker that carries out the job, which is still its own.
RunsSetup(w) == run[w] # P!Idle /\ ~run[w].zombie

\* The queue gives a job to one worker at a time, and to another only when the first has stalled.
OneRuns ==
  /\ \A w \in Workers : run[w].zombie => stalled /\ run[w].pc # "idle"
  /\ \A v, w \in Workers : RunsSetup(v) /\ RunsSetup(w) => v = w
  /\ setup.state = "active" <=> \E w \in Workers : RunsSetup(w)

\* What a run is sure of while it is the only one.
RepoWhole == repo.origin # "none" /\ repo.draft
Sure(w) ==
  /\ run[w].pc = "ready" => RepoWhole
  /\ run[w].pc \in {"inspect", "delete", "record"} => status # "ready"

PInv ==
  /\ SetupTyped
  /\ OneRuns
  /\ ~stalled => \A w \in Workers : Sure(w)
  /\ P!OnlyAStallDeletesTheRepo

-----------------------------------------------------------------------------
(* The workers and their jobs *)

\* w's run goes on, at another step.
SetupGoes(w) == \E pc \in SetupSteps : pc # "idle" /\ P!Goto(w, pc) /\ UNCHANGED setup
\* w's run is over, and so is its job, or it waits for its next attempt; another's job is left alone.
Ends(w) ==
  /\ run' = [run EXCEPT ![w] = P!Idle]
  /\ setup' \in [state : {"none", "waiting"}, failed : Nat] \/ (run[w].zombie /\ setup' = setup)
  /\ run[w].zombie => setup' = setup
  /\ setup'.failed \in {0, setup.failed} \/ setup'.failed < Attempts

LEMMA GoesFits ==
  ASSUME SetupTyped, OneRuns, NEW w \in Workers, run[w].pc # "idle", SetupGoes(w), UNCHANGED stalled
  PROVE  /\ run' \in [Workers -> [pc : SetupSteps, zombie : BOOLEAN]] /\ setup' = setup
         /\ OneRuns'
         /\ \A v \in Workers : v # w => run'[v] = run[v]
<1>1. PICK pc \in SetupSteps : pc # "idle" /\ P!Goto(w, pc) /\ UNCHANGED setup
  BY DEF SetupGoes
<1>2. run'[w] = [run[w] EXCEPT !.pc = pc] /\ \A v \in Workers : v # w => run'[v] = run[v]
  BY <1>1 DEF P!Goto, SetupTyped
<1>3. run' \in [Workers -> [pc : SetupSteps, zombie : BOOLEAN]]
  BY <1>1 DEF P!Goto, SetupTyped
<1>4. run'[w].zombie = run[w].zombie /\ run'[w] # P!Idle /\ run[w] # P!Idle
  BY <1>1, <1>2 DEF SetupTyped, P!Idle
<1>5. \A v \in Workers : RunsSetup(v)' <=> RunsSetup(v)
  BY <1>2, <1>4 DEF RunsSetup
<1> QED
  BY <1>1, <1>2, <1>3, <1>4, <1>5 DEF OneRuns

LEMMA EndsFits ==
  ASSUME SetupTyped, OneRuns, NEW w \in Workers, run[w].pc # "idle", Ends(w), UNCHANGED stalled
  PROVE  /\ run' \in [Workers -> [pc : SetupSteps, zombie : BOOLEAN]]
         /\ setup' \in [state : {"none", "waiting", "active"}, failed : Nat]
         /\ OneRuns'
         /\ run'[w].pc = "idle" /\ \A v \in Workers : v # w => run'[v] = run[v]
<1>1. run'[w] = P!Idle /\ \A v \in Workers : v # w => run'[v] = run[v]
  BY DEF Ends, SetupTyped
<1>2. run' \in [Workers -> [pc : SetupSteps, zombie : BOOLEAN]]
  BY DEF Ends, SetupTyped, P!Idle, SetupSteps
<1>3. setup' \in [state : {"none", "waiting", "active"}, failed : Nat]
  BY DEF Ends, SetupTyped
<1>4. ~P!Idle.zombie /\ P!Idle.pc = "idle" /\ run[w] # P!Idle
  BY DEF P!Idle
<1>5. \A v \in Workers : RunsSetup(v)' <=> v # w /\ RunsSetup(v)
  BY <1>1, <1>4 DEF RunsSetup
<1>6. setup'.state = "active" <=> \E v \in Workers : RunsSetup(v)'
  <2>1. CASE run[w].zombie
    BY <2>1, <1>5 DEF Ends, OneRuns, RunsSetup
  <2>2. CASE ~run[w].zombie
    <3>1. RunsSetup(w) /\ setup'.state # "active"
      BY <2>2, <1>4 DEF Ends, RunsSetup
    <3> QED
      BY <3>1, <1>5 DEF OneRuns
  <2> QED
    BY <2>1, <2>2
<1> QED
  BY <1>1, <1>2, <1>3, <1>4, <1>5, <1>6 DEF OneRuns

LEMMA EndEnds ==
  ASSUME SetupTyped, NEW w \in Workers, P!End(w)
  PROVE  Ends(w)
BY DEF P!End, Ends, P!NoJob

LEMMA ThrowsMoves ==
  ASSUME SetupTyped, NEW w \in Workers, NEW retryable \in BOOLEAN, NEW foreign \in BOOLEAN,
         P!Throws(w, retryable, foreign)
  PROVE  Ends(w) \/ (\E pc \in {"fail", "fail-foreign"} : P!Goto(w, pc) /\ UNCHANGED setup)
<1>1. setup.failed + 1 \in Nat
  BY DEF SetupTyped
<1> QED
  BY <1>1 DEF P!Throws, Ends

LEMMA FailThrowsEnds ==
  ASSUME SetupTyped, NEW w \in Workers, P!FailThrows(w)
  PROVE  Ends(w)
<1>1. setup.failed + 1 \in Nat
  BY DEF SetupTyped
<1> QED
  BY <1>1 DEF P!FailThrows, Ends, P!NoJob

-----------------------------------------------------------------------------
(* The steps of a worker *)

LEMMA Alone ==
  ASSUME PInv, ~stalled, NEW w \in Workers, run[w].pc # "idle", NEW v \in Workers, v # w
  PROVE  run[v] = P!Idle
BY DEF PInv, OneRuns, RunsSetup, P!Idle

RowsTyped ==
  /\ status \in {"none", "provisioning", "ready", "failed"}
  /\ personalise \in {"none", "created", "queued", "applied", "rejected", "failed"}
  /\ repo \in Repos

\* A step of w's run that leaves it as sure, if it is the only one, as it has to be.
Works(w) ==
  /\ run[w].pc # "idle" /\ (SetupGoes(w) \/ Ends(w)) /\ UNCHANGED stalled
  /\ RowsTyped'
  /\ ~stalled => Sure(w)' /\ P!ReadyHasRepo'

LEMMA WorksKeeps ==
  ASSUME PInv, NEW w \in Workers, Works(w)
  PROVE  PInv'
<1>1. SetupTyped /\ OneRuns
  BY DEF PInv
<1>2. /\ run' \in [Workers -> [pc : SetupSteps, zombie : BOOLEAN]]
      /\ setup' \in [state : {"none", "waiting", "active"}, failed : Nat]
      /\ OneRuns' /\ \A v \in Workers : v # w => run'[v] = run[v]
  BY <1>1, GoesFits, EndsFits DEF Works, SetupTyped
<1>3. SetupTyped'
  BY <1>2 DEF Works, RowsTyped, SetupTyped
<1>4. ASSUME ~stalled', NEW v \in Workers PROVE Sure(v)'
  <2>1. CASE v = w
    BY <2>1, <1>4 DEF Works
  <2>2. CASE v # w
    BY <2>2, <1>2, <1>4, Alone DEF Works, Sure, P!Idle
  <2> QED
    BY <2>1, <2>2
<1>5. P!OnlyAStallDeletesTheRepo'
  BY DEF Works, P!OnlyAStallDeletesTheRepo
<1> QED
  BY <1>2, <1>3, <1>4, <1>5 DEF PInv

\* The tests and the ways out that throw: nothing but the run and its job changes.
LEMMA ThrowsWorks ==
  ASSUME PInv, NEW w \in Workers, run[w].pc # "idle", NEW retryable \in BOOLEAN, NEW foreign \in BOOLEAN,
         P!Throws(w, retryable, foreign), UNCHANGED <<status, personalise, repo, stalled>>
  PROVE  Works(w)
<1>1. SetupGoes(w) \/ Ends(w)
  BY ThrowsMoves DEF PInv, SetupGoes, SetupSteps
<1>2. run'[w].pc \in {"idle", "fail", "fail-foreign"}
  BY ThrowsMoves DEF PInv, SetupTyped, Ends, P!Goto, P!Idle
<1> QED
  BY <1>1, <1>2 DEF Works, RowsTyped, PInv, SetupTyped, Sure, P!ReadyHasRepo, P!OnlyAStallDeletesTheRepo

LEMMA EndsWorks ==
  ASSUME PInv, NEW w \in Workers, run[w].pc # "idle", Ends(w), UNCHANGED <<repo, stalled>>, RowsTyped',
         ~stalled => P!ReadyHasRepo'
  PROVE  Works(w)
<1>1. run'[w].pc = "idle"
  BY DEF Ends, PInv, SetupTyped, P!Idle
<1> QED
  BY <1>1 DEF Works, Sure

\* A run that goes on to a step that has to be sure of nothing.
LEMMA GoesWorks ==
  ASSUME PInv, NEW w \in Workers, run[w].pc # "idle",
         NEW pc \in SetupSteps, pc \notin {"idle", "ready", "inspect", "delete", "record"}, P!Goto(w, pc), UNCHANGED <<setup, stalled>>,
         RowsTyped', ~stalled => P!ReadyHasRepo'
  PROVE  Works(w)
<1>1. run'[w].pc = pc
  BY DEF P!Goto, PInv, SetupTyped
<1> QED
  BY <1>1 DEF Works, Sure, SetupGoes

LEMMA SetupRests == PInv => RowsTyped /\ (~stalled => P!ReadyHasRepo)
BY DEF PInv, SetupTyped, RowsTyped, P!OnlyAStallDeletesTheRepo

\* What a step that writes no row, and not to GitHub, leaves so.
LEMMA Untouched ==
  ASSUME PInv, UNCHANGED <<status, personalise, repo, stalled>>
  PROVE  RowsTyped' /\ (~stalled => P!ReadyHasRepo')
BY SetupRests DEF RowsTyped, P!ReadyHasRepo

LEMMA StartKeeps ==
  ASSUME PInv, NEW w \in Workers, P!Start(w)
  PROVE  Works(w)
<1>1. RowsTyped' /\ (~stalled => P!ReadyHasRepo') /\ UNCHANGED <<repo, stalled>>
  BY Untouched DEF P!Start, P!world, P!bounds
<1> QED
  BY <1>1, GoesWorks, EndsWorks, EndEnds DEF P!Start, PInv, SetupSteps

LEMMA FindKeeps ==
  ASSUME PInv, NEW w \in Workers, P!Find(w)
  PROVE  Works(w)
<1>1. RowsTyped' /\ (~stalled => P!ReadyHasRepo') /\ UNCHANGED <<status, personalise, repo, stalled>>
  BY Untouched DEF P!Find, P!world, P!bounds
<1>2. \/ P!Throws(w, FALSE, TRUE)
      \/ (P!Goto(w, "generate") \/ P!Goto(w, "main")) /\ UNCHANGED setup
  BY DEF P!Find
<1> QED
  BY <1>1, <1>2, GoesWorks, ThrowsWorks DEF P!Find, SetupSteps

\* A repository that is made anew is none that a ready portfolio could have had.
LEMMA GenerateKeeps ==
  ASSUME PInv, NEW w \in Workers, P!Generate(w)
  PROVE  Works(w)
<1>1. repo' \in Repos
  BY DEF PInv, SetupTyped, P!Generate, P!NoRepo, Repos
<1>2. RowsTyped' /\ (~stalled => P!ReadyHasRepo')
  BY <1>1, SetupRests DEF RowsTyped, P!Generate, P!ReadyHasRepo, P!NoRepo
<1> QED
  BY <1>2, GoesWorks DEF P!Generate, SetupSteps, P!bounds

LEMMA WaitForBranchKeeps ==
  ASSUME PInv, NEW w \in Workers, P!WaitForBranch(w)
  PROVE  Works(w)
<1>1. RowsTyped' /\ (~stalled => P!ReadyHasRepo') /\ UNCHANGED <<status, personalise, repo, stalled>>
  BY Untouched DEF P!WaitForBranch, P!world
<1> QED
  BY <1>1, GoesWorks, ThrowsWorks DEF P!WaitForBranch, SetupSteps

\* The branch is there when the run goes on to say that the portfolio is ready.
LEMMA CreateDraftKeeps ==
  ASSUME PInv, NEW w \in Workers, P!CreateDraft(w)
  PROVE  Works(w)
<1>1. CASE repo.origin = "none"
  BY <1>1, ThrowsWorks DEF P!CreateDraft, P!bounds
<1>2. CASE repo.origin # "none"
  <2>1. /\ repo' \in Repos /\ RepoWhole' /\ run'[w].pc = "ready"
    BY <1>2 DEF P!CreateDraft, PInv, SetupTyped, Repos, RepoWhole, P!Goto
  <2>2. SetupGoes(w)
    BY <1>2 DEF P!CreateDraft, SetupGoes, SetupSteps
  <2> QED
    BY <2>1, <2>2, SetupRests DEF P!CreateDraft, Works, RowsTyped, Sure, P!ReadyHasRepo, RepoWhole, P!bounds
<1> QED
  BY <1>1, <1>2

LEMMA MakeReadyKeeps ==
  ASSUME PInv, NEW w \in Workers, P!MakeReady(w)
  PROVE  Works(w)
<1>1. ~stalled => P!ReadyHasRepo'
  BY DEF PInv, Sure, RepoWhole, P!ReadyHasRepo, P!MakeReady, P!world
<1>2. RowsTyped'
  BY SetupRests DEF RowsTyped, P!MakeReady, P!world
<1> QED
  BY <1>1, <1>2, GoesWorks DEF P!MakeReady, SetupSteps, P!bounds, P!world

LEMMA QueueForKeeps ==
  ASSUME PInv, NEW w \in Workers, P!QueueFor(w)
  PROVE  Works(w)
<1>1. RowsTyped' /\ (~stalled => P!ReadyHasRepo') /\ UNCHANGED <<repo, stalled>>
  BY Untouched DEF P!QueueFor, P!world, P!bounds
<1> QED
  BY <1>1, GoesWorks, EndsWorks, EndEnds DEF P!QueueFor, PInv, SetupSteps

LEMMA ClaimKeeps ==
  ASSUME PInv, NEW w \in Workers, P!Claim(w)
  PROVE  Works(w)
<1>1. RowsTyped' /\ (~stalled => P!ReadyHasRepo') /\ UNCHANGED <<repo, stalled>>
  BY SetupRests DEF P!Claim, P!world, P!bounds, RowsTyped, P!ReadyHasRepo
<1> QED
  BY <1>1, GoesWorks, EndsWorks, EndEnds DEF P!Claim, PInv, SetupSteps

LEMMA AddOperationKeeps ==
  ASSUME PInv, NEW w \in Workers, P!AddOperation(w)
  PROVE  Works(w)
<1>1. RowsTyped' /\ (~stalled => P!ReadyHasRepo') /\ UNCHANGED <<repo, stalled>>
  BY SetupRests DEF P!AddOperation, P!world, P!bounds, RowsTyped, P!ReadyHasRepo
<1> QED
  BY <1>1, EndsWorks, EndEnds DEF P!AddOperation, PInv

\* fail: from here on the portfolio was not ready, and only this run could have made it so.
LEMMA FailKeeps ==
  ASSUME PInv, NEW w \in Workers, P!Fail(w)
  PROVE  Works(w)
<1>1. RowsTyped' /\ (~stalled => P!ReadyHasRepo') /\ UNCHANGED <<status, repo, stalled>>
  BY Untouched DEF P!Fail, P!world, P!bounds
<1>2. CASE status = "ready"
  BY <1>1, <1>2, EndsWorks, EndEnds DEF P!Fail, PInv
<1>3. CASE status # "ready"
  <2>1. PICK pc \in {"inspect", "record"} : P!Goto(w, pc) /\ UNCHANGED setup
    BY <1>3 DEF P!Fail
  <2>2. SetupGoes(w) /\ run'[w].pc = pc
    BY <2>1 DEF SetupGoes, SetupSteps, P!Goto, PInv, SetupTyped
  <2> QED
    BY <1>1, <1>3, <2>2 DEF Works, Sure, P!Fail
<1> QED
  BY <1>2, <1>3

LEMMA InspectKeeps ==
  ASSUME PInv, NEW w \in Workers, P!Inspect(w)
  PROVE  Works(w)
<1>1. RowsTyped' /\ (~stalled => P!ReadyHasRepo') /\ UNCHANGED <<status, repo, stalled>>
  BY Untouched DEF P!Inspect, P!world, P!bounds
<1>2. PICK pc \in {"delete", "record"} : P!Goto(w, pc) /\ UNCHANGED setup
  BY DEF P!Inspect
<1>3. SetupGoes(w) /\ run'[w].pc = pc
  BY <1>2 DEF SetupGoes, SetupSteps, P!Goto, PInv, SetupTyped
<1> QED
  BY <1>1, <1>3 DEF Works, Sure, P!Inspect, PInv

LEMMA DeleteRepoKeeps ==
  ASSUME PInv, NEW w \in Workers, P!DeleteRepo(w)
  PROVE  Works(w)
<1>1. RowsTyped'
  BY SetupRests DEF RowsTyped, P!DeleteRepo, P!NoRepo, Repos
<1>2. SetupGoes(w) /\ run'[w].pc = "record"
  BY DEF P!DeleteRepo, SetupGoes, SetupSteps, P!Goto, PInv, SetupTyped
<1>3. ~stalled => status # "ready"
  BY DEF P!DeleteRepo, PInv, Sure
<1> QED
  BY <1>1, <1>2, <1>3 DEF Works, Sure, P!DeleteRepo, P!ReadyHasRepo, P!bounds

LEMMA RecordFailureKeeps ==
  ASSUME PInv, NEW w \in Workers, P!RecordFailure(w)
  PROVE  Works(w)
<1>1. RowsTyped' /\ P!ReadyHasRepo' /\ UNCHANGED <<repo, stalled>>
  BY SetupRests DEF P!RecordFailure, P!world, P!bounds, RowsTyped, P!ReadyHasRepo
<1> QED
  BY <1>1, EndsWorks, EndEnds DEF P!RecordFailure, PInv

LEMMA UnauthorizedKeeps ==
  ASSUME PInv, NEW w \in Workers, P!Unauthorized(w)
  PROVE  Works(w)
<1>1. RowsTyped' /\ (~stalled => P!ReadyHasRepo') /\ UNCHANGED <<status, personalise, repo, stalled>>
  BY Untouched DEF P!Unauthorized, P!bounds
<1>2. run[w].pc # "idle"
  BY DEF P!Unauthorized, P!GitHubCalls
<1> QED
  BY <1>1, <1>2, ThrowsWorks, EndsWorks, FailThrowsEnds DEF P!Unauthorized, PInv

\* A job that waits again, as after a crash, has its run behind it.
LEMMA WaitsEnds ==
  ASSUME SetupTyped, NEW w \in Workers, run' = [run EXCEPT ![w] = P!Idle],
         setup' = IF run[w].zombie THEN setup ELSE [setup EXCEPT !.state = "waiting"]
  PROVE  Ends(w)
BY DEF Ends, SetupTyped

LEMMA GitHubFailsKeeps ==
  ASSUME PInv, NEW w \in Workers, P!GitHubFails(w)
  PROVE  Works(w)
<1>1. RowsTyped' /\ (~stalled => P!ReadyHasRepo') /\ UNCHANGED <<status, personalise, repo, stalled>>
  BY Untouched DEF P!GitHubFails, P!world
<1>2. run[w].pc # "idle"
  BY DEF P!GitHubFails, P!GitHubCalls
<1> QED
  BY <1>1, <1>2, ThrowsWorks, EndsWorks, FailThrowsEnds, WaitsEnds DEF P!GitHubFails, PInv

LEMMA CrashKeeps ==
  ASSUME PInv, NEW w \in Workers, P!Crash(w)
  PROVE  Works(w)
<1>1. RowsTyped' /\ (~stalled => P!ReadyHasRepo') /\ UNCHANGED <<status, personalise, repo, stalled>>
  BY Untouched DEF P!Crash, P!world
<1>2. run[w].pc # "idle"
  BY DEF P!Crash, PInv, SetupTyped, OneRuns, P!Idle
<1> QED
  BY <1>1, <1>2, EndsWorks, WaitsEnds DEF P!Crash, PInv

-----------------------------------------------------------------------------
(* The other steps *)

LEMMA StepKeeps ==
  ASSUME PInv, NEW w \in Workers, P!Step(w) \/ P!GitHubFails(w) \/ P!Crash(w)
  PROVE  Works(w)
BY StartKeeps, FindKeeps, GenerateKeeps, WaitForBranchKeeps, CreateDraftKeeps, MakeReadyKeeps, QueueForKeeps,
   ClaimKeeps, AddOperationKeeps, FailKeeps, InspectKeeps, DeleteRepoKeeps, RecordFailureKeeps, UnauthorizedKeeps,
   GitHubFailsKeeps, CrashKeeps DEF P!Step

\* A job that waits has nobody who runs it, so the one who takes it is the only one.
LEMMA TakeSetupKeeps ==
  ASSUME PInv, NEW w \in Workers, P!Take(w)
  PROVE  PInv'
<1>1. /\ run'[w].pc = "start" /\ ~run'[w].zombie /\ \A v \in Workers : v # w => run'[v] = run[v]
      /\ run' \in [Workers -> [pc : SetupSteps, zombie : BOOLEAN]]
  <2>1. run' = [run EXCEPT ![w].pc = "start"] /\ ~run[w].zombie
    BY DEF P!Take, P!Goto, P!Idle
  <2> QED
    BY <2>1 DEF PInv, SetupTyped, SetupSteps
<1>2. SetupTyped'
  BY <1>1 DEF P!Take, PInv, SetupTyped, P!world, P!bounds
<1>3. \A v \in Workers : ~RunsSetup(v)
  BY DEF P!Take, PInv, OneRuns
<1>4. \A v \in Workers : RunsSetup(v)' <=> v = w
  BY <1>1, <1>3 DEF RunsSetup, P!Idle
<1>5. OneRuns'
  BY <1>1, <1>4 DEF OneRuns, P!Take, PInv, SetupTyped, P!bounds
<1>6. \A v \in Workers : Sure(v) => Sure(v)'
  BY <1>1 DEF Sure, RepoWhole, P!Take, P!world
<1> QED
  BY <1>2, <1>5, <1>6 DEF PInv, P!Take, P!OnlyAStallDeletesTheRepo, P!ReadyHasRepo, P!world, P!bounds

LEMMA StallKeeps ==
  ASSUME PInv, NEW w \in Workers, P!Stall(w)
  PROVE  PInv'
<1>1. /\ run'[w] = [run[w] EXCEPT !.zombie = TRUE] /\ \A v \in Workers : v # w => run'[v] = run[v]
      /\ run' \in [Workers -> [pc : SetupSteps, zombie : BOOLEAN]]
  BY DEF P!Stall, PInv, SetupTyped
<1>2. SetupTyped' /\ stalled'
  BY <1>1 DEF P!Stall, PInv, SetupTyped, P!world
<1>3. run[w].pc # "idle" /\ run'[w].pc = run[w].pc /\ run'[w].zombie
  BY <1>1 DEF P!Stall, PInv, SetupTyped, OneRuns, P!Idle
<1>4. \A v \in Workers : RunsSetup(v)' <=> v # w /\ RunsSetup(v)
  BY <1>1, <1>3 DEF RunsSetup
<1>5. RunsSetup(w)
  BY <1>3 DEF RunsSetup, P!Stall
<1>6. OneRuns'
  BY <1>1, <1>2, <1>3, <1>4, <1>5 DEF OneRuns, P!Stall, PInv, SetupTyped
<1> QED
  BY <1>2, <1>6 DEF PInv, P!OnlyAStallDeletesTheRepo

\* A step of the api, the page or the world: no worker moves, no job is taken, nothing becomes ready, and
\* a repository with its branch stays.
Aside ==
  /\ UNCHANGED <<run, stalled>>
  /\ RowsTyped'
  /\ setup' \in [state : {"none", "waiting", "active"}, failed : Nat]
  /\ setup'.state = "active" <=> setup.state = "active"
  /\ status' = "ready" <=> status = "ready"
  /\ RepoWhole => RepoWhole'
  /\ setup'.failed \in {0, setup.failed}

LEMMA AsideKeeps == PInv /\ Aside => PInv'
<1> SUFFICES ASSUME PInv, Aside PROVE PInv'
  OBVIOUS
<1>1. SetupTyped'
  BY DEF PInv, SetupTyped, Aside, RowsTyped
<1>2. OneRuns'
  BY DEF PInv, OneRuns, RunsSetup, Aside
<1>3. \A w \in Workers : Sure(w) => Sure(w)'
  BY DEF Sure, Aside
<1> QED
  BY <1>1, <1>2, <1>3 DEF PInv, Aside, P!OnlyAStallDeletesTheRepo, P!ReadyHasRepo, RepoWhole

\* create and retry start from no portfolio and from one that failed, so neither takes "ready" away.
LEMMA ApiAside == PInv /\ (P!Create \/ P!Retry \/ P!Enqueue \/ P!ApiDies \/ P!Recover) => Aside
BY DEF PInv, SetupTyped, RowsTyped, P!Create, P!Retry, P!Enqueue, P!ApiDies, P!Recover, P!Add, Aside, RepoWhole, P!world, P!bounds

LEMMA PageAside == PInv /\ (P!OpenPreview \/ P!RetryPreview) => Aside
BY DEF PInv, SetupTyped, RowsTyped, P!OpenPreview, P!RetryPreview, Aside, RepoWhole, P!server

\* Somebody's repository comes only where there is none.
LEMMA WorldAside == PInv /\ (P!Outside \/ P!CreateForeign \/ P!Revoke) => Aside
<1>1. PInv /\ P!Generated => Aside
  BY DEF PInv, SetupTyped, RowsTyped, Repos, P!Generated, Aside, RepoWhole, P!server, P!bounds
<1>2. PInv /\ P!PreviewStarts => Aside
  BY DEF PInv, SetupTyped, RowsTyped, P!PreviewStarts, Aside, RepoWhole, P!server
<1>3. PInv /\ P!OperationRuns => Aside
  BY DEF PInv, SetupTyped, RowsTyped, P!OperationRuns, Aside, RepoWhole, P!bounds
<1>4. PInv /\ P!CreateForeign => Aside
  BY DEF PInv, SetupTyped, RowsTyped, Repos, P!CreateForeign, Aside, RepoWhole, P!server, P!Foreign, P!NoRepo
<1>5. PInv /\ P!Revoke => Aside
  BY DEF PInv, SetupTyped, RowsTyped, P!Revoke, Aside, RepoWhole, P!server
<1> QED
  BY <1>1, <1>2, <1>3, <1>4, <1>5 DEF P!Outside

LEMMA SetupStarts == P!Init => PInv
<1> SUFFICES ASSUME P!Init PROVE PInv
  OBVIOUS
<1>1. SetupTyped
  <2>1. P!NoRepo \in Repos /\ P!Foreign \in Repos
    BY DEF P!NoRepo, P!Foreign, Repos
  <2>2. P!Idle \in [pc : SetupSteps, zombie : BOOLEAN]
    BY DEF P!Idle, SetupSteps
  <2>3. P!NoJob \in [state : {"none", "waiting", "active"}, failed : Nat]
    BY DEF P!NoJob
  <2> QED
    BY <2>1, <2>2, <2>3 DEF P!Init, SetupTyped
<1>2. \A w \in Workers : run[w] = P!Idle
  BY DEF P!Init
<1>3. OneRuns
  BY <1>2 DEF P!Init, OneRuns, RunsSetup, P!Idle, P!NoJob
<1>4. \A w \in Workers : Sure(w)
  BY <1>2 DEF Sure, P!Idle
<1> QED
  BY <1>1, <1>3, <1>4 DEF PInv, P!Init, P!OnlyAStallDeletesTheRepo, P!ReadyHasRepo

LEMMA SetupMoves ==
  ASSUME PInv, P!Next
  PROVE  Aside \/ (\E w \in Workers : P!Take(w) \/ Works(w) \/ P!Stall(w))
BY ApiAside, PageAside, WorldAside, StepKeeps DEF P!Next

LEMMA SetupKept ==
  ASSUME PInv, [P!Next]_(P!vars)
  PROVE  PInv'
<1>1. CASE UNCHANGED P!vars
  BY <1>1 DEF P!vars, P!server, P!world, P!bounds, PInv, SetupTyped, OneRuns, RunsSetup, Sure, RepoWhole, P!OnlyAStallDeletesTheRepo, P!ReadyHasRepo
<1>2. CASE P!Next
  BY <1>2, SetupMoves, AsideKeeps, TakeSetupKeeps, WorksKeeps, StallKeeps
<1> QED
  BY <1>1, <1>2

-----------------------------------------------------------------------------
(* The theorems *)

THEOREM SetupHolds == P!Spec => []PInv
<1>1. PInv /\ [P!Next]_(P!vars) => PInv'
  BY SetupKept
<1> QED
  BY <1>1, SetupStarts, PTL DEF P!Spec

\* No attempt is counted that the options do not allow.
LEMMA TriesKept ==
  ASSUME Attempts \in Nat \ {0}, PInv, setup.failed < Attempts, [P!Next]_(P!vars)
  PROVE  setup'.failed < Attempts
<1>1. setup.failed \in Nat /\ 0 < Attempts
  BY DEF PInv, SetupTyped
<1>2. CASE UNCHANGED P!vars
  BY <1>2 DEF P!vars, P!server
<1>3. CASE Aside
  BY <1>1, <1>3 DEF Aside
<1>4. ASSUME NEW w \in Workers, P!Take(w) \/ Works(w) \/ P!Stall(w) PROVE setup'.failed < Attempts
  BY <1>1, <1>4 DEF P!Take, Works, SetupGoes, Ends, P!Stall, PInv, SetupTyped
<1> QED
  BY <1>2, <1>3, <1>4, SetupMoves

LEMMA SetupCount == ASSUME NEW S PROVE P!Cardinality(S) = Cardinality(S)
BY DEF P!Cardinality, Cardinality

Tries == setup.failed < Attempts

LEMMA TriesStart == ASSUME Attempts \in Nat \ {0}, P!Init PROVE Tries
BY DEF P!Init, P!NoJob, Tries

LEMMA SetupTypes == ASSUME Attempts \in Nat \ {0}, PInv, Tries PROVE P!TypeOK
<1> DEFINE Ongoing == {w \in Workers : run[w] # P!Idle /\ ~run[w].zombie}
<1>1. Cardinality(Ongoing) = IF setup.state = "active" THEN 1 ELSE 0
  <2>1. CASE setup.state = "active"
    <3>1. PICK w \in Workers : RunsSetup(w)
      BY <2>1 DEF PInv, OneRuns
    <3>2. Ongoing = {w}
      BY <3>1 DEF RunsSetup, PInv, OneRuns
    <3> QED
      BY <2>1, <3>2, FS_Singleton
  <2>2. CASE setup.state # "active"
    <3>1. Ongoing = {}
      BY <2>2 DEF RunsSetup, PInv, OneRuns
    <3> QED
      BY <2>2, <3>1, FS_EmptySet
  <2> QED
    BY <2>1, <2>2
<1>2. setup.failed \in 0..(Attempts - 1)
  BY DEF PInv, SetupTyped, Tries
<1>3. repo \in [origin : {"none", "ours", "foreign"}, main : BOOLEAN, draft : BOOLEAN]
  BY DEF PInv, SetupTyped, Repos
<1> QED
  BY <1>1, <1>2, <1>3, SetupCount DEF P!TypeOK, PInv, SetupTyped, OneRuns

\* BullMQ's promise, that one worker at a time has the job, kept by every way a run ends: as many workers
\* carry out a job that is their own as there are jobs that are active.
THEOREM TypeCorrect == P!Spec => []P!TypeOK
<1>1. P!Init => Tries
  BY TriesStart, LifecycleAssumption
<1>2. PInv /\ Tries /\ [P!Next]_(P!vars) => Tries'
  BY TriesKept, LifecycleAssumption DEF Tries
<1>3. PInv /\ Tries => P!TypeOK
  BY SetupTypes, LifecycleAssumption
<1> QED
  BY <1>1, <1>2, <1>3, SetupHolds, PTL DEF P!Spec

LEMMA ServicesSetUp == ASSUME StartsWith, which = "provisioning" PROVE P!Init
BY DEF StartsWith

LEMMA SetupStep ==
  ASSUME [Steps]_services
  PROVE  which' = which /\ (which = "provisioning" => [P!Next]_(P!vars))
BY DEF Steps, Lifecycle, Provisioning, Hosting, Previews, services, parts, P!vars, P!server, P!world, P!bounds

\* fail, "for a portfolio that never became ready": through crashes, failing calls, rate limits, revoked
\* tokens and retries, a portfolio that is ready has its repository with the draft branch, unless a job
\* stalled and ran twice at once.  Of the run services, that takes Provisioning's steps.
THEOREM ReadyKeepsItsRepo == ServicesSpec => []OnlyAStallDeletesTheRepo
<1> DEFINE Inv == which = "provisioning" => PInv
<1>1. StartsWith => Inv
  BY ServicesSetUp, SetupStarts
<1>2. Inv /\ [Steps]_services => Inv'
  BY SetupStep, SetupKept
<1>3. Inv => OnlyAStallDeletesTheRepo
  BY DEF OnlyAStallDeletesTheRepo, PInv
<1> HIDE DEF Inv
<1> QED
  BY <1>1, <1>2, <1>3, PTL DEF ServicesSpec

HIDE DEF status, personalise, repo, token, enqueuing, setup, run, preview, opened, setupFaults, retries, stalled

-----------------------------------------------------------------------------
(* Hosting *)

(***************************************************************************)
(* A publish makes one production deployment, for any number of commits,   *)
(* builds, workers, attempts and faults, any grace period and any timeout, *)
(* unless the host was slow or something failed.                           *)
(*                                                                         *)
(* Two parties start builds, and neither asks the other: Vercel, when it   *)
(* comes to a push, and the tracker, when it found none and the grace      *)
(* period is over.  The invariant says what each may still do: a tracker   *)
(* that is about to start a build saw none, and from then on whatever      *)
(* Vercel starts is late; that nobody else tracks the commit is the        *)
(* queue's doing (Queue), and that no commit is pushed or tracked twice    *)
(* that of the publish (Order).                                            *)
(***************************************************************************)
clock == v1
configured == v2
project == v3
publish == v4
dep == v5
build == v6
unbuilt == v7
track == v8
tracker == v9
page == v10
hostFaults == v11
excused == v12
unclaimed == v13

USE DEF clock, configured, project, publish, dep, build, unbuilt, track, tracker, page, hostFaults, excused, unclaimed

\* Commits and builds are numbered from 1.
Numbers ==
  /\ Commits \subseteq Nat \ {0} /\ Builds \subseteq Nat \ {0}
  /\ Grace \in Nat /\ Timeout \in Nat /\ HostTime \in Nat /\ TrackAttempts \in Nat \ {0}

LEMMA GivenNumbers == Numbers
BY ServicesAssumption DEF Numbers

Statuses == {"none", "pending", "building", "ready", "failed", "unconfigured"}
PCs == {"idle", "done", "unconfigured", "failed", "get", "find", "create", "record", "ready", "building", "giveup"}

Publishes == [pc : {"idle", "prepare", "link", "push", "row", "track"}, of : Commits \cup {0}]
Rows      == [status : Statuses, created : Nat, build : Builds \cup {0}]
States    == [sha : Commits \cup {0}, state : {"none", "queued", "building", "ready", "error", "cancelled"}]
Jobs      == [state : {"none", "waiting", "active"}, failed : 0..(TrackAttempts - 1)]
Ats       == [pc : PCs, of : Commits \cup {0}, was : Statuses, build : Builds \cup {0}, zombie : BOOLEAN]

HostTyped ==
  /\ clock \in 0..HostTime
  /\ configured \in BOOLEAN
  /\ publish \in Publishes
  /\ unbuilt \subseteq Commits
  /\ dep \in [Commits -> Rows]
  /\ build \in [Builds -> States]
  /\ track \in [Commits -> Jobs]
  /\ tracker \in [Workers -> Ats]
  /\ \A b \in Builds : build[b].state = "none" => build[b].sha = 0

Row(c)   == dep[c].status # "none"
Built(c) == \E b \in Builds : build[b].sha = c
Late(c)  == Row(c) /\ clock >= dep[c].created + Grace

\* Whether the publish of c has yet to get there.
Before(c, pcs) == c > publish.of \/ (c = publish.of /\ publish.pc \in pcs)

\* A commit is pushed once, then has its row, then its job.
Order ==
  /\ publish.pc # "idle" => publish.of \in Commits
  /\ \A c \in Commits : Before(c, {"prepare", "link", "push"}) => c \notin unbuilt /\ ~Built(c)
  /\ \A c \in Commits : Before(c, {"prepare", "link", "push", "row"}) => ~Row(c)
  /\ \A c \in Commits : Before(c, {"prepare", "link", "push", "row", "track"}) =>
       track[c].state = "none" /\ \A w \in Workers : tracker[w].of # c
  /\ publish.pc = "track" => Row(publish.of)

\* A worker that tracks a commit, whose job is still its own.
Runs(w, c) == tracker[w].of = c /\ ~tracker[w].zombie

\* The queue gives a job to one worker at a time, and to another only when the first has stalled.
Queue ==
  /\ \A w \in Workers : tracker[w] = H!Idle \/ (tracker[w].pc # "idle" /\ tracker[w].of \in Commits)
  /\ \A w \in Workers : \A c \in Commits : tracker[w].of = c => Row(c)
  /\ \A w \in Workers : tracker[w].zombie => tracker[w].of \in excused
  /\ \A c \in Commits : track[c].state # "none" => Row(c)
  /\ \A c \in Commits : \A v, w \in Workers : Runs(v, c) /\ Runs(w, c) => v = w
  /\ \A c \in Commits : track[c].state = "active" <=> \E w \in Workers : Runs(w, c)

\* What holds of a commit while nothing has gone wrong with it.
Once(c) ==
  /\ \A a, b \in Builds : build[a].sha = c /\ build[b].sha = c => a = b
  /\ \A b \in Builds : build[b].sha = c => build[b].state # "cancelled"
  /\ c \in unbuilt /\ Built(c) => Late(c)
  /\ \A w \in Workers : tracker[w].of = c /\ tracker[w].pc = "create" => ~Built(c) /\ Late(c)

HInv == HostTyped /\ Order /\ Queue /\ \A c \in Commits \ excused : Once(c)

-----------------------------------------------------------------------------
(* What the steps of the workers have in common *)

\* w goes on with the commit it tracks.
Goes(w) ==
  /\ tracker' \in [Workers -> Ats]
  /\ \A v \in Workers : v # w => tracker'[v] = tracker[v]
  /\ tracker'[w].of = tracker[w].of /\ tracker'[w].zombie = tracker[w].zombie /\ tracker'[w].pc # "idle"
  /\ track' = track

\* w is done with it for now; the job of a zombie is no longer its own.
Leaves(w) ==
  /\ tracker' = [tracker EXCEPT ![w] = H!Idle]
  /\ track' \in [Commits -> Jobs]
  /\ \A c \in Commits : track'[c] = track[c] \/ (Runs(w, c) /\ track'[c].state # "active")
  /\ ~tracker[w].zombie => track'[tracker[w].of].state # "active"

LEMMA IdleFits == H!Idle \in Ats /\ H!Idle.pc = "idle" /\ H!Idle.of = 0 /\ ~H!Idle.zombie
  BY DEF H!Idle, Ats, PCs, Statuses

\* track, from one call to the next.
LEMMA StepMoves ==
  ASSUME Numbers, HInv, NEW w \in Workers, H!Step(w) \/ H!Throws(w) \/ H!Crash(w)
  PROVE  tracker[w] # H!Idle /\ tracker[w].of \in Commits /\ (Goes(w) \/ Leaves(w))
  <1> USE DEF HInv
  <1>1. tracker[w].pc # "idle"
    BY DEF H!Step, H!Stop, H!Find, H!CreateBuild, H!NoBuildLeft, H!RecordBuild, H!Get, H!MarkBuilding, H!Conclude, H!GiveUp, H!Throws, H!Crash
  <1>2. tracker[w] # H!Idle /\ tracker[w].of \in Commits BY <1>1, IdleFits DEF Queue
  <1>3. ASSUME NEW pc \in PCs \ {"idle"}, H!Goto(w, pc), track' = track PROVE Goes(w)
    BY <1>3 DEF H!Goto, Goes, HostTyped, Ats
  <1>4. ASSUME NEW pc \in PCs \ {"idle"}, H!Ends(w, pc), track' = track PROVE Goes(w)
    <2>1. [H!Idle EXCEPT !.pc = pc, !.of = tracker[w].of, !.zombie = tracker[w].zombie] \in Ats
      BY <1>4 DEF H!Idle, HostTyped, Ats, Statuses
    <2> QED BY <1>4, <2>1 DEF H!Ends, Goes, HostTyped, H!Idle
  <1>5. ASSUME NEW b \in Builds, tracker' = [tracker EXCEPT ![w].build = b, ![w].pc = "record"], track' = track PROVE Goes(w)
    BY <1>5 DEF Goes, HostTyped, Ats, PCs
  <1>6. ASSUME NEW j \in Jobs, j.state # "active", H!Leave(w, j) PROVE Leaves(w)
    BY <1>2, <1>6 DEF H!Leave, Leaves, Runs, HostTyped
  <1>7. ASSUME H!Done(w) PROVE Leaves(w)
    <2>1. H!NoJob \in Jobs /\ H!NoJob.state # "active" BY DEF H!NoJob, Jobs, Numbers
    <2> QED BY <1>6, <1>7, <2>1 DEF H!Done
  <1>8. ASSUME H!Wait(w) PROVE Leaves(w)
    <2>1. [track[tracker[w].of] EXCEPT !.state = "waiting"] \in Jobs BY <1>2 DEF HostTyped, Jobs
    <2>2. [track[tracker[w].of] EXCEPT !.state = "waiting"].state # "active" BY <1>2 DEF HostTyped, Jobs
    <2> QED BY <1>6, <1>8, <2>1, <2>2 DEF H!Wait
  <1>9. CASE H!Stop(w) BY <1>2, <1>7, <1>9 DEF H!Stop
  <1>10. CASE H!Find(w) BY <1>2, <1>3, <1>5, <1>8, <1>10 DEF H!Find, PCs
  <1>11. CASE H!CreateBuild(w) BY <1>2, <1>5, <1>11 DEF H!CreateBuild
  <1>12. CASE H!NoBuildLeft(w) BY <1>2, <1>8, <1>12 DEF H!NoBuildLeft
  <1>13. CASE H!RecordBuild(w) BY <1>2, <1>3, <1>13 DEF H!RecordBuild, PCs
  <1>14. CASE H!Get(w) BY <1>2, <1>4, <1>8, <1>14 DEF H!Get, PCs
  <1>15. CASE H!MarkBuilding(w) BY <1>2, <1>8, <1>15 DEF H!MarkBuilding
  <1>16. CASE H!Conclude(w) BY <1>2, <1>7, <1>16 DEF H!Conclude
  <1>17. CASE H!GiveUp(w) BY <1>2, <1>3, <1>7, <1>17 DEF H!GiveUp, PCs
  <1>18. CASE H!Throws(w)
    <2>1. CASE track[tracker[w].of].failed + 1 < TrackAttempts
      <3>1. [state |-> "waiting", failed |-> track[tracker[w].of].failed + 1] \in Jobs
        <4>1. track[tracker[w].of].failed \in 0..(TrackAttempts - 1) BY <1>2 DEF HostTyped, Jobs
        <4>2. track[tracker[w].of].failed + 1 \in 0..(TrackAttempts - 1) BY <2>1, <4>1 DEF Numbers
        <4> QED BY <4>2 DEF Jobs
      <3> QED BY <1>2, <1>6, <1>18, <2>1, <3>1 DEF H!Throws
    <2>2. CASE ~(track[tracker[w].of].failed + 1 < TrackAttempts) BY <1>2, <1>4, <1>18, <2>2 DEF H!Throws, PCs
    <2> QED BY <2>1, <2>2
  <1>19. CASE H!Crash(w) BY <1>2, <1>8, <1>19 DEF H!Crash
  <1> QED
    BY <1>2, <1>9, <1>10, <1>11, <1>12, <1>13, <1>14, <1>15, <1>16, <1>17, <1>18, <1>19 DEF H!Step

\* What such a step writes: the row of its commit, which was there, and a build, when it is about to start one.
LEMMA StepWrites ==
  ASSUME Numbers, HInv, NEW w \in Workers, H!Step(w) \/ H!Throws(w) \/ H!Crash(w)
  PROVE  /\ UNCHANGED <<clock, configured, project, publish, unbuilt>>
         /\ excused \subseteq excused'
         /\ dep' \in [Commits -> Rows]
         /\ \A c \in Commits : dep'[c].created = dep[c].created /\ (Row(c)' <=> Row(c))
         /\ build' = build \/ (tracker[w].pc = "create" /\ \E b \in Builds : H!Starts(b, tracker[w].of))
         /\ tracker'[w].pc # "create" \/ H!Find(w)
  <1> USE DEF HInv
  <1>1. UNCHANGED <<clock, configured, project, publish, unbuilt>> /\ excused \subseteq excused'
    BY DEF H!Step, H!Stop, H!Find, H!CreateBuild, H!NoBuildLeft, H!RecordBuild, H!Get, H!MarkBuilding, H!Conclude, H!GiveUp, H!Throws, H!Crash,
           H!host, H!ghosts
  <1>2. tracker[w] # H!Idle /\ tracker[w].of \in Commits /\ Row(tracker[w].of) BY StepMoves DEF Queue
  <1>3. dep' \in [Commits -> Rows] /\ \A c \in Commits : dep'[c].created = dep[c].created /\ (Row(c)' <=> Row(c))
    <2>1. CASE dep' = dep BY <2>1 DEF HostTyped, Row
    <2>2. CASE H!RecordBuild(w)
      <3>1. tracker[w].build \in Builds \cup {0} BY DEF HostTyped, Ats
      <3> QED BY <1>2, <2>2, <3>1 DEF H!RecordBuild, HostTyped, Rows, Row
    <2>3. CASE H!MarkBuilding(w) BY <1>2, <2>3 DEF H!MarkBuilding, HostTyped, Rows, Row, Statuses
    <2>4. CASE H!Conclude(w) BY <1>2, <2>4 DEF H!Conclude, HostTyped, Rows, Row, Statuses
    <2> QED BY <2>1, <2>2, <2>3, <2>4 DEF H!Step, H!Stop, H!Find, H!CreateBuild, H!NoBuildLeft, H!Get, H!GiveUp, H!Throws, H!Crash
  <1>4. build' = build \/ (tracker[w].pc = "create" /\ \E b \in Builds : H!Starts(b, tracker[w].of))
    BY DEF H!Step, H!Stop, H!Find, H!CreateBuild, H!NoBuildLeft, H!RecordBuild, H!Get, H!MarkBuilding, H!Conclude, H!GiveUp, H!Throws, H!Crash
  <1>5. tracker'[w].pc # "create" \/ H!Find(w)
    <2>1. ASSUME NEW pc \in PCs \ {"create"}, H!Goto(w, pc) PROVE tracker'[w].pc # "create"
      BY <2>1 DEF H!Goto, HostTyped, Ats
    <2>2. ASSUME NEW pc \in PCs \ {"create"}, H!Ends(w, pc) PROVE tracker'[w].pc # "create"
      BY <2>2 DEF H!Ends, HostTyped, H!Idle
    <2>3. ASSUME NEW j, H!Leave(w, j) PROVE tracker'[w].pc # "create" BY <2>3, IdleFits DEF H!Leave, HostTyped
    <2>4. ASSUME H!CreateBuild(w) PROVE tracker'[w].pc # "create" BY <2>4 DEF H!CreateBuild, HostTyped, Ats
    <2>5. ASSUME H!Stop(w) \/ H!NoBuildLeft(w) \/ H!MarkBuilding(w) \/ H!Conclude(w) \/ H!Crash(w) PROVE tracker'[w].pc # "create"
      BY <2>3, <2>5 DEF H!Stop, H!NoBuildLeft, H!MarkBuilding, H!Conclude, H!Crash, H!Done, H!Wait
    <2>6. ASSUME H!RecordBuild(w) PROVE tracker'[w].pc # "create" BY <2>1, <2>6 DEF H!RecordBuild, PCs
    <2>7. ASSUME H!Get(w) PROVE tracker'[w].pc # "create" BY <2>2, <2>3, <2>7 DEF H!Get, H!Wait, PCs
    <2>8. ASSUME H!GiveUp(w) PROVE tracker'[w].pc # "create" BY <2>1, <2>3, <2>8 DEF H!GiveUp, H!Done, PCs
    <2>9. ASSUME H!Throws(w) PROVE tracker'[w].pc # "create" BY <2>2, <2>3, <2>9 DEF H!Throws, PCs
    <2> QED BY <2>4, <2>5, <2>6, <2>7, <2>8, <2>9 DEF H!Step
  <1> QED BY <1>1, <1>3, <1>4, <1>5

\* track, up to its first call, for a commit whose job waits.
LEMMA LookMoves ==
  ASSUME Numbers, HInv, NEW w \in Workers, H!Look(w)
  PROVE  \E c \in Commits :
           /\ track[c].state = "waiting" /\ tracker[w] = H!Idle
           /\ track' = [track EXCEPT ![c].state = "active"]
           /\ tracker' \in [Workers -> Ats] /\ \A v \in Workers : v # w => tracker'[v] = tracker[v]
           /\ tracker'[w].of = c /\ ~tracker'[w].zombie /\ tracker'[w].pc \notin {"idle", "create"}
  <1> USE DEF HInv
  <1>1. PICK c \in Commits :
          /\ track[c].state = "waiting" /\ track' = [track EXCEPT ![c].state = "active"]
          /\ tracker' = [tracker EXCEPT ![w] =
               CASE dep[c].status \notin H!Underway -> [H!Idle EXCEPT !.pc = "done", !.of = c]
                 [] dep[c].status \in H!Underway /\ ~configured -> [H!Idle EXCEPT !.pc = "unconfigured", !.of = c]
                 [] dep[c].status \in H!Underway /\ configured /\ (H!TimedOut(dep[c]) \/ (dep[c].build = 0 /\ ~project.recorded)) ->
                      [H!Idle EXCEPT !.pc = "failed", !.of = c]
                 [] OTHER -> [H!Idle EXCEPT !.pc = IF dep[c].build # 0 THEN "get" ELSE "find",
                                          !.of = c, !.was = dep[c].status, !.build = dep[c].build]]
    BY DEF H!Look
  <1>2. tracker[w] = H!Idle BY DEF H!Look
  <1>3. PICK r : tracker' = [tracker EXCEPT ![w] = r] /\
          \/ \E pc \in {"done", "unconfigured", "failed"} : r = [H!Idle EXCEPT !.pc = pc, !.of = c]
          \/ \E pc \in {"get", "find"} : r = [H!Idle EXCEPT !.pc = pc, !.of = c, !.was = dep[c].status, !.build = dep[c].build]
    BY <1>1
  <1>4. r \in Ats /\ r.of = c /\ ~r.zombie /\ r.pc \notin {"idle", "create"}
    <2>1. ASSUME NEW pc \in {"done", "unconfigured", "failed"}, r = [H!Idle EXCEPT !.pc = pc, !.of = c]
          PROVE  r \in Ats /\ r.of = c /\ ~r.zombie /\ r.pc \notin {"idle", "create"}
      BY <2>1 DEF H!Idle, Ats, PCs, Statuses
    <2>2. ASSUME NEW pc \in {"get", "find"},
                 r = [H!Idle EXCEPT !.pc = pc, !.of = c, !.was = dep[c].status, !.build = dep[c].build]
          PROVE  r \in Ats /\ r.of = c /\ ~r.zombie /\ r.pc \notin {"idle", "create"}
      <3>1. dep[c].status \in Statuses /\ dep[c].build \in Builds \cup {0} BY DEF HostTyped, Rows
      <3> QED BY <2>2, <3>1 DEF H!Idle, Ats, PCs
    <2> QED BY <1>3, <2>1, <2>2
  <1>5. tracker \in [Workers -> Ats] BY DEF HostTyped
  <1>6. tracker' \in [Workers -> Ats] /\ tracker'[w] = r /\ \A v \in Workers : v # w => tracker'[v] = tracker[v] BY <1>3, <1>4, <1>5
  <1> QED BY <1>1, <1>2, <1>4, <1>6

\* The host's next deployment is of the commit it is asked for, and changes no other.
LEMMA StartsOne ==
  ASSUME Numbers, HostTyped, NEW b \in Builds, NEW sha \in Commits, H!Starts(b, sha)
  PROVE  /\ build' \in [Builds -> States]
         /\ build[b].sha = 0 /\ build'[b].sha = sha /\ build'[b].state = "queued"
         /\ \A a \in Builds : a # b => build'[a] = build[a]
  BY DEF H!Starts, HostTyped, H!NoBuild, States

\* The kinds of step.
HostMoves(w) == H!Step(w) \/ H!Throws(w) \/ H!Crash(w)
HostRests    == H!Unconfigure \/ H!Tick \/ H!Refresh \/ H!Dismiss \/ UNCHANGED H!vars

LEMMA StepKinds ==
  ASSUME [H!Next]_(H!vars)
  PROVE  \/ \E c \in Commits : H!Publish(c)
         \/ H!PublishStep \/ H!PublishStops \/ HostRests
         \/ \E w \in Workers : H!Look(w) \/ HostMoves(w) \/ H!Stall(w)
         \/ \E b \in Builds : H!AutoBuild(b) \/ H!Progress(b) \/ H!Cancel(b)
  BY DEF H!Next, HostMoves, HostRests

LEMMA StallMoves ==
  ASSUME Numbers, HInv, NEW w \in Workers, H!Stall(w)
  PROVE  /\ tracker[w].of \in Commits /\ ~tracker[w].zombie /\ tracker[w].pc # "idle"
         /\ tracker' \in [Workers -> Ats] /\ \A v \in Workers : v # w => tracker'[v] = tracker[v]
         /\ tracker'[w].pc = tracker[w].pc /\ tracker'[w].of = tracker[w].of /\ tracker'[w].zombie
         /\ track' \in [Commits -> Jobs] /\ track'[tracker[w].of].state = "waiting"
         /\ \A c \in Commits : c # tracker[w].of => track'[c] = track[c]
         /\ excused' = excused \cup {tracker[w].of}
  <1> USE DEF HInv
  <1>1. tracker[w].pc # "idle" /\ ~tracker[w].zombie BY DEF H!Stall
  <1>2. tracker[w].of \in Commits BY <1>1, IdleFits DEF Queue
  <1>3. /\ tracker' \in [Workers -> Ats] /\ \A v \in Workers : v # w => tracker'[v] = tracker[v]
        /\ tracker'[w].pc = tracker[w].pc /\ tracker'[w].of = tracker[w].of /\ tracker'[w].zombie
    BY DEF H!Stall, HostTyped, Ats
  <1>4. /\ track' \in [Commits -> Jobs] /\ track'[tracker[w].of].state = "waiting"
        /\ \A c \in Commits : c # tracker[w].of => track'[c] = track[c]
    BY <1>2 DEF H!Stall, HostTyped, Jobs
  <1>5. excused' = excused \cup {tracker[w].of} BY DEF H!Stall
  <1> QED BY <1>1, <1>2, <1>3, <1>4, <1>5

LEMMA TypedKept ==
  ASSUME Numbers, HInv, [H!Next]_(H!vars)
  PROVE  HostTyped'
  <1> USE DEF HInv
  <1>1. ASSUME NEW c \in Commits, H!Publish(c) PROVE HostTyped'
    BY <1>1 DEF H!Publish, HostTyped, Publishes
  <1>2. CASE H!PublishStep
    <2>1. ASSUME NEW pc \in {"idle", "link", "push", "row", "track"}, H!PublishGoes(pc) PROVE publish' \in Publishes
      BY <2>1 DEF H!PublishGoes, HostTyped, Publishes
    <2>2. CASE H!Prepare BY <2>1, <2>2 DEF H!Prepare, HostTyped
    <2>3. CASE H!RecordProject BY <2>1, <2>3 DEF H!RecordProject, HostTyped
    <2>4. CASE H!PushMain
      <3>1. publish.of \in Commits BY <2>4 DEF H!PushMain, Order
      <3> QED BY <2>1, <2>4, <3>1 DEF H!PushMain, HostTyped
    <2>5. CASE H!CreateRow
      <3>1. publish.of \in Commits BY <2>5 DEF H!CreateRow, Order
      <3>2. clock \in Nat BY DEF HostTyped, Numbers
      <3>3. dep' \in [Commits -> Rows]
        BY <2>5, <3>1, <3>2 DEF H!CreateRow, HostTyped, Rows, H!NoRow, Statuses
      <3>4. publish' \in Publishes BY <2>1, <2>5 DEF H!CreateRow
      <3> QED BY <2>5, <3>3, <3>4 DEF H!CreateRow, HostTyped
    <2>6. CASE H!Track
      <3>1. publish.of \in Commits BY <2>6 DEF H!Track, Order
      <3>2. track[publish.of] \in Jobs BY <3>1 DEF HostTyped
      <3>3. [track[publish.of] EXCEPT !.state = "waiting"] \in Jobs BY <3>2 DEF Jobs
      <3>4. track' = [track EXCEPT ![publish.of] = [track[publish.of] EXCEPT !.state = "waiting"]] BY <2>6 DEF H!Track
      <3>5. track' \in [Commits -> Jobs] BY <3>3, <3>4 DEF HostTyped
      <3>6. publish' \in Publishes BY <2>1, <2>6 DEF H!Track
      <3>7. UNCHANGED <<clock, configured, unbuilt, dep, build, tracker>> BY <2>6 DEF H!Track
      <3> QED BY <3>5, <3>6, <3>7 DEF HostTyped
    <2> QED BY <1>2, <2>2, <2>3, <2>4, <2>5, <2>6 DEF H!PublishStep
  <1>3. CASE H!PublishStops BY <1>3 DEF H!PublishStops, H!PublishGoes, HostTyped, Publishes
  <1>4. ASSUME NEW w \in Workers, H!Look(w) PROVE HostTyped'
    <2>1. tracker' \in [Workers -> Ats] BY <1>4, LookMoves
    <2>2. PICK c \in Commits : track' = [track EXCEPT ![c].state = "active"] BY <1>4, LookMoves
    <2>3. track' \in [Commits -> Jobs]
      <3>1. track[c] \in Jobs BY DEF HostTyped
      <3>2. [track[c] EXCEPT !.state = "active"] \in Jobs BY <3>1 DEF Jobs
      <3>3. track' = [track EXCEPT ![c] = [track[c] EXCEPT !.state = "active"]] BY <2>2
      <3> QED BY <3>2, <3>3 DEF HostTyped
    <2>4. UNCHANGED <<clock, configured, project, publish, unbuilt, dep, build>> BY <1>4 DEF H!Look, H!host
    <2> QED BY <2>1, <2>3, <2>4 DEF HostTyped
  <1>5. ASSUME NEW w \in Workers, HostMoves(w) PROVE HostTyped'
    <2>1. UNCHANGED <<clock, configured, project, publish, unbuilt>> /\ dep' \in [Commits -> Rows]
      BY <1>5, StepWrites DEF HostMoves
    <2>2. tracker' \in [Workers -> Ats] /\ track' \in [Commits -> Jobs]
      <3>1. CASE Goes(w) BY <3>1 DEF Goes, HostTyped
      <3>2. CASE Leaves(w) BY <3>2, IdleFits DEF Leaves, HostTyped
      <3> QED BY <1>5, <3>1, <3>2, StepMoves DEF HostMoves
    <2>3. build' \in [Builds -> States] /\ \A b \in Builds : build'[b].state = "none" => build'[b].sha = 0
      <3>1. CASE build' = build BY <3>1 DEF HostTyped
      <3>2. ASSUME NEW b \in Builds, H!Starts(b, tracker[w].of)
            PROVE  build' \in [Builds -> States] /\ \A a \in Builds : build'[a].state = "none" => build'[a].sha = 0
        BY <1>5, <3>2, StepMoves, StartsOne DEF HostTyped, HostMoves
      <3> QED BY <1>5, <3>1, <3>2, StepWrites DEF HostMoves
    <2> QED BY <2>1, <2>2, <2>3 DEF HostTyped
  <1>6. ASSUME NEW w \in Workers, H!Stall(w) PROVE HostTyped'
    <2>1. UNCHANGED <<clock, configured, project, publish, unbuilt, dep, build>> BY <1>6 DEF H!Stall, H!host
    <2> QED BY <1>6, <2>1, StallMoves DEF HostTyped
  <1>7. ASSUME NEW b \in Builds, H!AutoBuild(b) PROVE HostTyped'
    <2>1. PICK c \in unbuilt : H!Starts(b, c) /\ unbuilt' = unbuilt \ {c} BY <1>7 DEF H!AutoBuild
    <2>2. UNCHANGED <<clock, configured, project, publish, dep, track, tracker>> BY <1>7 DEF H!AutoBuild
    <2>3. build' \in [Builds -> States] /\ \A a \in Builds : build'[a].state = "none" => build'[a].sha = 0
      BY <2>1, StartsOne DEF HostTyped
    <2> QED BY <2>1, <2>2, <2>3 DEF HostTyped
  <1>8. ASSUME NEW b \in Builds, H!Progress(b) PROVE HostTyped'
    <2>1. UNCHANGED <<clock, configured, project, publish, unbuilt, dep, track, tracker>> BY <1>8 DEF H!Progress, H!host
    <2>2. build' \in [Builds -> States] /\ \A a \in Builds : build'[a].state = "none" => build'[a].sha = 0
      BY <1>8 DEF H!Progress, HostTyped, States
    <2> QED BY <2>1, <2>2 DEF HostTyped
  <1>9. ASSUME NEW b \in Builds, H!Cancel(b) PROVE HostTyped'
    <2>1. UNCHANGED <<clock, configured, project, publish, unbuilt, dep, track, tracker>> BY <1>9 DEF H!Cancel, H!host
    <2>2. build' \in [Builds -> States] /\ \A a \in Builds : build'[a].state = "none" => build'[a].sha = 0
      BY <1>9 DEF H!Cancel, HostTyped, States
    <2> QED BY <2>1, <2>2 DEF HostTyped
  <1>10. CASE HostRests
    <2>1. UNCHANGED <<publish, unbuilt, dep, build, track, tracker>> /\ (configured' = configured \/ configured' = FALSE)
      BY <1>10 DEF HostRests, H!Unconfigure, H!Tick, H!Refresh, H!Dismiss, H!vars, H!host
    <2>2. clock' \in 0..HostTime
      <3>1. CASE clock' = clock BY <3>1 DEF HostTyped
      <3>2. CASE H!Tick
        <4>1. clock < HostTime BY <3>2 DEF H!Tick, Numbers, HostTyped
        <4> QED BY <3>2, <4>1 DEF H!Tick, Numbers, HostTyped
      <3> QED BY <1>10, <3>1, <3>2 DEF HostRests, H!Unconfigure, H!Refresh, H!Dismiss, H!vars
    <2> QED BY <2>1, <2>2 DEF HostTyped
  <1> QED BY StepKinds, <1>1, <1>2, <1>3, <1>4, <1>5, <1>6, <1>7, <1>8, <1>9, <1>10

\* A row, once made, stays and keeps its date; what is late stays late, and an excuse is for good.
LEMMA RowsStay ==
  ASSUME Numbers, HInv, [H!Next]_(H!vars)
  PROVE  /\ excused \subseteq excused'
         /\ \A c \in Commits : Row(c) => Row(c)' /\ dep'[c].created = dep[c].created
         /\ \A c \in Commits : Late(c) => Late(c)'
  <1> USE DEF HInv
  <1>1. clock \in Nat /\ clock' \in Nat /\ clock <= clock'
    <2>1. clock \in Nat BY DEF HostTyped, Numbers
    <2>2. clock' = clock \/ clock' = clock + 1
      <3>1. ASSUME NEW w \in Workers, HostMoves(w) PROVE clock' = clock BY <3>1, StepWrites DEF HostMoves
      <3>2. ASSUME NEW w \in Workers, H!Look(w) \/ H!Stall(w) PROVE clock' = clock BY <3>2 DEF H!Look, H!Stall
      <3>3. ASSUME NEW b \in Builds, H!AutoBuild(b) \/ H!Progress(b) \/ H!Cancel(b) PROVE clock' = clock
        BY <3>3 DEF H!AutoBuild, H!Progress, H!Cancel
      <3>4. ASSUME NEW c \in Commits, H!Publish(c) PROVE clock' = clock BY <3>4 DEF H!Publish
      <3>5. ASSUME H!PublishStep \/ H!PublishStops PROVE clock' = clock
        BY <3>5 DEF H!PublishStep, H!Prepare, H!RecordProject, H!PushMain, H!CreateRow, H!Track, H!PublishStops
      <3>6. ASSUME HostRests PROVE clock' = clock \/ clock' = clock + 1
        BY <3>6 DEF HostRests, H!Unconfigure, H!Tick, H!Refresh, H!Dismiss, H!vars
      <3> QED BY StepKinds, <3>1, <3>2, <3>3, <3>4, <3>5, <3>6
    <2> QED BY <2>1, <2>2
  <1>2. excused \subseteq excused' /\ \A c \in Commits : Row(c) => Row(c)' /\ dep'[c].created = dep[c].created
    <2>1. ASSUME NEW w \in Workers, HostMoves(w)
          PROVE  excused \subseteq excused' /\ \A c \in Commits : Row(c) => Row(c)' /\ dep'[c].created = dep[c].created
      BY <2>1, StepWrites DEF HostMoves
    <2>2. ASSUME NEW w \in Workers, H!Look(w) \/ H!Stall(w) PROVE excused \subseteq excused' /\ dep' = dep
      BY <2>2 DEF H!Look, H!Stall, H!ghosts
    <2>3. ASSUME NEW b \in Builds, H!AutoBuild(b) \/ H!Progress(b) \/ H!Cancel(b) PROVE excused \subseteq excused' /\ dep' = dep
      BY <2>3 DEF H!AutoBuild, H!Progress, H!Cancel, H!ghosts
    <2>4. ASSUME NEW c \in Commits, H!Publish(c) PROVE excused \subseteq excused' /\ dep' = dep BY <2>4 DEF H!Publish, H!ghosts
    <2>5. ASSUME H!Prepare \/ H!RecordProject \/ H!PushMain \/ H!Track \/ H!PublishStops PROVE excused \subseteq excused' /\ dep' = dep
      BY <2>5 DEF H!Prepare, H!RecordProject, H!PushMain, H!Track, H!PublishStops, H!ghosts
    <2>6. ASSUME H!CreateRow
          PROVE  excused \subseteq excused' /\ \A c \in Commits : Row(c) => dep'[c] = dep[c]
      BY <2>6 DEF H!CreateRow, Order, Before, HostTyped, H!ghosts
    <2>7. ASSUME HostRests PROVE excused \subseteq excused' /\ dep' = dep
      BY <2>7 DEF HostRests, H!Unconfigure, H!Tick, H!Refresh, H!Dismiss, H!vars, H!ghosts
    <2> QED BY StepKinds, <2>1, <2>2, <2>3, <2>4, <2>5, <2>6, <2>7 DEF H!PublishStep, Row
  <1>3. ASSUME NEW c \in Commits, Late(c) PROVE Late(c)'
    <2>1. Row(c)' /\ dep'[c].created = dep[c].created BY <1>2, <1>3 DEF Late
    <2>2. dep[c].created \in Nat /\ Grace \in Nat BY DEF HostTyped, Rows, Numbers
    <2>3. clock' >= dep'[c].created + Grace BY <1>1, <1>3, <2>1, <2>2 DEF Late
    <2> QED BY <2>1, <2>3 DEF Late
  <1> QED BY <1>2, <1>3

-----------------------------------------------------------------------------
(* No commit is pushed or tracked before its time *)

LEMMA OrderStays ==
  ASSUME Numbers, HInv, publish' = publish,
         \A c \in Commits :
           /\ c \in unbuilt' => c \in unbuilt
           /\ Built(c)' => Built(c) \/ c \in unbuilt \/ \E w \in Workers : tracker[w].of = c
           /\ Row(c)' <=> Row(c)
           /\ track'[c].state # "none" => track[c].state # "none"
           /\ \A w \in Workers : tracker'[w].of = c => tracker[w].of = c \/ track[c].state # "none"
  PROVE  Order'
  <1> USE DEF HInv
  <1>1. \A c \in Commits : \A pcs : Before(c, pcs)' <=> Before(c, pcs) BY DEF Before
  <1>2. ASSUME NEW c \in Commits, Before(c, {"prepare", "link", "push", "row", "track"})
        PROVE  track'[c].state = "none" /\ \A w \in Workers : tracker'[w].of # c
    BY <1>2 DEF Order
  <1>3. ASSUME NEW c \in Commits, Before(c, {"prepare", "link", "push"}) PROVE c \notin unbuilt' /\ ~Built(c)'
    <2>1. Before(c, {"prepare", "link", "push", "row", "track"}) BY <1>3 DEF Before
    <2> QED BY <1>3, <2>1 DEF Order
  <1>4. ASSUME NEW c \in Commits, Before(c, {"prepare", "link", "push", "row"}) PROVE ~Row(c)'
    BY <1>4 DEF Order
  <1>5. publish'.pc # "idle" => publish'.of \in Commits BY DEF Order
  <1>6. publish'.pc = "track" => Row(publish.of)' BY <1>5 DEF Order
  <1> QED BY <1>1, <1>2, <1>3, <1>4, <1>5, <1>6 DEF Order

LEMMA OrderKept ==
  ASSUME Numbers, HInv, [H!Next]_(H!vars)
  PROVE  Order'
  <1> USE DEF HInv
  <1> DEFINE P2 == {"prepare", "link", "push"}
             P3 == {"prepare", "link", "push", "row"}
             P4 == {"prepare", "link", "push", "row", "track"}
  <1>1. ASSUME NEW c \in Commits, H!Publish(c) PROVE Order'
    <2>1. UNCHANGED <<unbuilt, dep, build, track, tracker>> BY <1>1 DEF H!Publish
    <2>2. ASSUME NEW d \in Commits, d > c \/ d = c PROVE d > publish.of
      <3>1. c \in Nat /\ d \in Nat /\ publish.of = c - 1 BY <1>1 DEF H!Publish, Numbers
      <3> QED BY <2>2, <3>1
    <2>3. publish'.of = c /\ publish'.pc \in {"prepare", "push"} BY <1>1 DEF H!Publish
    <2>4. ASSUME NEW d \in Commits, NEW pcs, Before(d, pcs)' PROVE d > publish.of
      <3>1. d > c \/ d = c BY <2>3, <2>4 DEF Before
      <3> QED BY <2>2, <3>1
    <2>5. ASSUME NEW d \in Commits, d > publish.of PROVE Before(d, P2) /\ Before(d, P3) /\ Before(d, P4)
      BY <2>5 DEF Before
    <2>6. \A d \in Commits : (Built(d)' <=> Built(d)) /\ (Row(d)' <=> Row(d)) BY <2>1 DEF Built, Row
    <2>7. ASSUME NEW d \in Commits, Before(d, P2)' PROVE d \notin unbuilt' /\ ~Built(d)'
      BY <2>1, <2>4, <2>5, <2>6, <2>7 DEF Order
    <2>8. ASSUME NEW d \in Commits, Before(d, P3)' PROVE ~Row(d)'
      BY <2>4, <2>5, <2>6, <2>8 DEF Order
    <2>9. ASSUME NEW d \in Commits, Before(d, P4)' PROVE track'[d].state = "none" /\ \A w \in Workers : tracker'[w].of # d
      BY <2>1, <2>4, <2>5, <2>9 DEF Order
    <2> QED BY <2>3, <2>7, <2>8, <2>9 DEF Order
  <1>2. CASE H!Prepare \/ H!RecordProject \/ H!PublishStops
    <2>1. UNCHANGED <<unbuilt, dep, build, track, tracker>> BY <1>2 DEF H!Prepare, H!RecordProject, H!PublishStops
    <2>2. PICK pc \in {"idle", "link", "push"} : publish' = [publish EXCEPT !.pc = pc] /\ (pc = "idle" \/ publish.pc \in P2)
      BY <1>2 DEF H!Prepare, H!RecordProject, H!PublishStops, H!PublishGoes
    <2>3. publish'.pc = pc /\ publish'.of = publish.of BY <2>2 DEF HostTyped, Publishes
    <2>4. \A d \in Commits : /\ Before(d, P2)' => Before(d, P2)
                             /\ Before(d, P3)' => Before(d, P3)
                             /\ Before(d, P4)' => Before(d, P4)
      BY <2>2, <2>3 DEF Before
    <2>5. \A d \in Commits : (Built(d)' <=> Built(d)) /\ (Row(d)' <=> Row(d)) BY <2>1 DEF Built, Row
    <2>6. publish.of \in Commits BY <1>2 DEF H!Prepare, H!RecordProject, H!PublishStops, Order
    <2> QED BY <2>1, <2>2, <2>3, <2>4, <2>5, <2>6 DEF Order
  <1>3. CASE H!PushMain
    <2>1. UNCHANGED <<dep, build, track, tracker>> /\ publish.pc = "push" /\ publish.of \in Commits BY <1>3 DEF H!PushMain, Order
    <2>2. unbuilt' \subseteq unbuilt \cup {publish.of} BY <1>3 DEF H!PushMain
    <2>3. publish'.pc = "row" /\ publish'.of = publish.of BY <1>3 DEF H!PushMain, H!PublishGoes, HostTyped, Publishes
    <2>4. \A d \in Commits : /\ Before(d, P2)' => Before(d, P2) /\ d # publish.of
                             /\ Before(d, P3)' => Before(d, P3)
                             /\ Before(d, P4)' => Before(d, P4)
      <3>1. \A d \in Commits : d > publish.of => d # publish.of BY <2>1 DEF Numbers
      <3> QED BY <2>1, <2>3, <3>1 DEF Before
    <2>5. \A d \in Commits : (Built(d)' <=> Built(d)) /\ (Row(d)' <=> Row(d)) BY <2>1 DEF Built, Row
    <2> QED BY <2>1, <2>2, <2>3, <2>4, <2>5 DEF Order
  <1>4. CASE H!CreateRow
    <2>1. UNCHANGED <<unbuilt, build, track, tracker>> /\ publish.pc = "row" /\ publish.of \in Commits BY <1>4 DEF H!CreateRow, Order
    <2>2. \A d \in Commits : d # publish.of => dep'[d] = dep[d] BY <1>4 DEF H!CreateRow, HostTyped
    <2>3. publish'.pc \in {"track", "idle"} /\ publish'.of = publish.of
      BY <1>4 DEF H!CreateRow, H!PublishGoes, HostTyped, Publishes
    <2>4. \A d \in Commits : /\ Before(d, P2)' => Before(d, P2)
                             /\ Before(d, P3)' => Before(d, P3) /\ d # publish.of
                             /\ Before(d, P4)' => Before(d, P4)
      <3>1. \A d \in Commits : d > publish.of => d # publish.of BY <2>1 DEF Numbers
      <3> QED BY <2>1, <2>3, <3>1 DEF Before
    <2>5. \A d \in Commits : Built(d)' <=> Built(d) BY <2>1 DEF Built
    <2>6. dep'[publish'.of].status # "none"
      <3>1. dep'[publish.of].status \in {"pending", "unconfigured"} BY <1>4, <2>1 DEF H!CreateRow, HostTyped, H!NoRow
      <3> QED BY <2>3, <3>1
    <2>7. \A d \in Commits : d # publish.of => (Row(d)' <=> Row(d)) BY <2>2 DEF Row
    <2>8. Row(publish.of)' BY <2>6 DEF Row
    <2> QED BY <2>1, <2>3, <2>4, <2>5, <2>7, <2>8 DEF Order
  <1>5. CASE H!Track
    <2>1. UNCHANGED <<unbuilt, build, dep, tracker>> /\ publish.pc = "track" /\ publish.of \in Commits BY <1>5 DEF H!Track, Order
    <2>2. \A d \in Commits : d # publish.of => track'[d] = track[d]
      <3>1. track' = [track EXCEPT ![publish.of].state = "waiting"] BY <1>5 DEF H!Track
      <3> QED BY <2>1, <3>1 DEF HostTyped
    <2>3. publish'.pc = "idle" /\ publish'.of = publish.of BY <1>5 DEF H!Track, H!PublishGoes, HostTyped, Publishes
    <2>4. \A d \in Commits : \A pcs : "idle" \notin pcs => (Before(d, pcs)' <=> d > publish.of)
      BY <2>3 DEF Before
    <2>5. \A d \in Commits : d > publish.of => d # publish.of /\ Before(d, P2) /\ Before(d, P3) /\ Before(d, P4)
      BY <2>1 DEF Numbers, Before
    <2>6. \A d \in Commits : (Built(d)' <=> Built(d)) /\ (Row(d)' <=> Row(d)) BY <2>1 DEF Built, Row
    <2>7. ASSUME NEW d \in Commits, Before(d, P2)' PROVE d \notin unbuilt' /\ ~Built(d)'
      BY <2>1, <2>4, <2>5, <2>6, <2>7 DEF Order
    <2>8. ASSUME NEW d \in Commits, Before(d, P3)' PROVE ~Row(d)'
      BY <2>4, <2>5, <2>6, <2>8 DEF Order
    <2>9. ASSUME NEW d \in Commits, Before(d, P4)' PROVE track'[d].state = "none" /\ \A w \in Workers : tracker'[w].of # d
      BY <2>1, <2>2, <2>4, <2>5, <2>9 DEF Order
    <2> QED BY <2>3, <2>7, <2>8, <2>9 DEF Order
  <1>6. ASSUME NEW w \in Workers, H!Look(w) PROVE Order'
    <2>1. UNCHANGED <<publish, unbuilt, dep, build>> BY <1>6 DEF H!Look, H!host
    <2>2. PICK c \in Commits :
            /\ track[c].state = "waiting" /\ track' = [track EXCEPT ![c].state = "active"]
            /\ \A v \in Workers : v # w => tracker'[v] = tracker[v]
            /\ tracker'[w].of = c
      BY <1>6, LookMoves
    <2>3. \A d \in Commits : track'[d].state # "none" => track[d].state # "none" BY <2>2 DEF HostTyped
    <2>4. \A d \in Commits : \A v \in Workers : tracker'[v].of = d => tracker[v].of = d \/ track[d].state # "none" BY <2>2
    <2>5. \A d \in Commits : (Built(d)' <=> Built(d)) /\ (Row(d)' <=> Row(d)) BY <2>1 DEF Built, Row
    <2> QED BY <2>1, <2>3, <2>4, <2>5, OrderStays
  <1>7. ASSUME NEW w \in Workers, HostMoves(w) PROVE Order'
    <2>1. publish' = publish /\ unbuilt' = unbuilt /\ \A d \in Commits : Row(d)' <=> Row(d)
      BY <1>7, StepWrites DEF HostMoves
    <2>2. tracker[w].of \in Commits /\ (Goes(w) \/ Leaves(w)) BY <1>7, StepMoves DEF HostMoves
    <2>3. ASSUME NEW d \in Commits, Built(d)' PROVE Built(d) \/ tracker[w].of = d
      <3>1. CASE build' = build BY <2>3, <3>1 DEF Built
      <3>2. ASSUME NEW b \in Builds, H!Starts(b, tracker[w].of) PROVE Built(d) \/ tracker[w].of = d
        BY <2>2, <2>3, <3>2, StartsOne DEF Built
      <3> QED BY <1>7, <3>1, <3>2, StepWrites DEF HostMoves
    <2>4. ASSUME NEW d \in Commits
          PROVE  /\ track'[d].state # "none" => track[d].state # "none"
                 /\ \A v \in Workers : tracker'[v].of = d => tracker[v].of = d \/ track[d].state # "none"
      <3>1. CASE Goes(w) BY <3>1 DEF Goes
      <3>2. CASE Leaves(w)
        <4>1. track'[d] = track[d] \/ Runs(w, d) BY <3>2 DEF Leaves
        <4>2. Runs(w, d) => track[d].state = "active" BY DEF Queue
        <4>3. d # 0 BY DEF Numbers
        <4>4. \A v \in Workers : tracker'[v].of = d => tracker[v].of = d BY <3>2, <4>3, IdleFits DEF Leaves, HostTyped
        <4> QED BY <4>1, <4>2, <4>4
      <3> QED BY <2>2, <3>1, <3>2
    <2> QED BY <2>1, <2>3, <2>4, OrderStays
  <1>8. ASSUME NEW w \in Workers, H!Stall(w) PROVE Order'
    <2>1. UNCHANGED <<publish, unbuilt, dep, build>> BY <1>8 DEF H!Stall, H!host
    <2>2. Runs(w, tracker[w].of) /\ tracker[w].of \in Commits BY <1>8, StallMoves DEF Runs
    <2>3. track[tracker[w].of].state = "active" BY <2>2 DEF Queue
    <2>4. \A d \in Commits : track'[d].state # "none" => track[d].state # "none" BY <1>8, <2>3, StallMoves
    <2>5. \A v \in Workers : tracker'[v].of = tracker[v].of BY <1>8, StallMoves
    <2>6. \A d \in Commits : (Built(d)' <=> Built(d)) /\ (Row(d)' <=> Row(d)) BY <2>1 DEF Built, Row
    <2> QED BY <2>1, <2>4, <2>5, <2>6, OrderStays
  <1>9. ASSUME NEW b \in Builds, H!AutoBuild(b) \/ H!Progress(b) \/ H!Cancel(b) PROVE Order'
    <2>1. UNCHANGED <<publish, dep, track, tracker>> /\ unbuilt' \subseteq unbuilt
      BY <1>9 DEF H!AutoBuild, H!Progress, H!Cancel, H!host
    <2>2. ASSUME NEW d \in Commits, Built(d)' PROVE Built(d) \/ d \in unbuilt
      <3>1. CASE H!AutoBuild(b)
        <4>1. PICK c \in unbuilt : H!Starts(b, c) BY <3>1 DEF H!AutoBuild
        <4>2. c \in Commits BY DEF HostTyped
        <4> QED BY <2>2, <4>1, <4>2, StartsOne DEF Built
      <3>2. CASE H!Progress(b) \/ H!Cancel(b)
        <4>1. \A a \in Builds : build'[a].sha = build[a].sha BY <3>2 DEF H!Progress, H!Cancel, HostTyped, States
        <4> QED BY <2>2, <4>1 DEF Built
      <3> QED BY <1>9, <3>1, <3>2
    <2>3. \A d \in Commits : Row(d)' <=> Row(d) BY <2>1 DEF Row
    <2> QED BY <2>1, <2>2, <2>3, OrderStays
  <1>10. CASE HostRests
    <2>1. UNCHANGED <<publish, unbuilt, dep, build, track, tracker>>
      BY <1>10 DEF HostRests, H!Unconfigure, H!Tick, H!Refresh, H!Dismiss, H!vars, H!host
    <2>2. \A d \in Commits : (Built(d)' <=> Built(d)) /\ (Row(d)' <=> Row(d)) BY <2>1 DEF Built, Row
    <2> QED BY <2>1, <2>2, OrderStays
  <1> QED
    BY StepKinds, <1>1, <1>2, <1>3, <1>4, <1>5, <1>6, <1>7, <1>8, <1>9, <1>10 DEF H!PublishStep

-----------------------------------------------------------------------------
(* One worker at a time tracks a commit for the queue *)

LEMMA QueueKept ==
  ASSUME Numbers, HInv, [H!Next]_(H!vars)
  PROVE  Queue'
  <1> USE DEF HInv
  <1>1. excused \subseteq excused' /\ \A c \in Commits : Row(c) => Row(c)' BY RowsStay
  <1>2. ASSUME UNCHANGED <<tracker, track>> PROVE Queue'
    <2>1. \A c \in Commits : \A w \in Workers : Runs(w, c)' <=> Runs(w, c) BY <1>2 DEF Runs
    <2> QED BY <1>1, <1>2, <2>1 DEF Queue
  <1>3. CASE H!Track
    <2>1. UNCHANGED <<tracker, dep>> /\ publish.of \in Commits /\ Row(publish.of) BY <1>3 DEF H!Track, Order
    <2>2. track' = [track EXCEPT ![publish.of].state = "waiting"] BY <1>3 DEF H!Track
    <2>3. \A c \in Commits : c # publish.of => track'[c] = track[c] BY <2>1, <2>2 DEF HostTyped
    <2>4. track'[publish.of].state = "waiting" BY <2>1, <2>2 DEF HostTyped, Jobs
    <2>5. \A w \in Workers : tracker[w].of # publish.of
      <3>1. Before(publish.of, {"prepare", "link", "push", "row", "track"}) BY <1>3 DEF H!Track, Before
      <3> QED BY <2>1, <3>1 DEF Order
    <2>6. \A c \in Commits : \A w \in Workers : Runs(w, c)' <=> Runs(w, c) BY <2>1 DEF Runs
    <2>7. \A c \in Commits : track'[c].state # "none" => Row(c)' BY <1>1, <2>1, <2>3 DEF Queue
    <2>8. ASSUME NEW c \in Commits PROVE track'[c].state = "active" <=> \E w \in Workers : Runs(w, c)'
      <3>1. CASE c = publish.of BY <2>4, <2>5, <2>6, <3>1 DEF Runs
      <3>2. CASE c # publish.of BY <2>3, <2>6, <3>2 DEF Queue
      <3> QED BY <3>1, <3>2
    <2> QED BY <1>1, <2>1, <2>6, <2>7, <2>8 DEF Queue
  <1>4. ASSUME NEW w \in Workers, H!Look(w) PROVE Queue'
    <2>1. PICK c \in Commits :
            /\ track[c].state = "waiting" /\ tracker[w] = H!Idle
            /\ track' = [track EXCEPT ![c].state = "active"]
            /\ \A v \in Workers : v # w => tracker'[v] = tracker[v]
            /\ tracker'[w].of = c /\ ~tracker'[w].zombie /\ tracker'[w].pc # "idle"
      BY <1>4, LookMoves
    <2>2. Row(c)' BY <1>1, <2>1 DEF Queue
    <2>3. track'[c].state = "active" /\ \A d \in Commits : d # c => track'[d] = track[d] BY <2>1 DEF HostTyped, Jobs
    <2>4. \A v \in Workers : ~Runs(v, c) BY <2>1 DEF Queue
    <2>5. \A d \in Commits : ~Runs(w, d)
      <3>1. tracker[w].of = 0 BY <2>1, IdleFits
      <3> QED BY <3>1 DEF Runs, Numbers
    <2>6. \A v \in Workers, d \in Commits : Runs(v, d)' <=> (v = w /\ d = c) \/ (v # w /\ Runs(v, d)) BY <2>1 DEF Runs
    <2>7. \A v \in Workers : tracker'[v] = H!Idle \/ (tracker'[v].pc # "idle" /\ tracker'[v].of \in Commits) BY <2>1 DEF Queue
    <2>8. \A v \in Workers : tracker'[v].zombie => tracker'[v].of \in excused' BY <1>1, <2>1 DEF Queue
    <2>9. ASSUME NEW v \in Workers, NEW d \in Commits, tracker'[v].of = d PROVE Row(d)'
      BY <1>1, <2>1, <2>2, <2>9 DEF Queue
    <2>10. \A d \in Commits : track'[d].state # "none" => Row(d)' BY <1>1, <2>2, <2>3 DEF Queue
    <2>11. ASSUME NEW d \in Commits
           PROVE  /\ \A u, v \in Workers : Runs(u, d)' /\ Runs(v, d)' => u = v
                  /\ track'[d].state = "active" <=> \E v \in Workers : Runs(v, d)'
      <3>1. CASE d = c
        <4>1. \A v \in Workers : Runs(v, d)' <=> v = w BY <2>4, <2>6, <3>1
        <4> QED BY <2>3, <3>1, <4>1
      <3>2. CASE d # c
        <4>1. \A v \in Workers : Runs(v, d)' <=> Runs(v, d) BY <2>5, <2>6, <3>2
        <4> QED BY <2>3, <3>2, <4>1 DEF Queue
      <3> QED BY <3>1, <3>2
    <2> QED BY <2>7, <2>8, <2>9, <2>10, <2>11 DEF Queue
  <1>5. ASSUME NEW w \in Workers, HostMoves(w) PROVE Queue'
    <2>1. tracker[w].of \in Commits /\ (Goes(w) \/ Leaves(w)) BY <1>5, StepMoves DEF HostMoves
    <2>2. CASE Goes(w)
      <3>1. \A v \in Workers : tracker'[v].of = tracker[v].of /\ tracker'[v].zombie = tracker[v].zombie BY <2>2 DEF Goes
      <3>2. \A v \in Workers, d \in Commits : Runs(v, d)' <=> Runs(v, d) BY <3>1 DEF Runs
      <3>3. \A v \in Workers : tracker'[v] = H!Idle \/ (tracker'[v].pc # "idle" /\ tracker'[v].of \in Commits)
        BY <2>1, <2>2 DEF Goes, Queue
      <3>4. ASSUME NEW v \in Workers, NEW d \in Commits, tracker'[v].of = d PROVE Row(d)' BY <1>1, <3>1, <3>4 DEF Queue
      <3>5. \A v \in Workers : tracker'[v].zombie => tracker'[v].of \in excused' BY <1>1, <3>1 DEF Queue
      <3>6. track' = track BY <2>2 DEF Goes
      <3> QED BY <1>1, <3>2, <3>3, <3>4, <3>5, <3>6 DEF Queue
    <2>3. CASE Leaves(w)
      <3>1. tracker'[w] = H!Idle /\ \A v \in Workers : v # w => tracker'[v] = tracker[v] BY <2>3 DEF Leaves, HostTyped
      <3>2. \A v \in Workers, d \in Commits : Runs(v, d)' <=> v # w /\ Runs(v, d)
        <4>1. \A d \in Commits : tracker'[w].of # d BY <3>1, IdleFits DEF Numbers
        <4> QED BY <3>1, <4>1 DEF Runs
      <3>3. \A v \in Workers : tracker'[v] = H!Idle \/ (tracker'[v].pc # "idle" /\ tracker'[v].of \in Commits) BY <3>1 DEF Queue
      <3>4. ASSUME NEW v \in Workers, NEW d \in Commits, tracker'[v].of = d PROVE Row(d)'
        <4>1. v # w BY <3>1, <3>4, IdleFits DEF Numbers
        <4> QED BY <1>1, <3>1, <3>4, <4>1 DEF Queue
      <3>5. \A v \in Workers : tracker'[v].zombie => tracker'[v].of \in excused' BY <1>1, <3>1, IdleFits DEF Queue
      <3>6. ASSUME NEW d \in Commits
            PROVE  /\ \A u, v \in Workers : Runs(u, d)' /\ Runs(v, d)' => u = v
                   /\ track'[d].state = "active" <=> \E v \in Workers : Runs(v, d)'
                   /\ track'[d].state # "none" => Row(d)'
        <4>1. \A u, v \in Workers : Runs(u, d)' /\ Runs(v, d)' => u = v BY <3>2 DEF Queue
        <4>2. CASE Runs(w, d)
          <5>1. track'[d].state # "active" BY <2>3, <4>2 DEF Leaves, Runs
          <5>2. track[d].state = "active" BY <4>2 DEF Queue
          <5>3. \A v \in Workers : ~Runs(v, d)' BY <3>2, <4>2 DEF Queue
          <5> QED BY <1>1, <4>1, <5>1, <5>2, <5>3 DEF Queue
        <4>3. CASE ~Runs(w, d)
          <5>1. track'[d] = track[d] BY <2>3, <4>3 DEF Leaves
          <5>2. \A v \in Workers : Runs(v, d)' <=> Runs(v, d) BY <3>2, <4>3
          <5> QED BY <1>1, <4>1, <5>1, <5>2 DEF Queue
        <4> QED BY <4>2, <4>3
      <3> QED BY <3>3, <3>4, <3>5, <3>6 DEF Queue
    <2> QED BY <2>1, <2>2, <2>3
  <1>6. ASSUME NEW w \in Workers, H!Stall(w) PROVE Queue'
    <2>1. /\ tracker[w].of \in Commits /\ ~tracker[w].zombie /\ tracker[w].pc # "idle"
          /\ \A v \in Workers : v # w => tracker'[v] = tracker[v]
          /\ tracker'[w].pc = tracker[w].pc /\ tracker'[w].of = tracker[w].of /\ tracker'[w].zombie
          /\ track'[tracker[w].of].state = "waiting"
          /\ \A d \in Commits : d # tracker[w].of => track'[d] = track[d]
          /\ excused' = excused \cup {tracker[w].of}
      BY <1>6, StallMoves
    <2>2. \A v \in Workers, d \in Commits : Runs(v, d)' <=> v # w /\ Runs(v, d) BY <2>1 DEF Runs
    <2>3. \A v \in Workers : tracker'[v] = H!Idle \/ (tracker'[v].pc # "idle" /\ tracker'[v].of \in Commits) BY <2>1 DEF Queue
    <2>4. ASSUME NEW v \in Workers, NEW d \in Commits, tracker'[v].of = d PROVE Row(d)'
      BY <1>1, <2>1, <2>4 DEF Queue
    <2>5. \A v \in Workers : tracker'[v].zombie => tracker'[v].of \in excused' BY <2>1 DEF Queue
    <2>6. Runs(w, tracker[w].of) BY <2>1 DEF Runs
    <2>7. track[tracker[w].of].state = "active" BY <2>1, <2>6 DEF Queue
    <2>8. ASSUME NEW d \in Commits
          PROVE  /\ \A u, v \in Workers : Runs(u, d)' /\ Runs(v, d)' => u = v
                 /\ track'[d].state = "active" <=> \E v \in Workers : Runs(v, d)'
                 /\ track'[d].state # "none" => Row(d)'
      <3>1. \A u, v \in Workers : Runs(u, d)' /\ Runs(v, d)' => u = v BY <2>2 DEF Queue
      <3>2. CASE d = tracker[w].of
        <4>1. \A v \in Workers : ~Runs(v, d)' BY <2>2, <2>6, <3>2 DEF Queue
        <4> QED BY <1>1, <2>1, <2>7, <3>1, <3>2, <4>1 DEF Queue
      <3>3. CASE d # tracker[w].of
        <4>1. \A v \in Workers : Runs(v, d)' <=> Runs(v, d) BY <2>2, <3>3 DEF Runs
        <4> QED BY <1>1, <2>1, <3>1, <3>3, <4>1 DEF Queue
      <3> QED BY <3>2, <3>3
    <2> QED BY <2>3, <2>4, <2>5, <2>8 DEF Queue
  <1>7. ASSUME NEW c \in Commits, H!Publish(c) PROVE Queue' BY <1>2, <1>7 DEF H!Publish
  <1>8. ASSUME H!Prepare \/ H!RecordProject \/ H!PushMain \/ H!CreateRow \/ H!PublishStops PROVE Queue'
    BY <1>2, <1>8 DEF H!Prepare, H!RecordProject, H!PushMain, H!CreateRow, H!PublishStops
  <1>9. ASSUME NEW b \in Builds, H!AutoBuild(b) \/ H!Progress(b) \/ H!Cancel(b) PROVE Queue'
    BY <1>2, <1>9 DEF H!AutoBuild, H!Progress, H!Cancel
  <1>10. ASSUME HostRests PROVE Queue' BY <1>2, <1>10 DEF HostRests, H!Unconfigure, H!Tick, H!Refresh, H!Dismiss, H!vars
  <1> QED
    BY StepKinds, <1>3, <1>4, <1>5, <1>6, <1>7, <1>8, <1>9, <1>10 DEF H!PublishStep

-----------------------------------------------------------------------------
(* One build each *)

LEMMA OnceStays ==
  ASSUME Numbers, HInv, [H!Next]_(H!vars), NEW c \in Commits \ excused',
         \A b \in Builds : /\ build'[b].sha = c <=> build[b].sha = c
                           /\ build'[b].sha = c => build'[b].state # "cancelled",
         c \in unbuilt' => c \in unbuilt \/ ~Built(c),
         \A w \in Workers : tracker'[w].of = c /\ tracker'[w].pc = "create" =>
           (tracker[w].of = c /\ tracker[w].pc = "create") \/ (~Built(c) /\ Late(c))
  PROVE  Once(c)'
  <1>1. c \notin excused /\ (Late(c) => Late(c)') BY RowsStay
  <1>2. Once(c) BY <1>1 DEF HInv
  <1>3. Built(c)' <=> Built(c) BY DEF Built
  <1>4. \A a, b \in Builds : build'[a].sha = c /\ build'[b].sha = c => a = b BY <1>2 DEF Once
  <1>5. c \in unbuilt' /\ Built(c)' => Late(c)' BY <1>1, <1>2, <1>3 DEF Once
  <1>6. \A w \in Workers : tracker'[w].of = c /\ tracker'[w].pc = "create" => ~Built(c)' /\ Late(c)'
    BY <1>1, <1>2, <1>3 DEF Once
  <1> QED BY <1>4, <1>5, <1>6 DEF Once

\* The step that starts a build leaves the commit with that one, if nothing was started for it before.
LEMMA OnceStarts ==
  ASSUME Numbers, HInv, NEW c \in Commits, NEW b \in Builds, H!Starts(b, c), ~Built(c),
         c \in unbuilt' => Late(c)',
         \A w \in Workers : ~(tracker'[w].of = c /\ tracker'[w].pc = "create")
  PROVE  Once(c)'
  <1>1. build'[b].sha = c /\ build'[b].state = "queued" /\ \A a \in Builds : a # b => build'[a] = build[a]
    BY StartsOne DEF HInv
  <1>2. \A a \in Builds : build'[a].sha = c => a = b BY <1>1 DEF Built
  <1> QED BY <1>1, <1>2 DEF Once

LEMMA OnceKept ==
  ASSUME Numbers, HInv, [H!Next]_(H!vars), NEW c \in Commits \ excused'
  PROVE  Once(c)'
  <1>1. c \notin excused /\ (Late(c) => Late(c)') BY RowsStay
  <1>2. Once(c) BY <1>1 DEF HInv
  <1>3. \A b \in Builds : build[b].sha = c => build[b].state # "cancelled" BY <1>2 DEF Once
  <1>4. ASSUME UNCHANGED <<build, unbuilt, tracker>> PROVE Once(c)' BY <1>3, <1>4, OnceStays
  <1>5. CASE H!PushMain
    <2>1. build' = build /\ tracker' = tracker BY <1>5 DEF H!PushMain
    <2>2. c \in unbuilt' => c \in unbuilt \/ ~Built(c)
      <3>1. c = publish.of => Before(c, {"prepare", "link", "push"}) BY <1>5 DEF H!PushMain, Before
      <3> QED BY <1>5, <3>1 DEF H!PushMain, HInv, Order
    <2> QED BY <1>3, <2>1, <2>2, OnceStays
  <1>6. ASSUME NEW w \in Workers, H!Look(w) PROVE Once(c)'
    <2>1. build' = build /\ unbuilt' = unbuilt BY <1>6 DEF H!Look, H!host
    <2>2. tracker'[w].pc # "create" /\ \A v \in Workers : v # w => tracker'[v] = tracker[v] BY <1>6, LookMoves
    <2> QED BY <1>3, <2>1, <2>2, OnceStays
  <1>7. ASSUME NEW w \in Workers, H!Stall(w) PROVE Once(c)'
    <2>1. build' = build /\ unbuilt' = unbuilt BY <1>7 DEF H!Stall, H!host
    <2>2. \A v \in Workers : tracker'[v].of = tracker[v].of /\ tracker'[v].pc = tracker[v].pc BY <1>7, StallMoves
    <2> QED BY <1>3, <2>1, <2>2, OnceStays
  <1>8. ASSUME NEW w \in Workers, HostMoves(w) PROVE Once(c)'
    <2>1. tracker[w].of \in Commits /\ (Goes(w) \/ Leaves(w)) BY <1>8, StepMoves DEF HostMoves
    <2>2. unbuilt' = unbuilt /\ (tracker'[w].pc # "create" \/ H!Find(w)) BY <1>8, StepWrites DEF HostMoves
    <2>3. \A v \in Workers : v # w => tracker'[v] = tracker[v] BY <2>1 DEF Goes, Leaves, HInv, HostTyped
    <2>4. ASSUME tracker'[w].of = c, tracker'[w].pc = "create" PROVE tracker[w].of = c /\ ~Built(c) /\ Late(c)
      <3>1. tracker[w].of = c
        <4>1. tracker'[w].pc # "idle" BY <2>4
        <4>2. ~Leaves(w) BY <4>1, IdleFits DEF Leaves, HInv, HostTyped
        <4> QED BY <2>1, <2>4, <4>2 DEF Goes
      <3>2. Row(c) BY <3>1 DEF HInv, Queue
      <3>3. H!Find(w) BY <2>2, <2>4
      <3>4. H!GraceIsOver(dep[c]) /\ {b \in Builds : build[b].sha = c /\ build[b].state # "cancelled"} = {}
        <4>1. ASSUME NEW b \in Builds, tracker' = [tracker EXCEPT ![w].build = b, ![w].pc = "record"] PROVE FALSE
          BY <2>4, <4>1 DEF HInv, HostTyped, Ats
        <4>2. ~H!Wait(w) BY <2>4, IdleFits DEF H!Wait, H!Leave, HInv, HostTyped
        <4> QED BY <3>1, <3>3, <4>1, <4>2 DEF H!Find
      <3>5. ~Built(c) BY <1>3, <3>4 DEF Built
      <3>6. Late(c) BY <3>2, <3>4 DEF H!GraceIsOver, Late
      <3> QED BY <3>1, <3>5, <3>6
    <2>5. CASE build' = build BY <1>3, <2>2, <2>3, <2>4, <2>5, OnceStays
    <2>6. ASSUME NEW b \in Builds, tracker[w].pc = "create", H!Starts(b, tracker[w].of) PROVE Once(c)'
      <3>1. tracker'[w].pc # "create" BY <2>2, <2>6 DEF H!Find
      <3>2. CASE tracker[w].of = c
        <4>1. ~Built(c) /\ Late(c) BY <1>2, <2>6, <3>2 DEF Once
        <4>2. \A v \in Workers : tracker[v].of = c => v = w
          <5>1. \A v \in Workers : tracker[v].of = c => Runs(v, c) BY <1>1 DEF HInv, Queue, Runs
          <5> QED BY <3>2, <5>1 DEF HInv, Queue
        <4>3. \A v \in Workers : ~(tracker'[v].of = c /\ tracker'[v].pc = "create") BY <2>3, <3>1, <4>2
        <4> QED BY <1>1, <2>6, <3>2, <4>1, <4>3, OnceStarts
      <3>3. CASE tracker[w].of # c
        <4>1. \A a \in Builds : build'[a].sha = c \/ build[a].sha = c => build'[a] = build[a]
          <5>1. c # 0 BY DEF Numbers
          <5> QED BY <2>1, <2>6, <3>3, <5>1, StartsOne DEF HInv
        <4> QED BY <1>3, <2>2, <2>3, <3>1, <4>1, OnceStays
      <3> QED BY <3>2, <3>3
    <2> QED BY <1>8, <2>5, <2>6, StepWrites DEF HostMoves
  <1>9. ASSUME NEW b \in Builds, H!AutoBuild(b) PROVE Once(c)'
    <2>1. PICK d \in unbuilt :
            /\ H!Starts(b, d) /\ unbuilt' = unbuilt \ {d}
            /\ excused' = IF dep[d] # H!NoRow /\ clock >= dep[d].created + Grace THEN excused \cup {d} ELSE excused
      BY <1>9 DEF H!AutoBuild
    <2>2. tracker' = tracker /\ d \in Commits BY <1>9 DEF H!AutoBuild, HInv, HostTyped
    <2>3. CASE d = c
      <3>1. ~Late(c)
        <4>1. Row(c) => dep[c] # H!NoRow BY DEF Row, H!NoRow
        <4> QED BY <2>1, <2>3, <4>1 DEF Late
      <3>2. ~Built(c) /\ \A w \in Workers : ~(tracker[w].of = c /\ tracker[w].pc = "create") BY <1>2, <2>3, <3>1 DEF Once
      <3> QED BY <2>1, <2>2, <2>3, <3>2, OnceStarts
    <2>4. CASE d # c
      <3>1. \A a \in Builds : build'[a].sha = c \/ build[a].sha = c => build'[a] = build[a]
        <4>1. c # 0 BY DEF Numbers
        <4> QED BY <2>1, <2>2, <2>4, <4>1, StartsOne DEF HInv
      <3> QED BY <1>3, <2>1, <2>2, <3>1, OnceStays
    <2> QED BY <2>3, <2>4
  <1>10. ASSUME NEW b \in Builds, H!Progress(b) PROVE Once(c)'
    <2>1. tracker' = tracker /\ unbuilt' = unbuilt BY <1>10 DEF H!Progress, H!host
    <2>2. \A a \in Builds : build'[a].sha = build[a].sha /\ (build'[a].state = "cancelled" => build[a].state = "cancelled")
      BY <1>10 DEF H!Progress, HInv, HostTyped, States
    <2> QED BY <1>3, <2>1, <2>2, OnceStays
  <1>11. ASSUME NEW b \in Builds, H!Cancel(b) PROVE Once(c)'
    <2>1. tracker' = tracker /\ unbuilt' = unbuilt BY <1>11 DEF H!Cancel, H!host
    <2>2. build[b].sha # c BY <1>11 DEF H!Cancel
    <2>3. \A a \in Builds : build'[a].sha = build[a].sha /\ (a # b => build'[a] = build[a])
      BY <1>11 DEF H!Cancel, HInv, HostTyped, States
    <2> QED BY <1>3, <2>1, <2>2, <2>3, OnceStays
  <1>12. ASSUME NEW d \in Commits, H!Publish(d) PROVE Once(c)' BY <1>4, <1>12 DEF H!Publish
  <1>13. ASSUME H!Prepare \/ H!RecordProject \/ H!CreateRow \/ H!Track \/ H!PublishStops PROVE Once(c)'
    BY <1>4, <1>13 DEF H!Prepare, H!RecordProject, H!CreateRow, H!Track, H!PublishStops
  <1>14. ASSUME HostRests PROVE Once(c)' BY <1>4, <1>14 DEF HostRests, H!Unconfigure, H!Tick, H!Refresh, H!Dismiss, H!vars, H!host
  <1> QED
    BY StepKinds, <1>5, <1>6, <1>7, <1>8, <1>9, <1>10, <1>11, <1>12, <1>13, <1>14 DEF H!PublishStep

-----------------------------------------------------------------------------
(* The theorems *)

LEMMA InvInit == ASSUME Numbers, H!Init PROVE HInv
  <1>1. HostTyped BY DEF H!Init, HostTyped, Numbers, Publishes, H!Resting, Rows, H!NoRow, Statuses, States, H!NoBuild, Jobs, H!NoJob, Ats, H!Idle, PCs
  <1>2. \A c \in Commits : ~Row(c) /\ ~Built(c) /\ track[c].state = "none"
    BY DEF H!Init, Row, Built, H!NoRow, H!NoBuild, H!NoJob, Numbers
  <1>3. \A w \in Workers : tracker[w] = H!Idle BY DEF H!Init
  <1>4. \A w \in Workers : \A c \in Commits : tracker[w].of # c BY <1>3, IdleFits DEF Numbers
  <1>5. publish.pc = "idle" /\ unbuilt = {} BY DEF H!Init, H!Resting
  <1>6. Order BY <1>2, <1>4, <1>5 DEF Order
  <1>7. Queue BY <1>2, <1>3, <1>4, IdleFits DEF Queue, Runs
  <1>8. \A c \in Commits : Once(c) BY <1>2, <1>4, <1>5 DEF Once, Built
  <1> QED BY <1>1, <1>6, <1>7, <1>8 DEF HInv

LEMMA HostKept == ASSUME Numbers, HInv, [H!Next]_(H!vars) PROVE HInv'
BY TypedKept, OrderKept, QueueKept, OnceKept DEF HInv

LEMMA AtMostOne ==
  ASSUME NEW S, \A x, y \in S : x = y
  PROVE  Cardinality(S) = IF S = {} THEN 0 ELSE 1
  <1>1. CASE S = {} BY <1>1, FS_EmptySet
  <1>2. CASE S # {}
    <2>1. PICK x : S = {x} BY <1>2
    <2> QED BY <1>2, <2>1, FS_Singleton
  <1> QED BY <1>1, <1>2

LEMMA SameCount == ASSUME NEW S PROVE H!Cardinality(S) = Cardinality(S)
BY DEF H!Cardinality, Cardinality

\* The rows, the builds and the clock are what their tables and the host can hold, and the queue
\* gives a publish's tracking job to exactly one worker while it is active (DeploymentTracker).
LEMMA WellTyped == ASSUME Numbers, HInv PROVE H!TypeOK
  <1>1. clock \in 0..HostTime /\ publish.of \in Commits \cup {0} BY DEF HInv, HostTyped, Publishes
  <1>2. ASSUME NEW c \in Commits
        PROVE  /\ dep[c].status \in Statuses /\ dep[c].build \in Builds \cup {0}
               /\ track[c].failed \in 0..(TrackAttempts - 1)
    BY DEF HInv, HostTyped, Rows, Jobs
  <1>3. ASSUME NEW c \in Commits
        PROVE  Cardinality({w \in Workers : tracker[w].of = c /\ ~tracker[w].zombie}) = IF track[c].state = "active" THEN 1 ELSE 0
    <2> DEFINE S == {w \in Workers : tracker[w].of = c /\ ~tracker[w].zombie}
    <2>1. \A v, w \in S : v = w BY DEF HInv, Queue, Runs
    <2>2. track[c].state = "active" <=> S # {} BY DEF HInv, Queue, Runs
    <2> HIDE DEF S
    <2>3. Cardinality(S) = IF S = {} THEN 0 ELSE 1 BY <2>1, AtMostOne
    <2>4. Cardinality(S) = IF track[c].state = "active" THEN 1 ELSE 0 BY <2>2, <2>3
    <2> QED BY <2>4 DEF S
  <1>4. \A b \in Builds : build[b].sha \in Commits \cup {0} BY DEF HInv, HostTyped, States
  <1> QED BY <1>1, <1>2, <1>3, <1>4, SameCount DEF H!TypeOK, Statuses

LEMMA BuiltOnce == ASSUME HInv PROVE H!OneBuildEach
  <1>1. ASSUME NEW c \in Commits \ excused PROVE Cardinality({b \in Builds : build[b].sha = c}) <= 1
    <2> DEFINE S == {b \in Builds : build[b].sha = c}
    <2>1. \A a, b \in S : a = b BY <1>1 DEF HInv, Once
    <2> HIDE DEF S
    <2>2. Cardinality(S) = IF S = {} THEN 0 ELSE 1 BY <2>1, AtMostOne
    <2>3. Cardinality(S) <= 1 BY <2>2
    <2> QED BY <2>3 DEF S
  <1> QED BY <1>1, SameCount DEF H!OneBuildEach

-----------------------------------------------------------------------------
(* The theorems: of Hosting, and of the run services, that takes its steps *)

THEOREM HostHolds == H!Spec => []HInv
  <1>1. H!Init => HInv BY InvInit, GivenNumbers
  <1>2. HInv /\ [H!Next]_(H!vars) => HInv' BY HostKept, GivenNumbers
  <1> QED BY <1>1, <1>2, PTL DEF H!Spec

THEOREM TypesAlways == H!Spec => []H!TypeOK
  <1>1. HInv => H!TypeOK BY WellTyped, GivenNumbers
  <1> QED BY <1>1, HostHolds, PTL

LEMMA ServicesHost == ASSUME StartsWith, which = "hosting" PROVE H!Init
BY DEF StartsWith

LEMMA HostStep ==
  ASSUME [Steps]_services
  PROVE  which' = which /\ (which = "hosting" => [H!Next]_(H!vars))
BY DEF Steps, Lifecycle, Provisioning, Hosting, Previews, services, parts, H!vars, H!host, H!ghosts

\* track, "use that deployment rather than start a second": Vercel, which builds every push by
\* itself, and the tracker, which starts a build when it found none, never both build a commit,
\* unless the host came to the push after the grace period, or a call, a worker or a build failed.
THEOREM OneBuildAlways == ServicesSpec => []OneBuildEach
  <1> DEFINE Inv == which = "hosting" => HInv
  <1>1. StartsWith => Inv BY ServicesHost, InvInit, GivenNumbers
  <1>2. Inv /\ [Steps]_services => Inv' BY HostStep, HostKept, GivenNumbers
  <1>3. Inv => OneBuildEach BY BuiltOnce, GivenNumbers DEF OneBuildEach
  <1> HIDE DEF Inv
  <1> QED BY <1>1, <1>2, <1>3, PTL DEF ServicesSpec

HIDE DEF clock, configured, project, publish, dep, build, unbuilt, track, tracker, page, hostFaults, excused, unclaimed

-----------------------------------------------------------------------------
(* Previews *)

left == v1
owner == v2
minted == v3
shown == v4
up == v5
look == v6
cache == v7
tab == v8
other == v9
naps == v10
losses == v11
USE DEF left, owner, minted, shown, up, look, cache, tab, other, naps, losses

Links == Labels \cup {0}
TabT == [open : BOOLEAN, visible : BOOLEAN, due : BOOLEAN, stale : BOOLEAN,
         call : {"none", "label", "mint", "answer"}, read : {"running", "paused"},
         got : Links, phase : V!Phases, label : Links,
         frame : {"none", "load", "site", "retry", "bad", "expired"}]
LinksFit == left \in [Labels -> 0..Ttl] /\ owner \in [label : Links, left : 0..Ttl] /\ minted \in Links
BoxFits  == shown \in {"running", "paused"} /\ up \in {"up", "down"} /\ look \in {"none", "queued", "active"}
ProxyFits == cache \in [labels : SUBSET Labels, running : BOOLEAN]
TabsFit  == tab \in [Windows -> TabT]
RestFits == other \in {"idle", "mint"} /\ naps \in 0..MaxSleeps /\ losses \in 0..MaxFaults
VInv == LinksFit /\ BoxFits /\ ProxyFits /\ TabsFit /\ RestFits

LEMMA TabsStart == V!Opened \in TabT /\ V!Closed \in TabT
BY DEF V!Opened, V!Closed, TabT, Links, V!Phases

LEMMA PreviewStarts == V!Init => VInv
<1> SUFFICES ASSUME V!Init PROVE VInv
  OBVIOUS
<1>1. 0 \in 0..Ttl /\ 0 \in 0..MaxSleeps /\ 0 \in 0..MaxFaults
  BY LifecycleAssumption, ServicesAssumption
<1>2. LinksFit /\ BoxFits /\ ProxyFits
  BY <1>1 DEF V!Init, LinksFit, BoxFits, ProxyFits, Links
<1>3. TabsFit /\ RestFits
  BY <1>1, TabsStart DEF V!Init, TabsFit, RestFits
<1> QED BY <1>2, <1>3 DEF VInv

\* What an editor's steps make of what it knows.
LEMMA TabMoves ==
  ASSUME NEW e \in TabT
  PROVE  /\ \A r \in {"running", "paused"} : [e EXCEPT !.call = "label", !.read = r, !.due = FALSE] \in TabT
         /\ \A l \in Links : [e EXCEPT !.call = "answer", !.got = l] \in TabT
         /\ [e EXCEPT !.call = "mint"] \in TabT
         /\ \A r \in {"running", "paused"}, l \in Links :
              [e EXCEPT !.call = "answer", !.read = r, !.stale = FALSE, !.got = l] \in TabT
         /\ \A b \in BOOLEAN : [e EXCEPT !.visible = b, !.due = b] \in TabT
         /\ \A f \in {"none", "load", "site", "retry", "bad", "expired"} : [e EXCEPT !.frame = f] \in TabT
         /\ \A b \in BOOLEAN : [e EXCEPT !.stale = b] \in TabT
         /\ \A b, c \in BOOLEAN : [e EXCEPT !.due = b, !.stale = c] \in TabT
BY DEF TabT

LEMMA CurrentFits == ASSUME LinksFit PROVE V!Current \in Links /\ (V!Current # 0 => owner.label \in Labels)
BY DEF LinksFit, V!Current, Links

LEMMA QueueLooks == ASSUME BoxFits PROVE V!Queue \in {"none", "queued", "active"}
BY DEF BoxFits, V!Queue

LEMMA OpenFits ==
  ASSUME VInv, NEW t \in Windows, V!Open(t) \/ V!FindsNoLink(t)
  PROVE  VInv'
<1>1. CASE V!Open(t)
  <2>1. TabsFit'
    BY <1>1, TabMoves DEF V!Open, TabsFit, VInv, BoxFits
  <2>2. BoxFits'
    BY <1>1, QueueLooks DEF V!Open, VInv, BoxFits
  <2> QED BY <1>1, <2>1, <2>2 DEF V!Open, V!redis, V!counts, VInv, LinksFit, ProxyFits, RestFits
<1>2. CASE V!FindsNoLink(t)
  <2>1. TabsFit'
    BY <1>2, TabMoves DEF V!FindsNoLink, TabsFit, VInv
  <2> QED BY <1>2, <2>1 DEF V!FindsNoLink, V!redis, V!sandbox, V!counts, VInv, LinksFit, BoxFits, ProxyFits, RestFits
<1> QED BY <1>1, <1>2

LEMMA LinkFits ==
  ASSUME VInv, NEW t \in Windows, V!Extend(t) \/ V!Mint(t)
  PROVE  VInv'
<1>1. Ttl \in 0..Ttl
  BY ServicesAssumption
<1>2. PICK l \in Labels : /\ left' = [left EXCEPT ![l] = Ttl]
                          /\ tab' = [tab EXCEPT ![t].call = "answer", ![t].got = l]
                          /\ owner' = [owner EXCEPT !.left = Ttl] \/ owner' = [label |-> l, left |-> Ttl]
                          /\ minted' \in {minted, l}
  BY CurrentFits DEF V!Extend, V!Mint, VInv
<1>3. LinksFit'
  BY <1>1, <1>2 DEF VInv, LinksFit, Links
<1>4. TabsFit'
  BY <1>2, TabMoves DEF VInv, TabsFit, Links
<1> QED BY <1>3, <1>4 DEF V!Extend, V!Mint, V!sandbox, V!counts, VInv, BoxFits, ProxyFits, RestFits

LEMMA StatusFits ==
  ASSUME VInv, NEW t \in Windows, V!Status(t) \/ V!NoLabelLeft(t) \/ V!Close(t) \/ V!Hide(t) \/ V!Show(t) \/ V!Browse(t)
  PROVE  VInv'
<1>1. V!Current \in Links /\ shown \in {"running", "paused"}
  BY CurrentFits DEF VInv, BoxFits
<1>2. TabsFit'
  <2>1. CASE V!Status(t)
    BY <1>1, <2>1, TabMoves DEF V!Status, VInv, TabsFit
  <2>2. CASE V!NoLabelLeft(t) \/ V!Close(t)
    BY <2>2, TabsStart DEF V!NoLabelLeft, V!Close, VInv, TabsFit
  <2>3. CASE V!Hide(t)
    BY <2>3, TabMoves DEF V!Hide, VInv, TabsFit
  <2>4. CASE V!Show(t)
    BY <2>4, TabMoves DEF V!Show, VInv, TabsFit
  <2>5. CASE V!Browse(t)
    BY <2>5, TabMoves DEF V!Browse, VInv, TabsFit
  <2> QED BY <2>1, <2>2, <2>3, <2>4, <2>5
<1> QED
  BY <1>2 DEF V!Status, V!NoLabelLeft, V!Close, V!Hide, V!Show, V!Browse, V!redis, V!sandbox, V!counts, VInv, LinksFit,
              BoxFits, ProxyFits, RestFits

LEMMA ApplyFits ==
  ASSUME VInv, NEW t \in Windows, V!Apply(t)
  PROVE  VInv'
<1> DEFINE e == tab[t]
           phase == V!PhaseOf(e.read, look # "none")
<1>1. e \in TabT
  BY DEF VInv, TabsFit
<1>2. phase \in V!Phases
  <2>1. e.read \in {"running", "paused"}
    BY <1>1 DEF TabT
  <2>2. CASE e.read = "running" /\ look = "none"
    BY <2>2 DEF V!PhaseOf, V!Phases
  <2>3. CASE e.read = "running" /\ look # "none"
    BY <2>3 DEF V!PhaseOf, V!Phases
  <2>4. CASE e.read = "paused" /\ look = "none"
    BY <2>4 DEF V!PhaseOf, V!Phases
  <2>5. CASE e.read = "paused" /\ look # "none"
    BY <2>5 DEF V!PhaseOf, V!Phases
  <2> QED BY <2>1, <2>2, <2>3, <2>4, <2>5
<1>3. V!NextFrame(e, phase) \in {"none", "load", "site", "retry", "bad", "expired"}
  BY <1>1 DEF V!NextFrame, TabT
<1>4. \A p \in V!Phases, f \in {"none", "load", "site", "retry", "bad", "expired"} :
        [e EXCEPT !.call = "none", !.phase = p, !.label = e.got, !.frame = f,
                  !.stale = e.stale \/ p \in {"starting", "waking"}] \in TabT
  BY <1>1 DEF TabT
<1> HIDE DEF phase
<1>5. tab' = [tab EXCEPT ![t] = [e EXCEPT !.call = "none", !.phase = phase, !.label = e.got,
                                          !.frame = V!NextFrame(e, phase),
                                          !.stale = e.stale \/ phase \in {"starting", "waking"}]]
  BY DEF V!Apply, phase
<1>6. TabsFit'
  BY <1>2, <1>3, <1>4, <1>5 DEF VInv, TabsFit
<1> QED BY <1>6 DEF V!Apply, V!redis, V!sandbox, V!counts, VInv, LinksFit, BoxFits, ProxyFits, RestFits

LEMMA ProxyKeeps ==
  ASSUME VInv, NEW t \in Windows, V!ProxyStep(t)
  PROVE  VInv'
<1>1. V!Believed(tab[t].label) => tab[t].label \in Labels
  <2>1. tab[t].label \in Links
    BY DEF VInv, TabsFit, TabT
  <2> QED BY <2>1 DEF V!Believed, VInv, ProxyFits, Links
<1>2. TabsFit'
  <2>1. PICK f \in {"none", "load", "site", "retry", "bad", "expired"} : V!Page(t, f)
    BY DEF V!ProxyStep, V!Expired, V!Sleeping, V!Serve, V!BadGateway, V!Unreachable
  <2> QED BY <2>1, TabMoves DEF V!Page, VInv, TabsFit
<1>3. ProxyFits'
  <2>1. CASE UNCHANGED cache
    BY <2>1 DEF VInv, ProxyFits
  <2>2. CASE cache' = [cache EXCEPT !.labels = @ \cup {tab[t].label}] /\ V!Believed(tab[t].label)
    BY <1>1, <2>2 DEF VInv, ProxyFits
  <2>3. CASE /\ V!Believed(tab[t].label)
             /\ \E b \in BOOLEAN : cache' = [labels |-> cache.labels \cup {tab[t].label}, running |-> b]
    BY <1>1, <2>3 DEF VInv, ProxyFits
  <2> QED
    BY <2>1, <2>2, <2>3 DEF V!ProxyStep, V!Expired, V!Sleeping, V!Serve, V!BadGateway, V!Unreachable, V!Ready
<1>4. BoxFits'
  BY QueueLooks DEF V!ProxyStep, V!Expired, V!Sleeping, V!Serve, V!BadGateway, V!Unreachable, V!sandbox, VInv, BoxFits
<1>5. LinksFit' /\ RestFits'
  BY DEF V!ProxyStep, V!Expired, V!Sleeping, V!Serve, V!BadGateway, V!Unreachable, V!redis, V!counts, VInv, LinksFit,
         RestFits
<1> QED BY <1>2, <1>3, <1>4, <1>5 DEF VInv

LEMMA OtherFits ==
  ASSUME VInv, V!OtherOpens \/ V!OtherMints
  PROVE  VInv'
<1>1. Ttl \in 0..Ttl
  BY ServicesAssumption
<1>2. LinksFit'
  <2>1. CASE UNCHANGED V!redis
    BY <2>1 DEF V!redis, VInv, LinksFit
  <2>2. CASE V!OtherOpens /\ V!Current # 0
    BY <1>1, <2>2, CurrentFits DEF V!OtherOpens, VInv, LinksFit, Links
  <2>3. CASE V!OtherMints /\ minted + 1 \in Labels
    BY <1>1, <2>3 DEF V!OtherMints, VInv, LinksFit, Links
  <2> QED BY <2>1, <2>2, <2>3 DEF V!OtherOpens, V!OtherMints
<1>3. BoxFits'
  BY QueueLooks DEF V!OtherOpens, V!OtherMints, V!sandbox, VInv, BoxFits
<1> QED BY <1>2, <1>3 DEF V!OtherOpens, V!OtherMints, VInv, ProxyFits, TabsFit, RestFits

LEMMA PublishFits ==
  ASSUME VInv, V!Published
  PROVE  TabsFit' /\ losses' \in 0..MaxFaults
<1>0. losses \in 0..MaxFaults
  BY DEF VInv, RestFits
<1>1. CASE V!Publish /\ UNCHANGED losses
  <2>1. \A t \in Windows : tab[t] \in TabT /\ tab[t].open \in BOOLEAN
    BY DEF VInv, TabsFit, TabT
  <2>2. \A t \in Windows : [tab[t] EXCEPT !.stale = tab[t].open] \in TabT
    BY <2>1, TabMoves
  <2> QED BY <1>0, <1>1, <2>2 DEF V!Publish, TabsFit
<1>2. CASE losses < MaxFaults /\ losses' = losses + 1 /\ UNCHANGED tab
  BY <1>0, <1>2, LifecycleAssumption DEF VInv, TabsFit
<1> QED BY <1>1, <1>2 DEF V!Published

LEMMA WorkFits ==
  ASSUME VInv, V!Work \/ V!JobEnds \/ V!SweepPauses \/ V!ProviderPauses
  PROVE  VInv'
<1>1. CASE V!Work
  <2>1. TabsFit' /\ losses' \in 0..MaxFaults
    BY <1>1, PublishFits DEF V!Work, VInv, TabsFit, RestFits
  <2>2. BoxFits'
    BY <1>1 DEF V!Work, VInv, BoxFits
  <2> QED BY <1>1, <2>1, <2>2 DEF V!Work, V!redis, VInv, LinksFit, ProxyFits, RestFits
<1>2. CASE V!JobEnds
  BY <1>2 DEF V!JobEnds, V!redis, V!counts, VInv, LinksFit, BoxFits, ProxyFits, TabsFit, RestFits
<1>3. CASE V!SweepPauses
  <2>1. TabsFit' /\ losses' \in 0..MaxFaults
    BY <1>3, PublishFits DEF V!SweepPauses
  <2>2. naps' \in 0..MaxSleeps
    BY <1>3, ServicesAssumption DEF V!SweepPauses, VInv, RestFits
  <2>3. BoxFits'
    BY <1>3 DEF V!SweepPauses, VInv, BoxFits
  <2> QED BY <1>3, <2>1, <2>2, <2>3 DEF V!SweepPauses, V!redis, VInv, LinksFit, ProxyFits, RestFits
<1>4. CASE V!ProviderPauses
  <2>1. naps' \in 0..MaxSleeps
    BY <1>4, ServicesAssumption DEF V!ProviderPauses, VInv, RestFits
  <2>2. BoxFits'
    BY <1>4 DEF V!ProviderPauses, VInv, BoxFits
  <2> QED BY <1>4, <2>1, <2>2 DEF V!ProviderPauses, V!redis, VInv, LinksFit, ProxyFits, TabsFit, RestFits
<1> QED BY <1>1, <1>2, <1>3, <1>4

LEMMA LinksAge ==
  ASSUME VInv, V!Tick
  PROVE  VInv'
<1>1. \A n \in 0..Ttl : V!Less(n) \in 0..Ttl
  BY ServicesAssumption DEF V!Less
<1>2. LinksFit'
  BY <1>1 DEF V!Tick, VInv, LinksFit
<1>3. TabsFit'
  <2>1. \A t \in Windows : tab[t] \in TabT /\ tab[t].open \in BOOLEAN /\ tab[t].visible \in BOOLEAN
    BY DEF VInv, TabsFit, TabT
  <2>2. \A t \in Windows : [tab[t] EXCEPT !.due = tab[t].visible, !.stale = tab[t].open] \in TabT
    BY <2>1, TabMoves
  <2> QED BY <2>2 DEF V!Tick, TabsFit
<1>4. ProxyFits'
  BY DEF V!Tick, ProxyFits
<1> QED BY <1>2, <1>3, <1>4 DEF V!Tick, V!sandbox, V!counts, VInv, BoxFits, RestFits

LEMMA PreviewKept == ASSUME VInv, [V!Next]_(V!state) PROVE VInv'
<1>1. CASE UNCHANGED V!state
  BY <1>1 DEF V!state, V!redis, V!sandbox, V!counts, VInv, LinksFit, BoxFits, ProxyFits, TabsFit, RestFits
<1>2. ASSUME NEW t \in Windows, V!TabStep(t) \/ V!Hide(t) \/ V!Show(t) \/ V!Close(t) \/ V!Browse(t) PROVE VInv'
  BY <1>2, OpenFits, LinkFits, StatusFits, ApplyFits DEF V!TabStep
<1>3. ASSUME NEW t \in Windows, V!ProxyStep(t) PROVE VInv'
  BY <1>3, ProxyKeeps
<1>4. CASE V!OtherOpens \/ V!OtherMints \/ V!Work \/ V!JobEnds \/ V!SweepPauses \/ V!ProviderPauses \/ V!Tick
  BY <1>4, OtherFits, WorkFits, LinksAge
<1> QED BY <1>1, <1>2, <1>3, <1>4 DEF V!Next, V!TabStep, V!ProxyStep

LEMMA PreviewTyped == ASSUME VInv PROVE V!TypeOK
BY DEF VInv, LinksFit, BoxFits, ProxyFits, TabsFit, RestFits, TabT, Links, V!TypeOK

LEMMA PreviewStep ==
  ASSUME StartsWith \/ [Steps]_services
  PROVE  /\ StartsWith /\ which = "previews" => V!Init
         /\ [Steps]_services => which' = which /\ (which = "previews" => [V!Next]_(V!state))
BY DEF StartsWith, Steps, Lifecycle, Provisioning, Hosting, Previews, services, parts, V!state, V!redis, V!sandbox,
       V!counts

HIDE DEF left, owner, minted, shown, up, look, cache, tab, other, naps, losses

-----------------------------------------------------------------------------
(* The types of all four *)

LEMMA LifecycleStep ==
  /\ StartsWith => Init
  /\ [Steps]_services => [Next]_vars
BY DEF StartsWith, Steps, Lifecycle, Provisioning, Hosting, Previews, services

\* A job of a kind at most, attempts that the options allow, one run of a job, links and clocks within their bounds:
\* of the run services, for whichever component runs.
THEOREM ServicesTyped == ServicesSpec => []TypesHold
<1> DEFINE Setup == which = "provisioning" => PInv /\ Tries
           Host  == which = "hosting" => HInv
           Shows == which = "previews" => VInv
           Box   == LInv /\ JobInv
<1>0. Numbers /\ Attempts \in Nat \ {0}
  BY GivenNumbers, LifecycleAssumption
<1>1. StartsWith => Setup /\ Host /\ Shows /\ Box
  BY <1>0, ServicesSetUp, SetupStarts, TriesStart, ServicesHost, InvInit, PreviewStep, PreviewStarts, LifecycleStep, Starts,
     JobsStart
<1>2. Setup /\ [Steps]_services => Setup'
  BY <1>0, SetupStep, SetupKept, TriesKept DEF Tries
<1>3. Host /\ [Steps]_services => Host'
  BY <1>0, HostStep, HostKept
<1>4. Shows /\ [Steps]_services => Shows'
  BY PreviewStep, PreviewKept
<1>5. Box /\ [Steps]_services => Box'
  BY LifecycleStep, Keeps, JobsKept DEF LInv
<1>6. Setup /\ Host /\ Shows /\ Box => TypesHold
  BY <1>0, SetupTypes, WellTyped, PreviewTyped, LifecycleTyped DEF TypesHold
<1> HIDE DEF Setup, Host, Shows, Box
<1> QED BY <1>1, <1>2, <1>3, <1>4, <1>5, <1>6, PTL DEF ServicesSpec

=============================================================================
