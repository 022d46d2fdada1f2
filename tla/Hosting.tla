------------------------------- MODULE Hosting -------------------------------
(***************************************************************************)
(* From main moving to a live site: the end of a publish (prepare, the     *)
(* push, the deployment's row and its tracking job), Vercel, which also    *)
(* builds every push by itself, DeploymentTracker, and the editor page     *)
(* that polls what has become of it.                                       *)
(*                                                                         *)
(* One portfolio.  A publish runs under the portfolio's lock, so there is  *)
(* one at a time; tracking jobs run outside it, and a job that stalls runs *)
(* twice.  The secrets that prepare sends are in Credentials.              *)
(***************************************************************************)
EXTENDS Naturals, FiniteSets

CONSTANTS
  Commits,     \* published one after the other, numbered from 1
  Builds,      \* Vercel's deployments, numbered from 1 (bound)
  Workers,
  Grace, Timeout,   \* AUTO_DEPLOY_GRACE_MS, DEPLOY_TIMEOUT_MS
  Attempts,    \* TRACK_DEPLOYMENT_JOB_OPTIONS
  MaxTime,     \* the clock stops here (bound)
  MaxFaults    \* crashes, stalls, failed calls, cancelled builds (bound)

VARIABLES
  now,
  configured,  \* VERCEL_TOKEN is set
  project,     \* Vercel's project of that name, and whether the portfolio's row has its id
  publish,     \* the publish under way
  dep,         \* the deployments table: the row of each published commit
  build,       \* Vercel's production deployments
  unbuilt,     \* pushes to main that Vercel has yet to act on
  job, at,     \* the tracking jobs, and what each worker is doing
  page,        \* usePublish: the deployment it shows, and the one it announces
  faults,
  excused,     \* history: commits whose second build has an excuse
  orphans      \* history: commits whose publish stopped before their tracking was queued, or whose end a late write undid

host   == <<configured, project, publish, unbuilt>>
ghosts == <<excused, orphans>>
vars   == <<now, host, dep, build, job, at, page, faults, ghosts>>

NoRow    == [status |-> "none", created |-> 0, build |-> 0]
NoBuild  == [sha |-> 0, state |-> "none"]
NoJob    == [state |-> "none", failed |-> 0]
Idle     == [pc |-> "idle", of |-> 0, was |-> "none", build |-> 0, zombie |-> FALSE]
Resting  == [pc |-> "idle", of |-> 0]
Underway == {"pending", "building"}

Init ==
  /\ now = 0
  /\ configured \in BOOLEAN
  /\ project \in [state : {"none", "linked", "foreign"}, recorded : {FALSE}]
  /\ publish = Resting
  /\ dep = [c \in Commits |-> NoRow]
  /\ build = [b \in Builds |-> NoBuild]
  /\ unbuilt = {}
  /\ job = [c \in Commits |-> NoJob]
  /\ at = [w \in Workers |-> Idle]
  /\ page = [shows |-> "none", of |-> 0, deployed |-> 0]
  /\ faults = 0 /\ excused = {} /\ orphans = {}

Fault == faults < MaxFaults /\ faults' = faults + 1

-----------------------------------------------------------------------------
(* The end of a publish *)

PublishGoes(pc) == publish' = [publish EXCEPT !.pc = pc]

\* A new commit passed its checks.  The last one leaves the clock time to run out (bound).
Publish(c) ==
  /\ publish.pc = "idle" /\ publish.of = c - 1
  /\ now + Timeout < MaxTime
  /\ publish' = [pc |-> IF configured THEN "prepare" ELSE "push", of |-> c]
  /\ UNCHANGED <<now, configured, project, unbuilt, dep, build, job, at, page, faults, ghosts>>

\* ensureProject: one of that name linked elsewhere is never used; a new one is created.
Prepare ==
  /\ publish.pc = "prepare"
  /\ IF project.state = "foreign" THEN PublishGoes("idle") /\ UNCHANGED project
     ELSE /\ project' = [project EXCEPT !.state = "linked"]
          /\ PublishGoes(IF project.recorded THEN "push" ELSE "link")
  /\ UNCHANGED <<now, configured, unbuilt, dep, build, job, at, page, faults, ghosts>>

RecordProject ==
  /\ publish.pc = "link"
  /\ project' = [project EXCEPT !.recorded = TRUE]
  /\ PublishGoes("push")
  /\ UNCHANGED <<now, configured, unbuilt, dep, build, job, at, page, faults, ghosts>>

PushMain ==
  /\ publish.pc = "push"
  /\ unbuilt' = IF project.state = "linked" THEN unbuilt \cup {publish.of} ELSE unbuilt
  /\ PublishGoes("row")
  /\ UNCHANGED <<now, configured, project, dep, build, job, at, page, faults, ghosts>>

CreateRow ==
  /\ publish.pc = "row"
  /\ dep' = [dep EXCEPT ![publish.of] =
               [NoRow EXCEPT !.status = IF configured THEN "pending" ELSE "unconfigured", !.created = now]]
  /\ PublishGoes(IF configured THEN "track" ELSE "idle")
  /\ UNCHANGED <<now, configured, project, unbuilt, build, job, at, page, faults, ghosts>>

Track ==
  /\ publish.pc = "track"
  /\ job' = [job EXCEPT ![publish.of].state = "waiting"]
  /\ PublishGoes("idle")
  /\ UNCHANGED <<now, configured, project, unbuilt, dep, build, at, page, faults, ghosts>>

\* A call fails or the worker dies; the publish is not tried again.
PublishStops ==
  /\ publish.pc # "idle"
  /\ Fault
  /\ PublishGoes("idle")
  /\ orphans' = IF publish.pc = "track" THEN orphans \cup {publish.of} ELSE orphans
  /\ UNCHANGED <<now, configured, project, unbuilt, dep, build, job, at, page, excused>>

-----------------------------------------------------------------------------
(* DeploymentTracker *)

Goto(w, pc) == at' = [at EXCEPT ![w].pc = pc]

\* What it read is not needed past this point.
Ends(w, pc) == at' = [at EXCEPT ![w] = [Idle EXCEPT !.pc = pc, !.of = at[w].of, !.zombie = at[w].zombie]]

\* The job ends, waits for its next look, or is tried again; a zombie's job is no longer its own.
Leave(w, j) ==
  /\ at' = [at EXCEPT ![w] = Idle]
  /\ job' = IF at[w].zombie THEN job ELSE [job EXCEPT ![at[w].of] = j]
Done(w) == Leave(w, NoJob)
Wait(w) == Leave(w, [job[at[w].of] EXCEPT !.state = "waiting"])

TimedOut(row) == now > row.created + Timeout

\* track, up to its first call
Look(w) ==
  /\ at[w] = Idle
  /\ \E c \in Commits :
       LET row == dep[c] IN
       /\ job[c].state = "waiting"
       /\ job' = [job EXCEPT ![c].state = "active"]
       /\ at' = [at EXCEPT ![w] =
            CASE row.status \notin Underway -> [Idle EXCEPT !.pc = "done", !.of = c]
              [] row.status \in Underway /\ ~configured -> [Idle EXCEPT !.pc = "unconfigured", !.of = c]
              [] row.status \in Underway /\ configured /\ (TimedOut(row) \/ (row.build = 0 /\ ~project.recorded)) ->
                   [Idle EXCEPT !.pc = "failed", !.of = c]
              [] OTHER -> [Idle EXCEPT !.pc = IF row.build # 0 THEN "get" ELSE "find",
                                       !.of = c, !.was = row.status, !.build = row.build]]
  /\ UNCHANGED <<now, host, dep, build, page, faults, ghosts>>

Stop(w) ==
  /\ at[w].pc = "done"
  /\ Done(w)
  /\ UNCHANGED <<now, host, dep, build, page, faults, ghosts>>

\* Mutant: nothing is left of the grace period.
NoGrace(row) == TRUE

\* Vercel is given time to build the push by itself.
GraceIsOver(row) == now >= row.created + Grace

\* findProductionDeployment
Find(w) ==
  /\ at[w].pc = "find"
  /\ LET found == {b \in Builds : build[b].sha = at[w].of /\ build[b].state # "cancelled"} IN
     IF found # {} THEN /\ \E b \in found : at' = [at EXCEPT ![w].build = b, ![w].pc = "record"]
                        /\ UNCHANGED job
     ELSE IF GraceIsOver(dep[at[w].of]) THEN Goto(w, "create") /\ UNCHANGED job
     ELSE Wait(w)
  /\ UNCHANGED <<now, host, dep, build, page, faults, ghosts>>

\* Vercel's next deployment
Starts(b, sha) ==
  /\ build[b] = NoBuild
  /\ \A x \in Builds : build[x] = NoBuild => b <= x
  /\ build' = [build EXCEPT ![b] = [sha |-> sha, state |-> "queued"]]

\* createProductionDeployment
CreateBuild(w) ==
  /\ at[w].pc = "create"
  /\ \E b \in Builds :
       /\ Starts(b, at[w].of)
       /\ at' = [at EXCEPT ![w].build = b, ![w].pc = "record"]
  /\ UNCHANGED <<now, host, dep, job, page, faults, ghosts>>

\* The bound on builds shows as a call that fails.
NoBuildLeft(w) ==
  /\ at[w].pc = "create"
  /\ \A b \in Builds : build[b] # NoBuild
  /\ Wait(w)
  /\ UNCHANGED <<now, host, dep, build, page, faults, ghosts>>

RecordBuild(w) ==
  /\ at[w].pc = "record"
  /\ dep' = [dep EXCEPT ![at[w].of].build = at[w].build]
  /\ Goto(w, "get")
  /\ UNCHANGED <<now, host, build, job, page, faults, ghosts>>

\* getDeployment
Get(w) ==
  LET state == build[at[w].build].state IN
  /\ at[w].pc = "get"
  /\ CASE state = "ready"                   -> Ends(w, "ready") /\ UNCHANGED job
       [] state \in {"error", "cancelled"}  -> Ends(w, "failed") /\ UNCHANGED job
       [] state = "building" /\ at[w].was # "building" -> Ends(w, "building") /\ UNCHANGED job
       [] OTHER                             -> Wait(w)
  /\ UNCHANGED <<now, host, dep, build, page, faults, ghosts>>

\* It too writes over what the row says by now: a worker that stalled here takes back another's conclusion.
MarkBuilding(w) ==
  /\ at[w].pc = "building"
  /\ dep' = [dep EXCEPT ![at[w].of].status = "building"]
  /\ orphans' = IF dep[at[w].of].status \in Underway THEN orphans ELSE orphans \cup {at[w].of}
  /\ Wait(w)
  /\ UNCHANGED <<now, host, build, page, faults, excused>>

\* finish writes over whatever the row says by now.
Conclude(w) ==
  /\ at[w].pc \in {"ready", "failed", "unconfigured"}
  /\ dep' = [dep EXCEPT ![at[w].of].status = at[w].pc]
  /\ Done(w)
  /\ UNCHANGED <<now, host, build, page, faults, ghosts>>

GiveUp(w) ==
  /\ at[w].pc = "giveup"
  /\ IF dep[at[w].of].status \in Underway THEN Goto(w, "failed") /\ UNCHANGED job ELSE Done(w)
  /\ UNCHANGED <<now, host, dep, build, page, faults, ghosts>>

Step(w) ==
  \/ Stop(w) \/ Find(w) \/ CreateBuild(w) \/ NoBuildLeft(w) \/ RecordBuild(w) \/ Get(w) \/ MarkBuilding(w) \/ Conclude(w)
  \/ GiveUp(w)

\* A call throws: the job is tried again, or gives up.  What Vercel started stays unrecorded.
Throws(w) ==
  /\ at[w].pc \in {"find", "create", "record", "get"}
  /\ Fault
  /\ IF job[at[w].of].failed + 1 < Attempts
       THEN Leave(w, [state |-> "waiting", failed |-> job[at[w].of].failed + 1])
       ELSE Ends(w, "giveup") /\ UNCHANGED job
  /\ excused' = excused \cup {at[w].of}
  /\ UNCHANGED <<now, host, dep, build, page, orphans>>

Crash(w) ==
  /\ at[w].pc \notin {"idle", "done"}
  /\ Fault
  /\ Wait(w)
  /\ excused' = excused \cup {at[w].of}
  /\ UNCHANGED <<now, host, dep, build, page, orphans>>

\* The job is given to another worker while this one goes on.
Stall(w) ==
  /\ at[w].pc \notin {"idle", "done"} /\ ~at[w].zombie
  /\ Fault
  /\ at' = [at EXCEPT ![w].zombie = TRUE]
  /\ job' = [job EXCEPT ![at[w].of].state = "waiting"]
  /\ excused' = excused \cup {at[w].of}
  /\ UNCHANGED <<now, host, dep, build, page, orphans>>

-----------------------------------------------------------------------------
(* Vercel and the clock *)

\* A push is built when Vercel comes to it, if ever; after the grace period it may come too late.
AutoBuild(b) ==
  \E c \in unbuilt :
    /\ Starts(b, c)
    /\ unbuilt' = unbuilt \ {c}
    /\ excused' = IF dep[c] # NoRow /\ now >= dep[c].created + Grace THEN excused \cup {c} ELSE excused
    /\ UNCHANGED <<now, configured, project, publish, dep, job, at, page, faults, orphans>>

Progress(b) ==
  /\ \/ build[b].state = "queued" /\ build' = [build EXCEPT ![b].state = "building"]
     \/ build[b].state = "building" /\ \E s \in {"ready", "error"} : build' = [build EXCEPT ![b].state = s]
  /\ UNCHANGED <<now, host, dep, job, at, page, faults, ghosts>>

Cancel(b) ==
  /\ build[b].state \in {"queued", "building"}
  /\ Fault
  /\ build' = [build EXCEPT ![b].state = "cancelled"]
  /\ excused' = excused \cup {build[b].sha}
  /\ UNCHANGED <<now, host, dep, job, at, page, orphans>>

\* The worker is restarted without a token.
Unconfigure ==
  /\ configured /\ publish.pc = "idle"
  /\ \A w \in Workers : at[w] = Idle
  /\ Fault
  /\ configured' = FALSE
  /\ UNCHANGED <<now, project, publish, unbuilt, dep, build, job, at, page, ghosts>>

Tick ==
  /\ now < IF publish.pc = "idle" THEN MaxTime ELSE MaxTime - Timeout - 1
  /\ now' = now + 1
  /\ UNCHANGED <<host, dep, build, job, at, page, faults, ghosts>>

-----------------------------------------------------------------------------
(* The editor's page *)

Published == {c \in Commits : dep[c] # NoRow}
Latest    == CHOOSE c \in Published : \A d \in Published : d <= c

\* refresh, for a poll or an event: the newest deployment.  One that was seen under way is announced
\* when it has ended.
Refresh ==
  /\ Published # {}
  /\ LET status == dep[Latest].status IN
     page' = [shows |-> status, of |-> Latest,
              deployed |-> IF page.of = Latest /\ page.shows \in Underway /\ status \in {"ready", "failed"}
                             THEN Latest ELSE page.deployed]
  /\ UNCHANGED <<now, host, dep, build, job, at, faults, ghosts>>

Dismiss ==
  /\ page.deployed # 0
  /\ page' = [page EXCEPT !.deployed = 0]
  /\ UNCHANGED <<now, host, dep, build, job, at, faults, ghosts>>

PublishStep == Prepare \/ RecordProject \/ PushMain \/ CreateRow \/ Track

Next ==
  \/ \E c \in Commits : Publish(c)
  \/ PublishStep \/ PublishStops
  \/ \E w \in Workers : Look(w) \/ Step(w) \/ Throws(w) \/ Crash(w) \/ Stall(w)
  \/ \E b \in Builds : AutoBuild(b) \/ Progress(b) \/ Cancel(b)
  \/ Unconfigure \/ Tick
  \/ Refresh \/ Dismiss

Spec == Init /\ [][Next]_vars

FairSpec ==
  /\ Spec
  /\ WF_vars(PublishStep) /\ WF_vars(Tick) /\ WF_vars(Refresh)
  /\ \A w \in Workers : WF_vars(Step(w))
  /\ SF_vars(\E w \in Workers : Look(w))

-----------------------------------------------------------------------------
(* Properties *)

TypeOK ==
  /\ now \in 0..MaxTime /\ publish.of \in Commits \cup {0}
  /\ \A c \in Commits :
       /\ dep[c].status \in {"none", "pending", "building", "ready", "failed", "unconfigured"}
       /\ dep[c].build \in Builds \cup {0}
       /\ job[c].failed \in 0..(Attempts - 1)
       /\ Cardinality({w \in Workers : at[w].of = c /\ ~at[w].zombie}) = IF job[c].state = "active" THEN 1 ELSE 0
  /\ \A b \in Builds : build[b].sha \in Commits \cup {0}

\* track, "use that deployment rather than start a second": a publish makes two production
\* deployments only if Vercel was slow or something failed.
OneBuildEach ==
  \A c \in Commits \ excused : Cardinality({b \in Builds : build[b].sha = c}) <= 1

Waits(c) == dep[c].status \in Underway
Served(c) ==
  \/ page.of >= c /\ page.shows \notin Underway
  \/ c \in orphans \/ (\E d \in Commits : d > c /\ dep[d] # NoRow)

\* track, giveUp, usePublish: the editor is told how the newest deployment ended, through crashes,
\* stalls, failing calls and lost events.  Excepted are the orphans, which nothing looks at again.
EditorLearnsTheEnd == \A c \in Commits : Waits(c) ~> Served(c)

=============================================================================
