-------------------------- MODULE SandboxLifecycle --------------------------
(***************************************************************************)
(* The sandbox of one portfolio: SandboxLifecycle's handlers step by step, *)
(* the jobs and the sweep that call them, the api that queues the jobs     *)
(* (PreviewService), and the provider.                                     *)
(*                                                                         *)
(* A handler runs under the portfolio's lock, so there is one at a time:   *)
(* op is what its holder does next.  One action is a call to the provider  *)
(* or a write of the row; a crash, a visit or the clock can come between   *)
(* any two.  While the lock is held nobody else writes the row but visits, *)
(* so of the row a handler read at its start only lastAccessedAt (seen)    *)
(* can have changed.  A job that finds the lock taken is put back, which   *)
(* changes nothing.  Busy handlers, other portfolios and the proxy's token *)
(* are left out; the portfolio is ready.                                   *)
(***************************************************************************)
EXTENDS Naturals, FiniteSets

CONSTANTS
  Boxes,          \* the provider's sandboxes; one that is gone may be created anew
  None,
  IdlePause, DestroyAfter, RotateAfter,   \* SandboxTimings
  Slack, MaxRun, Bootstrap, Stale,        \* sandbox.constants
  Attempts,       \* attempts of a job
  MaxTime,        \* the clock stops here (bound)
  MaxFaults,      \* crashes, failed or lost calls, dead dev servers, lost sandboxes (bound)
  MaxRequests     \* restarts and rebuilds asked for, and changes left unpushed (bound)

Kinds == {"ensure", "restart", "rebuild"}

ASSUME LifecycleAssumption ==
  /\ None \notin Boxes \cup Nat \cup Kinds
  /\ {IdlePause, DestroyAfter, RotateAfter, Slack, MaxRun, Bootstrap, Stale} \subseteq Nat \ {0}
  /\ Bootstrap <= MaxRun
  /\ Attempts \in Nat \ {0}
  /\ {MaxTime, MaxFaults, MaxRequests} \subseteq Nat

VARIABLES
  now,
  row,        \* the sandboxes row
  box,        \* the provider: each sandbox's state, deadline, workspace and dev server
  job,        \* the queue's job of each kind
  failing,    \* jobs out of attempts that have yet to call markFailed
  op,         \* the lock and what its holder is doing
  editor,     \* an editor is open, and sends heartbeats
  asked, faults,
  \* history, read by no action
  orphans,    \* sandboxes whose creator never came to record them
  halfway,    \* the row's sandbox was resumed out of a start that had been interrupted
  ran,        \* how long the row's sandbox ran
  astray      \* the row was given a deadline for a stretch that is not the one the provider runs

bounds == <<asked, faults>>
lost   == <<orphans, halfway>>
meter  == <<ran, astray>>
vars   == <<now, row, box, job, failing, op, editor, bounds, lost, meter>>

Gone == [state |-> "gone", started |-> 0, deadline |-> 0, ready |-> FALSE, up |-> FALSE, unpushed |-> FALSE]
Free == [who |-> None, pc |-> "free", at |-> 0, seen |-> 0, until |-> 0, box |-> None, after |-> None,
         status |-> None]
NoJob == [state |-> "none", failed |-> 0]

\* A row whose sandbox, if it has one, was created before previews had a token.
Init ==
  /\ now = 0
  /\ \E legacy \in BOOLEAN, b \in {x \in Boxes : \A y \in Boxes : x <= y} :
       /\ row = [status |-> IF legacy THEN "running" ELSE "destroyed",
                 ext |-> IF legacy THEN b ELSE None, token |-> FALSE,
                 started |-> IF legacy THEN 0 ELSE None, expires |-> IF legacy THEN IdlePause ELSE None,
                 paused |-> None, accessed |-> 0, updated |-> 0, pending |-> FALSE, seconds |-> 0]
       /\ box = [x \in Boxes |->
                   IF legacy /\ x = b
                     THEN [Gone EXCEPT !.state = "running", !.deadline = IdlePause, !.ready = TRUE, !.up = TRUE]
                     ELSE Gone]
  /\ job = [k \in Kinds |-> NoJob]
  /\ failing = {}
  /\ op = Free
  /\ editor = FALSE
  /\ asked = 0 /\ faults = 0
  /\ orphans = {} /\ halfway = FALSE /\ ran = 0 /\ astray = FALSE

Least(a, b)    == IF a < b THEN a ELSE b
Greatest(a, b) == IF a > b THEN a ELSE b
Past(t, span)  == now >= t + span
Or(t, other)   == IF t = None THEN other ELSE t

Live    == IF row.ext = None THEN "gone" ELSE box[row.ext].state
Running == Live = "running"

\* update: a write of the row.  updatedAt is kept only while it is looked at.
Save(r) == row' = [r EXCEPT !.updated = IF r.status = "starting" THEN now ELSE 0]

\* The holder goes on, with what its handler still knows (Goto) or has no more use for (Begin).
Goto(pc) == op' = [op EXCEPT !.pc = pc]
Begin(pc) == op' = [Free EXCEPT !.who = op.who, !.pc = pc]
SetBox(b, v) == box' = [box EXCEPT ![b] = v]
Asleep(b) == [b EXCEPT !.state = "paused", !.started = 0, !.deadline = 0]

\* Mutant: the status stays.
StoppedAsItWas(status) ==
  [row EXCEPT !.ext = None, !.token = FALSE, !.started = None, !.expires = None, !.paused = None]

\* STOPPED and PAUSED
Stopped(status) ==
  [row EXCEPT !.status = status, !.ext = None, !.token = FALSE, !.started = None, !.expires = None, !.paused = None]
PausedAt(t) == [row EXCEPT !.status = "paused", !.paused = t, !.started = None, !.expires = None]

\* billedSeconds: the open stretch up to t, or to the provider's deadline if that came first.
Billed(r, t) ==
  LET end == Least(t, Or(r.expires, t)) IN
  IF r.started = None \/ end < r.started THEN 0 ELSE end - r.started

\* The stretch the row has open, if any, is not the one the provider runs: a resume was not recorded.
Astray(started) == started # None /\ ~(Running /\ box[row.ext].started = started)

\* providerTimeoutMs, as the deadline it leads to.
Deadline(seen, started) ==
  Greatest(now + 1, Least(seen + IdlePause + Slack, Or(started, now) + MaxRun))

-----------------------------------------------------------------------------
(* The jobs *)

Add(k) == job' = IF job[k].state = "none" THEN [job EXCEPT ![k] = [state |-> "waiting", failed |-> 0]] ELSE job
Drop(k) == job' = [job EXCEPT ![k] = NoJob]

\* The handler returns: its lock is released and its job is done.
Finish ==
  /\ op' = Free
  /\ IF op.who \in Kinds THEN Drop(op.who) ELSE UNCHANGED job
  /\ UNCHANGED failing

\* The handler throws: the sweep goes on, a job is tried again or, out of attempts, calls markFailed.
Throw ==
  /\ op' = Free
  /\ IF op.who = "sweep" THEN UNCHANGED <<job, failing>>
     ELSE IF op.after = "drop" THEN Drop(op.who) /\ UNCHANGED failing
     ELSE IF job[op.who].failed + 1 < Attempts
       THEN /\ job' = [job EXCEPT ![op.who] = [state |-> "waiting", failed |-> @.failed + 1]]
            /\ UNCHANGED failing
       ELSE failing' = failing \cup {op.who} /\ UNCHANGED job

Enter(who, pc, after, status) ==
  op' = [Free EXCEPT !.who = who, !.pc = pc, !.after = after, !.status = status,
                     !.at = CASE pc \in {"tidy", "pause"} -> now
                              [] pc = "running"           -> box[row.ext].started
                              [] OTHER                    -> @,
                     !.until = IF pc = "running" THEN box[row.ext].deadline ELSE @,
                     !.seen = IF pc \in {"extend", "resume"} THEN row.accessed ELSE @]

\* Mutant: only a sandbox whose row says it runs is destroyed.
StopStepOfRunning ==
  IF row.ext = None \/ row.status # "running" THEN "stopped" ELSE IF row.pending THEN "flush" ELSE "destroy"

\* Where stop begins: with the flush, if a commit is pending.
StopStep == IF row.ext = None THEN "stopped" ELSE IF row.pending THEN "flush" ELSE "destroy"

\* stop, then go on with after.
StopThen(after, status) ==
  op' = [Free EXCEPT !.who = op.who, !.pc = StopStep, !.after = after, !.status = status]

\* ensureLoaded: what to do with what the provider says of the sandbox.
Ensure(k) ==
  CASE row.ext = None -> Enter(k, "create", None, None)
    [] row.ext # None /\ row.token /\ Live = "paused" -> Enter(k, "resume", None, None)
    [] row.token /\ Running /\ row.status # "starting" /\ ~box[row.ext].up -> Enter(k, "recover", None, None)
    [] row.token /\ Running /\ row.status # "starting" /\ box[row.ext].up -> Enter(k, "running", None, None)
    [] OTHER -> Enter(k, StopStep, "create", "destroyed")

\* process: a job takes the lock, reads the row and asks the provider.
Take(k) ==
  /\ op = Free
  /\ job[k].state = "waiting"
  /\ job' = [job EXCEPT ![k].state = "active"]
  /\ CASE k = "rebuild" -> Enter(k, StopStep, "create", "destroyed")
       [] k = "restart" /\ Running -> Enter(k, "recover", None, None)
       [] OTHER -> Ensure(k)
  /\ UNCHANGED <<now, row, box, failing, editor, bounds, lost, meter>>

\* markFailed, when the lock is free; otherwise nothing.
MarkFailed(k) ==
  /\ k \in failing
  /\ failing' = failing \ {k}
  /\ IF op = Free /\ row.status = "starting"
       THEN Enter(k, StopStep, "drop", "unhealthy") /\ UNCHANGED job
       ELSE Drop(k) /\ UNCHANGED op
  /\ UNCHANGED <<now, row, box, editor, bounds, lost, meter>>

-----------------------------------------------------------------------------
(* stop *)

Push == row' = [row EXCEPT !.pending = FALSE]

\* Mutant: a push that fails does not keep the sandbox.
FlushAnyway ==
  /\ op.pc = "flush"
  /\ Goto("destroy")
  /\ UNCHANGED <<now, row, box, job, failing, editor, bounds, lost, meter>>

\* flushBeforeDestroy: resumes a paused sandbox and pushes; a push that fails stops everything.
Flush ==
  /\ op.pc = "flush"
  /\ \/ /\ Live = "gone"
        /\ Goto("destroy")
        /\ UNCHANGED <<row, box, job, failing, faults>>
     \/ LET b == box[row.ext]
            woken == IF b.state = "paused"
                       THEN [b EXCEPT !.state = "running", !.started = now, !.deadline = now + 1] ELSE b
        IN /\ b.state # "gone"
           /\ \/ /\ Push
                 /\ SetBox(row.ext, [woken EXCEPT !.unpushed = FALSE])
                 /\ Goto("destroy")
                 /\ UNCHANGED <<job, failing, faults>>
              \/ /\ faults < MaxFaults /\ faults' = faults + 1
                 /\ SetBox(row.ext, woken)
                 /\ Throw
                 /\ UNCHANGED row
  /\ UNCHANGED <<now, editor, asked, lost, meter>>

Destroy ==
  /\ op.pc = "destroy"
  /\ SetBox(row.ext, Gone)
  /\ Goto("stopped")
  /\ UNCHANGED <<now, row, job, failing, editor, bounds, lost, meter>>

\* The row is left with nothing live and the stretch billed.
RecordStop ==
  /\ op.pc = "stopped"
  /\ Save([Stopped(op.status) EXCEPT !.seconds = @ + Billed(row, now)])
  /\ CASE op.after = "create" -> Begin("create") /\ UNCHANGED <<job, failing>>
       [] op.after = "throw"  -> Throw
       [] OTHER               -> Finish
  /\ UNCHANGED <<now, box, editor, bounds, lost, meter>>

-----------------------------------------------------------------------------
(* create *)

Create ==
  /\ op.pc = "create"
  /\ Save(Stopped("starting"))
  /\ Goto("boot")
  /\ halfway' = FALSE
  /\ UNCHANGED <<now, box, job, failing, editor, bounds, orphans, meter>>

\* The installation token, which a rate limit puts off without using up an attempt, and the sandbox.
Boot ==
  /\ op.pc = "boot"
  /\ \/ \E b \in Boxes :
          /\ box[b].state = "gone"
          /\ \A x \in Boxes : box[x].state = "gone" => b <= x
          /\ SetBox(b, [Gone EXCEPT !.state = "running", !.started = now, !.deadline = now + Bootstrap])
          /\ op' = [op EXCEPT !.pc = "record", !.at = now, !.until = now + Bootstrap, !.box = b]
          /\ UNCHANGED <<job, faults>>
     \/ /\ faults < MaxFaults /\ faults' = faults + 1
        /\ op' = Free
        /\ job' = [job EXCEPT ![op.who].state = "waiting"]
        /\ UNCHANGED box
  /\ UNCHANGED <<now, row, failing, editor, asked, lost, meter>>

\* Mutant: the row runs as soon as its sandbox does.
RecordCreatedRunning ==
  /\ op.pc = "record"
  /\ Save([row EXCEPT !.status = "running", !.ext = op.box, !.token = TRUE, !.started = op.at, !.expires = op.until])
  /\ op' = [Free EXCEPT !.who = op.who, !.pc = "bootstrap", !.seen = row.accessed]
  /\ UNCHANGED <<now, box, job, failing, editor, bounds, lost, meter>>

RecordCreated ==
  /\ op.pc = "record"
  /\ Save([row EXCEPT !.ext = op.box, !.token = TRUE, !.started = op.at, !.expires = op.until])
  /\ op' = [Free EXCEPT !.who = op.who, !.pc = "bootstrap", !.seen = row.accessed]
  /\ UNCHANGED <<now, box, job, failing, editor, bounds, lost, meter>>

\* E2bDriver.bootstrap: the clone, the keys, the packages, the dev server.
Bootstrapped(b) == [b EXCEPT !.ready = TRUE, !.up = TRUE]

\* bootstrap: a repository that cannot be installed or started fails for good, anything else is retried.
BootstrapBox ==
  /\ op.pc = "bootstrap"
  /\ \/ /\ Running
        /\ SetBox(row.ext, Bootstrapped(box[row.ext]))
        /\ Goto("extend")
        /\ UNCHANGED faults
     \/ /\ ~Running
        /\ StopThen("throw", "unhealthy")
        /\ UNCHANGED <<box, faults>>
     \/ /\ Running /\ faults < MaxFaults /\ faults' = faults + 1
        /\ \E after \in {"throw", "done"} : StopThen(after, "unhealthy")
        /\ UNCHANGED box
  /\ UNCHANGED <<now, row, job, failing, editor, asked, lost, meter>>

\* extend, after a start and in the sweep; a sandbox that sleeps has no deadline to move.
Extend ==
  /\ op.pc = "extend"
  /\ IF Running
       THEN LET until == Deadline(op.seen, row.started) IN
            /\ SetBox(row.ext, [box[row.ext] EXCEPT !.deadline = until])
            /\ op' = [op EXCEPT !.pc = "extended", !.until = until]
            /\ UNCHANGED <<job, failing>>
       ELSE Throw /\ UNCHANGED box
  /\ UNCHANGED <<now, row, editor, bounds, lost, meter>>

RecordExtended ==
  /\ op.pc = "extended"
  /\ Save([row EXCEPT !.status = "running", !.expires = op.until])
  /\ Finish
  /\ astray' = (astray \/ Astray(row.started))
  /\ UNCHANGED <<now, box, editor, bounds, lost, ran>>

-----------------------------------------------------------------------------
(* resume, recover and markRunning *)

\* A sandbox that is gone is built anew, unless the sweep was rotating it.
Resume ==
  /\ op.pc = "resume"
  /\ IF Live = "gone"
       THEN /\ IF op.who = "sweep" THEN Throw ELSE StopThen("create", "destroyed") /\ UNCHANGED <<job, failing>>
            /\ UNCHANGED box
       ELSE LET until == Deadline(op.seen, now) IN
            /\ SetBox(row.ext, [box[row.ext] EXCEPT !.state = "running", !.started = now, !.deadline = until])
            /\ op' = [op EXCEPT !.pc = "resumed", !.at = now, !.until = until]
            /\ UNCHANGED <<job, failing>>
  /\ UNCHANGED <<now, row, editor, bounds, lost, meter>>

\* Mutant: the stretch the provider ended by itself is billed whatever the row said.
RecordResumedTwice ==
  /\ op.pc = "resumed"
  /\ Save([row EXCEPT !.status = "running", !.token = TRUE, !.paused = None, !.started = op.at,
                      !.expires = op.until, !.seconds = @ + (now - row.accessed)])
  /\ Goto("health") /\ UNCHANGED <<job, failing>>
  /\ UNCHANGED <<now, box, editor, bounds, lost, meter>>

\* A stretch that the provider ended while the row said running is billed first.
RecordResumed ==
  /\ op.pc = "resumed"
  /\ Save([row EXCEPT !.status = "running", !.token = TRUE, !.paused = None, !.started = op.at,
                      !.expires = op.until,
                      !.seconds = @ + IF row.status = "running" THEN Billed(row, op.at) ELSE 0])
  /\ IF op.who = "sweep" THEN Finish ELSE Begin("health") /\ UNCHANGED <<job, failing>>
  /\ halfway' = (halfway \/ row.status = "starting")
  /\ UNCHANGED <<now, box, editor, bounds, orphans, meter>>

Health ==
  /\ op.pc = "health"
  /\ IF ~Running THEN Throw
     ELSE IF box[row.ext].up THEN Finish
     ELSE Begin("recover") /\ UNCHANGED <<job, failing>>
  /\ UNCHANGED <<now, row, box, editor, bounds, lost, meter>>

Recover ==
  /\ op.pc = "recover"
  /\ Save([row EXCEPT !.status = "starting"])
  /\ Begin("restart")
  /\ UNCHANGED <<now, box, job, failing, editor, bounds, lost, meter>>

\* E2bDriver.restartDevServer, once the server answers
DevServerUp(b) == [b EXCEPT !.up = TRUE]

\* The ladder: restart the dev server, again with a clean cache, then a new sandbox.
Restart ==
  /\ op.pc \in {"restart", "clean"}
  /\ \/ /\ Running /\ box[row.ext].ready
        /\ SetBox(row.ext, DevServerUp(box[row.ext]))
        /\ Goto("restarted")
        /\ UNCHANGED faults
     \/ /\ Running
        /\ IF box[row.ext].ready THEN faults < MaxFaults /\ faults' = faults + 1 ELSE UNCHANGED faults
        /\ IF op.pc = "restart" THEN Goto("clean") ELSE StopThen("create", "destroyed")
        /\ UNCHANGED box
     \/ /\ ~Running
        /\ StopThen("create", "destroyed")
        /\ UNCHANGED <<box, faults>>
  /\ UNCHANGED <<now, row, job, failing, editor, asked, lost, meter>>

RecordRestarted ==
  /\ op.pc = "restarted"
  /\ Save([row EXCEPT !.status = "running"])
  /\ Finish
  /\ UNCHANGED <<now, box, editor, bounds, lost, meter>>

\* markRunning: the row catches up with what the handler's first call said of the sandbox.
MarkRunning ==
  /\ op.pc = "running"
  /\ IF row.status = "running" THEN UNCHANGED <<row, astray>>
     ELSE LET started == Or(row.started, op.at) IN
          /\ Save([row EXCEPT !.status = "running", !.paused = None, !.expires = op.until,
                              !.started = started])
          /\ astray' = (astray \/ Astray(started))
  /\ Finish
  /\ UNCHANGED <<now, box, editor, bounds, lost, ran>>

-----------------------------------------------------------------------------
(* The sweep *)

\* sweepOne, up to its first call
Sweep ==
  /\ op = Free
  /\ \/ /\ row.status = "starting" /\ Past(row.updated, Stale)
        /\ Enter("sweep", StopStep, "done", "unhealthy")
        /\ UNCHANGED row
     \/ /\ row.status = "paused" /\ Past(row.paused, DestroyAfter)
        /\ Enter("sweep", StopStep, "done", "destroyed")
        /\ UNCHANGED row
     \/ /\ row.status = "running" /\ Live = "gone"
        /\ Enter("sweep", StopStep, "done", "destroyed")
        /\ UNCHANGED row
     \/ /\ row.status = "running" /\ Live = "paused"
        /\ Save([PausedAt(Least(now, Or(row.expires, now))) EXCEPT !.seconds = @ + Billed(row, now)])
        /\ UNCHANGED op
     \/ /\ row.status = "running" /\ Running
        /\ CASE Past(row.accessed, IdlePause)   -> Enter("sweep", "tidy", "idle", None)
             [] ~Past(row.accessed, IdlePause) /\ row.started # None /\ Past(row.started, RotateAfter) ->
                  Enter("sweep", "pause", "rotate", None)
             [] OTHER                           -> Enter("sweep", "extend", None, None)
        /\ UNCHANGED row
  /\ UNCHANGED <<now, box, job, failing, editor, bounds, lost, meter>>

\* An idle pause tries to push first, and goes on if that fails.
FlushBeforePause ==
  /\ op.pc = "tidy"
  /\ Goto("pause")
  /\ \/ /\ row.pending /\ Running
        /\ Push
        /\ SetBox(row.ext, [box[row.ext] EXCEPT !.unpushed = FALSE])
        /\ UNCHANGED faults
     \/ /\ ~row.pending \/ ~Running
        /\ UNCHANGED <<row, box, faults>>
     \/ /\ row.pending /\ faults < MaxFaults /\ faults' = faults + 1
        /\ UNCHANGED <<row, box>>
  /\ UNCHANGED <<now, job, failing, editor, asked, lost, meter>>

Pause ==
  /\ op.pc = "pause"
  /\ IF Live = "gone" THEN Throw /\ UNCHANGED box
     ELSE /\ SetBox(row.ext, Asleep(box[row.ext]))
          /\ Goto("paused")
          /\ UNCHANGED <<job, failing>>
  /\ UNCHANGED <<now, row, editor, bounds, lost, meter>>

\* The stretch ends where the sweep began.  A rotation resumes at once, with the access it read back.
RecordPause ==
  /\ op.pc = "paused"
  /\ Save([PausedAt(op.at) EXCEPT !.seconds = @ + Billed(row, op.at)])
  /\ IF op.after = "rotate"
       THEN op' = [Free EXCEPT !.who = op.who, !.pc = "resume", !.seen = row.accessed] /\ UNCHANGED <<job, failing>>
       ELSE Finish
  /\ UNCHANGED <<now, box, editor, bounds, lost, meter>>

-----------------------------------------------------------------------------
(* The api *)

\* PreviewService.open, also as the heartbeat: anything but a running row with time left is woken.
Heartbeat ==
  /\ editor
  /\ Save([row EXCEPT !.accessed = now])
  /\ IF row.status = "running" /\ row.token /\ Or(row.expires, now + 1) > now THEN UNCHANGED job ELSE Add("ensure")
  /\ UNCHANGED <<now, box, failing, op, editor, bounds, lost, meter>>

OpenEditor ==
  /\ ~editor
  /\ editor' = TRUE
  /\ UNCHANGED <<now, row, box, job, failing, op, bounds, lost, meter>>

CloseEditor ==
  /\ editor
  /\ editor' = FALSE
  /\ UNCHANGED <<now, row, box, job, failing, op, bounds, lost, meter>>

\* PreviewService.restart and rebuild
Request(k) ==
  /\ editor
  /\ asked < MaxRequests /\ asked' = asked + 1
  /\ Save([row EXCEPT !.accessed = now])
  /\ Add(k)
  /\ UNCHANGED <<now, box, failing, op, editor, faults, lost, meter>>

\* QueuedSandboxWaker.wake, from an operation that found the sandbox asleep.
Wake ==
  /\ op = Free
  /\ row.status = "running" /\ ~Running
  /\ job["ensure"].state = "none"
  /\ Add("ensure")
  /\ UNCHANGED <<now, row, box, failing, op, editor, bounds, lost, meter>>

\* An operation leaves a commit that could not be pushed.
LeaveUnpushed ==
  /\ op = Free
  /\ row.status = "running" /\ Running /\ ~row.pending
  /\ asked < MaxRequests /\ asked' = asked + 1
  /\ row' = [row EXCEPT !.pending = TRUE]
  /\ SetBox(row.ext, [box[row.ext] EXCEPT !.unpushed = TRUE])
  /\ UNCHANGED <<now, job, failing, op, editor, faults, lost, meter>>

-----------------------------------------------------------------------------
(* The provider, the clock and faults *)

Records == {"record", "stopped", "extended", "resumed", "paused", "restarted"}
Calls   == {"destroy", "boot", "extend", "resume", "health", "pause"}

Open == row.started # None /\ Or(row.expires, now + 1) > now

\* The provider pauses what has reached its deadline.  What a call did is written within the tick.
Tick ==
  /\ now < MaxTime
  /\ op.pc \notin Records
  /\ now' = now + 1
  /\ box' = [b \in Boxes |-> IF box[b].state = "running" /\ box[b].deadline <= now + 1
                               THEN Asleep(box[b]) ELSE box[b]]
  /\ ran' = IF Running \/ (faults > 0 /\ Open) THEN ran + 1 ELSE ran
  /\ UNCHANGED <<row, job, failing, op, editor, bounds, lost, astray>>

Fault == faults < MaxFaults /\ faults' = faults + 1

\* A call that throws without an effect, or one whose effect is never recorded.
CallFails ==
  /\ op.pc \in Calls \cup Records
  /\ Fault
  /\ Throw
  /\ orphans' = IF op.pc = "record" THEN orphans \cup {op.box} ELSE orphans
  /\ UNCHANGED halfway
  /\ UNCHANGED <<now, row, box, editor, asked, meter>>

\* The worker dies; its job is found stalled and put back, its lock stays until it expires.
Crash ==
  /\ op.pc \notin {"free", "dead"}
  /\ Fault
  /\ op' = [Free EXCEPT !.pc = "dead"]
  /\ job' = IF op.who \in Kinds THEN [job EXCEPT ![op.who].state = "waiting"] ELSE job
  /\ orphans' = IF op.pc = "record" THEN orphans \cup {op.box} ELSE orphans
  /\ UNCHANGED halfway
  /\ UNCHANGED <<now, row, box, failing, editor, asked, meter>>

Expire ==
  /\ op.pc = "dead"
  /\ op' = Free
  /\ UNCHANGED <<now, row, box, job, failing, editor, bounds, lost, meter>>

\* The dev server dies, or the provider loses the sandbox.
Break ==
  /\ Fault
  /\ \E b \in Boxes :
       /\ box[b].state # "gone"
       /\ \/ box[b].up /\ SetBox(b, [box[b] EXCEPT !.up = FALSE])
          \/ SetBox(b, Gone)
  /\ UNCHANGED <<now, row, job, failing, op, editor, asked, lost, meter>>

\* The holder of the lock goes on.
Proceed ==
  \/ Flush \/ Destroy \/ RecordStop
  \/ Create \/ Boot \/ RecordCreated \/ BootstrapBox \/ Extend \/ RecordExtended
  \/ Resume \/ RecordResumed \/ Health \/ Recover \/ Restart \/ RecordRestarted \/ MarkRunning
  \/ FlushBeforePause \/ Pause \/ RecordPause

Next ==
  \/ \E k \in Kinds : Take(k) \/ MarkFailed(k)
  \/ Proceed \/ Sweep
  \/ Heartbeat \/ OpenEditor \/ CloseEditor \/ Wake \/ LeaveUnpushed
  \/ \E k \in {"restart", "rebuild"} : Request(k)
  \/ Tick \/ CallFails \/ Crash \/ Expire \/ Break

Spec == Init /\ [][Next]_vars

\* Processes go on, the sweep and put-back jobs come back, Redis expires locks, an open editor beats.
FairSpec ==
  /\ Spec
  /\ WF_vars(Proceed) /\ WF_vars(Expire) /\ WF_vars(Heartbeat)
  /\ SF_vars(Sweep)
  /\ SF_vars(\E k \in Kinds : Take(k)) /\ WF_vars(\E k \in Kinds : MarkFailed(k))

-----------------------------------------------------------------------------
(* Properties *)

TypeOK ==
  /\ now \in 0..MaxTime /\ editor \in BOOLEAN
  /\ row \in [status : {"starting", "running", "paused", "destroyed", "unhealthy"},
              ext : Boxes \cup {None}, token : BOOLEAN,
              started : Nat \cup {None}, expires : Nat \cup {None}, paused : Nat \cup {None},
              accessed : Nat, updated : Nat, pending : BOOLEAN, seconds : Nat]
  /\ box \in [Boxes -> [state : {"gone", "running", "paused"}, started : Nat, deadline : Nat,
                        ready : BOOLEAN, up : BOOLEAN, unpushed : BOOLEAN]]
  /\ job \in [Kinds -> [state : {"none", "waiting", "active"}, failed : Nat]]
  /\ failing \subseteq Kinds
  /\ row.status \in {"running", "paused"} => row.ext # None

\* billedSeconds and everyone who adds it up: no second is billed twice, and none that the sandbox did
\* not run or that a fault left open in the row - unless, after a fault, a stretch that the provider had
\* ended was extended (astray): then the time the sandbox slept in between is billed as well.
BilledIsRun ==
  /\ row.seconds + Billed(row, now) <= IF astray THEN now ELSE ran
  /\ astray => faults > 0

\* docs/DEVELOPMENT_PHASES.md:512: "Metering is per second (seconds_used), capped at E2B's deadline when
\* E2B paused the sandbox first" - whatever failed, the bill is never longer than the sandbox ran or its
\* row had a stretch open.
MeteringIsCapped == row.seconds + Billed(row, now) <= ran

\* create, "recorded before bootstrapping": what runs at the provider is in the row, or is about to
\* be written there, or its creator died before it could.
NothingLeaks ==
  \A b \in Boxes : box[b].state = "running" =>
    row.ext = b \/ (op.pc = "record" /\ op.box = b) \/ b \in orphans

\* recover, resume, ensureLoaded: a running row whose handler is done has a workspace whose start was
\* completed ("its workspace cannot be trusted"), unless the provider had put an interrupted start to
\* sleep: resume writes running for it, and its health is looked at only afterwards.
RunningIsComplete ==
  op = Free /\ row.status = "running" /\ Running => box[row.ext].ready \/ halfway

\* flushBeforeDestroy: a sandbox is not destroyed while it holds the only copy of a commit.
UnpushedIsKept ==
  [][\A b \in Boxes : op.pc = "destroy" /\ op'.pc = "stopped" /\ box[b].unpushed => box'[b].unpushed]_vars

Waits == editor
Served == ~editor \/ (row.status = "running" /\ Running)

\* open and its heartbeat: an editor that stays open gets a preview that runs.
EditorGetsPreview == Waits ~> Served

=============================================================================
