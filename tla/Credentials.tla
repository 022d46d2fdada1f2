----------------------------- MODULE Credentials -----------------------------
(***************************************************************************)
(* The keys of one integration: how the api verifies, seals and stores     *)
(* them, and how CredentialSync brings the current set to the two places   *)
(* code runs, the preview's .env.local and the project's variables at      *)
(* Vercel.                                                                 *)
(*                                                                         *)
(* The api takes no lock.  Sync jobs, publishes (prepare) and the sandbox  *)
(* lifecycle run under the portfolio's lock, one at a time; between two    *)
(* calls of its holder anything else can happen.  A value's ciphertext is  *)
(* the value, and whether the vault still has the key that sealed it.      *)
(***************************************************************************)
EXTENDS Naturals, FiniteSets

CONSTANTS
  Keys, Required,   \* the secrets of the integration's manifest
  Values, None,
  Jobs,             \* sync jobs, each with an id of its own; as many as MaxChanges
  Attempts,         \* SYNC_CREDENTIALS_JOB_OPTIONS
  MaxChanges,       \* requests that store or delete (bound)
  MaxFaults         \* failed calls, deaths of the api, retired vault keys (bound)

VARIABLES
  cred,      \* the credentials table; None where there is no row
  request,   \* the api: the request under way
  job,
  lock,      \* what the lock's holder is doing
  project,   \* the portfolio's vercelProjectId is set
  vars,      \* the Plinth-managed variables of the project
  own,       \* a variable the user added to the project
  box,       \* the preview: its state, the row's idea of it, .env.local, and what the dev server read
  changes, faults,
  lost,      \* history: a change whose sync never came, or a publish that failed half way
  missed     \* history: a sync that could not reach the preview, or left its dev server as it was

state == <<cred, request, job, lock, project, vars, own, box, changes, faults, lost, missed>>

Env  == [Keys -> Values \cup {None}]
Empty == [k \in Keys |-> None]
NoCred == [value |-> None, synced |-> FALSE, opens |-> TRUE]
NoBox == [state |-> "none", row |-> "none", file |-> Empty, loaded |-> Empty]
Free  == [who |-> None, pc |-> "free", env |-> Empty, todo |-> {}]
Rest  == [pc |-> "idle", gives |-> Empty]

Init ==
  /\ cred = [k \in Keys |-> NoCred]
  /\ request = Rest
  /\ job = [j \in Jobs |-> [state |-> "none", failed |-> 0]]
  /\ lock = Free
  /\ project = FALSE /\ vars = Empty /\ own = TRUE
  /\ box = NoBox
  /\ changes = 0 /\ faults = 0 /\ lost = FALSE /\ missed = FALSE

Fault == faults < MaxFaults /\ faults' = faults + 1

Stored(k) == cred[k].value # None

\* forPortfolio: the rows that can be opened
Opened == [k \in Keys |-> IF cred[k].opens THEN cred[k].value ELSE None]

-----------------------------------------------------------------------------
(* The api *)

\* connect, up to the checks: at least one key is given, and a required one is given or stored.
Connect(gives) ==
  /\ request = Rest /\ changes < MaxChanges
  /\ \E k \in Keys : gives[k] # None
  /\ \A k \in Required : gives[k] # None \/ Stored(k)
  /\ request' = [pc |-> "verify", gives |-> gives]
  /\ UNCHANGED <<cred, job, lock, project, vars, own, box, changes, faults, lost, missed>>

\* verifySecret: one key that the provider refuses, or cannot be asked about, refuses them all.
Verify ==
  /\ request.pc = "verify"
  /\ request' \in {Rest, [request EXCEPT !.pc = "store"]}
  /\ UNCHANGED <<cred, job, lock, project, vars, own, box, changes, faults, lost, missed>>

\* Mutant: the mark of an earlier sync stays on a new value, and no sync is queued for it.
StoreUnscheduled ==
  /\ request.pc = "store"
  /\ changes' = changes + 1
  /\ cred' = [k \in Keys |-> IF request.gives[k] = None THEN cred[k]
                             ELSE [value |-> request.gives[k], synced |-> cred[k].synced, opens |-> TRUE]]
  /\ request' = IF \E k \in Keys : cred[k].synced THEN Rest ELSE [Rest EXCEPT !.pc = "schedule"]
  /\ UNCHANGED <<job, lock, project, vars, own, box, faults, lost, missed>>

\* One transaction; what was left blank is kept.
Store ==
  /\ request.pc = "store"
  /\ changes' = changes + 1
  /\ cred' = [k \in Keys |-> IF request.gives[k] = None THEN cred[k]
                             ELSE [value |-> request.gives[k], synced |-> FALSE, opens |-> TRUE]]
  /\ request' = [Rest EXCEPT !.pc = "schedule"]
  /\ UNCHANGED <<job, lock, project, vars, own, box, faults, lost, missed>>

Disconnect ==
  /\ request = Rest
  /\ changes < MaxChanges /\ changes' = changes + 1
  /\ \E k \in Keys : Stored(k)
  /\ cred' = [k \in Keys |-> NoCred]
  /\ request' = [Rest EXCEPT !.pc = "schedule"]
  /\ UNCHANGED <<job, lock, project, vars, own, box, faults, lost, missed>>

\* scheduleSync: each request queues a job of its own.
Schedule ==
  /\ request.pc = "schedule"
  /\ \E j \in Jobs : job[j].state = "none" /\ job' = [job EXCEPT ![j] = [state |-> "waiting", failed |-> 0]]
  /\ request' = Rest
  /\ UNCHANGED <<cred, lock, project, vars, own, box, changes, faults, lost, missed>>

ApiDies ==
  /\ request.pc = "schedule"
  /\ Fault
  /\ request' = Rest
  /\ lost' = TRUE
  /\ UNCHANGED <<cred, job, lock, project, vars, own, box, changes, missed>>

\* CREDENTIALS_KEYS no longer has the key that sealed a value.
RetireKey(k) ==
  /\ Stored(k) /\ cred[k].opens
  /\ Fault
  /\ cred' = [cred EXCEPT ![k].opens = FALSE]
  /\ UNCHANGED <<request, job, lock, project, vars, own, box, changes, lost, missed>>

-----------------------------------------------------------------------------
(* CredentialSync, under the lock *)

Goto(pc) == lock' = [lock EXCEPT !.pc = pc]
EndJob(s) == job' = IF lock.who \in Jobs THEN [job EXCEPT ![lock.who] = s] ELSE job

\* The handler returns, or throws: then a job is tried again, and a publish is over.
Return == lock' = Free /\ EndJob([state |-> "none", failed |-> 0]) /\ UNCHANGED lost
Throw ==
  /\ lock' = Free
  /\ LET again == lock.who \in Jobs /\ job[lock.who].failed + 1 < Attempts IN
     /\ EndJob(IF again THEN [state |-> "waiting", failed |-> job[lock.who].failed + 1]
                        ELSE [state |-> "none", failed |-> 0])
     /\ lost' = (lost \/ (~again /\ lock.who # "lifecycle"))

\* sync: everything is opened first.
Sync(j) ==
  /\ lock = Free
  /\ job[j].state = "waiting"
  /\ job' = [job EXCEPT ![j].state = "active"]
  /\ lock' = [Free EXCEPT !.who = j, !.pc = "sandbox", !.env = Opened]
  /\ UNCHANGED <<cred, request, project, vars, own, box, changes, faults, lost, missed>>

\* syncSandbox: a preview that is not running is left as it is.
WriteEnv ==
  /\ lock.pc = "sandbox"
  /\ IF box.row = "running" /\ box.state = "running"
       THEN /\ box' = [box EXCEPT !.file = lock.env]
            /\ Goto(IF box.file = lock.env THEN "project" ELSE "restart")
            /\ UNCHANGED missed
       ELSE /\ Goto("project")
            /\ missed' = (missed \/ box.state # "none")
            /\ UNCHANGED box
  /\ UNCHANGED <<cred, request, job, project, vars, own, changes, faults, lost>>

RestartServer ==
  /\ lock.pc = "restart"
  /\ IF box.state = "running" THEN box' = [box EXCEPT !.loaded = box.file] /\ UNCHANGED missed
                              ELSE missed' = TRUE /\ UNCHANGED box
  /\ Goto("project")
  /\ UNCHANGED <<cred, request, job, project, vars, own, changes, faults, lost>>

\* syncProduction, once there is a project
Production ==
  /\ lock.pc = "project"
  /\ IF project THEN Goto("delete") /\ UNCHANGED <<job, lost>> ELSE Return
  /\ UNCHANGED <<cred, request, project, vars, own, box, changes, faults, missed>>

\* Mutant: the user's own variables are deleted too.
DeleteEverything ==
  /\ lock.pc = "delete"
  /\ vars' = [k \in Keys |-> IF lock.env[k] = None THEN None ELSE vars[k]]
  /\ own' = FALSE
  /\ lock' = [lock EXCEPT !.pc = "upsert", !.todo = {x \in Keys : lock.env[x] # None}]
  /\ UNCHANGED <<cred, request, job, project, box, changes, faults, lost, missed>>

\* managedNames: what the catalogue's integrations declare.  No other variable is touched.
Managed == Keys

\* Managed variables that are no longer in the set are deleted, one call each.
DeleteStale ==
  LET stale == {k \in Managed : vars[k] # None /\ lock.env[k] = None} IN
  /\ lock.pc = "delete"
  /\ IF stale # {}
       THEN \E k \in stale : vars' = [vars EXCEPT ![k] = None] /\ UNCHANGED lock
       ELSE /\ lock' = [lock EXCEPT !.pc = "upsert", !.todo = {x \in Keys : lock.env[x] # None}]
            /\ UNCHANGED vars
  /\ UNCHANGED <<cred, request, job, project, own, box, changes, faults, lost, missed>>

Upsert ==
  /\ lock.pc = "upsert"
  /\ IF lock.todo # {}
       THEN \E k \in lock.todo :
              /\ vars' = [vars EXCEPT ![k] = lock.env[k]]
              /\ lock' = [lock EXCEPT !.todo = @ \ {k}]
       ELSE Goto("mark") /\ UNCHANGED vars
  /\ UNCHANGED <<cred, request, job, project, own, box, changes, faults, lost, missed>>

\* Every row of the portfolio is marked, also one that was stored since, or could not be opened.
Mark ==
  /\ lock.pc = "mark"
  /\ cred' = [k \in Keys |-> [cred[k] EXCEPT !.synced = Stored(k)]]
  /\ Return
  /\ UNCHANGED <<request, project, vars, own, box, changes, faults, missed>>

\* prepare: the project is created and recorded, and gets the current set.
PreparePublish ==
  /\ lock = Free
  /\ lock' = [Free EXCEPT !.who = "publish", !.pc = "delete", !.env = Opened]
  /\ project' = TRUE
  /\ UNCHANGED <<cred, request, job, vars, own, box, changes, faults, lost, missed>>

\* A call of the sync fails; what it wrote stays, and a file that is up to date restarts nothing.
CallFails ==
  /\ lock.pc \in {"sandbox", "restart", "delete", "upsert", "mark"}
  /\ Fault
  /\ Throw
  /\ \/ lock.pc = "sandbox" /\ box.state = "running"
        /\ box' = [box EXCEPT !.file = lock.env] /\ missed' = TRUE
     \/ missed' = (missed \/ lock.pc = "restart") /\ UNCHANGED box
  /\ UNCHANGED <<cred, request, project, vars, own, changes>>

-----------------------------------------------------------------------------
(* The preview *)

\* create: the set is read when the sandbox is about to be bootstrapped with it.
StartBox ==
  /\ lock = Free /\ box.state = "none"
  /\ lock' = [Free EXCEPT !.who = "lifecycle", !.pc = "bootstrap", !.env = Opened]
  /\ UNCHANGED <<cred, request, job, project, vars, own, box, changes, faults, lost, missed>>

Bootstrap ==
  /\ lock.pc = "bootstrap"
  /\ box' = [state |-> "running", row |-> "running", file |-> lock.env, loaded |-> lock.env]
  /\ lock' = Free
  /\ missed' = FALSE
  /\ UNCHANGED <<cred, request, job, project, vars, own, changes, faults, lost>>

\* pause, by the sweep or, without the row knowing, at the provider's deadline
PauseBox ==
  /\ box.state = "running"
  /\ box' = [box EXCEPT !.state = "paused", !.row = IF lock = Free THEN "paused" ELSE "running"]
  /\ UNCHANGED <<cred, request, job, lock, project, vars, own, changes, faults, lost, missed>>

\* resume: the snapshot wakes as it was.
ResumeBox ==
  /\ lock = Free /\ box.state = "paused"
  /\ box' = [box EXCEPT !.state = "running", !.row = "running"]
  /\ UNCHANGED <<cred, request, job, lock, project, vars, own, changes, faults, lost, missed>>

DestroyBox ==
  /\ lock = Free /\ box.state # "none"
  /\ box' = NoBox
  /\ UNCHANGED <<cred, request, job, lock, project, vars, own, changes, faults, lost, missed>>

Api      == (\E gives \in Env : Connect(gives)) \/ Verify \/ Store \/ Disconnect \/ Schedule
SyncStep == WriteEnv \/ RestartServer \/ Production \/ DeleteStale \/ Upsert \/ Mark

Next ==
  \/ Api \/ ApiDies \/ (\E k \in Keys : RetireKey(k))
  \/ (\E j \in Jobs : Sync(j)) \/ SyncStep \/ PreparePublish \/ CallFails
  \/ StartBox \/ Bootstrap \/ PauseBox \/ ResumeBox \/ DestroyBox

Spec == Init /\ [][Next]_state

-----------------------------------------------------------------------------
(* Properties *)

TypeOK ==
  /\ \A k \in Keys : cred[k].value \in Values \cup {None} /\ (cred[k].synced => Stored(k))
  /\ vars \in Env /\ box.file \in Env /\ box.loaded \in Env
  /\ Cardinality({j \in Jobs : job[j].state = "active"}) = IF lock.who \in Jobs THEN 1 ELSE 0

Settled == request.pc \notin {"schedule"} /\ lock = Free /\ \A j \in Jobs : job[j].state = "none"

\* syncProduction, scheduleSync: when every sync that was asked for is done, production has exactly
\* the stored set, its owner's own variables, and every key that is listed as synced is there.
ProductionFollows ==
  /\ own
  /\ project /\ Settled /\ ~lost =>
       \A k \in Keys : cred[k].opens => vars[k] = cred[k].value

\* syncSandbox, create: then the preview's server runs with the stored set too, unless a sync found
\* the preview asleep or could not restart its server: a preview that was asleep keeps its old keys when it wakes.
PreviewFollows ==
  Settled /\ ~lost /\ ~missed /\ box.state = "running" =>
    \A k \in Keys : cred[k].opens => box.loaded[k] = cred[k].value

KeysFollow == ProductionFollows /\ PreviewFollows

=============================================================================
