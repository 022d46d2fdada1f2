# Plinth, verified: TLA+ models of the platform

Plinth hosts portfolios.  Each portfolio is a GitHub repository with two branches: `draft`, which the
owner edits through a live preview running in a sandbox at a provider (E2B), and `main`, which the host
(Vercel) deploys.  Everything that changes a portfolio's code goes through the *safety net* of
`backend/src/operations`: a change is staged in a git worktree, formatted, checked, committed, merged
into the live tree, pushed to `draft`, and undone if the page stops rendering.

This directory holds TLA+ models of that code, the TLC runs that check them on small instances, and
proofs checked by TLAPS.  Paths below are relative to `src/backend/src/` unless they begin with `admin/`,
`packages/` or `docs/`, which stand in `src/`.

## 1. Inventory

The backend is one NestJS program run in two roles, api and worker, over Postgres (Prisma) and Redis
(BullMQ queues, a lock per portfolio, pub/sub).  The admin application is a web client of the api;
its pages keep state of their own over answers that come late, twice, in another order or never.

| Component | State | Operations | What makes it correct |
|---|---|---|---|
| **Operations** `operations/` | `operations` rows (status, type, error), `sandboxes.pending_push`, BullMQ jobs | `enqueue`, `submitPublish`, the processor (`process`, `push`, `failQueued`), `OperationRunner` (`drain`, `run`, `publish`, `recoverInterrupted`), `GitSync`, follow-ups | one operation at a time, in order; only checked changes reach the preview, `draft`, `main`; nothing applied is lost; every operation ends; the record says what happened |
| **Workspace** `operations/git-scripts.ts` | live tree, staging worktree, `origin/draft`; `draft` and `main` on GitHub | shell scripts | never forced; a revert undoes the change it names; a half-done script is noticed |
| **Lock** `sandbox/sandbox-locks.ts` | one Redis key with a time to live | `run` | at most one holder; only the holder releases |
| **Sandbox lifecycle** `sandbox/` | `sandboxes` row, the provider's sandbox, billed seconds | `ensure`, `restart`, `rebuild`, `sweep`, `markFailed`, `PreviewService.open` | the row and the provider agree in the end; unpushed work is never destroyed; each second is billed once; no sandbox leaks |
| **Provisioning** `provisioning/` | `portfolios` rows, the repository | `create`, `retry`, `provision`, `fail`, recovery every few minutes | one portfolio per free user; every portfolio becomes ready or failed; a ready one's repository is never deleted |
| **Razorpay, promo codes** `billing/` | `payment_orders`, `users.plan*` | `createOrder`, `verify`, `handleWebhook`, `applyPayment`, `findUsable` | an order extends the plan exactly once; a promo code is used no more than allowed |
| **Stripe** `billing/billing.service.ts` | `users.plan*`, `billing_events` | `checkout`, `confirm`, `handleWebhook` | the plan follows the latest subscription whatever the order of events |
| **Deployment tracking** `hosting/` | `deployments`, Vercel's deployments | `prepare`, `track`, `giveUp` | one production deployment per publish; every row reaches an end |
| **Credentials** `credentials/` | `credentials` (encrypted), `.env.local`, Vercel variables | `save`, `remove`, `sync` | after the last sync every copy is the current set |
| **Integrations** `operations/integrations.service.ts`, `integration-planner.ts`, `packages/codemod` | `installed_integrations`, the code's slots | install, uninstall, move | the rows and the code agree |
| **Copilot, AI** `copilot/`, `ai/` | messages, tokens used | `send`, `plan`, `repair`, provider fallback | allowance, one request at a time, a repair is tried once |
| **Onboarding** `onboarding/` | the first operation | `queueFor` | personalised once |
| **Preview** `preview/` | session labels in Redis | `open`, `current`, `resolve`, the proxy | a label works while its owner's editor is open |
| **Events** `events/` | subscriptions | `publish`, `stream` | best effort; nothing depends on it |
| **Accounts, legal** `auth/`, `legal/`, `admin/` | `users`, the session, two cookies of a GitHub sign-in | register, confirm, sign in, accept, suspend | consent is recorded only when it was given; an admin remains |
| **Workspace reading** `workspace/` | nothing of its own: a job per read | `tree`, `file`, `slots`, `check` | what is shown under a path is that file |
| **Admin web app** `admin/` | what each page was told, requests under way, the browser's storage | polls, clicks, answers in any order | a page at rest shows what is so, tells how it ended, loses no text |
| GitHub client, metrics, alerts, takedown notices | | reads, writes and forwarding | |

**How they interact.**  The api writes an operation's row and adds a job.  A worker's job takes the
portfolio's lock and drains every queued operation into the sandbox named by the sandbox row.  The
lifecycle (jobs of a second queue, and a sweep every minute) takes the same lock to start, pause and
destroy that sandbox, and calls back `GitSync.flush` before destroying it.  A failed push leaves
`pending_push` and a retry job.  A publish ends by creating a deployment row that a tracking job follows.
A copilot operation may queue further operations.  Nothing of this waits for the lock: who finds it
taken comes back seconds later.

**What is hard.**  Several workers and the sweep over one sandbox; a worker that dies between any two
awaits; calls to the sandbox that time out after they took effect; a provider that pauses or loses the
sandbox by itself; GitHub refusing pushes, or being pushed to by others; a lock that expires on its own
clock; jobs retried, stalled and dropped; pages in several tabs whose answers cross, over a database that
others write between two statements of a request.  `PROJECT.json` lists each hazard at its line.

## 2. Plan

The order was: what can lose or corrupt a person's work first, then money, then machines, then what a person
is told.  All of it is written.

1. **`Workspace`**, **`OperationRunner`**, **`SafetyNet`** and **`MCOperationRunner`**: the safety net, and what it
   promises.  Proofs in **`OperationRunnerProofs`**.
2. **`Billing`**, **`MCBilling`**: passes and subscriptions over one user row.  Proofs in **`BillingProofs`**.
3. **`SandboxLifecycle`**, **`Provisioning`**, **`Hosting`**, **`Previews`**: the services that keep a portfolio's
   machines, run by **`MCServices`**.  Proofs in **`LifecycleProofs`** and, for the other three, **`ServicesProofs`**.
4. **`Credentials`**, **`Integrations`**, **`Codemod`**, **`Copilot`**, **`LiveTree`**: what else writes a portfolio's code,
   keys and budget.
5. **`Accounts`**, **`Desk`**, **`Checkout`**, **`PlanPage`**, **`Editor`**, **`Chat`**, **`InstallForm`**, **`Wishes`**,
   **`CodeReader`**, **`Welcome`**, **`PublishPages`**, **`SidePanels`**: a page and the part of the api behind it.  Groups
   4 and 5 are run by **`MCProduct`**.  Proofs in **`CopilotProofs`**, **`ProductProofs`** (accounts, payments, code,
   keys), **`PagesProofs`** (the pages around the editor) and **`EditorProofs`** (the editor, the chat, onboarding,
   publishing, and what follows for the run).

`MCServices` and `MCProduct` give names to the parameters of their components and leave their values to the `.cfg`, so that
what the run checks of an instance is what the theorems say of every value.  Not proved are liveness, and the two parts
of `product` named in section 8 under "Only model-checked".

## 3. The model of the safety net

### Workspace

A branch is the sequence of commits made since the template: a commit is who made it, whether it is the
operation's change or its revert, and whether the recorded tree passes `plinth check` and `tsc`
(`good`).  That is what the code's decisions and the properties tell apart; contents, messages and SHAs
are not modelled (packages and the single commands of a script are, in `LiveTree`), except that the `Operation-Id` trailer is what recovery greps for (`Mentions`).

| Variable | Code |
|---|---|
| `live`, `dirty` | HEAD and the uncommitted files of the live tree (`WORKSPACE_DIR`) |
| `tracking` | `origin/draft` as the sandbox has it |
| `staging` | the worktree and its branch `plinth/op-<id>` |
| `draft`, `main` | the branches on GitHub |

Each operator is the effect of one script.  `CommitAndMerge` / `CommitOnly` are the two ends of
`applyScript`; `LeaveDirty` is `link_dependencies` cut short with another revision's manifest in place.

### OperationRunner

One action is the code between two points where another process or a crash can come: a database write,
a call into the sandbox, a lock operation.  A worker's program counter `pc` names the next one;
`run[w]` holds the locals of `run()`/`publish()` (the operation, whether a repair was tried, whether the
commit was reported, the head a publish checked, and where `push()` returns to).

| Actions | Code |
|---|---|
| `Submit`, `AddJob`, `ApiDies` | `OperationsService.enqueue`: the row, then the job |
| `TakeJob`, `TakePushJob`, `Ensure*`, `FailQueued`, `PushJob` | `OperationsProcessor` |
| `Drain`, `Recover`, `Recovered`, `NextOperation`, `Drained`, `NotRunning` | `drain`, `recoverInterrupted` |
| `Stage`, `Plan`, `Prepare`, `Check`, `Apply`, `Health`, `RevertChange`, `Undone`, `Record`, `Finish`, `Noop`, `Reject`, `Fail`, `FollowUps`, `AddFollowUp` | `run`, step by step |
| `PublishStatus`, `Build`, `ReleaseMain`, `Deploy`, `Published` | `publish` |
| `Push`, `Pushed`, `Refused`, `Schedule` | `GitSync.push`, `pushOrSchedule` |
| `Crash`, `Expire`, `Lapse` | a worker's death, Redis expiring its lock, the time to live ending under a live holder |
| `Visit`, `Pause`, `Reconcile`, `Stop` | the lifecycle's handlers |
| `Sleep`, `Vanish`, `ForeignPush` | the provider and GitHub |

Every call into the sandbox *answers*, *throws* with no effect (always, when the sandbox is not running
or has been replaced: `attached`), or *loses* its answer after taking effect.  An exception other than
Plinth's own makes `Fail` tell the owner that nothing changed (`denied`), as `describeFailure` does.

The three *history* variables `built`, `settled`, `vanished` are read by no guard; they let properties speak
of the past.

Abstractions, each deliberate:

* Postgres and Redis calls succeed unless the process dies.
* A portfolio is `ready` and hosting is configured, so `ensure` is never "skipped".
* `ensure`, `stop` and the sweep's handlers are one step each under the lock: the row's `starting`
  state, the recovery ladder and billing are in `SandboxLifecycle`.  Rotation has no net
  effect on this state.  `EnsureFails` is the outcome "failed", `EnsureThrows` an exception.
* `install`, `uninstall` and `move` are one type, `integration`; what they and the copilot plan is a
  nondeterministic choice of a change (good or bad), a no-op or a rejection.
* A copilot operation queues at most one follow-up.
* The push retry's attempts are not counted: when it fails it may or may not have one left.
* `submitPublish`'s check for a queued publish is left out: two requests can both pass it before either
  creates its row, so it excludes nothing.
* A dead worker's in-memory calls do not go on inside the sandbox.  In fact a script may run for a
  moment after its worker died; the lock of a dead worker outlives that by minutes.

### SafetyNet

The abstract specification: operations go unborn, waiting, working, done, one working at a time; the
preview grows by the checked change of the working operation, once, or by undoing exactly the last
change; `draft` is only ever set to the preview, never forced; the site is a prefix of `draft`; the
preview may be thrown away and start again from `draft`.  `OperationRunner!Net` maps `preview <- live`,
`saved <- draft`, `site <- main` and each status to its phase.  Retries, recoveries, lost answers and
rebuilds are stutters or steps of the promise.

## 4. The model of billing

An account is on Pro through a Razorpay *pass* (one payment for some days) or a Stripe *subscription*.
`Billing` is one account: three services read and write the same fields of its row, each in a statement
of its own, and `planRenewsAt`, `plan` and `subscriptionStatus` are whatever the last of them wrote.  A fourth
writer is the admin desk, which sets `plan` and leaves the rest as it is.

| Variable | Code |
|---|---|
| `user` | `plan`, `payment_provider`, `plan_renews_at`, `stripe_subscription_id`, `subscription_status` of the user row |
| `orders` | `payment_orders`: status and days |
| `recorded` | `billing_events` |
| `requests` | each request in flight: the statement it does next, and what it has read |
| `paid`, `due` | Razorpay: what was paid, and the webhooks it still owes an answer for |
| `stripe`, `events` | Stripe: its subscriptions, and the events it sent, delivered in any order |
| `claimed`, `granted`, `reopened`, `applied`, `broken`, `byHand` | history, read by no action: how often each order was claimed, written to the user, and failed after it was settled; what reached the row or was superseded; the orders that a fault caught between claim and row; whether the plan is an admin's |

| Actions | Code |
|---|---|
| `CreateOrder`, `Verify`, `RejectVerification`, `Webhook` | `RazorpayService.createOrder`, `verify`, `handleWebhook` |
| `Claim`, `ReadUser`, `WriteUser` | the three statements of `applyPayment` |
| `ReadSession`, `ExpirePlan` | `AuthService.userFromSession` ending an expired pass |
| `OpenCheckout`, `Confirm`, `ReadEvent`, `UpdateUser`, `RecordEvent` | `BillingService.checkout`, `confirm`, `handleWebhook`, `applySubscription` |
| `SetPlan` | `AdminUsersController.setPlan` |
| `StatementFails`, `Crash` | a statement that rejects, and its request with it; a restart of the backend |
| `Pay`, `Subscribe`, `ChangeSubscription`, `Tick` | Razorpay, Stripe, the clock |

A step reads one thing that another request can change, or writes one.  What is read with it and never
changes (an order's owner and days) is not a step of its own.  A request that finds nothing to do and
writes nothing is left out.  A payment gives the browser a signature only when it is in full: Razorpay's
modal does not collect less; a webhook may still report less, and then the code compares the amounts.

What the code lets happen to an order, the properties say and do not hide.  A statement that fails after the claim
loses the days just as a restart does: the redelivered webhook finds the order settled, and is answered.
`OnlyAFaultLosesAGrant` excepts the orders that such a fault caught (`broken`), and only those.  And a verification
whose signature does not match writes *failed* over whatever the order was (`razorpay.service.ts:146-147`); a settled
order can then be claimed, and its days given, again, against "Settle an order exactly once" (`:198`) and what `:134-135`
says of it.  `SettledOnce` and `TimeIsPaidFor` allow one more claim, and the order's days once more, for each time that
happened (`reopened`); what bounds the end of the plan is otherwise what was paid in full, not what was claimed.
`PlanMatchesStatus` excepts a plan set by hand, until one of the services writes again.

Left out: prices, currencies and promo codes (a refused code is an order not created), the Stripe
customer, `planCancelsAtPeriodEnd`, a deleted user, and signatures as data.

## 5. The services: MCServices

`MCServices` runs four components, each on its own: `which` names the one that runs, and `v1` to `v13` hold its
variables, so that one run explores the behaviours of each (`SandboxLifecycle`'s variables are its own).  The
components do not share state here; what one needs of another is an action of its model, and the combination that
matters most, sandboxes under concurrent operations, is `OperationRunner`.

| Module | Code | State | Actions |
|---|---|---|---|
| `SandboxLifecycle` | `sandbox/`, `preview/preview.service.ts` | the `sandboxes` row; the provider's sandboxes with their own deadlines; a job per kind with its attempts; `op`, what the lock's holder does next | `ensure` with its recovery ladder, `restart`, `rebuild`, the sweep's pause, destroy, rotate and reconcile, `flushBeforeDestroy`, `markFailed`; a call that fails, takes effect without an answer, or whose process dies; a dev server that dies, a sandbox that is lost; heartbeats |
| `Provisioning` | `provisioning/`, `onboarding/`, `admin/app/onboarding/page.tsx` | `portfolios` row, the repository on GitHub, the job, each worker's step | `create`, `retry`, the job step by step, `fail` with the repository it deletes, recovery, the first change, the page that asks for the preview; a second worker that takes over from one that stalls and goes on |
| `Hosting` | `hosting/`, the end of `publish`, `usePublish` | deployment rows, Vercel's project and builds, tracking jobs, what the editor shows | `prepare`, `track` (grace, timeout, attempts), `giveUp`; Vercel's own build of each push |
| `Previews` | `preview/`, `usePreview.ts`, `PreviewFrame.tsx` | links in Redis with their lives, the proxy's cache, the frame | `open`, `current`, `resolve`, the proxy's answers (site, holding page, expired link, bad gateway), a second window of the owner, the provider's own pauses |

History variables excuse what the code does not claim: `orphans` (a creator that died before it could record its
sandbox), `halfway` (a start that was interrupted, put to sleep by the provider and then resumed as if finished),
`ran` (what billing is compared with), `astray` (a stretch was extended that the provider had ended: a call failed
between ending it and the row), `stalled`, `excused`.  `BilledIsRun` sums what the row holds and what it would
add now, against the time the provider ran that row's sandboxes, or, once `astray`, against all the time there was:
a stretch is then billed that nothing ran (`finding_sleep_is_billed`), but still none twice.

**Bounds of `services`.**  Lifecycle: 2 sandboxes (an old and a new one, as rotation and rebuild need), a clock of
0 to 2 with the idle pause after 1 and rotation after 2, one fault, one request, two attempts; with two faults and the
same constants it was run on its own (1.1 million states) and holds too; the fault that makes `astray` needs a longer
clock, which `finding_sleep_is_billed` has and the proof does not need.  Provisioning: two workers (a stalled one and
its successor), 3 faults, one retry.  Hosting: one commit, two builds (Vercel's and the tracker's), two workers, one
fault, a clock of 3 for a grace of 1 and a timeout of 2.  Previews: one editor beside the owner's other window, two
links, one sleep, one lost event.

**Fairness** (`FairServices`).  Weak fairness of a process's own next step, of an added job, of Redis's expiry, of the
heartbeats and polls of an open page, of the worker that ends a job; strong fairness of the sweep, of taking a waiting
job and of the proxy's answer to a frame that asks, because each needs something that is free again and again
(the lock, a worker, a moment at which the sandbox runs) and each is repeated by a timer in the code.  Faults, users,
admins and GitHub's revocations have none.  As `which` never changes, fairness of a disjunction with one step of each
component is fairness of each of those steps.

## 6. The product: MCProduct

The same harness for seventeen components, none of which needs fairness: their properties say what holds at rest, that
is, when no answer is awaited.

| Module | Code | What it models | Bounds (in `product.cfg`; `Codemod`'s in `MCProduct`) |
|---|---|---|---|
| `Copilot` | `copilot/`, `ai/` | admission (length, the tokens of a day and of a month, busy, message, operation as separate statements), the registry and what `AI_MODELS` changes of it, the walk over models and vendors with its limit on calls and its errors, the reply and the repair with what they cost, rows that get older than a window | 2 tabs, 3 messages, one model that `AI_MODELS` adds, limits of 1 a day and 3 a month, a death or a failed write |
| `Accounts` | `auth/`, `admin/app/accept-terms`, `admin/app/start`, `AuthForms.tsx` | two accounts of one person, sign-up and its link, GitHub's round trip with two cookies, deployments that change the Terms, suspension | 2 tabs, 2 versions, one switch |
| `Checkout` | `billing/promo-codes.ts`, `createOrder`, `PassCheckout.tsx` | a code and its copy at Stripe written by two admins whose requests cross, with the rollback of a code that Stripe refused, redemptions, the order step by step, Razorpay's script | 2 admins, 2 orders, one use, one fault |
| `PlanPage` | `admin/app/billing/page.tsx` | ticks that wait for Stripe, codes from link, storage and field, the price shown and the order made for it | 2 codes, one visit, one payment, one lost answer |
| `Credentials` | `credentials/`, the `prepare` of a publish | the vault, sync jobs and attempts, the lock's holder, `.env.local`, Vercel's variables | one key, 2 values, 2 changes, one fault |
| `Integrations` | `operations/integrations.service.ts`, `integration-planner.ts` | rows, `plinth.json`, blocks, imports, packages, routes through a queue of operations, each applied in one step and recorded in another, with slots that move between files | 3 integrations that share a package, one of which brings a route, 2 slots, 2 files, 3 operations |
| `Codemod` | `packages/codemod` | texts as sequences of what the parser tells apart: markers, elements, commas, the owner's own words | 2 integrations, 4 slots, 2 files, 2 things the owner does |
| `LiveTree` | `operations/git-scripts.ts`, command by command | manifests, `node_modules`, the borrowed manifest, the revert that is not committed, the compiled page | 2 packages, 4 commits, 3 faults |
| `Editor` | `events/`, `useOperations.ts`, the views | the list of operations, hints, polls, answers in any order, notices | 2 operations, 2 requests at once, one fault |
| `Chat` | `CopilotChat.tsx`, `copilot.service.ts` | draft, outgoing text, list, allowance; a row's text, operation, link and reply | 2 texts, 2 rows, 2 requests for the list, one fault |
| `InstallForm` | `IntegrationsPanel.tsx`, `catalogue.service.ts` | a name checked while it is typed, the cache, the install | 2 names, 4 edits, one fault |
| `Wishes` | `integration-requests.service.ts`, the "Coming soon" list | votes counted and written in two statements, the list in two tabs | 2 tabs, 4 requests, one fault |
| `CodeReader` | `workspace/`, `CodeView.tsx` | a tree, a file probed then read, a sandbox asleep, woken, lost | 2 paths, 3 changes, 3 requests, 2 faults |
| `Desk` | `admin-users.controller.ts`, guards, `AdminUsersPage` | rights read by a guard and used by the update, sign-ins that rewrite roles, rows of two desks | 3 users, 2 desks, 2 requests |
| `Welcome` | `/start`, `/onboarding`, `/dashboard` | where each tab is sent while setups go on, fail or are taken over by another tab | 2 tabs, 2 themes, one visit by hand, one fault |
| `PublishPages` | `submitPublish`, `PublishController`, `Home`, `PortfolioPanel`, `usePublish` | the two moments of a status, presses from several pages, what an editor announces | one page of either kind beside presses from elsewhere, 2 presses, one edit, one fault |
| `SidePanels` | `SidePanels.tsx` | slots, the contract check, the reset in two clicks | 2 changes, 3 requests, one reset, 2 faults |

Two tabs, two admins or two requests are what crossing needs; two texts, codes or names what being overtaken needs;
one fault beside them shows what a lost answer leaves behind; scripts and readers get more, as their cases need a
failure after a failure.  Every action of every component fires, and every property's mutants fail within these
bounds.

In `Copilot` limits of one and three tokens, answers of one and three messages let requests of both tabs overlap on the
last token of either window: the run spends past a limit, and the mutant that lets a request by while another waits
breaks the bound.  The run has one model, whose walk goes through an override, a fallback and a hidden model; the
theorem has every model and any overrides.  In `Integrations`, applying a change and writing its row are two steps
(`operation-runner.ts:212` and `:264`), and `FailsApplied` is all that may come between: a push, a health check or a
statement that throws, or a worker that dies and whose operation recovery finds applied, which does not run
`onApplied`.  Code and row then differ (`unrecorded`): an install is answered as installed already and comes to
nothing, an uninstall is refused because no row names it, or the other way round, until an operation records again.
`Checkout` keeps apart what a failure leaves at Stripe (`torn`) and what two admins leave there by crossing (`crossed`).

Where a page cannot know better, the model has a history variable that says exactly when (`behind`, `crossed`,
`overtaken`, `deaf`, `early`, `missed`, `over`, `cut`, `stale`, `torn`, `blind`, `undone`, `unrecorded`, `unheard`): the
property excuses that case and no other.  What each of them excuses is in section 7 under "Known divergences".

## 7. What the runs check

The runs of the safety net use `MCOperationRunner`, those of billing `MCBilling`, the others the two harnesses above.
`CHECK_DEADLOCK FALSE` everywhere: operations, orders, requests, clicks and ticks of a clock are finitely many and
faults are bounded, and when they are used up the system really stops.

| Run | Instance | Shows |
|---|---|---|
| `runner_safety` | 2 operations (copilot, publish, and integrations as follow-ups), 2 workers, all disturbances but `lapse` and `nostart`, at most 2 of them, 2 attempts per job, symmetric workers; 1.2 million states | `TypeOK`; `LiveIsChecked`, `OneInProgress`, `HistoryIsTrue` (commits in order, undone exactly, nothing rejected among them), `RecordsAreTrue` (a worker runs the operation it took, *reverted* is undone, *installed* is in the code), `SettledWorkIsSafe`, `PublishedIsOnDraft`; `MainIsBuilt`, `FinishedIsFinal`; `ImplementsSafetyNet` |
| `runner_hostile` | 2 operations (edit, publish), 2 workers, all eleven disturbances, at most 2; 3.2 million states | `NeverForced`, `ReleaseOnlyOwn` even when the lock lapses |
| `runner_liveness` | 2 operations, 2 workers, all but `lapse`, at most 1; no symmetry; 270 thousand states | `EveryOperationFinishes` |
| `billing` | 1 order, 2 subscriptions, 2 requests at once, 3 Stripe events, a clock of one day, and one restart, failed statement, rejected verification, return from checkout or plan set by an admin; symmetric; 7.9 million states | `TypeOK`; `SettledOnce`, `ShortPaymentBuysNothing`, `AnsweredIsSettled`, `OnlyAFaultLosesAGrant`, `TimeIsPaidFor`, `PlanMatchesStatus`, `RecordedIsApplied` |
| `services` | section 5; 0.46 million states | `TypesHold`; `BilledIsRun`, `NothingLeaks`, `RunningIsComplete`, `UnpushedIsKept` (lifecycle); `OnlyAStallDeletesTheRepo` (provisioning); `OneBuildEach` (hosting); `WaitingEnds`: an open editor gets a running preview, a setup ends, the editor learns how a publish ended, a frame comes to show the site |
| `product` | section 6; 6.3 million states | `TypesHold`; `ConsentIsGiven`, `StripeFollows`, `PayAnswers` (with `PriceIsKept`), `KeysFollow`, `CodeIsWhole` (rows and code; exact edits; packages), `AllowanceHolds`, `NoRouteLeftUntried`, `ViewsAreCurrent` (six pages), `OutcomeIsTold` (five pages), `AdminsRemain` |

**Bounds of the safety net and of billing.**  Two operations are what ordering, interleaving, stacking on an unpushed commit and
undoing the wrong change need; two workers are what contention and taking over after a death need; two
disturbances allow a failure during the recovery from another (a refused push then a crash, a crash
then a lost sandbox); two attempts distinguish a retried job from a dropped one.  Histories grow to at
most two commits per operation plus the foreign ones, so no other bound is needed.

In `billing`, one order is claimed a second time after a rejected verification, which is what two
extensions in flight at once need; two subscriptions are what an old one ending under a newer one
needs, with an event for the start of each and one for an end; two requests at once are what reading a
row that another is about to write needs; a clock of one day lets a pass of one day expire.  The
rare events are each tried with everything else, but not with one another; the proofs below have no bound.

**What is left out of a run, and why.**  With `lapse`, `LiveIsChecked` fails (a finding).  With
`nostart`, `failQueued` fails operations it read as queued without the lock, whatever became of them
since, so `FinishedIsFinal` and `RecordsAreTrue` do not hold; `runner_hostile` and `runner_liveness` include
it.  `SettledWorkIsSafe` and `RecordsAreTrue` except runs where the provider lost
a sandbox: then unpushed work is gone and the code says so.

**Fairness** (`FairSpec`).  Weak fairness of each worker's next step (a process that does not die goes
on), of adding the job of a created operation, and of the expiry of a dead worker's lock (Redis does
it).  Strong fairness of taking a waiting job and of starting the sandbox: both need the lock to be
free, it is free again and again, and both come back every two seconds (`OPERATION_BUSY_RETRY_MS`)
while the other holders' turns are milliseconds when there is nothing to do.  Users, the lifecycle's
pauses and every disturbance have no fairness.  Liveness starts when the job is in the queue: an api
that dies between the row and the job leaves an operation only another one's job will run.

### Where the code and its words differ

| Run | The code base says | What happens |
|---|---|---|
| `finding_stop_loses_work` | "Nothing is lost: the repository is the source of truth" (`sandbox.lifecycle.ts:86`); destroying "refuses to proceed until the push" succeeds (docs/DEVELOPMENT_PHASES.md:713) | a worker dies after the commit and before the push; recovery records *applied* without pushing or flagging; the next rebuild destroys the only copy |
| `finding_reverted_as_applied` | *applied* goes to *reverted* when the health check fails (docs/DEVELOPMENT_PHASES.md:610) | a worker dies after the revert commit; the trailer is found on the revert, and the undone operation is recorded as applied |
| `finding_pass_not_granted` | "Razorpay retries it for hours, so a captured payment is granted whether or not anyone is still watching" (`billing/razorpay.service.ts:158-159`) | the backend stops between claiming the order and writing the user; both webhooks then find it claimed and are answered, and the pass is never granted |
| `finding_plan_not_stripes` | "so a plan is exactly what Stripe says it is" (`billing/billing.service.ts:22`) | a report of the active subscription is fetched, the cancellation is written, then the older report is written over it; every event is recorded and the account stays on Pro |
| `finding_lock_lapses` | "Nothing reaches the live tree — and so the preview — until both checks pass" (`operation-runner.ts:75`), "The lock is held, so nothing else is running it" (`:506`) | the lock lives 15 minutes and is not renewed, one drain may take longer; a second worker's files end up in the first one's commit |
| `finding_sleep_is_billed` | metering is "capped at E2B's deadline when E2B paused the sandbox first" (docs/DEVELOPMENT_PHASES.md:512); "bill that stretch first" (`sandbox.lifecycle.ts:207`) | the write that bills the old stretch and opens the new one (`:221`) fails after the resume; the row still has the old stretch open, `markRunning` and then the sweep's extension (`:293`) move its end to the new deadline, and the time the sandbox slept is billed |

Each of these runs checks that one property and finds it violated.  `PaidIsGranted` fails for a statement that
fails after the claim as well.  And a grant that was written can be overwritten: by a second order settled from the
same read, by a session that read the pass as expired before the payment came, by a report of a
Stripe subscription that ended, or by an admin.  The properties of `billing` bound what an account gets from above.

### Known divergences

Where the other modules found the code short of its words, or of what a reader may expect, the property is stated as
precisely as the code allows, with the exception named.  The ones worth knowing:

* **Operations.**  "Interrupted before it was applied. Nothing changed." (`operation-runner.ts:521`) is also said of a
  publish whose worker died after `main` moved; no deployment row follows, and only the next publish deploys.
* **Lifecycle.**  An interrupted start that the provider put to sleep is resumed as if finished
  (`sandbox.lifecycle.ts:152`; `:155` says "its workspace cannot be trusted"): the row says running before health is
  looked at.  A resume whose answer is lost leaves the row paused while the sandbox runs, unbilled.
* **Hosting.**  A publish that stops between the row and the job leaves a deployment nobody tracks
  (`operation-runner.ts:348-353`); a late `building` undoes a concluded row (`hosting.ts:124-127`); a deployment that
  timed out may still go live although its words say the previous version is (`hosting.ts:29`).
* **Integrations.**  "Keeps the installed-integrations table in step once the change is applied"
  (`integration-planner.ts:57`) is not so when what comes between fails: the table stays as it was for good.
* **Credentials.**  Keys changed while a preview sleeps never reach it when it wakes (`credential-sync.ts:56`, `:70`).
* **Copilot and chat.**  Five calls may be used up before the free fallback is reached (`MAX_CALLS`, `ai.service.ts:140-142`);
  an error that is not an `AiProviderError` ends a request with routes untried (`:176`); what a vendor charges for an
  answer that is asked again, or that no row records, is counted against nobody;
  "Nothing was sent" is said of a lost answer (`CopilotChat.tsx:115`), and a refused text is lost when something else
  was typed meanwhile; a message listed before it is linked to its operation may never show it
  (`copilot.service.ts:85-86`).
* **Live tree.**  A script killed between linking and merging leaves `node_modules` that the live code does not match;
  `revertScript` goes on when its packages do not install (`git-scripts.ts:188`).
* **Publishing.**  "Pressing Publish twice publishes once" (`operations.service.ts:51`) is find-then-create: two pages'
  presses can cross and queue two, of which the second finds nothing new.  Home asks once after a press, so
  "Publishing…" stays until a reload.
* **Promo codes.**  Two admins may both find a code free (`promo-codes.ts:53`); the second one's row is refused, and when
  the first was switched off in between, the second one's promotion stays and works at Stripe (`:58-60`).  Stripe's
  refusal to deactivate a code is swallowed (`promo-codes.ts:88`); orders created under the
  limit can redeem past it; a second click waits for ever after the script failed to load (`PassCheckout.tsx:23-33`);
  the button shows the price without the discount (`PassCheckout.tsx:149`).  Nothing writes the payment
  provider "stripe", so a subscriber is offered passes (`admin/app/billing/page.tsx:124`).
* **Accounts.**  A sign-up by email records the server's current Terms without looking at the page's
  (`supabase-auth.ts:81`).  "An admin can't lock themselves out" (`admin-users.controller.ts:26-27`) except through two
  admins at once, or their own next sign-in when no env list names them.
* **Forms and panels.**  A name's failed check leaves the tick of the one before under it
  (`IntegrationsPanel.tsx:500`); a lost answer to a withdrawn wish leaves "Requested" and a button that can only fail;
  the code view shows the old file under the new path while it loads; slots are not read again when a change is
  applied; an operation can be announced twice, or its notice be drowned by another's (`useOperations.ts:39-46`);
  the provider's own error page stays in a frame that was not told of a pause (`usePreview.ts:32`); onboarding may ask
  someone with a portfolio for a role again after a replaced query (`admin/app/onboarding/page.tsx:45`).

## 8. What is proved

Every theorem is about the specification TLC runs, for every value of the constants.  What is assumed of those are the
named assumptions of the modules, which TLC evaluates on every run: there is an operation (`NumOpsAssumption`); a worker is
not one of the two values of a lock without a holder, types and disturbances are among those the code has, and an operation
has an attempt (`RunnerAssumption`); `None` is no order, subscription, status or webhook and a pass has days (`BillingAssumption`);
`None` is no sandbox, time or kind, timings are positive and a start fits into a provider's longest run
(`LifecycleAssumption`); commits and builds are numbered from 1 and a job has an attempt (`ServicesAssumption`); a browser
has finitely many tabs, what a person picks is in the registry, and an answer has a most that it can cost
(`CopilotAssumption`); an entry of `AI_MODELS` has at most five fallbacks, and one that adds a model names its tier and
its provider (`OverridesAssumption`); the names of nobody and nothing are no member of a set of things, a slot has a file and a successor,
desks are users, and a home page is no editor (`ProductAssumption`).  Other hypotheses are written in the theorem itself.

### The safety net

Any number of operations and workers, any set of operation types, any disturbances and any bounds on them.  `NoLapse` is
`"lapse" \notin Disturbances`, and `finding_lock_lapses` shows that it is needed.  `AlwaysStarts` is
`"nostart" \notin Disturbances`: where the sandbox cannot start, `failQueued` fails what it read as queued without
taking the lock or looking again (`operations.processor.ts:100-107`), whatever became of it since.

`OperationRunnerProofs`:

| Theorem | Statement |
|---|---|
| `TypesHold`, `TypeCorrect` | `Spec => []TypeInv`, `Spec => []TypeOK` |
| `LockExcludes` | `NoLapse => (Spec => []Mutex)`: one worker at most inside the lock, and it holds it |
| `OneAtATime` | `NoLapse => (Spec => []OneInProgress)` |
| `OnlyCheckedChanges` | `NoLapse => (Spec => []LiveIsChecked)` |
| `ReleasesOnlyOwn`, `NothingIsForced` | `Spec => ReleaseOnlyOwn`, `Spec => NeverForced` |
| `PublishesTheDraft`, `PublishesTheBuilt` | `NoLapse => (Spec => []PublishedIsOnDraft)`, `... MainIsBuilt` |
| `HistoriesAreTrue` | `NoLapse => (Spec => []HistoryIsTrue)` |
| `SettledWorkStays` | `NoLapse => (Spec => []SettledWorkIsSafe)` |
| `RecordsHold`, `FinishedForGood` | `NoLapse /\ AlwaysStarts => (Spec => []RecordsAreTrue)`, `... FinishedIsFinal` |
| `KeepsThePromise` | `NoLapse /\ AlwaysStarts => (Spec => ImplementsSafetyNet)`: the refinement |

**The argument.**  `TypeOK` alone is not inductive: that a push returns to a label needs the locals to
fit the step, so `TypeInv` adds `LocalsOK` (at a label of a run there is an operation; after a push,
`after` names a place to return to).  `Mutex` says that a worker at a label that needs the lock holds
it: each step is by cases on whether it takes, keeps or gives up the lock, and only `Lapse` breaks it.
`OneInProgress` is not inductive either: `SoleInv` adds that an operation in progress is the one the
holder of the lock runs, or that nobody is past recovery; recovery settling every stuck operation
before the first is taken is what makes it hold again after a crash.  `LiveIsChecked` needs `CheckedInv`:
a worker about to apply has a worktree that passed (and nobody else can write to it, by `Mutex`), and a
publish carries a head that is checked.  `ReleaseOnlyOwn` needs only that a step which touches the lock
belongs to the holder; `NeverForced` follows from the types and the guards of the three pushes.

The histories rest on what each label of a run knows of the branches.  `BaseInv`: what the sandbox knows of draft is a
point of draft, and a sandbox that is gone has no code.  `FactsInv`, for the worker inside the lock: its worktree is the
live tree and then its change, the head a publish carries is on draft and, once built, among what was built, and after
`Apply` or `RevertChange` the last commit of the live tree is its own, unless the sandbox was replaced.  Then main is on
draft because only a head that is on draft is ever pushed to it.  `UndoInv` (in each branch a revert stands right after
the change it undoes) needs no more than that; `OrderInv` needs that an operation is in no history before it was
taken, that the one being run comes after every one that was and before every one that was not (`Numbered`), and that a
rejected one never landed.

The records rest on where a change is, label by label.  `SandboxInv`: while the provider has lost nothing, the row names
a sandbox exactly when there is one, so that what is only in the live tree is flagged on a row.  `KeptInv`: from the push
on, the run's change is on draft or in the live tree and flagged (`Kept`); so is what was settled; what was reverted has
its revert kept the same way, and what is recorded as installed is in the code and not undone.  Recovery is where this
is hard: it finds a commit, by its trailer, that its own run did not report, and may only call it applied because at that
point nothing else can have undone it.  `OwnInv`: who runs an operation runs one in progress, nobody
is about to fail operations it has only read (`NobodyDoomed`, from `AlwaysStarts`), and a worker outside a run has no
operation.  The refinement needs all of these: each step of the runner is shown to be a step of `SafetyNet` on the mapped
variables or to leave them alone, and it is `OwnInv` that says a step which advances or concludes an operation is taken by
the only one working.

### Billing

`BillingProofs`: any number of orders, subscriptions and requests, any passes and any bounds.

| Theorem | Statement |
|---|---|
| `BillingTypes`, `BillingTypeCorrect` | `Spec => []TInv`, `Spec => []TypeOK` |
| `LedgerHolds`, `SettlesOnce`, `ShortIsRefused`, `AnswersAreTrue` | `Spec => []LInv`, `[]SettledOnce`, `[]ShortPaymentBuysNothing`, `[]AnsweredIsSettled` |
| `PlanFollowsStatus` | `Spec => []PlanMatchesStatus` |
| `EventsAreNotLost` | `Spec => []RecordedIsApplied` |
| `GrantsAreNotLost` | `Spec => []OnlyAFaultLosesAGrant` |
| `NoTimeForFree` | `IsFiniteSet(Orders)` proves `Spec => []TimeIsPaidFor` |

`TInv` adds to the types what a request holds at each step, and that a subscription with an event has
begun.  The ledger's properties are proved together: `LInv` says that an order is open for claiming
only as often as a refused verification failed it, that a settled order was claimed, and that a request which carries an
order has claimed it, so that its answer to Razorpay is true.  `EventsAreNotLost` needs that an event
about to be recorded was applied by the same request (`EInv`).  `GrantsAreNotLost` counts: until a restart or a failed
statement catches it, an order's claims are its grants and the requests that still carry it (`GInv`); each step adds
a request to those that carry an order, takes one away, or leaves them alone, which the cardinality follows.

`NoTimeForFree` bounds the end of the plan by what was paid in full, once per order and once more per `reopened`; that
an order is claimed no more often, and only once paid, is the ledger's (`LInv`).  The bound must hold for every write that is still to come, so
`VInv` is about the requests as well as the row.  Of the claims, one counts as bought (`Added`) once its request has read the row: a
request that claimed an order and has yet to read (`Pending`) adds nothing, and an order was claimed at least as often as
such requests hold it.  From then on the end of the plan in the row, and whatever a request is about to write, lie no later
than the end of the subscriptions' time (`Term`: now, and one period once a subscription has had one) and the days bought of
all orders (`Extra`); what Stripe, its events and its reports say lies within `Term` alone.  `Extra` is a fold over the set of orders.  That
the fold has a value, and grows by the days of an order when that is claimed, is proved by least counterexample: were there
a set of orders for which it fails, there would be a smallest one (`WFMin`, with the well-founded order of the natural
numbers), and it would not fail for that one without an order.

### The lifecycle

`LifecycleProofs`: any sandboxes, timings, clocks, numbers of faults and of requests.

| Theorem | Statement |
|---|---|
| `Invariant` | `Spec => []LInv` |
| `NoSandboxLeaks` | `Spec => []NothingLeaks` |
| `RunningWasStarted` | `Spec => []RunningIsComplete` |
| `CommitsOutliveSandboxes` | `Spec => UnpushedIsKept` |
| `NothingIsBilledTwice` | `Spec => []BilledIsRun` |

None of them is inductive: each depends on what a handler that was interrupted between two calls left in the row.
`LInv` adds `OpFits`, what each step of a handler finds (a handler that creates has no sandbox in the row, one that
uses, flushes or destroys has one, and at `destroy` it holds nothing unpushed), and `RowFits`, what anyone finds in
the row (one that runs or sleeps names a whole sandbox; one that is over names none; a commit that is nowhere else is
flagged).  One lemma per action shows that `LInv` is kept; those that move only the row, only a sandbox or only the
holder rest on `RowMoves`, `BoxMoves` and `Moves`.

The bill needs an invariant of its own, `Metered`.  What was billed until now says nothing of what a later deadline will
add, so `Run` says that the whole of a stretch the provider still runs, billed or not, is covered by what it ran.
`Tallied`: what was billed lies before the stretch that is open in the row, and before the provider's when the row has
none, so that the next stretch begins after everything billed.  `OpTimes`: the moments a handler carries from one call
to the next are now, or not later.  `Steady`: without a fault, the stretch in the row is the provider's, from its start
to its deadline, but for the one step in which a handler has changed one and not yet the other.  It is `Steady` that
shows `astray` to need a fault.  Every action has a lemma, and most are an instance of four: a stretch goes on, ends,
begins, or is moved.

### The services

`ServicesProofs` and `LifecycleProofs`: any number of workers, attempts, retries, commits, builds, links and faults, any
grace period and timeout.

| Theorem | Module | Statement |
|---|---|---|
| `SetupHolds`, `TypeCorrect` | `ServicesProofs` | of `Provisioning`: `Spec => []PInv`, `Spec => []TypeOK` |
| `ReadyKeepsItsRepo` | `ServicesProofs` | `ServicesSpec => []OnlyAStallDeletesTheRepo` |
| `HostHolds`, `TypesAlways` | `ServicesProofs` | of `Hosting`: `Spec => []HInv`, `Spec => []TypeOK` |
| `OneBuildAlways` | `ServicesProofs` | `ServicesSpec => []OneBuildEach` |
| `ServicesTyped` | `ServicesProofs` | `ServicesSpec => []TypesHold`: provisioning, sandbox, previews and deployments |

*Provisioning.*  What deletes a repository looked some calls earlier whether the portfolio is ready (`Fail`, `Inspect`,
`DeleteRepo`), and what makes it ready made its branch a call earlier (`CreateDraft`, `MakeReady`): the property is not
inductive.  `OneRuns` says that one worker at most carries out a job that is still its own, exactly while the job is
active, through every way a run ends; a worker whose job was given away is one that stalled.  So without a stall a run is
alone, and `Sure` says what it then knows: at `ready` the repository is whole, and from `inspect` to `record` the portfolio
is not ready.  Each step of a worker is shown to be one that goes on or ends and leaves it as sure (`Works`); the api, the
page and GitHub take neither a branch nor a status `ready` away (`Aside`).

*Deployments.*  Two parties start builds of a commit, and neither asks the other: Vercel, when it comes to a push, and the
tracker, when it found none and the grace period is over.  The invariant says what each may still do: a tracker about to
start a build saw none, and whatever Vercel starts of that commit from then on is late, which the property excuses.  That
nobody else tracks the commit is the queue's doing (`Queue`: one worker carries out an active job), and that no commit is
pushed or tracked twice is that of the publish (`Order`).

### Plinth AI

`CopilotProofs`: any number of tabs and messages, any plan, limit and costs; any keys configured.

| Theorem | Statement |
|---|---|
| `TypesAlways` | `Spec => []TInv`: the types, with what page, worker and rows say of one another |
| `AllowanceAlways` | `Spec => []AllowanceHolds` |
| `NoneLeftUntried` | `Spec => []NoRouteLeftUntried` |

A request is let through while the tokens recorded are below the limit, and others, let through before it, have yet to be
recorded.  `AllowanceAlways` keeps an account: what is recorded, what the worker can still record for the message it holds
(`Due`), and the price of an answer and a repair for every request that waits stay, in each window, below the limit plus
that price for as many requests as were under way when it last ran out.  `spent` has the answers that a row has or will
have: one whose row could not be written leaves no trace that a limit could be held against.

`NoneLeftUntried` is about a pure function, the walk from a model over its fallbacks.  `WalkHolds` is its invariant: after
any number of turns what comes after a model of the chain is in the chain or waits in the queue, and unless the walk
stopped, each turn used up a fallback of a model in the chain.  A chain has at most `MAX_CHAIN` models with at most five
fallbacks each, so the walk ends: closed under fallbacks, or cut off at a full chain, which the ten models of the registry
and those of `AI_MODELS` can fill.  That a request is given up for want of a vendor is `GivesUp`; what `generate` throws
on at once (`Rethrows`) gives it up before, and is no part of the property.  The induction over the turns is by least
counterexample (`WFMin`), as the library's induction theorems are out of reach; the functions the walk is made of have
their values from the same argument (`TurnsExist`, `AmongIs`).

### The product

`MCProduct` runs one component at a time, and a theorem about a component carries over to the run: in each behaviour of
`ProductSpec` the choice never changes, and the component's variables behave by its own specification.  Bounds, sets and
numbers of faults are any; `ProductAssumption` says that the names of nobody and nothing are no member of a set.

`ProductProofs`: accounts, payments, code and keys.

| Theorem | Statement | Because |
|---|---|---|
| `ConsentAlwaysGiven` | `ProductSpec => []ConsentIsGiven` | consent on its way, in a page, a cookie or the metadata of a sign-up, was given as well (`OnItsWay`) |
| `StripeAlwaysFollows` | `ProductSpec => []StripeFollows` | a coupon nobody is about to use or delete is the code's, or of a request whose row was refused; while the code is on, its promotion keeps every other request out at Stripe, so that only a second creation that began before the row and came to Stripe after the code was off is `crossed` (`CodeInv`) |
| `PayAlwaysAnswers` | of `Checkout`: `Spec => []PayAnswers` | the step of the page says where its order is, and a page that waits for the script has a load to come (`PayInv`) |
| `PriceIsAlwaysKept` | of `PlanPage`: `Spec => []PriceIsKept` | while previews do not cross there is one at most, and while there is one no code is shown that it could leave behind (`BillInv`) |
| `PayAlwaysKept` | `ProductSpec => []PayAnswers` | the two above |
| `CodeStaysWhole` | of `Integrations`: `Spec => []CodeIsWhole` | where a block stands and which imports and routes there are agree at every step of an operation, and are counted; a row differs from the code only for the operation at the head of the queue, once it was applied, or after one that failed there (`WholeInv`) |
| `PagesAlwaysFind` | of `LiveTree`: `Spec => []PagesFindTheirPackages` | a script borrows another revision's files only while it links; a worktree has packages of its own exactly when they are not HEAD's, also after a script that was cut short (`TreeInv`) |
| `KeysAreTyped` | of `Credentials`: `Spec => []TypeOK` | with the one holder of the lock |
| `KeysAlwaysFollow` | `ProductSpec => []KeysFollow` | a holder that carries what is out of date has a successor: a sync that is to be scheduled or queued (`Awaited`), and cannot read before the holder is done (`CarriesKeys`) |

`PagesProofs`: the pages around the editor.  A page shows the answer to a request it sent earlier, so the invariant of
each is about the answers under way: which of them tell of the state as it is, and that one of those is still to come
when the page does not.

| Theorem | Statement | Because |
|---|---|---|
| `AnAdminRemains` | `ProductSpec => []AdminsRemain` | an act needs a guard's look at its own author, so only one that overtook its rights, or a sign-in, takes the last admin |
| `RowsAreAlwaysTrue` | of `Desk`: `Spec => []RowsAreTrue` | one act at most is about a user, and until its answer is heard the row is as the table was before it (`RowHolds`) |
| `CodeShownIsTrue` | of `CodeReader`: `Spec => []CodeShownIsTheFile` | as long as nothing was written that the page has not heard of, a file put back by a rebuild included, answers on their way are as true as what it shows (`ReaderInv`) |
| `SlotsAreAlwaysRead` | of `SidePanels`: `Spec => []SlotsAreRead` | an answer is an error or was read since the panel last asked, unless another was under way then; one check at most (`SideInv`) |
| `FormAlwaysSpeaksOfItsName` | of `InstallForm`: `Spec => []FormSpeaksOfItsName` | the check that counts is of the name in the field (`FormInv`) |
| `WishesAreAlwaysShown` | of `Wishes`: `Spec => []WishesAreShown` | of the requests about an integration one at most was carried out, and says what the table says (`WishInv`) |

`EditorProofs`: the editor, the chat, onboarding, publishing, and the two properties of the run that have a part in each
of these pages.

| Theorem | Statement | Because |
|---|---|---|
| `EditorAlwaysCurrent`, `NoticeAlwaysGiven` | of `Editor`: `Spec => []ViewsAreCurrent`, `[]OutcomeIsTold` | whatever was read was once in the table, and what was asked later read more of it (`EditorInv`) |
| `ConversationAlwaysShown`, `TextAlwaysKept` | of `Chat`: `Spec => []ConversationIsShown`, `[]TextIsKept` | the last list under way is up to date unless it is overtaken; a text is in the field, on its way, recorded or given up (`ChatInv`) |
| `TabsAlwaysFind` | of `Welcome`: `Spec => []TabsFindTheSite` | an answer under way is true of the portfolio for good; a page that shows what is not so waits for one (`WelcomeInv`) |
| `PublishAlwaysShown` | of `PublishPages`: `Spec => []PublishIsShown` | below (`PubInv`) |
| `ViewsAlwaysCurrent`, `OutcomeAlwaysTold` | `ProductSpec => []ViewsAreCurrent`, `[]OutcomeIsTold` | the parts above, with those of `PagesProofs` |

`PublishPages` is the hardest of these: its requests are answered in any order, and a later answer may have been read
earlier.  `PubInv` gives every request of a page a number and, once it was read, a place in the order of reading, in which
publishes are added and deployments end (`Pair`, `Tops`); `SiteFits` counts deployments, those that are owed and edits that
wait for one, so that two publishes never work at once; `AskedFits` says that while an answer that does not know of the
press is on its way, one that does is too; and `ToldOnce` that no deployment is told of twice.

### Only model-checked

* **Liveness** (`EveryOperationFinishes`, `WaitingEnds`): what fairness and `ENABLED` bring is not within the prover's
  reach.
* **The texts of a codemod** (`EditsAreExact` of `Codemod`, the third part of `CodeIsWhole`): what the rewriting returns for
  every text is an induction over that text, through `SelectSeq`, whose definition the prover cannot expand.  The other two
  parts of `CodeIsWhole` are proved.
* **`TypesHold` of `MCProduct`** as a whole.  `Credentials` and `Copilot` have theorems for their types; of the others, each
  invariant above has what types its argument needs.

## 9. What is not modelled, and why

* **No state to get wrong between two steps:** takedown notices, promo and report lists, metrics, health, alerts, the
  settings panel's history and badges, landing pages, examples.  They read rows, or write one.
* **Computations on data that no property here is about:** encryption and the vault's keys, session tokens, passwords
  and OAuth (delegated to Supabase and GitHub), prompts and the parsing of plans, the path policy of workspace
  reading, rendering of props, reading of tarballs, money's formatting, the text of a personalisation.
* **Forwarding:** the proxy's headers, cookies and upgrades; the GitHub client beyond what its callers can tell apart;
  the replay of presence between processes, which is Redis's.
* **Development only:** the tester of the safety net in the editor's settings.

Components are modelled apart, with what they take from another as an action of their own.  Composed are operations,
the lock, the lifecycle's effects, GitHub and the follow-ups (`OperationRunner`), and both payment services over one
user row (`Billing`).

## 10. Running it

    tlc -workers 2 -config runner_safety.cfg MCOperationRunner      # likewise the other runner_ and finding_ runs
    tlc -workers 2 -config billing.cfg MCBilling                    # and finding_pass_not_granted, finding_plan_not_stripes
    tlc -workers 2 -config services.cfg MCServices
    tlc -workers 2 -config product.cfg MCProduct
    tlc -workers 2 -config finding_sleep_is_billed.cfg SandboxLifecycle
    tlapm OperationRunnerProofs.tla          # likewise BillingProofs, LifecycleProofs, ServicesProofs,
                                             # CopilotProofs, ProductProofs, PagesProofs, EditorProofs

The definitions marked `Mutant:` in the components' modules are plausible mistakes in the code.  Nothing uses them; put
in place of the definition they stand by, each makes the property `PROJECT.json` names for it fail.  The
properties of `product` that have several parts have several.
