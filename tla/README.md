# VAEO platform: formal models

TLA+ models of the parts of the Velocity AEO platform that decide what is run,
what is written to a customer's site and what is recorded about it, with TLC
runs on small instances and TLAPS proofs for all of them. Paths below are
relative to the repository.

## 1. The system

Everything meets in a few Postgres (Supabase) tables; processes are short-lived
CLI commands, one long-lived poll loop and the dashboard's request handlers.
None of them holds a lock or a transaction: each reads rows, awaits network
calls and writes rows back by id.

| Component | State | Operations | Interacts through |
|---|---|---|---|
| Job queue and runner (`tools/jobs/job_queue.ts`, `job_runner.ts`, `crawl_processor.ts`, `scheduler.ts`, migration 019) | table `jobs`; a timer chain per runner | enqueue, claim, complete, fail, cancel; start, stop, tick | table `jobs` |
| Fix commands (`packages/commands/src/{optimize,promote,approve,verify,rollback}.ts`) | table `action_queue`; copies of the rows a command loaded | one loop per command over its copies | table `action_queue`, adapters |
| Patch engine (`packages/patch-engine`) | column `rollback_manifest` | applyPatch, rollbackPatch | called by optimize |
| CMS adapters (`packages/adapters/{shopify,wordpress}`) | the customer's site; column `rollback_manifest` | applyFix, revertFix | called by optimize, rollback |
| Dashboard controls, apply route, apply engine (`apps/dashboard/app/api/apply`, `.../fixes`, `components/ActionButtons.tsx`, `tools/apply/apply_engine.ts`) | table `action_queue` | approve, reject, skip, apply approved items | the same rows |
| Audit (`packages/commands/src/audit.ts`) | table `action_queue` | detect, score, sort, upsert rows `queued` | input of optimize |
| Preview verification, monitor (`preview-verify.ts`, `monitor*.ts`) | `action_queue`, scheduled checks | mark, schedule | the same rows |
| Guardrail, risk scorer (`packages/guardrail`, `packages/risk-scorer`) | none (pure) | canProceed, evaluate, scoreIssues | audit imports the priority map |
| Job orchestrator, priority queue (`tools/jobs/job_orchestrator.ts`, `priority_queue.ts`, `apps/dashboard/app/api/jobs`) | the jobs of a call in memory; no rows, since `jobs` refuses its statements | orchestrate, cancel queued, status; score and sort | the dashboard, which awaits the call |
| Rollback runner (`packages/patch-engine/src/rollback-runner.ts`) | a run's manifest, which nothing writes | reverse all patches, verify | terminal; adapter methods that only throw |
| Rollback engine (`tools/rollback`) | one fix, its time window | executeRollback | dashboard |
| Live run (`tools/live`) | a run record, functions that outlive their timer | discover, detect, fix under a time limit | injected functions; the defaults are stubs |
| Pipeline suspension, nightly run (`tools/pipeline`) | failure counts and suspensions per site | record failure, suspend, resume | site rows |
| Learning, approval queue (`tools/learning`, `scripts/run_sandbox_verify.ts`, `apps/dashboard/app/approvals`) | tables `learnings`, `approval_queue` | log, enqueue, approve, reject, auto-approve | script, dashboard; the share of approvals in `learnings` decides the automatic ones |
| Billing (`tools/billing`, the gated routes, `apps/dashboard/app/api/billing`) | tenant rows, counts of sites, jobs and fixes | gate, then act; checkout, webhook | the routes of the dashboard, Stripe |
| GSC delta sync (`tools/gsc/gsc_{sync_scheduler,delta_sync,sync_tracker}.ts`) | rankings, a sync record per site | scheduled and full sync | injected functions; the defaults do nothing |
| GSC pool (`tools/gsc/gsc_account_pool.ts`) | account slots | assign, release | onboarding |
| Link graph (`tools/link_graph`) | one graph per crawl | depths, authority, components | crawl results |
| Baseline capture, regression monitor (`tools/sandbox`) | snapshots of pages | capture, check | the pages |
| Notifications, onboarding stages (`tools/notifications`, `tools/onboarding`) | dedup records; stages | send once, advance | dashboard |
| Onboarding wizard (`app/onboarding`, `app/api/onboarding`) | steps in `sites.extra_data` | complete a step, start the first crawl | table `job_queue`, which nothing reads |
| Agency roster (`app/api/agency`, `tools/agency`) | accounts with a site counter, roster | add a site | dashboard |
| Shopify webhooks (`app/api/webhooks/gdpr`, `app/api/shopify/webhooks`) | site rows | mark uninstalled, redact | Shopify |
| Tracer (`tools/tracer`) | drift events | scan, requeue | `action_queue` |
| Crawler, detectors, validators, schema engine, AI generator | none of their own | fetch, analyse, generate | audit, optimize |
| Queue package, action log, truth server | BullMQ, a log, Supabase | thin wrappers | all |
| Dashboard pages, reports | read-only | render | tables |

Behaviours that are hard here, and what would make each part correct:

- **Jobs.** The claim is a read and an unconditional update, `failJob` a read and
  an update, and one crawl failure calls it twice. Correct: a job is given up
  only when its attempts were spent, a running job has an executor, a job that
  waits can be claimed and is eventually settled, attempts count executions.
- **Fixes.** Copies go stale while the loop runs; marks go by id whatever the row
  says by then; failed marks are swallowed; two manifest writes are not awaited;
  an adapter's answer can be lost after the site changed; processes die between
  the site write and the mark. Correct: nothing that needs a person's decision is
  deployed without one, `deployed` means written, what is deployed can be rolled
  back, a rollback restores the page, each item is routed whatever others do.
- **Approvals.** People decide on pages that show what was pending when they were
  opened; each decision is two writes, the second unchecked; the automatic
  approver reads the learnings, then writes whatever the row says by then.
  Correct: the learnings hold what people said, no approval feeds on itself, some
  issue types always wait for a person, queue and learnings agree.
- **Jobs of a call.** Jobs of a batch end in any order, and none of the call's
  statements on `jobs` succeeds. Correct: no more jobs at a time than allowed, and
  every job and the call come to an end all the same.
- **Limits and plans.** A limit is counted before the work it limits; a read that
  fails is a permission; what other commands deploy passes no gate; Stripe's events
  come in any order and more than once. Correct: what a gated route does beyond the
  limit is bounded, every event is handled in the end, what was bought is what
  counts.
- **Live and nightly runs.** A timeout cancels nothing; a night is worked through
  by rows loaded at its start; writes are lost. Correct: a fix that outlived its
  timer was reported as timed out, still knows whether it may deploy and changes no
  result; nothing that hangs stops the queue; suspensions are earned, served and end.
- **Search data, links, snapshots.** Overlapping syncs move one record, over data
  that comes late; results must not depend on the order of links; a failed fetch
  must not hide a loss.

## 2. Modules

| Module | What it is |
|---|---|
| `JobQueue` | the jobs table, runners, loops, processor |
| `JobContract` | the lifecycle the columns of `jobs` describe, cancellations included; implemented by `JobQueue` with one loop |
| `MCJobQueue` | small instances |
| `JobQueueProofs` | theorems about `JobQueue` |
| `FixPipeline` | `action_queue`, the commands, the adapter, the dashboard controls |
| `FixLifecycle` | what the command headers promise of one fix; implemented by `FixPipeline` while commands that overlap are of different stages |
| `MCFixPipeline` | small instances |
| `FixPipelineProofs` | theorems about `FixPipeline` |
| `ApprovalQueue` | `learnings` and `approval_queue`, the verification script, the automatic approver, the page's requests |
| `MCApprovalQueue` | small instances |
| `ApprovalQueueProofs` | theorems about `ApprovalQueue` |
| `JobOrchestrator` | a call for many sites and its batches; the priority score |
| `LiveRun` | the live run and the fixes it races against timers |
| `Nightly` | the nightly run, failure counts, suspension |
| `DeltaSync` | syncs of one site's search data |
| `Billing`, `BillingProofs` | gated routes, tenant rows, Stripe |
| `LinkGraph` | depth search, orphans, authority, components of one graph |
| `SiteWatch` | baseline capture and regression monitor of one page |
| `LinkGraphProofs` | theorems about `LinkGraph` |
| `SiteRunProofs` | theorems about `JobOrchestrator` and `LiveRun`, the runs on sites |
| `ScheduledProofs` | theorems about `Nightly`, `DeltaSync` and `SiteWatch`, which run by schedule |
| `MCServices` | the seven services in one instance: `Billing`, `LiveRun`, `Nightly`, `DeltaSync`, `LinkGraph`, `JobOrchestrator`, `SiteWatch` |
| `ServicesProofs` | theorems about that composition |
| `MCBilling`, `MCDeltaSync` | instances for the two violations |

The systems share no state in the code: `jobs`, `action_queue` and the two approval
tables are written by different programs, `approval_queue.action_queue_id` is never
read, and the rows the orchestrator would put into `jobs` are refused by migration 019.
They are therefore not composed. `MCServices` runs seven of them beside each other in
one instance: its variable `part` names the one that moves in a behaviour, so the state
space is their sum and not their product.

### JobQueue

`row` is the table (status `absent` before the insert), `now` the clock that
`scheduled_at` is compared with, `running`/`timer`/`loop` the runner: a *loop* is
one chain of `setTimeout` callbacks, since `stop` followed by `start` during a
tick makes a second one. A loop's `pc` is the statement it awaits: `poll` (the
claim's select), `claim` (its update), `process`, `complete`, `fail_read` and
`fail_write` (failJob in the processor), `refail_read` and `refail_write` (failJob
in the runner). Every statement may fail (`DbError`), with the code's reaction:
the error is swallowed, and a failed read in `failJob` counts as 0 attempts.
Job types are reduced to the crawl job, the crawl job without a URL, and any
other type, which the default processor completes at once. History variable
`runs` counts executions. Payloads, error texts and the runner's statistics are
left out.

### FixPipeline

`row` holds the columns the commands read (`status`, `approval_required`, the
`fix_source: manual` and generated-text marks of `proposed_fix`), `manifest` the
column `rollback_manifest` reduced to who wrote it and which value it recorded as
the original, `live` whether the page shows the fix, `inflight` the manifest
writes nobody awaits. `proc` is a process: the command, where it is, the items
left, the item in hand, the status it is about to write, and for `optimize` its
copies of the rows. Actions follow the awaited calls: `Start` (load), `Pick`,
`Validate`, `Generate`, `StoreManifest`, `ApplySucceeds`/`ApplyFails`, `Decide`,
`ReadManifest`, `RevertStub`/`Revert`, `Mark`, `Finish`; `LandManifest` for the
writes under way; `Crash`; `PressButton` and `PostFix` for the dashboard.
`written`, `human`, `undone` and `unstored` (items whose manifest the patch
engine failed to store) are history variables.

What it abstracts:

- Validator verdicts, generated texts, the operator's answers and adapter results
  are free choices. Risk, AI issue type, and whether the adapter really writes
  this fix type (`Wired`; other types reach stub branches that succeed) are sets.
- The apply route's per-item reads and its test that all are approved are one
  step: if one is not, the request changes nothing. A load that fails also
  changes nothing. The billing and triage gates in front are left out.
- `promote`'s and `verify`'s external calls are injected: promote's apply is
  modelled as writing the site without a manifest. Running promote counts as a
  person's decision on the items it takes.
- `rollback_flagged`, written by verify, is read by nothing and left out.
- Buttons act on a fresh page. The Rollback button and `preview-verify` write
  statuses the CHECK of migration 010 refuses. `PATCH /api/queue/[id]` and the
  WordPress adapter are not modelled.
- The columns `rollback_manifest` and `rollback_flagged` are taken to exist, as
  `scripts/check-schema.ts` demands; no migration adds them.

### ApprovalQueue

An *item* is one verification: `learning` is its row of `learnings`
(`approval_status` only), `row` its row of `approval_queue` (status, and whether
the note says `auto_approved`), `queue` the rows in order of `created_at`.
`script` is `sandboxVerifyAndLog` for the item, `batch` one run of
`processAutoApprovals`, `request` the page's approve and reject requests, each
stopping at every awaited statement. Any statement may fail within the bound
`MaxFaults`, with the code's reaction: no row is queued without a learning, a
read that fails counts as an empty history, a failed automatic approval goes
unnoticed, a failed learning write does not fail the request. `said` and `torn`
are history variables.

- The items are of one site, and those in `eligible` of one issue type the
  approver may decide; `past` counts the learnings that were there before. The
  score is in percent and compared without division; page types are added up
  again by the scorer and left out.
- A page is not modelled: every queued row was pending once, so a page that
  still shows it may exist, and a page disables only the buttons of the item
  last acted on. A request can therefore come for any queued row, and two can
  overlap, from one page or two.
- The flag `--auto-approve` only removes steps of the script and is taken as set.
  Script and batch use the same thresholds.
- A process that dies takes no more steps, which every action being optional
  already allows. A failed statement is one that was not executed.
- `queueForApproval`'s own `autoApprove` branch and `approveItem`'s
  `executeSchemaFn` gate are left out: nothing passes the flag or the function.
  `processAutoApprovals` is modelled though so far only tests call it.

### JobOrchestrator

`job` is what a call knows of each job, `first` the batch it is at, `inserted` how
far the loop of inserts has come. A job's three awaited calls (mark running, run,
save) are steps. Every statement on `jobs` is refused: the id is `job_` and a time
where the column is a uuid, `queued` is not in `job_status_enum`, and `tenant_id`,
`pages_crawled` and `issues_found` are columns of no migration
(`supabase/migrations/019_jobs.sql:13-31`). The supabase client answers with an error
and does not throw, and nobody looks at the answer, so these steps take their time
and change no row. The same holds of the cancellation, which filters by two of these
columns: it cancels nothing and is not modelled. A crawl's pages and times are left
out.

### LiveRun

`run` is the run, `attempt` what the batch recorded, `fn` the function each race
started, which lives on after a timeout and carries the `dry_run` it was called with;
`dryruns` is a history variable. What fetches, applies, validates and deploys is
injected, and its answers are free. `runLiveProduction` injects nothing into the
batch (`live_run_orchestrator.ts:290`), and then these are stubs: one constant page
(`live_fix_executor.ts:310`), a sandbox that passes, and a deployment that answers
`deployed` without writing (`:117-123`). So the model has no pages to write to and no
property says that a reported fix is on its page: with the defaults none is. The
reports after the batch cannot stop the run and are left out; so is the time a fetch
may take, which nothing limits.

### Nightly

`site` has the pipeline columns, with `left` for `resume_at - now`, `night` the
run, `copy` its rows as loaded, `streak` the failures in a row (history). A failure is
two awaited calls, `RecordFailure` (the increment, whose answer is kept in `night`) and
`Suspend`, and the operator may act between them: a site resumed by hand there is
suspended again, with the count from before, and remembered in `overtaken` (history),
which the property of three strikes has to except. Every injected call may be lost,
`MaxLost` times. Suspensions by hand get a `resume_at`
like others, and the loop, which does not look at the kind, resumes them when it
has passed. The in-memory counter of the tracker, used when nothing is injected,
is not modelled.

### DeltaSync

`have` is the set of days whose rows are stored, `record` the last sync and the
last full one, `sync` the syncs in flight, each awaited call a step, `recorded` every
last sync the record ever had (history). Moments are
days; where the code compares milliseconds, both answers are possible on the last
day of a window. `Lag` is how late the rows of a day are. Rows are days:
what is in them does not matter to which are asked for.

### LinkGraph

`StartDepths` and `StartComponents` choose any graph over `MayLink` as the crawl;
then the two algorithms run step by step, with the neighbours of a page and the
links of a graph in any order. The union-find is kept as the sets it represents.
Scores are in hundredths, rounded as the code does. `deep_pages`, which is always
empty, and link properties other than the two sorts are left out.

### Billing

`row` is the tenant's row with both columns `plan` and `plan_tier`, `fixes` the rows of
`action_queue` the gate counts (deployed, touched this month), `applied` those of them
the apply route marked (history), `req` the requests in flight with the statement each
awaits, `sub` and `events` Stripe's side. Of the three counts only that of fixes is ever
answered: `countSites` selects `id` of `sites`, whose key is `site_id`, and
`countCrawls` filters `jobs` by `tenant_id`; both columns do not exist and the count
becomes 0. What the other gated routes then write is refused too (register's lookup and
insert name `extra_data` and `platform`, which `sites` does not have; orchestrate's
inserts as above) or carries no tenant (schedule's job), so `ActElsewhere` leaves
nothing. `DeployElsewhere` is what optimize, promote and the Approve button deploy, and
rows of an earlier month that are touched again: the gate counts them and none of them
passes a gate. `Undeploy` is a row that is no longer deployed, of either kind. Reads
that fail answer as the code does: the tier of a starter, the status `active`, the count
0; `misread` remembers for whom (history). Which routes ask the gate, and that a
schedule request without tenant header does not, is in `Arrive`. The rows' `plan_tier`
is any from the start, since nothing modelled writes it.

### SiteWatch

`shows` is what the page has, `baseline` the last saved snapshot, `snapshot` the
last verification. A capture and a check are one step each: they run alone per
page. `owed`, `captured`, `passed`, `skipped` are history. Scores, severities
below high and the texts of alerts are left out.

## 3. Runs

| Run | Instance | What it shows |
|---|---|---|
| `job_one_loop` | 1 runner, 2 jobs of 3 kinds, 2 priorities, 2 attempts, 2 per tick, a crash and restart, cancellations | types; attempts count executions; no exhausted job is left at the head; ticks are serial; the queue implements `JobContract`; every pending job is settled |
| `job_two_runners` | 2 runners, 2 jobs, one lost statement, a crash, stop and cancel | a job fails only after its attempts were spent; a running row is held; a cancelled job nobody holds stays cancelled |
| `job_v_exhausted` | 2 runners | violation: a job past its attempts is left pending |
| `fix_serial` | 1 process, all commands, 3 of them in a row, buttons between them, a crash, a failed statement | types; `FixLifecycle`; a manifest for what no person let through, unless storing it failed; every item optimize loads is routed |
| `fix_operators` | optimize beside all other commands, approvals from the dashboard, 3 commands in all | no deployment without a decision; deployed means written |
| `fix_v_pending`, `fix_v_undone` | 1 process | violations, section 5 |
| `approval_review` | 2 items of any types, script, approver and 2 requests, one failed statement, an undecided and a borderline history | types; what is learnt is what people said; automatic approval only after a person's; ineligible types wait; queue and learnings agree |
| `approval_v_rejected` | 1 request, a long record of approvals | violation: decided rows are decided again |
| `services` | the seven services, each alone: 1 tenant with 2 requests and 3 Stripe steps; 2 issues in 2 live runs, dry or not; 2 sites at night, an operator, one lost write; 2 syncs at a time over 4 days, data 3 days late, tolerance 1; 5 pages; 4 jobs in batches of 2; 2 signals | types, and the properties of section 1's last four points |
| `gsc_v_lag` | 1 sync at a time, data 3 days late, tolerance 1 | violation: the deltas leave holes |
| `billing_v_plan` | 1 tenant, all tiers, 2 Stripe steps | violation: the plan bought is not the one gated |

Bounds. Two jobs are enough for a race over one row and for a head row that blocks
another; two attempts give a first failure, a retry and the last failure; the clock
moves once, so a job is first not yet due and then due. Two items, one ranked first,
with generated text and really written, one above the risk limit, take every branch of
optimize; the approval and manual marks of both are free. Three commands are enough for
two that overlap and a third on what they left: a mark made while another command holds
the row is seen by a third. One crash and one failed statement reach each place; two
would only repeat.

Two verified items give one that teaches the approver about the other; two
requests are enough to mix a row with a learning; of the histories one has
nothing decided and one, 4 approvals of 5, meets the threshold of 85 only with
the bonus for its number; one approval per run reaches the limit of a batch of two.

In `services`: two requests, a limit of one and a batch of two make the overrun by a
batch of each, and five deployed fixes leave room for those of other commands; three
Stripe steps are a checkout, an end and a second checkout; two issues over two runs, of
which either may be dry, let a fix outlive its attempt and its run; a threshold of 2 and
one lost write reach every branch of the counting; two syncs at once over four days,
with the repository's lag and tolerance, a window of three and a full sync after three,
give overlaps, deltas, forced full syncs and, by the lag, holes; six possible links over
five pages, with two ways to one page, a cycle back to the homepage, unreached pages and
any subset crawled; four jobs in two batches; of two signals one an empty page shows
too.

`CHECK_DEADLOCK FALSE` appears where the system may really stop: all bounded
commands have ended, no runner polls any more, no verification passed and nothing is
left to decide, or the graph is analysed and the call is over.

Fairness. Of the runner, weak fairness of each loop (an armed timer fires, an
awaited statement returns) and of the clock. Of commands, weak fairness of each
process's own steps: a command that runs keeps running. Nothing is assumed of
starts, crashes, people, or the un-awaited writes. Of the orchestrator, weak
fairness of its own steps, a crawl included, since a crawl is taken to return. Of
the live run, of the fetch, the timer and the end only, nothing of the fixes. Of
the nightly run, that it is started again and that time passes. Of Stripe, that an
event that can be handled is in the end delivered and its answer seen.

## 4. Proofs

All theorems hold for every value of the constants. Assumptions: the named
assumption of each module (constants have their types, thresholds are in order),
and those named below.

- `JobQueueProofs!TypeCorrect`: `Spec => []TypeOK`. The invariant adds that a
  loop in the middle of a job holds a real one; without it `row[loop[w].job]`
  means nothing.
- `JobQueueProofs!FailureIsEarned`: `Spec => []NeverFailedEarly`. The invariant
  bounds the attempts of a row, and the count a loop has read for its next write,
  by the executions so far.
- `JobQueueProofs!RunningHasExecutor`: `Spec => []RunningIsHeld`, inductive as it
  stands: a step that leaves a row running makes an executor, is another loop's, or
  moves the executor one stage on.
- `JobQueueProofs!CancelledForGood`: `Spec => CancelledIdleStays`, from the type
  invariant alone: only a loop that has the job in hand writes its row.
- `JobQueueProofs!TicksAreSerial`: without `stop()`, `Spec => []SerialTicks`. The
  invariant `OneChain` has at most one loop of a runner on, and none of a runner that
  is not running. `stop()` is excluded because stop and start within a tick do make
  two chains; outside tests nothing in the repository calls it.
- `JobQueueProofs!Implements`: for one runner whose statements are answered,
  `Spec => ImplementsContract`; each step is a step of `JobContract` or a stutter, with
  any number of crashes, restarts and cancellations. The contract's `hand`, where a
  job is with its executor, is `Hand`, read off the loops. `ContractInv` adds to
  `OneChain` that what the loop knows of its job is what the table says, unless the
  job was cancelled meanwhile (`LoopAgrees`), and that what a row says of its attempts
  is what happened (`RowAgrees`). The claim's select is a `Take`, its update a `Begin`,
  the first `failJob` a report that keeps the job in hand and the second one that lets
  go of it; `HandOfOne` says what `Hand` is while one loop is on. The same invariant
  gives `AttemptsAreCounted` (`AttemptsCountRuns`) and `HeadIsClaimable`
  (`PendingIsClaimable`). The hypothesis `OneLoopOnly` is needed: a second runner
  overwrites what the first did (`job_v_exhausted`).
- `FixPipelineProofs!TypeCorrect`: `Spec => []TypeOK`, with the item in hand.
- `FixPipelineProofs!DeployedIsWritten`: if the Approve button is not used,
  `Spec => []DeployedWasWritten`. The invariant adds the mark under way: a process
  about to write `deployed` has an item that was written. The button is excluded
  because it sets `deployed` without applying.
- `FixPipelineProofs!ApprovalIsKept`: with one process that runs optimize,
  `Spec => []NoAutoDeployOfRisky`. The invariant `ApprovalInv` has three parts per
  process: `Place` (what a program counter implies), `Decided` (which items in hand
  a person let through), `Informed` (a copy knows at least the approvals its row
  has, and no item ahead of optimize was deployed undecided). It is needed because
  the mark goes to whatever the row is by then. Two optimize runs at once on a run
  of one site break it: a text of low confidence generated by one raises an
  approval the other's copy does not have.
- `FixPipelineProofs!ManifestIsKept`: `Spec => []DeployedHasManifest` without any
  hypothesis: for commands that overlap and die, all dashboard controls and any failed
  statements. `ManifestInv` has, per process, that from the adapter call to the mark the
  item in hand has a manifest, or is in `unstored`, or was let through by a person
  (`Backed`), and that no write under way clears a manifest. The history variable
  `unstored` is what the property has to except, since the patch engine goes on when
  it could not store the manifest.
- `FixPipelineProofs!Implements`: while commands that overlap are of different stages
  (`StagesApart`), `Spec => ImplementsLifecycle`, with buttons, the bulk apply, failed
  statements, crashes and late manifests. `StagesApart` is about the constants: if
  commands may overlap, no status is loaded by the commands of two processes, the
  buttons are used only if no process runs promote or approve, which work on the same
  items, and the fixes route, which writes `approved` and `skipped` over `queued`, is
  not used. It is met by one process that runs optimize, verify and rollback beside one
  that runs promote, approve and apply, and by any set of commands that do not overlap
  (`fix_serial`, the instance TLC checks). The
  invariant `StageInv` says that a process runs one of its commands (`OnDuty`), that its
  place fits its command and its mark is one of that command's (`Course`), and that the
  rows of the items ahead still have a status the command loads (`Fresh`), which makes
  each mark a move of the lifecycle. What another process marks is, by `OthersApart`,
  at another stage. Two commands of one stage do break it: each marks what the other
  has marked already.
- `ApprovalQueueProofs!TypeCorrect`: `Spec => []TypeOK`, with the items that script,
  batch and requests hold.
- `ApprovalQueueProofs!LearningsAreHuman`: `Spec => []LearningIsHuman`. The
  invariant adds that a request about to write a learning has set the status.
- `ApprovalQueueProofs!PeopleComeFirst`: `Spec => []AutoFollowsPeople`, if
  `MinConfidence > 10`, the largest bonus. The invariant adds that whatever the
  script or the batch has evaluated and not yet written had a person's approval
  before it: by the score, some learning was approved, hence by a person.
- `ApprovalQueueProofs!GateHolds`: `Spec => []IneligibleNeedsPerson`; what waits to
  be approved automatically is eligible.
- `ApprovalQueueProofs!TablesAgree`: `Spec => []LearningMatchesRow`. The invariant
  adds that a request between its two writes is the last writer of the row,
  unless the item is in `torn` or was approved automatically meanwhile.

- `SiteRunProofs`: of `JobOrchestrator`, `OrchTyped`; `BatchesBounded` (`BatchBound`)
  from `JobsInOrder`, that jobs before the batch are settled and those after it
  untouched. `PriorityBands` is a lemma about the score.
- `SiteRunProofs!DryStaysDry`, `LingerersReported`, `LateIgnored`
  (`DryRunDeploysNothing`, `OnlyTimedOutLingers`, `LateAnswerIgnored`): `LiveInv` says
  that an attempt yet to come has left no trace, the one in hand has no result and a
  function at work, and a function nobody waits for belongs to an attempt that timed
  out (`HandInv`); and that a function knows from its start whether its run is dry, and
  one that is comes to no deployment (`DryInv`). With `LiveTyped`.
- `ScheduledProofs`: `Strikes`, `HardSuspension`, `Served` from `NightInv`: a site that
  is not suspended, or still to be processed this night, is below the threshold by
  its count, allowing for lost writes, and a suspension on its way has a count that
  reached it (`CountInv`); without lost writes, and unless the operator resumed the
  site between count and suspension, the count is no more than the streak
  (`StrikeInv`); and of a site the run may resume, the row has no more time left than
  the copy the run goes by, unless an operator's suspension replaced it (`ServedInv`).
  `NightlyTyped` for the types.
- `ScheduledProofs!OnlyLag`: `DeltaSpec => []HolesAreLag`, for every lag and tolerance,
  any number of overlapping syncs and lost records. The invariant says of every moment
  the record ever stood at, and of the moment each sync builds on or is about to write,
  that a day missing from the window before it was too young for one recorded sync and
  out of the next one's reach; a delta adds what lies between. With `Lag <= Tolerance +
  1` nothing is ever too young and out of reach, and `WindowComplete` follows; the
  repository's 3 and 1 do not meet that, and `gsc_v_lag` shows the hole.
- `BillingProofs`: `FixesCapped` from `BillingInv`: a request past the gate holds the
  items it has left, and what the apply route deployed plus what is held is at most
  the limit less one plus all places there are (`Rooms`). The gate keeps it because it
  counts at least what the route deployed (`AppliedCounted`), and a count below the
  limit leaves room for all requests at once; an item turns a held place into a
  deployed fix. It needs that a counting request goes by its tenant's tier unless the
  row was misread (`TierKnown`). What other commands deploy makes the gate refuse
  earlier, never later. `BillingTyped` for the types.
- `LinkGraphProofs!DepthsAreClicks`: `GraphSpec => []DepthIsClicks`, for any finite
  graph and any order of its links. `SearchInv` is that of a breadth-first search: the
  queue is in the order of the depths and no page is known beyond one click more than
  the page under way (`Levels`); a page that left the queue has its neighbours known or
  still to do (`Expanded`); a path is a way through one page of each depth (`Ways`).
  When the queue is empty, a page of fewer clicks than its depth would have a
  first such page on a shortest way, which `Expanded` excludes. `Clicks` is defined by
  a recursive function on the number of clicks; the proof gives the function of walk
  ends explicitly and argues from the least number that fails. With `GraphTyped`.
- `LinkGraphProofs!OrphansAreAgreed`: `GraphSpec => []OrphansAgree`, from the counts of
  inbound links, which are 0 for a page exactly when nothing links to it, and
  `SearchInv`.
- `LinkGraphProofs!ComponentsAreCounted`: `GraphSpec => []ComponentsCounted`. Of the
  sets of the forest `ForestInv` says that they are disjoint (`Apart`), that none
  reaches beyond what links join (`OneComponent`), and, if every linked page was crawled
  (`Whole`), that each link done has both ends in one of them.
- `ScheduledProofs!LossesAreSeen`: `WatchSpec => []LossIsSeen`. What is owed a report is
  in the last capture and in the snapshot the next one is compared with
  (`BaselineOwes`); a signal that passed is PASS in the last snapshot or was SKIP since
  (`PassedOrSkipped`). With `WatchTyped`.

- `ServicesProofs!EachByItself`: `MCServices!Spec` implies the specification of each of
  the seven services, since a step is one service's and `Rest` keeps the others
  (`StepOfOne`). So every theorem above holds of the composition the run checks:
  `ServicesTyped` (`TypeOK`, from the type theorems), `ServicesSafe` (the other
  invariants of the run), `ServicesServe` (`SuspensionServed`) and `ServicesIgnoreLate`
  (`LateAnswerIgnored`).

Model-checked only: liveness (`EventuallySettled`, `EveryItemRouted`, `EndIsHandled`,
`HangNeverBlocks`, `SuspendedComesBack`, `CallEnds`), which needs `ENABLED`. Every
invariant and every action property a passing run checks is a theorem.

## 5. Where code and text disagree

- An exhausted job can stay pending and block the queue (`job_v_exhausted`): a
  late second `failJob` overwrites what another runner did with the job.
- Items waiting for approval are already live (`fix_v_pending`): optimize's
  sandbox apply is not one, since the Shopify adapter ignores its `sandbox` flag.
- An item can be counted as rolled back while its fix is live (`fix_v_undone`):
  a manifest without `affected_resources` sends the revert to a stub.
- The automatic approver takes rows a person has rejected (`approval_v_rejected`):
  with a site id `getApprovalQueue` does not filter by status.
- Search data that comes three days late falls through a tolerance of one day
  (`gsc_v_lag`).
- The plan a tenant buys is written to `plan` and gated by `plan_tier`
  (`billing_v_plan`).

Seen while modelling and not given a run: with two runners the attempts column does not
count executions; `stop` and `start` within a tick give one runner two timer chains; the
live apply records the sandbox apply's fix as the original value; the guardrail's ladder
is not consulted, so optimize goes on to lower-ranked items after a higher one failed;
the script overwrites a rejection given between its evaluation and its write; two
overlapping requests for one item can leave queue and learning with different verdicts;
every statement of the orchestrator and of its cancellation on `jobs` is refused, so a
call leaves no rows and a cancelled job runs all the same; no site can be registered
through `onboarding/register`, whose lookup and insert name columns `sites` does not
have; the limits on sites and crawls limit nothing, since their counts fail and count as
0, and what optimize, promote and the Approve button deploy is counted and never gated;
a live run reports `deployed` for fixes its default deployment does not write; the end
of a subscription sets `inactive`, which the gate does not stop, and a redelivered
checkout revives an ended subscription; the billing page's checkout names no plan, so
its event is answered 500 for ever; nothing takes a tenant out of `past_due`; the hard
suspension of ten failures cannot be reached without lost writes; a site that is resumed
by hand between its last failure and the suspension it led to is suspended again without
a failure since; a suspension by hand is lifted by the nightly run; a sync whose fetch
failed is recorded as a sync; a page that could not be fetched is saved as an empty one,
which is a false alarm for all it had; the regression monitor compares with the snapshot
before, not, as `regression_monitor.ts:65` says, with the last that passed, so a signal
that was SKIP in between can fail unreported, and a persisting failure is reported once;
the rollback of a run cannot reverse or verify anything, since both adapters'
`apply_patch` and `fetch_state` only throw; the dashboard's rollback of a fix reports
success and restores nothing; a rolled-back item keeps its status, since the CHECK of
migration 010 refuses `rolled_back`, so every rollback takes it again.

## 6. What is left

In this order:

1. `FixPipeline`: the WordPress adapter's persist; several audit runs of one site.
2. The rollback of a run and the window of `rollback_engine`, once the adapters'
   `apply_patch` and the default `applyFn` restore something.
3. `LiveRun`: the pages, once the batch is given a fetch and a deployment that reach
   them; then also what a late whole-page deployment writes over.
4. `JobOrchestrator`: its rows and their cancellation, once a migration fits them.
5. `ApprovalQueue`: the schema execution gate once a route uses it.

Not modelled:

- Preview verification and monitor: no caller, the statuses they would write are
  refused by migration 010, and no worker consumes the monitor's jobs.
- GSC account pool, drift scan and requeue, notification deduplication: their
  stores are injected and nothing wires them, so there is no state that outlives
  a call.
- Onboarding wizard: its routes read and write back whole a field of
  `sites.extra_data`, a column no migration creates; nothing calls
  `completeShopifyConnection`, so `connect_shopify` is never completed, and the
  first crawl is inserted into `job_queue`, which no runner reads.
- Rollback runner and rollback engine: `executeRollback` and `verifyRollback` go
  through `apply_patch` and `fetch_state`, which in both adapters do nothing but throw
  (`packages/adapters/shopify/src/index.ts:770-776`,
  `packages/adapters/wordpress/src/index.ts:498-504`), on manifests nothing writes; the
  default of the one-fix rollback reports success and restores nothing.
- Agency roster: no migration creates its tables, and the invite routes keep
  nothing. Shopify webhooks: a few independent statements each, and nothing
  reads the status they set.
- `packages/queue`, action log and truth server: wrappers over BullMQ, a log and
  Supabase. Crawler: Crawlee holds the control.
- Guardrail and risk scorer: pure, without state, and the guardrail not consulted.
- Detection, scoring, schema generation, link extraction, reports and pages: data
  processing without a protocol. Most of the repository's lines are of this kind.
- The AI service and the CMS APIs are external and appear as free choices.
