# Verification of the Sellico Ads Intelligence backend

TLA+ models of the parts of this backend in which several actors (worker
processes, API requests, the marketplaces themselves, the seller) change shared
state, with TLC runs on small instances and TLAPS proofs for every instance.

Run a check with `tlc -config <cfg> <module>` and the proofs of a module with
`tlapm <module>Proofs.tla` (`BidActions` has two: `BidActionsProofs` and
`BidActionsSafety`).

## 1. The system

The backend advises on, and partly automates, advertising and prices of sellers
on Wildberries (WB) and Ozon. `cmd/api` serves a REST API; `cmd/worker` runs
asynq servers over Redis; both share one PostgreSQL database. External services
are the WB and Ozon APIs, the Sellico platform, an LLM, Telegram and e-mail.

| Component | State | Operations | What is hard | What makes it correct |
|---|---|---|---|---|
| WB bid automation (`internal/service/bid_automation.go`, `cluster_bid_automation.go`, `sqlc/wb_ads_controls_manual.go`) | `wb_bid_actions`, `bid_changes` | run, claim, guard, write, record, complete, reconcile | overlapping workers, crashes between steps, timed-out writes, operators stopping it meanwhile | daily cap, one write per action, no second action on a bid an earlier one changed, truthful history, every uncertain action resolved |
| Workspace settings (`workspace_settings.go`) | `workspaces.settings` JSON | read-merge-write under an advisory lock | racing updates, racing automation | a hold takes effect |
| Strategies, bindings, rollout (`strategy.go`, `strategy_evaluation.go`, `bid_evaluation_recorder.go`) | `strategies`, `strategy_bindings`, evaluation runs | create, update, attach, promote, hold | promotion decided on stale evaluations | one live owner per target, a hold outlives a late promotion |
| WB sync (`sync.go`, `sync_job.go`) | campaigns, products, phrases, readiness | fetch, upsert, retry a phase | partial answers, two overlapping syncs, rate limits | one sync of a cabinet, readiness means whole and current |
| Repricer, price schedules (`repricer*.go`, `price_schedule.go`, `priceengine.go`) | price changes, upload tasks, schedules | propose, queue, upload, poll, revert | asynchronous WB tasks, lost answers, reverts | a change is locked until WB has settled it, the margin floor, a schedule acts once |
| Ozon AI autopilot (`ozon_ai_*.go`, `ozon_guardrails.go`) | runs, decisions, state events | plan, execute, approve, reject, expire | approval of an outdated decision, a run that dies, people beside it | a decision is carried out once, within the cap, under its strategy, and never against a person |
| Recommendations, manual campaign actions (`recommendation*.go`, `campaign_actions.go`) | recommendations, bid history | generate, decide, claim, apply, release, roll back | two requests and a generator on one row, lost answers | sent once, for the bid it was made for, no claim and no uncertain outcome lost |
| Ozon strategies and repricer (`ozon_strategy.go`, `ozon_repricer.go`) | Ozon bids, prices | as on WB | no idempotent writes | as above |
| API budgets (`ozon_api_budget.go`, `perf_quota.go`, `wb_rate_limit_guard.go`, `wb/breaker.go`) | counters, cooldowns, breaker state | reserve, refund, trip, recover | counters shared by workers | never above the quota |
| Worker runtime (`internal/worker`) | asynq queues, `job_runs`, sync locks | schedule, dequeue, retry, expire | duplicate tasks, restarts | every open row has an owner |
| Exports, notifications, auth, cabinets, extension ingest, read models, HTTP | own tables | CRUD and formatting | token refresh, status of long jobs | see PROJECT.json |

The components meet in the database. A bid run reads what the sync stored,
writes WB, and records rows that the reconciliation later compares with a newer
sync. API requests change settings, strategies, prices and recommendations at
any time. A worker process runs three asynq servers
(`internal/worker/runtime.go:190-222`): the WB jobs (syncs, bid runs,
reconciliation) and the repricer have one slot each (`Concurrency: 1`), so jobs of
one of these servers follow one another; the Ozon server has two, so two Ozon jobs
run beside each other. Nothing serialises the jobs of two processes: a rolling
restart or a second replica overlaps them.

## 2. Modules

| Module | Models |
|---|---|
| `BidActions` | automated bid writes of one workspace: bid runs, the claim and guard statements, the write lease, audit and completion, sync of a target, reconciliation, settings and strategy updates, crashes, lost connections, the seller's own edits, Moscow midnight |
| `BidLedger` | what `wb_bid_actions` promises its readers: the abstract life of an action, which `BidActions` implements |
| `BindingRollout` | the rollout of one strategy binding: shadow validation, promotion, blocks, manual holds; workers against operators |
| `StrategyOwnership` | which live strategy owns a campaign or product: updates and attachments under the ownership lock, everything else without |
| `CabinetSync` | the sync of the WB cabinets of a workspace: requests, hourly sweeps, the asynq queue, the in-memory lock, the pipeline of phases with rate limits, `job_runs` and readiness |
| `PriceEngine` | the arithmetic of the WB repricer as operators: conversions, guards, floors and the decisions of the five strategies |
| `PriceQueue` | the price changes of one WB cabinet from request, schedule or strategy to WB and back: queue, uploads, polling, reverts, recovery; uses `PriceEngine` |
| `OzonAutopilot` | the AI autopilot of an Ozon cabinet: runs, plans, decisions, approvals and manual switches around the execution lock; syncs, expiry and strategy edits without it |
| `Recommendations` | the bid recommendations of one phrase: generator, people's decisions, application to WB, bids set and rolled back by hand |
| `MC*` | instances of these for TLC |
| `*Proofs`, `BidActionsSafety` | their proofs |

The modules meet in the strategy and in the synced data: `StrategyOwnership`
decides which strategies may be live, `BindingRollout` whether a binding of one
may be written (its `WriteBid`), `BidActions` how such a write is made (its
`Decide` onwards), and `CabinetSync` when the data all of them read is called
ready.

### `BidActions`

* `acts` is `wb_bid_actions` in insertion order, each row with the `wb_status`
  of its `bid_changes` row (`audit`, `None` when there is none yet). `grant`,
  `writes` and `landed` are history variables kept in the row.
* A *scope* is a bid target: product and normalised query, with `None` for SQL
  NULL, compared as the SQL compares it (`Overlaps`): NULL is a wildcard. All
  scopes belong to one campaign and placement.
* `obs` is the synced bid with a version number for its timestamp; `wb` is what
  WB really uses, `member` what it lists in the campaign.
* `lock` is the advisory lock `<workspace>:workspace-daily-bid-actions`. The
  claim's second lock (campaign and placement) is always taken inside the
  first, so it adds nothing within one workspace.
* PostgreSQL runs READ COMMITTED. The statement that claims an action and the
  one that guards a write take the lock in a CTE of the statement that reads
  the tables, so they read the snapshot of the moment they *started*, and
  unique indexes alone see newer rows. `ClaimBegin`/`LeaseBegin` take the
  snapshot, `ClaimExec`/`LeaseExec` get the lock.
* `UpdateSettings` takes the lock with a statement of its own before it reads,
  so `SettingsBegin`/`SettingsCommit` have no stale snapshot.
* One worker runs one job at a time: `pc` walks through `executeStrategy`
  (cluster targets follow the same path in `executeManualCPMClusters`). Each
  database round trip or WB call is a step.
* `Decide` stands for the guards of a binding and the bid engine: any scope
  with a synced bid may get any other bid, or none.
* A WB call ends `applied` (it took effect), `failed` (it did not) or `unknown`
  (either). A call that timed out is taken to have had its effect, if any, when
  the five-second timeout ends.
* A daily window is the day `automationBidDayWindow` computed *before* the
  claim; the row's `created_at` may already be on the next day.
* `ReconcileStaleBidActions` reads only synced bids. With
  `PromptWorkers = TRUE` an action still in a live worker's hands is younger
  than the five-minute delay and is not listed; with `FALSE` it may be. `bid_cap`
  and `LedgerKept` need `TRUE`: a worker that is slower than the delay and a
  reconciliation beside it can both store an outcome, and the table is then no
  `BidLedger`. The cap and the single write do not depend on it (`DailyCap`,
  `OneWrite`).
* `Crash` is the end of the process, and also stands for a failed statement
  after which the code leaves the binding; rows keep their state, locks go.
* Bounds: `MaxActions`, `MaxVersions`, `MaxDays`, `MaxUpdates`, `MaxEdits`,
  `MaxFaults`; each is a guard of the action that would pass it.

Two comments of `internal/repository/sqlc/wb_ads_controls_manual.go` say more
than the snapshots give. A guard that waited for a settings update passes on the
settings from before it (the comment at lines 276-279 has the lock order the two),
and a claim that waited for another claim does not see its row, so that two
workers may both have an open action for nested targets (lines 101-103). With one
worker process and one job at a time the second cannot happen
(`OneTargetAtATime`); the first lets through at most one write per worker
(`LateWrites`). Taking the lock in a statement of its own, as
`BeginWorkspaceSettingsUpdateTx` does, would give both comments their meaning.

### `BindingRollout`

* `row` is the binding's row of `strategy_binding_rollouts`; `period` counts the
  values of `validation_started_at`. The block code and texts are left out.
* A worker walks through `beginBindingEvaluation` (`EnsureRollout`, `Unblock`,
  `Reread`, `CreateRun`: one statement each) and then evaluates: it is refused
  (`Block`), confirms a shadow cycle (`Confirm`, `Promote`) or writes
  (`WriteBid`, `FinishWrites`). Which of them happens depends on data the model
  does not have and is a free choice. `rec[w].ok` is FALSE when the run could
  not be stored: the recorder is then nil and its methods do nothing.
* An operator's `UpdateBindingRollout` is two statements: `ReadCurrent` and
  `UpdateRollout`. `UpdateStrategyRollout` does the same for each binding.
* `evaluated`, `late` are history: the validation periods in which a shadow
  cycle was confirmed, and the writes made since the hold was set.
* Bounds: `MaxRequests`, `MaxPeriods`, `MaxFaults`.

Two comments of `internal/service/strategy_evaluation.go` do not hold to the
letter. `SetStrategyBindingRolloutSystemState` excludes held rows, but not rows
that were held and released since the evaluation read them, so a promotion begun
before a hold makes the binding live after its release without a new shadow
cycle (lines 86-87; comparing `validation_started_at` would tell them apart).
And `finish` only logs an error of the statement that stores the cycle, so a
promotion does not wait for it. Neither makes an untested binding live
(`TestedBeforeLive`).

### `StrategyOwnership`

* A strategy row is `status`, `active` and `level`; ids are never reused, so
  `gone` is final. `CabinetOf` is a constant because no statement changes the
  cabinet of a strategy or a campaign.
* `Update` and `AttachBinding` run `Receive`, `BeginTx`, `Load`, `Check`,
  `Write`, `Commit`. The lock is taken by a statement of its own, so later
  statements read current rows; rows change at `Commit`, and between `Write`
  and `Commit` the strategy's row is locked against `Delete` (and, after an
  UPDATE, against `Downgrade`).
* `ConflictForScope` and `ConflictForBindings` are the two SQL conditions,
  `Overlap` is `strategyBindingScopesOverlap`. The existence of the campaign
  product in a binding is a matter of the data and not modelled; that a
  campaign belongs to the strategy's cabinet is (`Writable`).
* `Fail` is any failed statement, lost client or crash: the deferred rollback,
  or the end of the connection, releases the lock.
* Bounds: `MaxRequests`, and `BindingIds` through `Room`.

### `CabinetSync`

* `queue` holds the tasks of asynq's queue `wb_sync` as a set: `asynq.Unique`
  and the task identity make equal tasks one. `runs` is `job_runs`, one row per
  request and one per task without a request; finished rows are all `closed`.
  `locks` and `held` are `workspaceSyncLocks` and the mutexes in it.
* A request is three steps (`CreatePending`, `EnqueueSync`, `SettleRequest`); a
  handler goroutine walks through trying the lock, beginning, the phases of
  `syncSingleCabinet` in order, closing, `Unlock` and `Delete` of the lock.
* A phase ends in one of the outcomes of `PhaseOutcomes`: what its caller adds
  as an issue, whether the text shows a rate limit, whether a cooldown was
  stored, whether data was. Whether a cooldown of `guardWBEndpoint` is still on
  is a free choice. Rate-limited phases are queued again, `MaxPhaseRetry` times.
* `whole` remembers the phases behind a `ready`; `orphans` the rows whose handler
  died or could not close them, which the expiry of stale rows is for.
* A mishap is the end of the process, a failed statement, or a deadline that
  passes while the handler goes on (asynq then starts the retry beside it).
* `PromptRequests` says that no task starts before its request is answered.
  Without it the last statement of a request may write `pending` over a row
  that is closed already (run `sync_ghost_row`, a finding).
* Bounds: `MaxPhaseRetry`, `MaxRetry` (both the code's), `MaxMishaps`, and the
  sets `Requests` and `Handlers`.

### `PriceEngine` and `PriceQueue`

* Prices are whole rubles and percentages whole, so that the rounding of the
  code is exact; `effectiveOf` and `basePriceForTarget` are the two conversions
  of a price with a discount, `Requested` the guards of a manual or scheduled
  request, `Decide...` the five strategies.
* `changes` is `price_changes`, `entries` `price_schedule_entries`, `tasks` the
  rows of `price_upload_tasks`; `wb` and `wbPrice` are WB's own upload tasks and
  prices; `synced` is `product_prices` with the product's last change before the
  sync. A process (an API request or the worker's single slot) has one job.
* `Baseline` is `overlayLatestPriceIntents`; `Enqueue` is
  `EnqueuePriceChange`, which supersedes a pending change of the product;
  `ClaimPending` is `ClaimPendingPriceChanges`, which refuses a product that has
  a change in transport. A submit ends accepted, rejected, rate-limited or
  unknown; an unknown one is retried with the same payload, and WB answers a
  repeated payload (208) with the task it belongs to.
* WB processes a task at any time and may refuse single goods; polling learns it
  in the same step as the aggregation of the schedule entries (one statement in
  the code for the link and the result, merged here with what reads it).
* `RejectRetries = TRUE` would let WB refuse the retry of an upload it has
  accepted; the code (`prices.go:20-22`) relies on the 208, and the instances
  and theorems that depend on it say `RejectRetries = FALSE`.
* Costs change at any time: `Economics[p]` is the set of the economics of `p`, and
  every request, schedule, revert and strategy run reads its own
  (`MarginFloors`, `EconomicsRead`). `marginFloors` swallows a failed statement: a
  good whose economics were not read has no floor (`Missing`), and its request
  goes unclamped. In the same way a rollback, a strategy and a schedule pass when
  the statement fails that would have shown them a change in flight, a child or a
  freeze. Each of these is a mishap (`Unseen`).
* `floor` of a change is `min_price_rub`, the floor its decision has read. A
  rollback reads none.
* Also assumed of the surroundings: WB recognises the payload of the last task
  touching those goods; a live submitter ends within thirty minutes (`Orphans`
  have no owner); nobody edits prices in WB's own interface. Left out: `force`,
  discount edits. The price list, the floors and the latest changes of a request
  are read in one step, except that floors may be of any moment. Enqueueing fails
  when `MaxChanges` is reached.
* Bounds: `MaxChanges`, `MaxMishaps`, `MaxSyncs`.

Behaviours of the code worth knowing, which the properties allow on purpose:

* An executor saves the changes of an entry one by one. If a request drains the
  queue after the first and WB answers with an older task of the same payload
  that is applied, the entry is `done` before its last change is saved, contrary
  to the comment at `repricer_apply.go:111` and the name of the test at
  `repricer_state_test.go:85`. `DoneMeansApplied` excepts changes that such a
  reused task covers (`Reused`).
* A request, schedule or revert crosses the margin floor without `force` when the
  economics cannot be read (`repricer_bulk.go:262-264`), against the comment at
  `repricer_bulk.go:20-22` ("A change is kept from crossing the product's margin
  floor unless force is set"). A rollback or a decision made before the costs rose
  may leave a price below today's floor. `MarginKept` therefore says two things:
  every decision keeps the floor *it has read*, or raises the price; and WB never
  goes below both the start price and the lowest floor that a decision about the
  product has read, whatever is superseded, lost, repeated or rolled back.
* A change created before a sync and applied after it is overlaid by the older
  synced price; an entry fails when another good of its shared task fails, and
  its revert is then rejected.

### `OzonAutopilot`

* `runs` is `ai_runs`, `rows` `ai_decisions`, named by run and place in the order
  of execution. `lock` is the advisory lock of the cabinet
  (`WithOzonAIExecutionLock`). `aiPause` is what `activationObservationReason`
  asks of the events of a campaign.
* A worker plans (the model answers with any plan of `Plans`, or not), takes the
  lock, reads the strategy again, judges the whole plan and executes it step by
  step: `Step` inserts a row and, on level 3, claims it; then come the call of
  Ozon, the audit and mirror of a state change, and the record of the outcome.
  A user approves (`Approve`, `Claim`, then the same calls), rejects, or switches
  a campaign by hand.
* Guards about prices, statistics and economics may reject anything; those about
  the state of a campaign, the daily limit of a target, the cap of the cabinet
  and the pauses of people are modelled (`StateForbids`, `Verdicts`,
  `CapReached`).
* History: `writes` and `masked` of a row, `held` (campaigns a person has
  paused) and `overtaken` (the strategy changed under a holder of the lock).
* Merged: the check for a live run and the insertion of its own (an overlap is
  reached by `ExpireRun`); a batch approval is a sequence of approvals;
  `repaired` stands for the end of the observation window and a repair. The gap
  of two hours between runs is left out because runs started by hand ignore it.
* Bounds: `MaxRuns`, `MaxSteps`, `MaxDecisions`, `MaxStrategies`, `MaxMishaps`.

Behaviours worth knowing:

* When the answer to a metered write is lost and its retry meets the quota, the
  decision is open again although Ozon carried it out (the comment at
  `ozon_ai_review.go:335-336` takes a quota error for "not written").
  `WriteOnce` has that exception.
* A sync that read its list before a person paused a campaign and writes after it
  makes the autopilot pause it again, and later resume it, against
  `ozon_ai_manager.go:620-622`; `HumanPauseStays` excepts such a sync.
* The cap counts confirmed writes only (`ozon_ai.sql.go:113` says "actually
  reached Ozon"); a row stuck in `approved` counts for the day it was proposed.
* A plan goes on to its end when the strategy is switched off under it, and a
  pause approved by a person counts as the AI's.

### `Recommendations`

* `recs` are the rows of the two bid types of one phrase, `changes` the applied
  `bid_changes`, `obs` the synced bid, `wb` WB's, `camp` the campaign's status.
* `ApplyRecommendation` claims (`ClaimActiveRecommendation`, compare and set from
  `active` to `applying`), compares its baseline with the synced bid
  (`ApplyChecks`), calls WB, records and completes; a refusal releases
  (`ReleaseClaim`), an unknown outcome marks (`MarkApplyUnknown`).
  `SetClusterBid` and `RollbackBidChange` write without a claim; start, pause and stop also invalidate
  active rows. The generator looks up and writes in two statements.
* A request may end after any statement; what its `defer` would do with the
  context of the request is then lost (`lost`).
* Bounds: `MaxBid`, `MaxRecs`, `MaxChanges`, `MaxRuns`, `MaxEvents`.
* Left out: the freshness check (a refusal that changes nothing), bids of whole
  campaigns, their rollback and minus phrases (the same sequence of steps),
  `DeleteClusterBid`, creation, renaming and deletion of campaigns, deposits,
  `CloseOrphanedRecommendations`, audit rows, an absent bid, campaigns that are
  `ready`, an update to the status a row already has.

Behaviours worth knowing:

* While a row is `applying` the generator finds no active one and creates a
  second for the phrase, so the same bid can be sent twice through two rows
  (`tenant_guards_manual.go:80-82` wants one); a release then leaves two active.
* A row reopened and claimed by another request can be completed or marked by
  the first (`tenant_guards_manual.go:93-94`).
* `CloseActive`, `UpsertActive` and `UpdateStatus` write what they looked up even
  if it was claimed meanwhile (`overruled`); a pause invalidates active rows only,
  so one that is being applied may be released to `active` afterwards.
* Release and mark use the context of the request: a cancelled request leaves
  its row `applying`, and nothing sweeps it.
* `UpsertActive` does not renew `created_at`, so regenerating never makes an
  overdue row applicable again (`campaign_actions.go:1243`).

## 3. Runs

| Run | Instance | Shows |
|---|---|---|
| `bid_cap` | 2 prompt workers, product-wide and cluster target, cap 1, 1 fault | `WithinDailyCap`, `WriteOnce`; `BidActions` implements `BidLedger` (`LedgerSpec`) |
| `bid_stop` | 1 worker, every way to stop automation, a lowered cap, 2 days, 1 fault | `AtMostOneLateWrite`, `WithinDailyCap` across midnight and updates |
| `bid_live` | 1 worker, nested targets, crash, seller edits and removals, fairness | `UnresolvedExclusive`, `StatusTellsTheTruth`, `ActsOnCurrentBid`, `AuditAgrees`, `EventuallyResolved` |
| `rollout` | 1 worker, 2 requests, 2 targets, 4 periods, 1 fault, fairness | `HoldSticks`, `NeverLiveUntested`, `LateWritesBounded`, `LiveInTheEnd` |
| `owner` | 2 strategies, 2 concurrent of 3 requests, 2 products, a foreign campaign | `OneLiveOwner`, `RefusalIsExact`, `LockNotLeaked` |
| `sync` | 1 cabinet, 2 phases, 2 handlers, 1 request, 1 mishap, fairness | `CabinetExclusive`, `ReadyIsWhole`, `ReadyIsCurrent`, `OwnedRuns`, `SyncSettles` |
| `sync_ghost_row` | the same, no mishap, requests not prompt: violation | a row of `job_runs` that nobody will close (`OwnedRuns`) |
| `prices` | 2 products, one with rising costs and one without economics, 1 request at a time, 1 entry, 2 changes, 1 mishap, 1 sync | `TypeOK`, `LockCoversWrites`, `LastAppliedWins`, `DoneMeansApplied`, `ScheduleOnce`, `MarginKept` |
| `prices_live` | 1 product, an entry with its revert, 2 changes, 1 mishap, fairness | `ChangesSettle`, `EntriesSettle` |
| `prices_quarantine` | as `prices` with 1 product: violation | a cut of two thirds can reach WB in one step (`NeverQuarantined`) |
| `ozon` | 1 worker, 1 user, 1 campaign, 2 runs, levels 0, 2 and 3, a plan that pauses and bids and one that activates, caps of 2, 1 mishap | `WriteOnce`, `PlanStops`, `WithinCap`, `FinalStays`, `HumanPauseStays`, `StopTakesHold` |
| `recs` | 2 users, 1 generator, 2 bids, 2 rows, 2 changes, 2 runs, 2 events | `SentOnce`, `NoBlindOverwrite`, `UncertainStaysVisible`, `ClaimNotLeaked` |

`CHECK_DEADLOCK FALSE` appears only where automation can be switched off for
good or every request has been made and the bounds are used up: the modelled
system is then quiet by design.

Why the bounds are enough to be interesting:

* Bids: a waiting claim or guard needs one other holder of the lock, an overlap
  a wide and a narrow target, a wrong reconciliation an observation before and
  one after the write. Symmetry of workers and bids is used in the safety runs
  only.
* Rollout: a stale promotion needs an evaluation that begins before a hold, the
  hold and its release: two requests and two periods; the others let a blocked
  binding come back.
* Ownership: two overlapping bindings and an activation are three requests, of
  which two may overlap in time.
* Sync: a phase that fails before and one that fails after another phase, a
  handler past its deadline beside the next, and a restart in between.
* Prices: a second change meets one in transport; the mishap is the death, the
  lost answer or the failed statement at any place; two products make a batch in
  which one good may fail. `DoneMeansApplied` needed four changes to be seen
  wrong in an earlier form (a reused task); the theorem covers any number. Prices
  start at 14, between the floors 8 and 16 of the good whose cost may rise, and
  requests ask for 5, below both: a request is clamped to 8, refused or, unread,
  let through. The other good has no economics: requests change it freely,
  strategies never.
* Ozon: two runs and two steps let a later run meet what an earlier one left, and
  a cap of two meets four decisions. Level 1, which only records, is not in the
  instance, nor is the limit per target separately. 2,969,406 states.
* Recommendations: two requests race for a row beside a generator, and two events
  are one reopening and one failure. About 3.3 million states.

The type invariants of the modules other than `PriceQueue` are proved rather than
run.

### Fairness

`bid_live` assumes that a started job goes on, that PostgreSQL grants a queued
advisory lock in the end (hence strong fairness of `ClaimExec` and `LeaseExec`),
that sync and reconciliation tasks, which the scheduler enqueues periodically and
asynq keeps until a worker takes them, are not passed over for ever, and that a
settings transaction ends. Crashes, edits and operators have no fairness.

`rollout` assumes that bid runs are scheduled again and again, that a
started evaluation and a request go on, and that a binding evaluated in shadow
again and again is not refused every time (strong fairness of `Confirm` there):
a binding whose data is never complete rightly never becomes live.

`sync` assumes the hourly sweep, that a handler goes on, and that a waiting
fan-out or cabinet task is taken in the end (strong fairness, for another task may
have the slot at any moment). The server uses `StrictPriority` and `wb_sync` has
the lowest weight, so this assumes that the queues above it drain now and then.

`prices_live` assumes that requests and the worker's job go on, that WB processes
every upload it accepted, that cooldowns and freezes end, and that polls and due
entries, which the scheduler enqueues every few minutes, are not passed over for
ever. Mishaps, requests and syncs have no fairness.

`OzonAutopilot` and `Recommendations` have no liveness property: a proposal may
wait until it expires, and a row left `applying` stays so (section 2).

## 4. Proofs

Every safety property that a run checks, invariant or action property, is also
proved for every value of the constants, with the conditions stated here. TLC
evaluates the assumptions of the modules in every run.

**`BidActionsProofs`** proves `Spec => []TypeOK` with `Typed`, which adds to the
types what each control state says about the locals (for instance that a worker
from its claim to its completion holds the number of an existing row).
`RowsEvolve` says how a step may change the table: rows are appended, and an
existing row keeps its identity and never starts to count against a day.

**`BidActionsSafety`**, for any number of workers:

* `DailyCap`: nothing in `WithinDailyCap` ties a write to the guard before it.
  `CapInv` adds that a row with a `grant` was within it when granted, and that a
  waiting guard's snapshot has every row up to its own. This is why the cap holds
  although snapshots are old: rows never come back to count, and a guard started
  after its own claim.
* `LateWrites`: `LateInv` counts, for a stopped automation, the writes each
  worker made; only a worker already past its reload of the controls can make
  one.
* `OneWrite`: `OnceInv` adds that a row in flight belongs to one worker and has
  not been written before the write step.
* `LedgerKept`: `BidActions` implements `BidLedger`, step by step, where nobody
  reconciles an action in a live worker's hands (`PromptWorkers`, or one worker).

and for one worker, which is how the WB server of a process is configured:
`OneTargetAtATime` (`UnresolvedExclusive`), `AuditTells` (`AuditAgrees`),
`TruthTold` (`StatusTellsTheTruth`: what an observation can and cannot tell
about a write follows the versions of `obs`) and `DecisionsAreCurrent`
(`ActsOnCurrentBid`: the synced bid is WB's unless an action was claimed on that
very observation, and then the unique keys refuse another). Two workers can break
these four: concurrent claims, a reconciliation beside a completion, a sync that
stores what it fetched before the write of the other worker.

**`BindingRolloutProofs`** proves the types, that only an operator ends a hold
(`HoldIsKept`, an action property, from the `WHERE` clause of the system
statement), `TestedBeforeLive` and `LateWritesAreBounded`. `TestedInv` adds that
a request which read the state live, and a worker about to promote, come after a
confirmed evaluation; `LateInv` follows a worker from its read of the row to its
writes.

**`StrategyOwnershipProofs`** proves the types, `SingleOwner`, `LockIsReturned`
and `ChecksAreExact` (a request is refused only for a conflict that was there).
`OwnerInv` adds that the lock holder, and nobody else, is inside its transaction
(`Locked`), that what it checked stays true until it commits (`Checked`, with
`Shrink`: statements without the lock only take owners away), and that bindings
belong to existing strategies and to campaigns of their cabinet (`AtHome`): the
conflict checks look at one cabinet only.

**`CabinetSyncProofs`** proves the types, `ReadySound` (`ReadyIsWhole`, for any
number of mishaps), `OneSyncPerCabinet` and `AutomationSeesWhole`
(`CabinetExclusive`, `ReadyIsCurrent`) with at most one mishap, and `RowsAreOwned`
(`OwnedRuns`) for prompt requests and any number of mishaps. One mishap is the
truth about the lock: after two missed deadlines a handler between `Unlock` and
`Delete` deletes the mutex another one has just locked, and a third gets a new
one. Without prompt requests `sync_ghost_row` is the counterexample.

**`PriceQueueProofs`** first proves what the arithmetic guarantees for all prices,
discounts and floors: `BaseReachesTarget`, `StepIsSafe`, `RequestIsSafe`,
`DecisionsKeepFloor`. Then

* `TypeCorrect` with `IInv` (`RowsInv`, `SiteInv`, `StoreInv`, `FlagsInv`,
  `LocInv`), the types of rows, locals and WB's side, which the others need;
* `MarginAlwaysKept` with `FloorInv`: the bound on WB's prices is inductive only
  for every price anywhere on its way to WB, in a saved change (its old price
  too, since rollbacks and reverts go back to it), in an upload, in a list of
  intents, in a price list that was read. It holds for any economics, changing
  in any way and read or not, and assumes nothing of the start price;
* `WritesAreLocked` and `LastAppliedKept` with `LockInv` (`ChangeInv`, `HoldInv`,
  `TodoInv`, `TaskInv`, `PriceInv`): a task *carries* a batch when its items are
  the batch's changes and nothing was uploaded for their goods since. An open
  upload is carried by a batch in transport as a whole, so a result, whenever it
  is learned, belongs to the latest write of each of its goods;
* `ScheduledOnce` and `DoneIsApplied` with `EntryInv` (`PlannedFresh`,
  `DeferredFresh`, `ExecutingFresh`, `TodoFits`, `PairsTogether`, `NamedKnown`):
  who still has to save changes for an entry, nobody for a planned one and only
  its executor for a claimed one.

The last four hold under `RejectRetries = FALSE`: WB answers the retry of an
upload it has accepted.

**`OzonAutopilotProofs`** proves the types with `Typed` (a run is of one worker,
and the rows of its remaining steps do not exist yet), and on top of it
`DecisionsSentOnce` and `SettledStaysSettled` (`OnceInv`: what is being sent is
claimed and was not sent before), `StopIsObeyed` (`StopInv`: the holder of the
lock works under the strategy it has checked, unless overtaken), `PlansStop`
(`PlanInv`: of a plan that a rejected or unsuccessful step ends nothing else is
open, and its worker knows), `PausesOfPeopleStay` (`HeldInv`) and `CapIsKept`
(`CapInv`: whoever is past the last look at the cap still fits in, for it holds
the lock).

**`RecommendationsProofs`** proves the types and, with one description of what the
steps do to a row (`Acts`), `ClaimsAreReleased` (`LeakInv`), `UncertaintyIsShown`
(`VisibleInv`), `SentOnlyOnce` (`OnceInv`) and `BaselinesAreCompared`
(`BlindInv`).

Only model-checked: the five liveness properties (`EventuallyResolved`,
`LiveInTheEnd`, `SyncSettles`, `ChangesSettle`, `EntriesSettle`), because the
proof system has no rules for fairness and `ENABLED`, and the two violations,
which are counterexamples. The value of a recursive computation for every input
is not needed anywhere.

The assumptions are those of the modules: bounds are natural numbers, sets of
names are disjoint, `None` differs from everything it stands beside, a pipeline
contains its campaigns phase, plans are sequences of steps within `MaxSteps`, and
discounts and strategy parameters are in the ranges the code admits.

## 5. Limits

Not modelled, and why:

* read models, notifications, HTTP encoding, statistics, generated SQL: most of
  the lines of the repository. They move and format data and decide no state
  change, so a model of them would restate them;
* the bid engine and the guards on data quality, statistics and economics: free
  choices of the models, planned as operators;
* the Ozon strategy engine and repricer, the Ozon API budgets and the circuit
  breaker, exports, tokens, cabinet discovery, extension ingest.

The one listed hazard that no property covers is a reconciliation beside a worker
slower than the five-minute delay (`bid_automation.go:853`): the runs and theorems
about the lifecycle assume it away, those about the cap and the single write do
not. Seen in the code and left for later: the dayparting
state that is saved after the write it belongs to (`bid_automation.go:818`), a
rollout update of a whole strategy that fails between two bindings
(`strategy_evaluation.go:111`), and evaluation facts whose failed statement is only
logged (`bid_evaluation_recorder.go:105`).

Next: proofs without `RejectRetries = FALSE` where it is not needed
(`ScheduledOnce`), then the budgets and breakers, and the bid engine as operators
with a reference definition.
