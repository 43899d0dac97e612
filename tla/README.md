# MART in TLA+

MART imports marketing and attribution data from external providers into
PostgreSQL, reconciles campaigns across providers and computes metrics and
decisions over them. These modules model the parts of it where time, concurrency,
failure or competing queries matter: the synchronization pipeline, one provider read
end to end, the console's handlers, campaign reconciliation, and what is shown and
decided from the stored rows. They are checked with TLC on small instances and, where
it says so below, proved with TLAPS for every value of the constants.

## The system

| Component | State it keeps | Operations | What makes it correct |
|---|---|---|---|
| Sync queue and worker loop (`apps/worker/src/worker.ts`, `packages/db/src/repositories/sync.ts`) | `sync_jobs`, `sync_runs`; in each worker: the runs in flight | schedule due jobs, claim queued runs, execute, settle, requeue with backoff, reconcile, shut down | a run is executed by one worker, once per attempt, within its budget; settled runs stay settled; queued runs settle |
| Sync trigger API (`apps/api/src/routes/sync.ts`) | none of its own | plan, `hasActiveRun`, enqueue, ensure jobs | a second click imports nothing twice |
| Sync engine (`packages/integrations/src/sync/engine.ts`) | `sync_errors`, `sync_cursors`, `data_freshness`, the run's checkpoint, the connection's status | one execution: fetch, persist and checkpoint each window, record failures, settle, close superseded errors, move cursor and freshness | status, checkpoint, errors, cursor and freshness say what is really stored |
| Planner and date windows (`sync/planner.ts`, `shared/src/dates.ts`, `sync/freshness.ts`) | none | incremental, backfill and explicit windows; chunking; freshness status | no day is lost between windows; failed days are planned again |
| Connections, bindings, credentials (`routes/integrations.ts`, `integrations/src/credentials.ts`) | `integration_connections`, `integration_app_bindings`, encrypted credentials | connect, validate, replace credentials, bind, choose the provider, disconnect | a status was an answer; a disconnected connection stays so; one primary attribution provider per app |
| Tenancy, sessions, rate limits (`packages/auth`, `repositories/tenancy.ts`, `rateLimit.ts`) | users, memberships, sessions, token windows | register, log in, add member, expire, authorize | no request reaches another organization's rows; no user without an organization |
| Provider HTTP client (`integrations/src/http.ts`) | attempts of one request, rate-limit window | request, classify, wait, retry | bounded attempts, no retry of what cannot succeed |
| Provider adapters (`integrations/src/providers`) | none | Meta's delivery ladder and pages; Tenjin's saved reports and cohorts | no dimension lost without a refusal; a report is read only for the columns it has |
| Fact storage (`repositories/facts.ts`) | raw batches, canonical metric rows, restatements | upsert on a dimension hash, restate, supersede | re-reading a window neither duplicates nor loses rows; a revision counts once |
| Data-quality checks (`dataQuality.ts`) | findings | batch checks, coverage findings | a finding is read as long as it holds |
| Reconciliation (`integrations/src/reconciliation.ts`, `repositories/mappings.ts`) | campaign mappings, findings | match, store, prune, review, verify by hand | a person's decision is never overwritten by a match; no campaign is credited twice |
| Metrics and decisions (`packages/metrics`), analytics API | targets an operator set; otherwise queries | figures, availability, coverage, gaps, cohorts, anomalies, signals | a figure shown without a caveat is complete; screens agree; a signal is deserved |
| Migrations (`packages/db/src/migrate.ts`) | `schema_migrations` | migrate at start-up of API and worker | each migration runs once, in order |
| Web UI, audit CLIs, configuration | none that others act on | render, report | see "Not modelled" |

How they interact: the API and the workers share nothing but the database. A
trigger or a due job becomes a row of `sync_runs` with status `queued`; any worker
replica claims it with `FOR UPDATE SKIP LOCKED`; `runSync` executes it, a statement
at a time and outside any transaction; the worker then requeues a retryable failure
or reconciles the app. Every statement of the API, the scheduler and each worker
interleaves with every other one's, and any of them may fail or be the last its
process executes. `hasActiveRun` is the only thing that keeps two runs of one
stream (connection, app, data type) apart, and it is a check, not a lock.

Reconciliation runs after a sync in the worker and on request in the API, with nothing
between the two; people verify or reject its rows meanwhile. The handlers of the
console check a permission once and then write statement by statement, without a
transaction, beside runs that hold a secret they read earlier. Cards, coverage, chart,
table, gap list and decisions are queries of their own over the same rows.

The hard parts, each listed at its line under "hazards" in `PROJECT.json`: the
check-then-insert of a trigger; updates `WHERE id = $1` that trust the row to be as
the worker left it; the gap between settling and requeueing; deaths and swallowed
failures that leave a row `running`; a cursor and a freshness date taken from
fetched rather than stored data; error rows closed by overlapping executions; rows
upserted and superseded in separate statements; secrets used after they were deleted;
two reconciliations of one app; link predicates that differ from query to query;
coverage that compares the day a run finished and not the day it read; a report that
gains or loses columns between two reads.

## Modules

| Module | What it is | Code |
|---|---|---|
| `RunLifecycle` | abstract specification of one run's life: created queued, taken by one worker, retried within a budget, settled or abandoned | what the queue promises |
| `SyncRuns` | the control plane, one SQL statement of one actor per step | `worker.ts`, `routes/sync.ts`, the queue statements of `repositories/sync.ts`, `planner.ts` |
| `SyncWindows` | the pure decisions: chunking, planned windows, retryability, run status, freshness, supersession | `dates.ts`, `planner.ts`, `freshness.ts`, parts of `engine.ts` and `sync.ts` |
| `SyncEngine` | the data plane: the executions of one stream's runs, one statement or provider call per step | `engine.ts`, the data statements of `repositories/sync.ts` |
| `ProviderHttp` | classification of answers and the retry decision | `http.ts`, the error codes of `providers/meta.ts` |
| `DeliverySync` | one delivery stream from pages to stored rows, one HTTP attempt or SQL statement per step | `providers/meta.ts`, the delivery part of `repositories/facts.ts`, `engine.ts`, `dataQuality.ts` |
| `Tenancy` | users, roles, sessions and the permission check; slots that hold a request | `packages/auth`, `routes/auth.ts`, `routes/organizations.ts`, `context.ts`, `repositories/tenancy.ts` |
| `Connections` | extends `Tenancy`: connections, credentials, bindings and a run beside them | `routes/integrations.ts`, `credentials.ts`, `repositories/integrations.ts`, the providers' `validate*` |
| `Reconciliation` | matching as operators, runs and people as actions on the mapping rows | `reconciliation.ts`, `repositories/mappings.ts`, `routes/analytics.ts` |
| `MetricRegistry` | what a metric needs, and whether it is available, partial or blocked | `metrics/src/registry.ts`, `availability` of `service.ts` |
| `Figures` | extends `Reconciliation`: every screen as an operator of its rows | `populations.ts`, `service.ts`, `queries.ts`, `unified.ts`, `confidence.ts`, `context.ts` |
| `SavedReports` | which report the Tenjin adapter reads and what it answers for | `providers/tenjin.ts`, `tenjinReports.ts` |
| `DecisionRules` | cohort figures, anomalies, trends and the ordered gates of a signal | `decisions/rules.ts`, `buildCohortMetric` |
| `Cohorts` | days, earnings, edited reports, revenue syncs, and the cohort queries | `providers/tenjin.ts`, `engine.ts`, `repositories/facts.ts`, `service.ts` |
| `Decisions` | extends `Cohorts`: the Decision Center over the stored cohorts | `decisions/load.ts`, `decisions/policy.ts`, `routes/decisions.ts` |
| `SyncRuns_proofs` | types, inductive invariant and safety theorems of `SyncRuns`, and that it implements `RunLifecycle` | |
| `SyncEngine_proofs` | the same of `SyncEngine` | |
| `Connections_proofs`, `Reconciliation_proofs` | types and safety theorems of the two | |
| `Figures_proofs` | the five theorems about the screens over what overlapping reconciliations leave | |
| `DeliverySync_proofs` | types and the four safety theorems of `DeliverySync` | |
| `Decisions_proofs` | the theorems about `Cohorts` and `Decisions`: final figures stay, available ones are complete, signals are deserved | |
| `FiniteSums` | lemmas on the sum of a function over a finite set, for the three modules above | |
| `MC...` | the instances, with their `.cfg` files | |

`SyncRuns` and `SyncEngine` split one system along the seam of `runSync`. `SyncRuns`
sees an execution as `claimed`, `syncing`, then `retry`, `lost` or `done` with the
run's row already written, and `catch` when something threw; `SyncEngine` sees the
queue as runs that are `queued` and slots that claim them. Both implement
`RunLifecycle` through the mapping `Place`, so they agree on what they mean by a run.

### SyncRuns and the code

`status`, `streamOf`, `attempt` and `waiting` (`not_before` in the future) are columns of
`sync_runs`; `job` is a stream's `sync_jobs` row; `link` its binding and connection
status. `mode`, `todo` and `passed` are where an API handler or a worker's `tick` is
between two statements: `passed` holds the stream whose `hasActiveRun` answered no.
`exec[w][r]` is what worker `w` is doing with run `r`. `executions` is a history
variable. Actions carry the names of the functions they model; `CancelRun` and
`StartSyncRun` are the two ends of `hydrateRequest`, `CatchRun` the `catch` of
`processQueuedRuns`, whose own failure is swallowed, `DropJob` and `TickThrows` the
scheduler's and the loop's `catch`, `AbortTrigger` an API handler that throws or dies.
A trigger that ensures several jobs does so in one step.

### SyncEngine and the code

A slot is one `runSync` in flight, its field `at` the statement it will execute next.
A window goes `loop` (take it, ask the provider) - `persist` - `checkpoint`, or to `record`
when its `try` threw; after the loop `completeSyncRun`, `resolve`, `cursor`,
`freshness`, `connection`, `requeue`. `latest` is `summary.latestDataDate`, which the code
sets before the rows are stored, so `FetchWindow` does too. `refused` is
`finishWithFailure`. `stored` is the set of days of windows whose rows were all
persisted. An error row keeps, as history, which windows were checkpointed when it
was recorded (`seen`). A statement of a window's `try` fails in `WindowThrows`, any other
in `RunThrows`; a failing statement has no effect.

Left out of `SyncEngine`: the capability probe and the campaign directory refresh (their
failures are caught and nothing modelled reads them), `sync_jobs.last_status`, row
counts, messages. A day is a number; the calendar starts at day 1.

### DeliverySync and the code

`read` is the window in progress; its `at` the next call or statement: `fetch` (one HTTP
attempt of one page of one rung of the breakdown ladder), `insert` (one chunk of
`upsertMarketingMetrics`), `supersede` (one campaign-day of
`supersedeRestatedDimensions`), `check` (findings, then the window is done). A refused
rung is the only answer that steps down, and starts the read over. `Trouble` is every
other answer, put through `ClassifyGraphError` and `ClassifyHttpStatus`. The native
device of a row is kept until the hash, `DimensionKey`, drops it. `asRead` is a history
variable: what the last completed window read of a campaign, forgotten when a later one
writes it. A window is one day, so a campaign stands for a campaign-day.

### Tenancy, Connections and the code

A request takes a slot when its permission was checked and holds it to its answer; `at`
is the statement or provider call it makes next, one action for each. No handler of
connections opens a transaction, so any step may be its last (`Interrupt`). The unique
indexes of `integration_app_bindings` are the guard in `CreateBinding`. `run` is the part
of a sync run that meets these tables: planning, reading the secret, writing the status.
`answers`, `gone`, `late`, `apart`, `trespass` are history variables. `begun` bounds requests and
the events beside them.

### Reconciliation, Figures and the code

A runner takes its start time and reads the facts, then the decided ids, upserts row by row, prunes what was
stamped before it began, reviews coverage, clears the findings and records new ones. The clock
is the number of the newest run: `at` is when a row was stamped and `by` which run did it.
Forward (from the network's side) and Reverse (from the MMP's) are the two passes of
`reconcileCampaigns`. `Figures` adds no state: `LoadMarketing`, `LoadInstalls`,
`LoadRevenue`, `EligibleCoverage`, `Chart`, `TableRow`, `DeliveryGaps`, `InstallGaps` and
`DecisionInstalls` are the queries, each with its own link predicate as the code has it.
Its properties look at states in which no run is in progress (`AtRest`): screens read
tables alone, and a run can be interrupted wherever it is, so every state of the tables
is also the state of some moment at rest.

### Cohorts, Decisions and the code

`earned` is the provider's truth, `rows` what was stored of it with the day each was
last read, `windows` the days that succeeded runs recorded. A run resolves the report once,
fetches, stores and checkpoints, and completes; the operator edits reports and days pass
between any two of these. `HeldCovered` names the days the code holds covered although
no run finally read them. `DecisionRules` lists the gates of `evaluateScope` in their order, in
groups; the first that is closed gives the signal. As with `AtRest`, the properties look at
states without a run, which have every state of the tables.

## Runs

| Run | Instance | Question |
|---|---|---|
| `control_plane` | 2 workers, 1 request, 2 rows of 1 stream, 2 attempts, concurrency 2, 1 death, 2 failing statements; about 650,000 states | Is each attempt executed once, by one worker, whatever dies or fails, and is what a worker believes of a row true? Does `SyncRuns` implement `RunLifecycle`? |
| `control_progress` | 1 worker, 1 request, 2 rows, 1 death, 1 failing statement, no symmetry; about 177,000 states | Is every queued run claimed, and settled unless a worker died? |
| `duplicate_trigger` | 2 requests, 1 worker | Violated: two clicks enqueue two active runs. |
| `engine_windows` | 1 slot, 2 runs over any windows of 3 days, chunks of 2, 1 failing statement, a retryable and a non-retryable failure; about 4,200,000 states (two minutes) | Do status, checkpoint and error rows agree, retries included? |
| `engine_overlap` | 2 slots, 2 scheduled or backfill runs, 1 death, failures that stop a run, no failing statement; about 605,000 states | Do cursor, freshness and error resolution stay true when two executions of one stream overlap? |
| `skipped_window` | 1 slot, lookback as long as a chunk (the defaults are both 7), a rejected window | Violated: a failed window is skipped by the next schedule. |
| `cursor_ahead_of_storage` | 1 slot, 1 failing statement | Violated: the cursor names a day that was not stored. |
| `delivery` | 2 campaigns, an iOS and an Android device, 2 attempts, 2 pages, chunks of 2, 2 revisions or changes of the ladder, five kinds of trouble, any failing statement; about 392,000 states | Is what is stored what the last completed read said, traceable, no coarser than the account forces and counted as revised only when it was? Does every window end? |
| `repeated_tuple` | an account with iphone and ipad traffic | Violated: a fully read window is refused by the database. |
| `console` | 2 users, 2 organizations, 3 connections (two attribution, one marketing), 2 slots, 2 secrets, 3 requests or events, 1 run; about 322,000 states | Do tenants stay apart and do status, secret, binding and provider agree, whatever interleaves or fails? |
| `reconciliation` | 2 network and 4 MMP campaigns in 5 worlds, 2 runners, 2 runs, 1 change beside them, 4 filters, 2 contexts; about 356,000 states | Do decisions stand, is nothing credited twice, are stale rows explained, and do all screens tell one story? |
| `cohorts` | 4 days, cohort age 1, a lookback of 2, 2 syncs, 1 edit of the reports, 3 campaigns, 2 policies; about 1,375,000 states (two minutes) | Is a figure without a caveat complete, is a signal deserved, does a sync take nothing back? |

Why the bounds are enough: two rows of one stream are what it takes for two runs to
meet; two workers and concurrency 2 what it takes to hold one run twice or to hold
two; two attempts for one retry and for its refusal at the limit; two failing
statements because the second may be the one that settles the first. Three days in
chunks of two give a full chunk and a clamped one; four days in the violation runs
give two full ones. Streams are independent in both modules (nothing but
`Concurrency` and `JobBatch` relates them), so one stream is checked.

In `delivery` two campaigns tell a supersession from one that reaches too far and fill two
pages, two devices make a chunk and its remainder, and two revisions let a number change,
and a breakdown be lost or gained, between two reads of it. In `console` two attribution
connections are what a switch needs, the third is still to be created; three requests let
a disconnect, a binding and a handler that still holds the old secret meet, with the run
beside them. In `reconciliation` the worlds are the ways two campaigns can compete for
one name or id (a declaration against a name, namesakes, two campaigns of one ad group, a
campaign not yet known with a name that embeds two, a shared id against a name); two runs
overlap, and one change falls between any two of their statements. In
`cohorts` age 1 over four days lets one day's cohort be young, old enough, and read late, the lookback
lets the second sync miss a day the first read, and one edit adds or takes a column;
spends, installs and floors were chosen so that each signal (`scale` and `reduce` by return and by CPI,
`hold`, `insufficient_data`, `investigate` for an anomaly and for an ambiguous mapping)
is really given.

`SyncEngine` runs do not check deadlock: the table's rows and the calendar are finite
there, and when every row is settled and the last day has come the model stops, as it
should. The later modules stop likewise when their requests, runs, changes or days are used
up. `SyncRuns` runs check it.

The four violated properties are sentences of the repository, quoted in `findings`. The
first three hold under a narrower condition, which the passing runs check:
`CursorIsStored` while no statement fails, `FailedWindowsAreReplanned` while every
failure stops its run, `OneExecutionPerAttempt` whatever is enqueued twice; the fourth
while no two devices of an account share a platform, as in `delivery`. Likewise
`ResolvedByLaterRead` holds for one execution at a
time and not for two (an execution that read a window before another recorded its
failure closes that error), and `CreditedRunSucceeded` while no statement fails (the
worker's `catch` writes `failed` over a run that already closed errors).

Where a property has an exception, it is as narrow as the code allows, and names what a
reader should know:

- `RevivedOnlyInFlight` (`late`): who read the secret before it was deleted may still write
  `connected` afterwards. `PrimaryAgrees` (`apart`): the provider can be chosen by its own
  route, which touches no binding, and two bindings made at once interleave.
- `CreditedOnce`: a name that embeds two campaigns' names credits both; AppsFlyer's shared id
  and a name may credit one each. `DeclaredIsLinked`: campaigns a person has decided are
  left as they are.
- `CardsAgree`, `GapsAreNamed`, `OneSidedIsContested` (`OneSided`): a campaign linked from the
  MMP's side alone is counted as mapped by coverage (`reconciliation.ts:978-986`) and by no other
  figure (`populations.ts:16-20`), and stays in the list of gaps. A row verified without a
  target counts as established for the gap list and as unmapped for coverage. The two sides
  part where the network's campaign is linked by id to another, has several candidates or was
  decided by a person from either side, and where the MMP publishes an id, since the reverse
  pass does not heed one that leads to no stored campaign.
- `CpiBoughtItsInstalls`: an ad account narrows spend but not aligned installs
  (`populations.ts:102-113`); eligible coverage ignores channel and account, chart and table
  the channel. Confidence is taken from the network's freshness when it has one and
  from the MMP's only otherwise (`unified.ts:123`), so it can be low beside an available figure.
- `TableShowsLinks`: a shared name left beside another run's link or a person's
  decision is added up (`queries.ts:323-345`).
- `AvailableIsComplete`, `SignalIsDeserved` (`HeldCovered`): coverage looks at the day a run
  finished, so a read that began before a cohort matured counts as after it, and at days,
  not columns. `scale` needs no such exception: what is stored never exceeds what was earned.

Two more things the models show, about which nothing is asserted: revenue at event
grain adds a stored `total` to stored components, which the decision loader does not; and a
finding is taken for resolved by the very run that recorded it (`load.ts:283`, the same
in `phase3-audit.ts:118`), because `finished_at` is later than its `created_at`.

Each property of a passing run has a mutant: an operator named for the fault it makes
(`RequeueRunUnbounded`, `CatchRunSilently`, ...), next to the action it is a
faulty variant of and used by nothing else. With it in place TLC finds the property
violated.

### Fairness

`FairSpec` assumes what the loop gives: a worker keeps ticking (`while (running)`, all
throws caught), is restarted after it dies, executes what it holds (every provider
call has a timeout, every statement an answer), and backoffs elapse. The one strong
fairness, per run, is the claim's `ORDER BY not_before, created_at`: a run that stays
claimable is not passed over for ever, and a claim does not throw for ever. Requests,
bindings, schedules, deaths and failing statements are owed nothing.

In `DeliverySync` only the steps of a window in progress are fair: every attempt has a timeout,
every backoff ends and every statement has an answer. Windows need not begin, and the
provider's and the operator's actions need not happen.

## Proofs

Every proof is for any values of the constants that satisfy the named assumptions of the
modules, which TLC evaluates in the runs.

**SyncRuns**, for any sets of streams, rows, workers and requests and any budgets, from
`ConstantsAssumption` (positive `MaxAttempts`, `Concurrency`, `JobBatch`; no worker is an
API request):

- `TypeCorrect`: `Spec => []TypeOK`, one step per action.
- `QueueInvariant`: `Spec => []QueueInv`. `ExclusiveExecution` is not inductive: a claim
  takes queued rows, so it must be known that nobody still holds a queued row.
  `PhaseMatchesRow` says so, since a held row is running or settled, and is kept
  because only a run's holder writes its row. `QueueInv` joins `OneHolder`
  (exclusivity element by element), `PhaseMatchesRow`, `AbsentUntried` (a row not yet
  inserted has no attempt), `OneExecutionPerAttempt` and `RunningIsHeld`.
  The lemma `ExecutionStep` does the work of every step of an execution once;
  `QueueUntouched` that of every step that leaves rows and hands alone.
- `Exclusive`, `RowFollowsPhase`, `AttemptsAreExecutedOnce`, `StuckRunsAreExplained`: the
  invariant's parts, as theorems of `Spec`.
- `SettledRunsStaySettled`: `Spec => OnlyFailuresReopen`.
- `LifecycleImplemented`: `Spec => ImplementsLifecycle`. Each action is a `Create`, `Take`,
  `Retry` or `Release` of `RunLifecycle` or leaves it alone; a death is one `Release` of
  everything the worker held, settled rows and abandoned ones apart.

**SyncEngine**, for any runs, slots, calendar, chunk and lookback lengths, error classes, deaths and
failing statements, from `EngineAssumption` (positive `LastDay`, `ChunkDays`, `BackfillDays` and
`MaxAttempts`):

- `TypeCorrect`: `Spec => []TypeOK`, by `Typed`, which adds the types of error and freshness
  rows and what an execution must have in hand where it is (`AtWork`): one that
  persists or records a failure has a window left. The arithmetic is in lemmas of its own:
  `ChunksAreWindows`, `ChunksCover` and `EarliestIsFirst` (the next window exists, by the
  well-foundedness of the naturals).
- `StatusStaysHonest`: `Spec => []StatusIsHonest`, and `RetriesStartBlank`:
  `Spec => []RetryHasNothingToResume`. Neither is inductive: the status is computed from two counters of an
  execution, so `EngineInv` ties these to the tables. `PhaseMatchesRow`: the row is as the
  execution left it, which needs `Apart`, no run in two slots. `CheckpointIsOwn`: the row's
  checkpoint is what this execution completed, since none was there when it began (`Blank`, the
  second theorem). `Accounted`: while nothing failed every chunk is left or
  covered, and once something did there is an error row, of this attempt, whose window is neither.
- `ClosedWithProof`: `Spec => []ResolvedWithProof`. A checkpoint only grows while its run may be
  credited (`DoneGrows`).
- `ClosedByLaterRead`: `Spec => []ResolvedByLaterRead` when there is one slot. By `SeenIsDone`, what an error saw
  was checkpointed, and `ReadAfter`, no error has seen the run at work. With two slots TLC refutes
  it: an execution that read a window before another recorded its failure closes that error.
- `CreditedRunsSucceed` and `DatesStayStored`, when no statement fails (`MaxFaults = 0`). The first holds because then
  nobody is in `catch`; the second by `NotedIsStored`, that the date an
  execution noted is stored or among the days of the window it is storing. With one failing statement
  `cursor_ahead_of_storage` refutes the second.
- `FailuresAreReplanned`: `Spec => []FailedWindowsAreReplanned` under `Stopping`: no statement fails, every failure stops
  its run, no explicit windows, and the calendar is no longer than the backfill. Without the second
  `skipped_window` refutes it; an explicit window may lie anywhere; and a day older than the backfill is
  never planned again. Its invariant `PlanInv` says storage has no hole below the cursor (`Past`), below any
  planned window (`PlannedAfterPast`), nor below the date an execution noted (`Reached`). So a newer
  day is only reached over stored ones, whatever executions overlap or die.
- `LifecycleImplemented`: `Spec => ImplementsLifecycle`, slots for workers: a claim is a `Take`, `RequeueRun` a
  `Retry`, the end of an execution or a death a `Release`.

**Connections**, for any tenants, users, connections, secrets and requests in flight, from
`TenancyAssumption` and `ConnectionsAssumption`:

- `TypeCorrect`, by `ConsoleTypes`. A request is a record whose fields depend on its route, so the
  invariant adds what each place of a handler means (`OnItsRoute`) and `AtHome`: the
  connection it is about is of the organization it was authorized for, and its user is
  still a member there.
- `TenantsApart`: `Spec => []TenantsStayApart`. It follows from `AtHome` and from roles being
  replaced and never removed.
- `StatusAnswers`: `Spec => []StatusIsAnAnswer`, by `AnswerInHand`: an answer that waits to be written,
  in a handler or in the run, is already among `answers`.
- `DisconnectionLasts`: `Spec => []RevivedOnlyInFlight`, by `DeletionsHold`: a deleted secret whose
  connection is not among `late` is sealed (disconnected, no secret stored, nobody has it in
  hand), and nothing but a new secret unseals it.
- `PrimaryIsBound`: `Spec => []PrimaryAgrees`, by `OneSwitch`: unless drawn apart, at most one binding is
  between ending its predecessor and creating its own; meanwhile no primary is active, and
  the app's choice is already the new one when the binding is made.
- `Registered`: `Spec => []EveryUserHasOrganization`, which no run checks by itself: user and
  ownership are one transaction.

**Reconciliation**, for any campaigns, worlds, runners and number of runs, from
`ReconciliationAssumption`:

- `TypeCorrect`, by `Typed`, the types of the tables, the uniqueness of keys, and the types of
  the runs in progress: what a run has to upsert are rows of the matching rules
  (`ReconciledRows`, over `ForwardRows` and `ReverseRow`).
- `DecisionsLast`: `Spec => []DecisionsStand`, by `DecisionInv`: the rows that bear decisions are human
  rows, which an upsert restamps and a prune leaves.
- `StaleOverlaps`: `Spec => []StaleOnlyByOverlap`. The invariant `StaleInv`: a
  run in progress overlaps with every later one (`RunsOverlap`); a row was stamped while the
  run that wrote it overlapped with all begun since (`RowsOverlap`); no computed
  row is stamped before the newest run that replaced the findings, nor before a run that has
  pruned and is still in progress (`Pruned`); and what the property says, of the findings
  (`FindingsOverlap`). A row of an older run is then stamped after the newer one began,
  so the two overlapped.

- `CreditsOnce`: `Spec => []CreditedOnce`. Each rule that credits a campaign has a `Reason` (its id, or the one
  name it embeds, where no id says otherwise; `ForwardReason`, `ReverseReason`), and two reasons for one campaign
  agree as the property says (`ReasonsAgree`), since an app's provider publishes ids of one sort
  (`OneProvider`: Tenjin's directory, AppsFlyer's shared ids). `CreditInv` carries that from the rules to the tables: any two
  rows of one run, written or still to be written, are `Consistent`, and runs in progress have
  numbers of their own (`RunsApart`).
- `DeclaredGetLinked`: `Spec => []DeclaredIsLinked`. `LinkInv`: of a calm run, each declared link is still to be
  upserted and not blocked by another row, or is in the table (`Linking`); and a calm run is
  alone (`Alone`), so nobody prunes what it wrote. `DeclaredRows` says the rules compute it, as `exact`.

**FiniteSums** has what the figures rest on. A sum is the community modules' fold (`SumFunction`,
`SumFunctionOnSet`), which takes the elements in an order it chooses. The usual induction over
finite sets needs an operator as a parameter, so each lemma looks at a smallest set it could fail for
(`SmallestSubset`: strict inclusion is well founded on the subsets of a finite set). From `SumFromAny`, that any element
may be taken first, follow `SumOfParts`, `SumOfGroups` (queries that group differently agree),
`SumOfNamed`, `SumGrows` and the bounds.

**Figures**, from the assumptions of the modules it extends, over every table that the steps of `Reconciliation` can leave:

- `TableIsOfLinks`: `Spec => []TableShowsLinks`. It follows from `CreditInv`: of a network campaign's rows, those of
  one run are all linked by name only or none is (`OneKind`), so a shared name is shown beside an
  established link only when another run or a person wrote that one.
- `OneSidedContested`: `Spec => []OneSidedIsContested`. `EveryLinkAnswered`: whenever the rules link an MMP campaign
  from its own side, the same run answers from the other, was told a person had decided,
  or the MMP publishes an id. `AnswerInv` keeps this true of the newest run while it writes what it has
  to (`AnswersWhileWriting`) and after it (`AnswersOnceFinished`), as long as nothing overlapped it.
  The proof refuted an earlier form of the property that TLC accepted with one change beside the runs: with
  two, a sync stores the declared campaign after the run read it, and a decision on the MMP's row,
  which decides the network's id, answers as well. The property now says both.

- `CardsAlwaysAgree`: `Spec => []CardsAgree`, `GapsAlwaysNamed`: `Spec => []GapsAreNamed`, `CpiAlwaysBought`:
  `Spec => []CpiBoughtItsInstalls`. Each query is a sum over some of the same rows; the proofs say which
  rows those are in every state of the tables, and that the parts fit: mapped and unmapped, paid and organic, one-sided and
  linked are disjoint and leave nothing out, a campaign's rows are one group whatever the order, and
  the quotients of coverage and of the cost per install bound each other as the thresholds say.
  `FiguresAssumption` asks for finite tables of natural numbers, which the schema's CHECK constraints give
  (`0005_marketing.sql:143-145`, `0006_attribution.sql:52`, `0003_sync.sql:111`). The confidence clause names `TrustedBy`, the freshness a level is
  scored by; the proof found that `Value` had two guards of a CASE that overlapped, where the code returns
  at the first: it is an IF chain now.

**DeliverySync**, for any account, devices, trouble, retries, chunk and page limits and number of
revisions, from `TriesAssumption` and `DeliveryAssumption` (an account has finitely many devices). Two conditions on the account are hypotheses
of the theorems that need them: `DevicesNormalised` (every device is one of a known platform; one that
is not, such as `other`, is stored as `unknown` without a refusal) and `DevicesApart` (no two are of the
same platform; `repeated_tuple` shows what happens otherwise).

- `Traceable`: `Spec => []TracedToRaw`, by `BatchIsRaw`: what is in hand between the two tables, whole or
  what is left of it, is among the raw pages. `Reads` is the type of a window in progress over the pages stored by then.
- `CoarsenedByRefusal`: `Spec => []CoarseOnlyIfRefused`, by `CoarseInv`: the rungs above the present one were
  refused, and the rows in hand are excused by that. It needs `DevicesNormalised`.
- `StorageIsTheRead`: `Spec => []StoredAsRead`, by `StoreInv`: the rows in hand have keys of their own
  (`BatchInv`), those already sent are in the table, and the campaigns already superseded have no other
  (`ProgressInv`). It needs `DevicesApart`.
- `GenerationsCountRevisions`: `Spec => []GenerationsAreRevisions`, by `GenerationInv`. A row read before a revision and
  stored after it makes the bare bound not inductive: a row counted `n` times has `n` revisions behind it,
  and one to spare unless it still says what the provider says (`Counted`); a row in hand is `Due`
  that many already. It needs both conditions.

- `DeliveryTyped`: `Spec => []TypeOK`. A row's spend is the sum of the devices that share its platform, at most
  `MaxSpend` each (`SumIsBounded`), and its generation is bounded by `GenerationInv`. It needs both conditions.

**Cohorts and Decisions**, for any calendar, cohort age, report definitions, edits, number of syncs,
circumstances, policies and floors, from `CohortsAssumption`, `FloorsAssumption` and
`DecisionsAssumption` (finitely many campaigns, amounts and targets that are natural numbers: a
fractional target is a whole one in a smaller unit of revenue; the operational campaign that brings
the cohorts). None of the three properties is inductive, and none mentions the run in flight or when
a value was stored; `CohortInv` does:

- a stored value is of an earlier moment, hence never more than its cohort has earned by now (`RowOk`), and what was
  earned grows until the age is reached and then stays (`ReportedGrows`);
- a run that has read holds values no older than those stored (`HeldOk`: no other run has read since), and final ones
  where it read after the age;
- every recorded window, and a run that stored and is about to be recorded, has the final values of its finally read days
  and types stored (`WindowOk`, `Kept`). Reads in progress of days younger than the age prove nothing and are asked for nothing.

From it, `FiguresHold`: the figure of a day is never above what its cohort earned, and equal to it once the day is held mature
and was finally read, with a total beside its own components counted once (`NoMoreThanEarned`, `FinalFigure`). Then:

- `FinalFiguresStay`: `Spec => StoredStays`;
- `AvailableFiguresAreComplete`: `Spec => []AvailableIsComplete`, since a figure is `available` only if every day of its
  reading is mature (`ShownInFull`);
- `SignalsAreDeserved`: `Spec => []SignalIsDeserved`. Of an ordered list of gates the first that is closed names
  the signal (`FirstClosedIs`), so `scale` and `reduce` can only come from one gate each, of a scope that nothing impedes
  (`ImpedimentsAbstain`, `JudgedIsOperational`, `ReturnVerdict`, `CostVerdict`); what this gate compares are sums over the days of the scope, the same
  for one campaign and for the app (`DayIs`, `EvaluatedSums`, `SettledSums`); and these stand to what was really earned and
  installed as the property says (`ReturnIsTrue`). For `scale` the inequality of `FiguresHold` is enough, and for `reduce` its equality is
  needed, which is why only `reduce` has the exception. `HorizonsTyped` says both streams' newest days are days.

Only model-checked: the liveness properties (`QueuedRunsSettle`, `QueuedRunsAreClaimed`, `WindowsEnd`), since fairness and
ENABLED are beyond the prover. Every invariant and every other action property of the passing runs is proved. What the four violating runs refute stays
with TLC too, and so does that each property can fail at all, which the mutants show.

## Plan

Done: the queue, the engine, one delivery stream, the console, reconciliation with its
screens, cohorts and decisions. What would come next:

1. Two delivery windows of one account at once, at different rungs of the ladder.
2. Installs of an attribution provider at raw and aggregate grain (AppsFlyer).

## Not modelled

- AppsFlyer's adapter, structure syncs and Tenjin's installs row by row: they are one
  request and one upsert each, without the ladder or the reports that make the modelled streams
  hard. Whether raw and aggregated installs of one day can meet is left open.
- Budgets and pacing, and the wording of evidence: arithmetic over one reading.
- Reads of a dashboard that fall between two statements of a window: a screen is drawn from
  the tables as they are at one moment.
- The rate limiter, CSRF tokens, password hashing and the encryption of secrets. The number
  of milliseconds a backoff lasts; that it ends is assumed.
- Proof of a currency from a provider's metadata: rows carry the currency they are given.
- Migrations: two processes that start at once take one advisory lock before anything else.
- The web application (presentation; its actions are the API's), the audit command lines
  (reports run by hand that repeat queries modelled here), configuration (constants of the modules)
  and logging.
