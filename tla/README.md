# FleetOpsX-API: TLA+ models, checks and proofs

FleetOpsX-API is a multi-tenant fleet dispatch back end: FastAPI endpoints over
Postgres (SQLAlchemy), Redis, a Celery worker and an APScheduler thread.
This directory models the parts of it whose correctness depends on the order
in which requests, jobs and database commits interleave.

## How the system runs, and how that is modelled

* Endpoints are synchronous functions; FastAPI runs them on a thread pool, so
  any two of them overlap. APScheduler jobs run in the same process, Celery
  tasks in another one, beside them.
* Sessions use Postgres' default READ COMMITTED level, `autoflush=False`,
  `expire_on_commit=True` (`app/core/db.py`). No handler locks rows, compares a
  version or repeats a failed transaction.

A handler is therefore modelled as a process with a program counter. Each
SELECT whose result is used later is a step; each COMMIT, with everything
flushed in it, is a step; any step of another handler may come in between.
Handlers that read and write one row with nothing in between that matters are
one step. A crash of the process between two steps loses what is not committed.
The unit of work of SQLAlchemy writes only the columns that changed with
respect to the loaded row and does not look at the current row: where this
matters (confirm, match engine) the model has the loaded value.

## Inventory

| Component | State | Operations | What is hard | Correct when |
|---|---|---|---|---|
| Orders (`order_service`) | `orders` | create, patch, delete | written by planners, replan, confirm, drivers | a status is backed by a stop or a user |
| Drivers, availability | `drivers`, `driver_availability`, `driver_shifts` | create, patch, delete, daily status | deleted while a plan is being solved | references hold |
| Planners (`rule_based`, `ortools_planner`) | `route_plans`, `routes`, `route_stops` | plan a day; dry run; horizon | read, solve up to 10 s, write; fallback | an order is planned once, dry runs write no order |
| Options, confirm, replan (`planning.py`, `plan_options_service`) | plans, `plan_history` | options, confirm, replan, multi-day | two commits, stale rows, bulk updates | recorded plans stay published |
| Driver app (`driver.py`) | stops | report a stop | races with replan, confirm and other reports | order and stop tell one outcome |
| Capacity marketplace | offers, requests, matches | post, cancel, answer, match engine | two engines, stale reads, forgotten commit | sold once, pairs are served |
| Scenario simulator | `scenario_runs`, `scenario_results` | create, execute, delete | task redelivery, lost queueing | one result set, runs end |
| Partner ingest | `integration_logs` | ingest, sweep | look-up before insert, two commits | one order for a partner's order |
| Public tracking | `orders.tracking_token` | make a link | look-up before write | a link given out stays valid |
| Files (`import_service`) | orders, drivers, vehicles, depots | four importers | one commit, bad rows | good rows are stored |
| Webhooks | `webhook_registrations`, Celery messages | register, dispatch, deliver, retry | retries, redelivery, deactivation | none dropped, bounded calls |
| Analytics ETL | `delivery_analytics`, `driver_performance_scores` | nightly and manual runs, two reports | overlapping delete-and-insert | a delivery counts once, the reports agree |
| Monitor and suggestions | `agent_suggestions` | scan, accept, dismiss | duplicate and repeated decisions | few open warnings of a stop |
| Live tracking | `location_pings`, Redis | ping, expiry | two stores | - |
| LLM planners (`langgraph_agent`, `multi_agent_planner`) | `agent_logs` | plan, explain, log | plan and log are two commits | a plan has its log |
| Conversations | MongoDB, `chat_messages` | create, send, delete | fail-over in the middle of a turn | replies follow their questions |
| AI providers | `ai_provider_configs` | create, set default, delete | one default without a lock | one default, one row a name |
| Sign-in, tenants, users | `users`, `tenants`, `tenant_configs` | invite, update, deactivate; LLM settings | look-up before insert | accounts of an address are bounded; a deactivation alone takes no last administrator |
| Database routes | route cache | refresh, edit | stale refresh overwrites an edit | - (nothing reads the cache) |
| Governance, audit, RBAC | `audit_log_entries`, roles | log, list, roles | - | - |
| SLA alerts, exports, lists | - | read | - | - |
| Customers, depots, vehicles | single rows | CRUD | - | - |

`PROJECT.json` lists every component with its status.

## Modules

### Dispatch.tla

One tenant's orders, drivers, plans, routes and stops.

* `order`, `driver`, `duty`, `plan`, `routeDriver`, `stop`, `history` are the
  tables; `req[w]` is the request worker `w` serves. Row ids are fresh UUIDs in
  the code; the model creates an order or driver once, names a route by its
  plan and the driver it was made for, and a stop by its plan and order (both
  planners make at most one of each).
* `CreateOrder`, `PatchOrder`, `RescheduleOrder`, `CreateDriver`, `SetActive`,
  `DeleteDriver`, `UpsertAvailability` are one-row handlers, one step each.
  PATCH takes a free string as status in the code; the model's users write
  the six documented ones. One step loses no behaviour of a PATCH: what it read
  decides only whether the unit of work sends the column, and what it sends is
  what the user asked for. A PATCH that read the value it was to write sends
  nothing, which is no step; one that read another value sends it whatever the
  row is by then, which is the step at the COMMIT.
* `LoadStop`, `UpdateStopStatus` are a driver's report: stop and order are
  loaded, and in a later step the columns that differ from what was loaded are
  written. Rows deleted in between fail the request, unless it had nothing to write.
  A driver may report any of the four statuses on any stop, again and again.
* `author` and `retold` are history variables: who last set an order's status and
  its driver, and the stops whose status a second report changed. Properties about
  outcomes need them, since a user may PATCH an order to any status and a driver
  may report ARRIVED on a stop that is DELIVERED, which leaves the order as it is.
* `OrderDates` are the dates users schedule orders for. With one date, as in the
  runs, `RescheduleOrder` writes what is there; the proofs have any dates.
* `DeleteOrder`/`EraseOrder`: `db.delete` looks for the order's stop and fails
  on a NOT NULL column when there is one; a stop committed between the look and
  the DELETE is taken by ON DELETE CASCADE.
* `PlanDay`, `PlanOptions`, `PlanMultiDay`, `Replan` start a planner:
  `ReadForOrtools`, `SolveWrite`, `NoSolution` for OR-Tools, `ReadForGreedy`,
  `GreedyWrite` for the rule-based planner and fallback. What the solver
  returns is left open: any orders may be dropped, any available driver used.
  Foreign keys are checked at the write; a failing one aborts the request.
* `ResetOrders` is replan's UPDATE with its own commit. `LoadPlan`,
  `PublishPlan`, `RecordHistory` are confirm's read and its two commits.
* `OrtoolsPlanner` is PLANNER_TYPE and `Uuid4Imported` says whether
  `ortools_planner.py` imports `uuid4`. It does not: the runs about the code as
  shipped set it FALSE, and `DispatchPool` sets it TRUE so that
  the paths behind the NameError are explored as well.

### Exchange.tla and Marketplace.tla

`Exchange` is what the marketplace promises: a deal joins a posted offer and a
posted request that fit, each in one deal at most. `Marketplace` is the code:
statuses of offers, requests and matches; `engine[e]`, a run of
`run_match_engine` with the rows its session has set to EXPIRED and not yet
committed (`stale`), the requests it loaded (`todo`) and the pair it found;
`cancelling` and `answering`, tenants' requests between SELECT and COMMIT. At
most one cancel per offer and one answer of each kind per match are in flight.
A commit sets a status whatever the row says by then. `expires_at` is
a row's membership in `lapsed`. The order by `created_at` within a priority is
left open. `Deals` and `Posted` map the code's state to the exchange's. With
three engines a request loaded as MATCHED could keep an EXPIRED committed in
between; the runs have one or two.

### Celery.tla

The queue as `celery_app.py` configures it, for the modules of its tasks to
instantiate. `queue` counts the copies of each message, `held` is what a worker
has in hand. Acknowledgement is late, so a worker that dies puts its message back
(`WorkerLost`), and a task that takes longer than Redis' visibility timeout is
delivered again while it still runs (`VisibilityTimeout`). Redis itself is
external code: its part is modelled from that configuration. `faults` counts
both events and `MaxFaults` bounds them; the properties say what one fault may
cost. Deaths are needed as a count, not as a yes or no: how often a partner is
called, or a result recorded, depends on it.

### Courier.tla and Webhooks.tla

`Courier` is what delivery promises: an item handed over stays under way until the
partner has taken it, the retries are used up or the partner is gone; it is handed over
once, tried only while under way, and never taken up again. `Undelivered` and `Gone` map
the code's messages and registrations to it.

Registrations, fan-out and delivery. A message is a registration, an event and
the retry count of its headers; the back-off times are left out, a retry is in
the queue at once. A task has the steps SELECT, POST, COMMIT of `last_error`,
publishing the retry, acknowledgement, and any worker may die between two of
them. `seen` is `last_error` as the session loaded it: the code decides with it
whether to clear the column, and the unit of work whether to write it.
`malformed` is the registrations whose URL httpx refuses: no `HTTPError`, so
the task ends without a retry. Fan-out queues any subset of the subscribed
registrations, since a failing `apply_async` is skipped and the API may die.
Postgres and the broker are up while a task runs.
Tasks of different registrations share no row, so one registration is enough.

### Scenarios.tla

A run's row, its results and its task. `task[w]` is the worker's session: the
next step, the status it loaded (a status set to that value is not
written), whether a plan is flushed and not committed (`partial`) and whether a
failed flush left the session unusable (`broken`; the handler does not roll
back). The steps are the commits and the refreshes after them. Deleting a run
takes its results along (ON DELETE CASCADE), and a task that commits for a
deleted run fails. `plan_day` commits a plan even in a dry run, which `drafts`
records. `hurt` is a history variable: the runs whose task was not queued, or
whose session was broken. KPI values are not modelled.

### Intake.tla

Orders come from users, files and partners. `ingest_order` is the steps `FindLog`
(SELECT of the log row), `CreateIngested` (adapter, `create_order` and its
commit), `RecordOrder` or `RecordError` (the log row's commit). A payload is the
one flaw it has: `SapRaises`, `ShopifyRaises` and `GenericRaises` say for which
flaws each adapter raises, the others get a default. `overflow` is a number too large
for what it is converted to, which no adapter catches. `sends`, `made`, `unlogged`
and `swept` are history variables for what properties count: deliveries, orders
made of them, those whose log row was never written, rows the sweep deleted. A
tracking token is a number: each new uuid4 is the next. `SweepColumns` says whether the
`TenantConfig` columns exist that `retention_sweep_task` asks for. They do not
(`workers/tasks.py:160`), so the shipped sweep deletes nothing; the run has them,
since only then is there something to show. Files are rows by their flaw.

### Oversight.tla

What watches a planned day. `ReportStop`, `Ping`, `Expire` and `DeleteDriver` change
what the monitor and the ETL read. A scan is `StartScan` (the stops of the day),
`CheckStop` for each (position and PENDING warnings), `EndScan` (one commit). An
ETL call is `StartEtl`, `DeleteRows`, `DeleteScores`, `CommitEtl`: both DELETEs see
the rows committed when they start, `old` and `oldScores`, and nothing is visible
until the commit, which a UNIQUE `order_id` or a missing driver may refuse. `run` on
rows and scores is auxiliary: which call wrote them. `Kpis` and `DriverPerformance`
are the two reports. What the nightly job and the endpoint call is one
function, and nothing keeps them from overlapping. Columns no property reads
(delays, distances, vehicle types) are left out. Stops, orders and routes keep the
pairing they were planned with; Dispatch has their changes.

### Assistant.tla

The two graphs that plan with a language model, the tenant's choice of a provider, and
the chat. A planning request is `AskPlan` (which provider answers), `Analyze` or
`Forecast` (the second node of either graph), `Optimize` (the optimizer's own commit of
the plan), `Explain`, `Persist` (the log's commit). `config` is the tenant's
`llm_provider` rows, usually one; `Llm` is the factory's choice and `Resolved` the
log's, which differ when there are several. Confidence is in thousandths, with the
code's warnings and penalty. A chat turn is `StoreQuestion`, `StoreReply`, `Touch` in
MongoDB, and `PostgresChat` when any of them fails. `DropConversation` is
`delete_one`, which filters by tenant and may match nothing; `PurgeMessages` is the
`delete_many` that follows in either case, filters by the conversation alone and may be
broken off anywhere, with the exception ignored. So a conversation that stays can lose
messages, also while a turn is under way. `stale`, `died` and `purged`, the questions a
purge removed, are history variables.

### Platform.tla

Accounts and platform-wide AI providers. `AskAccount`/`AddAccount` stand for
`invite_user` and `register_user`, `AskDeactivate`/`Deactivate` and
`AskUpdate`/`UpdateUser` for the check of who asks with the look-up of the account, and
the commit of the columns that differ from what was read (`change`). A provider is made
the default by `ClearDefaults` (the bulk UPDATE as of its start) and `InsertProvider` or
`SetDefault` (the commit of both). The rows are the platform's, of one task: a tenant's
own rows in the same table are left out. The look-up by id of `admin.py:240` has no
tenant filter and takes them too: making one the default clears the platform's defaults
and adds none. `by`, who made a row the default, and `overtaken` are history variables.

## Runs

| Run | Instance | Shows |
|---|---|---|
| dispatch_shipped | 1 order, 1 driver, 2 plans, 1 date, 2 workers; rule-based; day, replan, confirm, reports ARRIVED, DELIVERED, FAILED (SKIPPED acts as ARRIVED), PATCH to DELIVERED | types; a DELIVERED or FAILED order was PATCHed so, or reported so with a stop that says it or what a second report made of it |
| dispatch_pool | 1 order, 2 drivers, 2 plans, 2 dates, 2 workers; OR-Tools with uuid4; options, multi-day, replan, confirm, delete, PATCH to PENDING, both drivers deactivated and deleted, crashes | references hold, an assignment has its stop, recorded plans stay published; a PENDING order has a driver after two histories only; dry runs write no order |
| market_single | 2 offers, 2 requests, 1 engine; cancel, expiry, answers, crashes | capacity covers, sold rows are not reopened, the exchange is implemented: no row is in two deals |
| market_serves | 2 engines, fair; cancel, expiry | a row is sold no more often than there are engines; no suitable pair stays open; lapsed requests are archived |
| webhook_delivery | 1 registration, 2 events, 2 retries, 2 workers, 1 fault | calls are bounded, an accepted event is not repeated, the courier is implemented: none is dropped; a failing partner shows an error, deliveries end |
| scenario_runs | 1 run, 2 workers, 3 faults; broker failures, deletion | status agrees with rows, a run shown unfinished is being worked at, results are recorded once per delivery, deletion leaves nothing, runs end |
| intake_orders | 1 partner order, 3 deliveries, 3 orders, 2 workers; crashes, refused rows, deletion, sweep, files, links | log rows, orders and links are bounded by the requests that overlap; extra orders are explained by lost log rows |
| oversight_day | 2 stops, 2 monitors, 3 warnings, 2 ETL calls; decisions, reports taken back, driver deleted | a stop's open warnings are bounded, a delivery counts once, the two reports agree |
| assistant_turns | a LangGraph and a multi-agent process, 3 providers, 2 changes, 1 plan, 1 conversation, 2 questions; failures everywhere | logs are whole or absent, they name the provider asked, replies follow questions unless a purge took the question, nothing is stored twice, the floors of the confidence are never met |
| platform_admin | 2 requests, 3 accounts, 2 addresses, 3 providers, 2 names | accounts, names and defaults are bounded by what overlaps; a deactivation that no other change overtakes takes no last administrator |

Runs that must fail, each with the line of the repository it contradicts (see
`findings` in `PROJECT.json`):

| Run | What the code does |
|---|---|
| double_stop | two overlapping plan requests give one order two stops |
| replan_delivered | replan returns a delivered order to the pool |

Seen in the models and not run: what follows needs no search to be found, or
its search was made once and showed what is written here.

* `uuid4` is not imported in `ortools_planner.py:339`: every solution with a stop
  ends its request in a NameError, plan options and multi-day among them.
* Replan resets every order of the plan, those of other dates as well
  (`planning.py:117`).
* Confirm commits orders before the plan is recorded; a crash loses the history
  row for good (`planning.py:91`).
* Multi-day planning patches two module globals, the default depot, around each
  solve and restores what it read before (`ortools_planner.py:494`): overlapping
  requests may leave a patched value for good.
* Two engines may sell one offer twice (`marketplace_service.py:152`); the scheduler
  and `match-now` are two engines. Each sells it at most once (`SalesBounded`).
* When nothing matches, the archive pass over offers is not committed
  (`marketplace_service.py:198`): lapsed offers stay OPEN until something else commits.
* Two answers to one match may leave it REJECTED with a `settled_at`
  (`marketplace_service.py:114`), a cancel beside the engine a match of a
  CANCELLED offer (`marketplace_service.py:60`).
* A route that a foreign key rejects leaves a scenario run RUNNING: the handler
  commits on a session it has not rolled back (`scenario_service.py:167`).
* Scenario runs leave DRAFT plans and routes behind, though described as
  non-destructive (variable `drafts`). A run whose task cannot be queued stays QUEUED
  (`scenarios.py:45`).
* A test ping is queued only for a registration subscribed to `webhook.test`;
  otherwise the endpoint blames the missing worker (`integrations.py:180`).
* `plan_horizon` accepts `carry_over` and the scenario path does not use it
  (`ortools_planner.py:395`).
* Nothing writes `delivery_events`, so a windowed delivery has no arrival: a score
  counts it on time (`analytics_service.py:142`), the KPIs do not (`:212`). The P3 spec
  wants one on-time rate (`DEV_SPEC_P3_adaptive_multi_agent_v1.md:39`, `:102`).
* An ETL run replaces the rows of the orders and drivers it finds. A stop that is
  DELIVERED no longer leaves its row, and its driver's score, as they are.
* The monitor's `expires_at` is enforced nowhere, and nothing creates the
  REPLAN_DRIVER suggestions that the decision handler would act on
  (`agent_suggestions.py:77`).
* The retention sweep and its two settings endpoints ask `TenantConfig` for columns
  it does not have: the sweep deletes nothing (`workers/tasks.py:160`).
* Two default providers, which two requests can leave, make the tenant's view of its AI
  configuration an exception (`tenants.py:111`). `update_user` lets the last
  administrator take his own role, and two administrators can deactivate each other.
* A user who PATCHes an order back to PENDING hides it from the planners, and so may a
  confirm that sends the driver alone to an order which a replan reset after the
  confirm had loaded it (`plan_options_service.py:86`); `PendingIsPlannable` says these are
  the only ways.
* Once a partner accepted something, `last_error` may show an error that is over or hide
  one (`workers/tasks.py:73`): `FailureShown` asks only before.
* A dismissed suggestion can be accepted, and a warning that was decided is given again
  (`agent_suggestions.py:77`).
* A chat turn that fails over to PostgreSQL after its reply was stored in MongoDB answers
  with another one (`conversations.py:231`). Deleting a conversation purges its messages
  for whoever has its id, of any tenant, and whether or not it was deleted
  (`conversations.py:262`).

Why the bounds are enough: each hazard is between two requests, tasks or engines, so two
of them exhibit it; two drivers let an order move (`dispatch_pool`; nothing that reports
say depends on the driver, so that `dispatch_shipped` has one, and its state space the
room for reports that decide on rows read earlier); two plans let one be published and
the other cancelled; two dates separate a replan of one from the other; two offers and
requests let one be stolen from the other. Two retries distinguish the first, a middle
and the last; the code has three, which adds a middle one. One fault among webhooks puts
a redelivered task beside the original; three among scenario runs let a task be repeated
after it completed, failed and was half done. Three deliveries of a partner's order are
two that overlap and one that comes after; three orders let two of them be created and
one be another user's. Two ETL calls overlap in every order of their DELETEs and
commits, three warnings are one more than two monitors may leave open. One plan suffices
for its log, one conversation for two overlapping turns and its deletion. Each property
of a passing run is broken by a plausible change of one mapped definition (`mutants`),
within the same bounds.

`CHECK_DEADLOCK FALSE` appears where all events have happened and all tasks
ended: such systems do stop.

`Intake` counts to `MaxSends`, `Oversight` to `MaxRuns`, `Assistant` to `MaxConfigs`,
and the sets of rows bound the rest. The instance of `Assistant` has two contexts: one
crowded day, one with few orders most of them urgent, which together give each warning
that does not come of an empty day.

Fairness. APScheduler starts the engine every five minutes and a run that
started goes on, hence weak fairness of `EngineStep` in the liveness runs of the
market; crashes are excluded there because an engine that dies in every run
serves nobody. Celery's workers loop and dead ones are replaced, hence weak
fairness of each worker's `TaskStep`; a request that has committed a scenario run
goes on to queue it, `QueueRun`. There faults do happen, in bounded number.
Tenants, partners and deletions have no fairness, and none is assumed for which
of several enabled steps a worker takes.

## Proofs

`DispatchProofs.tla` proves, for any sets of rows and workers:

* `DispatchInvariant`: `IInv` is inductive. It is the conjunction of the
  type invariant, `ForeignKeysHold`, `DriverBackedByStop`,
  `RecordedIsPublished` and three strengthenings about requests in flight.
  `SnapshotSound`: what confirm loaded agrees with the stops of its plan, and
  what planners hold are rows that were created; without it the step
  `PublishPlan` could give an order a driver with no stop. `PublishedKept`: a
  plan a confirm has published and not recorded yet stays PUBLISHED.
* `DispatchTyped`, `DispatchForeignKeys`, `DispatchBacked`, `DispatchRecorded`
  follow. `DispatchDryRun` is the action property, with the invariant
  `DryRunsPlan` (a dry run never reaches a step that writes orders).
* `DispatchPool` and `DispatchReported` prove `PendingIsPlannable` and `ReportedOutcome`
  for whatever users and drivers send. The code does let a PATCH hide an order or
  declare it delivered, so the properties say who did it (`author`): a PENDING order
  with a driver has had a PATCH, or a replan's status and a confirm's driver; a final
  status that is a driver's has a stop that says it, or that a second report changed
  (`retold`). `OrderFate` lists what a step may do to an order and its authors,
  `StopsFate` to a stop. `PoolInv` adds what a confirm in flight has loaded.
  `ToldSound` is why a report that loaded its own status need not send it: what a stop
  said stays said (`SaysStays`). `ReportsNamed`, a part of `IInv`, says that a report in
  flight knows its stop.
* `DispatchStopsBounded` says how bad the race of `double_stop` can get where planning
  is by `plan/day` alone and no PATCH returns an order to PENDING (`PlannedOnce`;
  replan, options and multi-day requests plan an order again on purpose): an order
  is on at most as many plans as there are workers. `Within` counts the order's
  stops together with the requests that hold it as an open order
  (`Holders`); a request becomes a holder only while the order is PENDING, which by
  `PendingUnplanned` means without a stop, and turns into one stop at most.
  `double_stop` reaches the bound for two workers. `DispatchOneStop` is the
  case of one worker: without overlap `Order.route_stop` is one-to-one.

`MarketplaceProofs.tla` proves `MarketTyped`, `MarketCovers` and `MarketSalesBounded`
for any number of engines: no offer and no request is sold more often than there are
engines, since its sales and the engines that still hold it as open (`Claims`) are
together no more than that. `MarketSoldOnce`, `MarketNotReopened` and `MarketRefines`
are for at most one that runs at a time (`OneEngine`; two engines may sell one offer
twice). `SaleInv` says that no open row is in a match, nor anything the engine holds
(rows it is about to expire, requests it loaded, the pair in hand: `InHand`);
`ExchangeInv` adds that what lapses or is being cancelled was posted. `MarketRefines`
maps every step to a deal, a posting or a stutter of `Exchange`. `ExchangeSellsOnce`
says what that is worth: whatever implements `Exchange` strikes no two deals over one
row.

`ScenarioProofs.tla` proves, for any runs and any finite set of workers,
`ScenarioTyped`, `ScenarioRecordsOnce`, `ScenarioDeleted`, `ScenarioTells` and the
action property `ScenarioOutcomeKept`.
`IInv` is their common invariant. `Budget` is a counting argument: results
recorded, plus messages waiting, plus workers that may still record, are at
most one more than the faults; each step moves one unit or adds a fault.
`BaselineFirst` and `CompletedWithRows` say in which order rows are committed.
`NoneSeenCompleted` is why a status is never left unwritten by mistake: while
nothing was delivered twice, no session has loaded COMPLETED. `UnderWay` is the safety
half of `RunsEnd`: a run shown QUEUED or RUNNING, unless hurt, is about to be
queued, queued, or held by a worker whose session has loaded no final status and
is not broken (`Able`), so that its last commit ends the run. It is
stronger than the clause of `StatusTells` that follows from it, which a worker
that will write nothing would satisfy as well. `ScenarioOutcomeKept`: while the queue
delivers once, a run that is COMPLETED or FAILED changes no more until it is deleted.
`Rests` says that nobody works at such a run; it holds because `Budget` leaves room for
one execution, the one that wrote the outcome.

`WebhookProofs.tla` proves, for any registrations, events, retries and workers,
`WebhookTyped`, `WebhookNothingDropped`, `WebhookFailureShown`, `WebhookPostsBounded`,
`WebhookAcceptedOnce` and `WebhookDelivers`: every step hands something over, tries it
or settles it, or is none of the courier's. That an item is closed only for a cause is
`NothingDropped` before and after the step. `CourierDropsNothing` is the converse:
whatever implements `Courier` has `NothingDropped`, by a short invariant of the abstract
specification alone. `Fate` follows each message: what is queued or in hand was asked
for (`Known`), a retry count is backed by POSTs that failed (`Counted`), what was asked
for is still being tried or its outcome is known (`Accounted`), and until something is
accepted a loaded `last_error` is still there (`SeenHolds`) and a failing partner shows
it or is being tried (`Told`). `Budget` counts: the tries that every queued or held copy
still has, and those made, are at most the tries of one copy times one more than the
faults; counting last tries only, it bounds the acceptances.

`IntakeProofs.tla` proves `IntakeTyped`, `IntakeLogs`, `IntakeAccounts` and
`IntakeLinks` for any payloads and finite workers. `LogBudget`, `MadeBudget` and
`TokenBudget` count what exists together with the requests that have looked and will
still add: since each looks before it adds, only those that overlap can exceed
one, and an order more needs a log row that was lost or swept.

`OversightProofs.tla` proves `OversightTyped`, `OversightBounded`, `OversightCounts` and
`OversightBacked` for any stops, drivers, monitors and ETL calls.
`Watched` adds to the open warnings of a stop the scans that are about to warn of it: a
scan only decides to while no warning is open, and its commit turns one into the other.
For the ETL, `Fresh` says that the rows, scores and snapshots of others do not bear the
number of a call that has yet to commit, and `Unseen` that a score committed since a call
looked comes with a row its DELETE has not seen either, so that UNIQUE
`order_id` refuses the commit: this is why scores need no constraint of their own.
`Kept` and `Matching` relate scores to rows.

`AssistantProofs.tla` proves `AssistantTyped`, `AssistantLogs`, `AssistantProvider` and
`AssistantReplies`. `Owned` and `Apart` say that a plan in hand is one request's own and
has no log yet, `Chosen` that the provider the log would name is the request's as long
as the tenant's choice has not changed since, `Turns` that a question is one request's,
`Stored` what a conversation has of the questions under way: a question about to be
asked is not there yet, one about to be answered is, or was purged. A purge removes the
first messages, so what it leaves still follows (`RestFollows`).

`PlatformProofs.tla` proves `PlatformTyped`, `PlatformBounded` and `PlatformLastAdmin`.
`Accounts` and `Providers` count rows with the requests about to add one;
`OwnDefault`, `OwnSeen` and `Clearing` say that a worker clears the default it set itself
before, which is what keeps the count of defaults within the requests that can
overlap; `Backed` that a deactivation no other change overtook leaves an administrator
besides the account.

The assumptions are those of the modules, which the runs evaluate: finite sets of rows and
workers where something is counted, NULL outside the sets it stands beside; and those
that a theorem names above (`OneEngine`, `PlannedOnce`).

Only model-checked: liveness (`PairsServed`, `RequestsArchived`, `Settles`, `RunsEnd`),
which is outside the prover's reach, and what the failing runs show.

## Not modelled

* What planners decide and how: the solver, distances and times, the language model's
  text. Their results are left open. The position of the default depot is such data, so that
  the module globals which multi-day planning saves, patches and restores around each
  solve (`ortools_planner.py:494`) are not modelled either: overlapping
  requests may leave a patched value for good.
* The scenario simulator's planner with a language model (`ai_planner_service.py`,
  `workers/tasks.py:235`), which reads and answers; the KPI numbers of a scenario.
* The history that a chat prompt is made of, and streaming.
* What only reads: SLA alerts, `get_kpi_trend`, lists, exports, the platform's tenant list.
* The routing cache of tenant databases: it is refreshed and edited, and nothing reads it.
* Governance, audit log and RBAC: appends and single-row changes that depend on nothing else.
* Web sockets of live tracking: pings are stored and broadcast, and a client
  that is gone is dropped. Only the position in Redis is modelled, which the monitor reads.
* CRUD of customers, depots and vehicles: one row, one request; tokens, passwords and
  signatures of requests; schemas, formatting, migrations and seeds.
* Row-lock deadlocks inside one COMMIT end in a rollback and are not distinguished from
  other aborts.

## Plan

What is modelled covers the parts where requests, jobs and tasks meet. What could follow:

1. `Depot`: the planner's patched globals under overlapping multi-day requests, with the
   promise that the configured depot is back when none runs.
2. The routing cache, as soon as something reads it.
