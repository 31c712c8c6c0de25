# TLA+ models of the agent runtime

This directory holds TLA+ specifications of the task runtime in `app/`, the TLC
configurations that check them on small instances, and TLAPS proofs of the
most important properties for every value of the constants. `PROJECT.json` lists
components, runs, the mutation of the code model each property was seen to
catch, the source lines behind every definition (`map`), the disagreements
between code and text (`findings`) and what is hard to test (`hazards`).

    tlc -workers 2 -config Queue.cfg LocalTaskQueue
    tlapm LocalTaskQueueProofs.tla

## 1. The system

The runtime accepts tasks over HTTP, runs each as a langgraph state machine that
lets a language model call tools, and keeps everything that must survive a restart in
a database.

| Component | Code | State | Operations |
|---|---|---|---|
| Local task queue | `app/worker/local_queue.py` | `_queue`, `_running` (task id to asyncio.Task), semaphore | `start`, `stop` with its drain, `submit`, `submit_resume`, `cancel`, `_spawn`, `_execute`, the done callback |
| Task API | `app/api/routes_tasks.py` | none of its own; between awaits, the row it read | create, resume, approve, reject, cancel, delete, SSE stream |
| Task rows, checkpoints | `app/storage/repository.py`, `models.py` | tables tasks, steps, events, tool_executions; checkpointer | `create_task`, `update_task`, `delete_task`, sweeps |
| Engine | `app/graph/engine.py` | `_canceled`, `_seqs`, span buffers | `run_task`, `resume_task`, `is_paused`, `emit`, `cancel`, `clear_cancel` |
| Graph nodes, budget | `app/graph/nodes.py`, `state.py`, `core/budget.py` | the AgentState of a thread | seven nodes and four routers |
| Tool journal | `nodes.py` (`tool_executor_node`), `repository.py` | tool_executions, unique by task and call key | claim, wait, take over, complete, replay |
| Tool call | `nodes.py` (`_execute_call`, `_repair_args`, `_retry_transient`), `tools/registry.py`, `core/errors.py`, `core/retry.py` | repairs, retries, last error | execute, repair, retry, classify |
| Events, SSE stream | `engine.py`, `repository.py`, `routes_tasks.py`, `api/ratelimit.py` | event numbers, watermark of a stream, slots | `emit`, `append_event`, `get_events`, stream loop, `ConcurrencyGate` |
| Celery worker | `app/worker/celery_app.py`, celery branches of `routes_tasks.py`, `fail_stale_active_tasks` | broker messages, `updated_at` of rows | dispatch, delivery, redelivery, time limits, stale sweep, `_execute` |
| Admission | `routes_tasks.py` (`create_task`, `_enforce_daily_quotas`), `repository.py` | rows of the day, token sums | insert, count, sum, roll back, submit |
| Start-up | `repository.py` (`create_tables`, `_migrate`, lease), `migrations/`, `api/security.py` (`bootstrap_auth`), `main.py` | lease row, schema version, default tenants, credentials file | acquire, expire, give up, release; detect, repair, stamp, upgrade; bootstrap |
| web_search | `app/tools/web_search/` | `_LAST_CALL`, `_COOLDOWN_UNTIL` | routing, gate, request, `_mark_failed`, `_mark_ok` |
| Spans | `app/observability/spans.py`, `engine.py` (`flush_spans`), `repository.py` | shared buffer, counts per task, table | open, close, take, write, tree |
| Rate limits per minute | `api/ratelimit.py` | windows | `allow` |
| Plan layering | `nodes.py` | none | layers of a plan, fallback, renaming |
| Metrics, logs | `app/observability/` | counters | record |
| Authentication | `api/security.py`, `routes_admin.py` | key cache | resolve a tenant |
| Model client, compression, sandbox, other tools, MCP server, scripts, page | `core/llm.py`, `core/compressor.py`, `executor/`, `tools/`, `mcp_server.py`, `scripts/`, `web/` | connections, containers | external effects |

**Interaction.** A create handler inserts a row, checks quotas and puts the id into
the queue. The consume loop spawns a coroutine, which waits for a slot, reads the
row, clears an old cancel flag, marks the row running, calls the engine and writes the
outcome. The engine drives the graph; each superstep commits a checkpoint. A graph
that needs an approval hangs on the gate, and the row says `waiting_approval` until
`/approve` or `/reject` spawns another coroutine. Inside the graph the tool node runs
the calls of a round in parallel behind the journal. Nodes emit numbered events, which
streams poll. Handlers, coroutines and streams share one event loop and are
interleaved at awaits; in Celery mode the create handler sends a message instead, and several
worker processes share the database and sweep each other's rows. Before they serve, API processes
race for the migration lease and bring the credentials file in line with the database. The engine's
runs record spans into one buffer of the process, and search calls of all tasks share the throttle.

**What is hard.** Every `await` between a read and the write that depends on it; the
two records of a task's progress (row and checkpoint) that are written one after the
other; kills between the two; a cancel flag that is set by one coroutine and cleared by
another; parallel tools; claims whose owner is dead or only slow; numbers that go on
after a restart; counters and budgets that several nodes share; leases and sweeps that take age for
death; messages delivered twice; checks whose answer is old after a sleep. The list `hazards` in
`PROJECT.json` places each at its line.

**What makes each component correct.**

- Queue and API: at most one execution per task; the registry knows every execution;
  every active row has somebody who moves it on, but for what failing database calls leave behind;
  row and checkpoint agree; a deleted task stays deleted; active tasks settle.
- Graph: budgets hold across stops and resumes; mode switches are bounded; no plan step
  is skipped or marked done without success; a task that is over only finishes; one
  approval opens the gate once; a task comes to rest.
- Journal: a tool is started once per key except for take-overs; only genuine results are
  replayed; observers agree; rounds end.
- Tool call: a side effect is not repeated by repair plus retry; error codes survive
  repairs; at most one run of the tool starts after a cancel; the call ends.
- Events: the numbers of a run on its own never collide; resumed tasks stay visible; only late commits are passed
  over; slots are given back; streams end.
- Celery worker: a sweep never fails what a worker with enforced time limits executes and always ends what nobody executes.
- Admission: concurrent submissions never take more places than a day has; admitted tasks fit
  the token quota, but for what a single task uses beyond its own limit.
- Start-up: one migration at a time unless a lease has expired; whoever serves finds the schema at head;
  a bootstrap repairs the file; every start ends.
- web_search: a failed source is left alone; requests are spaced; a failing source takes no other's turn.
- Spans: no span is lost but for five reasons, stored twice or booked on another task; the limit holds over
  the runs of one engine; the tree shows what is stored.

## 2. Modules and how they correspond to the code

Every action is the stretch of code between two awaits that matter (or one superstep, for
the graph). Guards are the code's conditions, including early returns; a definition whose
comment starts with "Mutant" is a plausible bug used to test a property and is used by no action.

**`LocalTaskQueue`** is the life of tasks in the default deployment. `row` is the status
column, `ckpt` what the thread's checkpoint says (`none`, `mid`, `gate`, or an end status),
`handle` is `_running`, `co` the coroutines of `_execute` with their position, `canceled` the
engine's flags, `req` the handlers between their first read and their effect. Actions:
`Consume`; `Acquire`, `LoadRow`, `MarkRunning`, `RunTask`, `ResumeTask`, `EngineFinish`,
`EnginePause`, `EngineRaise`, `WriteBack`, `Return`, `DoneCallback`; `CreateInsert`,
`CreateSubmit`, `OwnedTask`, `SubmitResume`, `CancelTask`, `CancelRow`, `DeleteRow`,
`DeleteThreadCheckpoints`; `Crash`, `BeginStop`, `ForceCancel`, `EndStop`, `Restart`. Every database call may
raise, with or without effect (`UpdateFails`): `LoadFails` and `MarkFails` before the `try` of `_execute`,
`WriteBackFails` in it (the except branch writes) and in its except branch, `RequestFails` in a handler.
`orphaned` remembers the active rows whose driver such a call ended and which nobody has written since. What the
graph computes is a choice here: any end status (`canceled` only if the flag is set), the
gate, or an exception. `update_task` (select, change, commit) is one step.

**`AgentGraph`** is one task inside the engine, one action per superstep: `Planner`,
`ReactStepEnds`/`ReactStep`, `GatePassesThrough`/`GateInterrupts`, `ToolExecutor`, the four
outcomes of `critic_node`, `Compressor`, `Finisher`, and from outside `Approve`, `Reject`,
`Cancel`, `Stop`, `Resume`. A plan is the sequence of its batches (layers) and whether their
steps are done; tokens saturate at the budget; the observations of a round are the class that
`_classify_failure` gives them. langgraph itself is external: it runs one node per superstep,
commits after each, and raises at the recursion limit.

**`ToolJournal`** is one round of `tool_executor_node` run by several workers and repeated after
kills. Each database access (claim, conflict read, poll, completion read, completion write) is an
action. `GiveUp` may happen whenever no result is there: the wait of 5 s says nothing about how
long a tool takes.

**`ToolCall`** is the inside of one call: first execution, repair loop, retry loop with its pauses,
a cancel at any await, and the class of the final observation. The sequence of `StartHandler`,
`HandlerReturns` and `HandlerFails` stands for `registry.execute`.

**`EventStream`** is the trace of one task: `StartRun` marks the row, `SeedRun` seeds the run's counter from the table
(or goes on without, as the code does when that query fails), `Emit` takes a number, `AppendEvent` inserts it,
`Crash` loses the counter and the inserts in flight. `Runs` are the runs that may overlap: several, each with a
counter of its own, in Celery mode (`FreshEngine`), one in the local queue. `Sweep`, `CancelTask` and
`DeleteTask` come at any time in Celery mode. `clean` is the run that was seeded while no other was going and
that no other has joined since.
Streams alternate `PushEvents` (events), `StreamEnd` or `SleepBegins` (row), `SleepEnds` or
`StreamTimeout`; `Disconnect` may come at any await; each end releases the slot.

**`CeleryWorker`** is the same life of tasks with `QUEUE_MODE=celery`. `row` and `age` are status and time since
`updated_at`; `queued`, `unacked` the broker's messages; `worker` the run of each process. `CreateInsert` and
`CreateDispatch` are apart because the handler awaits in between; `ResumeDispatch`, `CancelRow`, `DeleteRow` are
the celery branches of the API. The pool enforces the time limits (prefork does). A run is `Deliver`, `Sweep` (of the rows older than twice the time limit plus a
margin), `MarkRunning`, `EngineEnds`, `WriteBack`, `Ack`; `SoftTimeLimit` may hit it anywhere, `ProcessLost`
(hard limit, out of memory) ends it with the message acknowledged, `HostLost` leaves the message to
`Redeliver`. `SweepForOther` is the sweep of a run whose task is not among `Tasks`.

**`DailyQuota`** is what the daily limits promise: places of a day, given out one at a time and never beyond
the limit of the tenant or of the service. **`Admission`** is the code: `InsertRow`, `BeginChecks` (`day_start`),
`CountTenant`, `CountGlobal`, `SumUsed`, `SumReserved`, `RollBack`, `Submit`, each database access one step, with
`HandlerDies` and `Midnight` between any two. `TaskEnds` may use more than the task's `max_tokens`: the budget is
looked at before a decision, and repairs, compressor, finisher and subagents add theirs. A submission holds its place from the step in which it passes
the global count until its row is gone: that is the refinement mapping `Held`.

**`Startup`** is `lifespan` up to serving: `TryInsert`, `TryExpire`, `WaitOrGiveUp`, `PollFails` for the lease;
`Detect`, then `Fix` and `Stamp` for a database older than Alembic or `Upgrade` and `Apply` for the others;
`MigrateRaises`, `Release`; `LoadCredentials`, `LookupTenant`, `StoreTenant`, `SaveCredentials`, `WriteCredentials`. The
file is first emptied, then written (`write_text`), and a crash may fall in between. `ChangeTenant` is the admin
API. The database starts empty, at an earlier revision, at head, or older than Alembic.

**`WebSearch`** is one process' search calls: `Begin` (routing), `RefusedByGate`, `PassGate`, `Wake`, `AnswerGood`,
`AnswerFails` with the failures each source's code can raise and the cooldown each sets, `TimeOut` of
the executor, `Retry`. Cooldowns and intervals count down with `Tick`.

**`Spans`** is the buffer of one process: `BeginRun`, `OpenSpan`, `CloseSpan`, `GraphReturns`, `CheckFails`, `CloseRoot`, `Flush`
(the task's spans leave the buffer and are cut to the limit), `DrainAll` (an engine without a sink, such as a
subagent's, empties the buffer of all tasks), `Commit`, `Counted`, `CommitUnacknowledged` (the rows are there, the
count does not go up), `WriteFails`, `RestartProcess` (the rows stay, buffer and counts are gone). `build_tree` is `Roots` and
`Shown`.

`MC*` modules give the constants their values (functions, symmetry) and define nothing else.
`*Proofs` modules hold the theorems; those about `WebSearch` are in `ToolCallProofs`, those about `Spans` in
`EventStreamProofs`. To be extended together with its neighbour each of the two names its specification after itself
(`SearchSpec`, `SpansSpec`).

**Abstractions.** Sets of names instead of texts; an event is its number; coroutine identities are
recycled from a finite set; the delay of a retry is only whether there is one. Left out because no
execution reaches or uses them: the CLI's runs without journal or queue, a queue without engine
(`lifespan` starts the engine first), a validation error after a repair that has passed the schema,
`retryable=True`, `record_tool_execution`. Also left out: a stream whose generator is never started, the time
a stream spends in a database call or in a `yield` to a slow client (`StreamsEnd` counts passes), and an `emit` that
raises inside a tool call or a replay. An insert that was in flight when its worker was killed is lost;
one that commits afterwards is not modelled. In `EventStream` the local queue's deletion during a run is left out;
that window is in `LocalTaskQueue`. Ages and waiting times are counted only as far as the code compares
them. In `Admission` every limit is switched on, and a worker is only what the sums see of it. In `Startup` an
upgrade is one transaction that fails when another changed the version it started from (PostgreSQL); on SQLite it is
not. In `WebSearch` argument validation, freshness and the text of pages are left out, in `Spans` the deletion of rows.

## 3. What the runs show

| Run | Instance | Shows |
|---|---|---|
| `Queue` | one gated task, 2 coroutine identities, 2 requests in flight, every client operation, failing database calls, kill, graceful stop, one restart | `OneExecutorPerTask`, `HandleCoversLive`, `ActiveRowHasDriver`, `RowAgreesWithCheckpoint`, `DeletedStaysDeleted`, `ActiveTasksSettle` |
| `Graph` | 5 steps, tokens for 2 calls, up to 3 batches, cheap model, 2 switches, both modes, with and without approval, one stop | `OneDecisionOverBudget`, `ModeSwitchesBounded`, `NothingSkipped`, `OverOnlyFinishes`, `EveryRoundApproved`, `DoneOnlyAfterSuccess`, `TaskComesToRest` |
| `Journal` | 2 workers, one call, 2 kills, a deletion | `StartsAccountedFor`, `ReplayIsGenuine`, `ObserversAgree`, `RoundsEnd` |
| `ToolCall` | default limits (3 repairs, 2 retries), every kind of call and error | `HandlerRunsBounded`, `FatalStaysFatal`, `AtMostOneLateRun`, `CallEnds` |
| `Events` | 2 runs that may overlap, with an engine each, 2 emitters in one and one in the other, failing seeds, 2 streams of 2 tenants for one slot, 2 event numbers | `NumbersNeverCollide`, `NewEventsAreVisible`, `OnlyLateEventsMissed`, `SlotsMatchStreams`, `StreamsEnd` |
| `Celery` | 2 workers, one task, 2 messages, soft limit 1, hard limit 2, sweep from 5 on | `SweepSparesExecuting`, `OrphansAreSwept` |
| `Admission` | 3 submissions of 2 tenants, 2 places, quota 3 for tasks of 2 tokens that may use 3, one midnight | `ImplementsDailyQuota` (refinement), `TokensWithinQuota` |
| `Startup` | 2 processes, each shape of the database, a crash, a change of the tenant | `FreshLeaseExcludes`, `PastMigrationSchemaIsHead`, `UndisturbedBootstrapHeals`, `StartEnds` |
| `WebSearch` | 2 calls again and again, 4 modes, cooldowns 2 and 1, one retry | `FailedSourceLeftAlone`, `RequestsSpaced`, `FailedAutoAskedAll` |
| `Spans` | a task with a sink and one without, 2 runs of up to 3 spans each, room for 3, limit 2, restarts | `SpansAccountedFor`, `SpanLimit`, `TreeShowsAll` |

Two runs state what a docstring says and the code does not keep; TLC finds the execution:

- `QueuePausedStuck` (`PausedTaskIsApprovable`): a kill between the gate's checkpoint and the row write;
  the sweep makes the running row `failed`, approve answers 409, resume raises on the interrupt.
- `ToolCallPause` (`CancelEndsThePause`): `_cancellable_sleep` is to return True for a cancel during the pause
  (`nodes.py:261`), but it looks at the flag only before each slice of 0.5 s. A cancel in the last slice, which for the
  default first backoff is the only one, is followed by another run of the tool. `AtMostOneLateRun` tolerates this
  run and shows that there is no second one.

**Bounds and why they are enough.** One task suffices for the per-task races because tasks share only
the slot and the queue. That a task gets a slot which others compete for is not in the instance: it is what the
fairness of `Acquire` and `Consume` assumes of asyncio's semaphore and queue. Two requests give every pair of handlers;
two identities let a new coroutine start before the old one's callback has run. One restart gives a kill
of a resumed task, and a sweep of what failing calls left behind. Five steps let a plan fail twice, downgrade, upgrade and fail again;
tokens for two calls reach the limit with and without the cheap model; three batches allow done, mixed
and pending ones together. Two workers and one key are the smallest round with a conflict; the second
kill lets a repeated round meet a claim that a repeated round left. Two emitters commit in either
order; the second run of two seeds from, collides with or lies below what the first has stored, is storing or has
lost; two numbers are enough for a late one, and two polls let a stream sleep and come back.
Two workers and two messages let a second run of a task start, end or sweep during the first; ages go one
beyond the sweep's. Three submissions for two places let two meet at the last one while the third has
passed; tenant a's two tasks do not fit its tokens together. (The tenant's limit is not reached before the service's
in this instance; the proof of the refinement covers all limits.) Two processes give every overlap of holder,
waiter and successor, with expiry at the first tick. A cooldown of two and an interval of one let a late answer
fall into, and beyond, the short cooldown. Three spans per run fill the buffer and exceed the limit; the second run
meets what the first, or the process before, left. A task that may use one token more than it reserved exceeds the
quota by itself and with another.
`Ends` is reduced in `Celery`, where the model tells final and waiting apart and nothing else.
Symmetry is used only in runs without liveness, on requests of one tenant, which no definition tells apart. The runs say `CHECK_DEADLOCK FALSE` because the systems may really
stop: the task is over, all streams are closed, or a bound on restarts, runs or days is used up.

**Fairness.** Weak fairness of coroutine, handler, superstep and stream steps: the event loop runs what is
ready, model calls and tools have timeouts (`wait_for`), sleeps end. Strong fairness of `Acquire`:
asyncio's semaphore wakes its waiters first in, first out. Strong fairness of `Consume`: the real loop blocks
only on an empty queue, while the model may have to wait for a free identity. In `CeleryWorker` a run goes on or its
process is lost (the hard limit is the pool's), time passes (strong fairness of `Tick`, which the model blocks while
a run is at its hard limit), and tasks keep being dispatched, each with a sweep: without later dispatches no
sweep would ever run, so `OrphansAreSwept` really depends on it. In `Startup` every statement returns or raises, and
time passes. Nobody owes a request, an approval, a kill, a stop, a restart, a round, a deletion, a redelivery or
a disconnect.

## 4. What is proved

**`LocalTaskQueueProofs`**, for any sets of tasks, coroutines and requests, any number of slots and
restarts, from `QueueAssumption` (the constants are numbers and subsets as named; `None` is neither a task
nor a coroutine):

- `TypeCorrect`: `TypeOK`. Inductive only with more about records: a live coroutine has a task, one that
  writes has an outcome, a handler that is not idle has a task (`TypeInv`).
- `RegistryCoversExecutions`: `HandleCoversLive`, inductive with the types. `_spawn` registers a coroutine
  only when the registered one is done; the callback removes its own handle only.
- `OneExecution`: `OneExecutorPerTask` follows: two live coroutines of a task would both be its handle.
- `StatusAgreesWithCheckpoint`: `RowAgreesWithCheckpoint`. The invariant `AgreeInv` says what must be known
  before the row is written: an outcome that waits to be written fits the checkpoint (`OutcomeFits`) or the task was
  deleted meanwhile, from the write of `running` to the last write the row carries no result
  (`NoResultYet`), checkpoints are dropped only for rows that are gone (`DropsDeleted`), and only issued ids have rows
  (`KnownIssued`).
- `NoResurrection`: `DeletedStaysDeleted`, an action property, from the same invariant: only create inserts, and
  only an id that was never issued.
- `ActiveRowsAreDriven`: `ActiveRowHasDriver`. `DriverInv` has to exclude that `_spawn` refuses the head of the queue
  because of a coroutine that has already written back: a task that waits, in the queue or in its handler, waits once and
  has never had a coroutine (`FirstInv`, `OnceInv`); a registered handle is that of a coroutine of the task
  (`HandleInv`); a coroutine that only leaves has no active row behind it (`LeavingInv`); a process that is down has no
  queue and no handlers (`DownInv`), and the sweep at the start fails the rows left over. A failing call that ends a
  driver makes the row `orphaned` in the same step, and any other end leaves a row that is not active.

**`EventStreamProofs`**, for any numbers of emitters, streams, runs, events and both kinds of engine, from
`StreamAssumption`:

- `NoCollision`: `NumbersNeverCollide`, for a run that was seeded and is on its own (`clean`). `NumberInv`: numbers of
  one run that wait for their insert are distinct, not above its counter, and exist only while it is going; a clean
  run is the only one that is going, and its counter bounds the table. Seeding with the largest stored number
  establishes this after every kill, and after runs that overlapped or went on without a seed. Those are steps of the
  specification; the claim is not made for them because there it is false (section 5).
- `NoBlindSpot`: `NewEventsAreVisible`, for the same runs. `WatermarkInv`: while the row exists a watermark is the
  number of a stored event (or nothing was seen), so the counter bounds it too. Without this the claim is not
  inductive.
- `NothingElseMissed`: `OnlyLateEventsMissed`, also while runs overlap, inductive with the others. The lemma `MaxOfBounded` (a bounded nonempty set
  of numbers has a largest member, which `Max` returns) rests on the well-foundedness of `<`.
- `SlotsAreStreams`: `SlotsMatchStreams`, and `StreamsAreLimited`: never more open streams than the limits allow (a claim
  about the streams themselves; no run checks it). `GateInv` counts the streams that are open, by cardinality; every way
  out of the loop removes one stream from that set and one from the counters.

**`CeleryWorkerProofs`**, for any tasks, workers, messages, limits and margin, from `CeleryAssumption`:

- `TypeCorrect`: `TypeOK`.
- `SweepIsSafe`: `SweepSparesExecuting`. The sweep compares the age of the row and not that of a run; `AgeInv` joins the
  two: while a worker executes a task whose row is `running`, the row is no older than the run. Every write of
  `running` makes the row new, and a run ends at the hard limit, before its row can be stale. This rests on the pool
  enforcing `task_time_limit`. prefork does; `--pool=solo`, which the docstring of `celery_app.py` starts a worker with
  (line 4, meant for Windows), enforces neither limit, and a run that takes longer than `2 * time limit + margin` is then
  failed by the sweep of another worker while it is going on.

**`StartupProofs`**, for any finite set of processes, any expiry and waiting times and any number of crashes, from
`StartupAssumption`:

- `LeaseExcludes`: `FreshLeaseExcludes`. `LeaseInv`: who migrates owns the lease, and the lease is as old as its
  migration; or it has been at it for longer than `LEASE_STALE_S`. A successor deletes only a lease of that age.
- `SchemaIsHead`: `PastMigrationSchemaIsHead`. `SchemaInv` says what each recorded version implies about the tables, and
  what a process between repair and stamp may rely on although another one migrates at the same time: parts are
  only ever added.
- `BootstrapHeals`: `UndisturbedBootstrapHeals`, an action property. `BootInv`: a bootstrap that nothing disturbed is the
  only one, so the file is still as it read it (or it is the one that rewrites it), the row it is to replace still
  exists, and from the lookup or the store on its key is that of an enabled tenant. A new key is never the empty one,
  since one of the first n + 1 numbers is not among n keys in use.

**`AdmissionProofs`**, for any finite set of submissions, any tenants, limits and days, from `AdmissionAssumption`:

- `AdmissionImplementsDailyQuota`: `ImplementsDailyQuota`, the initial state and every step mapped to a step of
  `DailyQuota` or a stutter. The global limit is the count of the very step in which a place is taken. The tenant's
  was an earlier step: `TenantInv` bounds those that have passed it, because each counted all that had passed before.
- `TypeCorrect`: `TypeOK`.
- `TokensStayWithinQuota`: `TokensWithinQuota`. The bound speaks of the tasks that have passed; `TokenInv` carries it through
  the two sums of a check: what the first sum found bounds what finished tasks have used, unless there was a gap, and
  the second adds `max_tokens` for the active ones, this one included. A task that used more than its reservation is
  charged with the reservation: all admitted tasks together exceed the quota by no more than these overdrafts, which
  later checks see in full. What `SumFunctionOnSet` returns when a member is
  added, or when the summands shrink, is proved by induction over the subsets of a finite set, in the form of a smallest
  set for which it fails.

**`AgentGraphProofs`**, for any budgets, costs, limits on mode switches, plans and numbers of stops, from
`GraphAssumption`. The graph is a cycle, so the invariants say what is known at a node:

- `TypeCorrect`: `TypeOK`; in particular the steps stay within `max_steps`.
- `OverMeansFinish`: `OverOnlyFinishes`, inductive with "paused on the gate only" (`RouteInv`).
- `ProgressNeedsSuccess`: `DoneOnlyAfterSuccess`, an action property. `RoundInv`: what the critic finds was left by the
  tools of this round.
- `PlanIsNotSkipped`: `NothingSkipped`, claimed when a decision is taken, needs the same at every node (`PlanInv`). That the
  index of the first pending step exists rests on the well-foundedness of `<`.
- `OverrunIsOneDecision`: `OneDecisionOverBudget`. `BudgetInv`: the cheap model is chosen once, when the tokens are used
  up, and they stay so.
- `SwitchesAreBounded`: `ModeSwitchesBounded`, and `RoundsAreApproved`: `EveryRoundApproved`; both are inductive with the
  types.
- `SuperstepsAreBounded`: at a node, `supersteps <= 5 * steps + 2` (`SuperstepInv` has the bound of each node). So
  `BudgetEndsFirst`: with at most 21 steps no run reaches the recursion limit `4 * max_steps + 24`. The bound is sharp (TLC
  reaches the limit with 22) and the default is 24. How langgraph counts supersteps is external.

**`ToolJournalProofs`**, for any workers, calls, keys, kills, deletions and slots, from `JournalAssumption`; in particular
for two calls of one round with the same key, which the run leaves out:

- `TypeCorrect`: `TypeOK`.
- `StartsAreClaimed`: `StartsAccountedFor`. `ClaimInv`: without a row nobody has claimed since the last deletion. The bound
  alone is not inductive: it would not leave room for the next claim.
- `ReplaysAreGenuine`: `ReplayIsGenuine`. `GenuineInv` extends the claim from what was replayed to what is in the row and
  to what waits to be written there.
- `ObserversDoAgree`: `ObserversAgree`. `OwnerInv`: while a key is undisturbed one call owns it and is the only one to
  execute, and a complete row says what that call ended with.

**`ToolCallProofs`**, for any numbers of repairs and retries, from `CallAssumption`:

- `RunsAreBounded`: `HandlerRunsBounded`. `RunsInv` gives the number of runs at each place of the call: every run after
  the first was paid for by a retry, and only `retry_transient` gets there.
- `FatalIsKept`: `FatalStaysFatal`. `ErrorInv`: the handler runs again only after an error that is not fatal.
- `CancelIsObeyed`: `AtMostOneLateRun`. `LateInv`: where the handler may still be started it has not been started after
  the cancel. One run after it is possible: the last slice of a pause is not followed by a look at the flag
  (`ToolCallPause`).

The same module is about `WebSearch`, the handler whose calls share state, for any set of calls, modes, cooldowns,
intervals and retries, from `SearchAssumption`. `SearchInv` has three parts, which the proofs carry through every
action together:

- `EverySourceHasItsTurn`: `FailedAutoAskedAll`. `GoodCall`: what an automatic search has failed at and what it has before
  it are together the plan, in order, up to the next attempt, which begins again.
- `FailedSourceIsLeftAlone`: `FailedSourceLeftAlone`, an action property. `Timers`: the short cooldown never outlasts the one
  that the gate looks at; `AtGate`: who already slept there is marked when the source fails.
- `RequestsAreSpaced`: `RequestsSpaced`, an action property. `Timers` and `AtGate`: who sleeps, and was not overtaken, sleeps at
  least as long as the interval lasts.

The second part of **`EventStreamProofs`** is about `Spans`, for any tasks, runs, spans, buffer and limit, from
`SpansAssumption`:

- `EverySpanHasOnePlace`: `SpansAccountedFor`. `PlaceInv` replaces the sum of cardinalities by the places excluding each other,
  and adds what keeps it so: a closed span is not one that its run may still close, and a batch is of one task. It
  needs what `OfTasks` returns for every buffer: the records of the task, each once, and the others stay. Dropped are
  spans at the bound of the buffer, at the limit, with a failed batch, by an engine without a sink, or with the process.
- `SpansAreLimited`: `SpanLimit`. `LimitInv`: the counter is at least the number of rows it knows of, and together with the
  batch that is being written at most the limit; a batch that fails is not counted. Rows of an earlier process, and of
  a commit whose acknowledgement never came (`uncounted`), are not known to the counter, and not limited.
- `TreeIsComplete`: `TreeShowsAll`. A span is opened under an earlier one (`ShapeInv`), so numbers decrease towards the root, and
  after n rounds the tree shows all spans with numbers up to n + 1: as roots, if the span above was dropped.

`OfTasks` and the rounds of the tree are recursive functions. That the recursion has a solution, and what it returns,
is shown over an interval of numbers by the smallest number at which it would be wrong.

Every invariant above was checked by TLC on the instances of the runs before it was proved.

**Only model-checked:** liveness, which is outside the prover's reach, as is ENABLED: `TaskComesToRest`,
`ActiveTasksSettle`, `OrphansAreSwept`, `StreamsEnd`, `StartEnds`, `CallEnds` and `RoundsEnd`. Every invariant and every action
property of the passing runs is stated by a theorem.

## 5. Seen while modelling, without a run

These are consequences of the modelled code that are plain from one line, or that no text of the repository clearly
rules out.

Queue and API:

- A cancel accepted while the coroutine waits for its slot sets the flag; the coroutine then clears it
  (`local_queue.py:152`) and the engine runs.
- A task cancelled while queued is executed: the cancel writes the row, the id stays in the queue,
  and `_execute` does not look at the status (`local_queue.py:144`, `routes_tasks.py:418`).
- A cancel whose handler found no handle overwrites a `done` written in between (`routes_tasks.py:418`).
- A delete right after a coroutine read the row lets the engine run without a row (`routes_tasks.py:41`).
- A database call that raises in `create_task` (only HTTPException is rolled back, `routes_tasks.py:142`), before the `try` of
  `_execute` (`local_queue.py:144`, `154`) or in its except branch (`182`) leaves a queued or running row that nobody
  drives, with its tokens reserved, until it is canceled or deleted or the process starts again.
- An approve admitted for one round may be executed when the task waits for the next (`routes_tasks.py:386`).
- The docstring of delete calls a cancelled task resumable (`routes_tasks.py:430`), resume admits `failed` only.

Graph and tools:

- A round is five supersteps, the recursion limit grows by four per step (`engine.py:288`): with 24 steps it
  comes before the budget and the task fails (`BudgetEndsFirst` in section 4 has the exact bound).
- `complete_tool_execution` reads, then updates: owner and taker-over may both have read the placeholder, and the
  second result replaces the first (`repository.py:646`; its docstring at 626 says the first stays).
- After 5 s a repeated call is executed although its owner is still running (`nodes.py:664`, `models.py:133`).
- A replayed failure has lost its error code (`repository.py:771`); the critic decides by its text.
- A search call that slept at the gate sends its request although the source failed meanwhile, and two sleepers
  fire together (`throttle.py:66`). A late network failure shortens the long cooldown, a late success lifts
  it (`throttle.py:45`). The properties name these exceptions.

Celery:

- A redelivered message runs `run_task` from a fresh state, also after the task is done (`celery_app.py:46`); two
  resumes or approves dispatch two runs.
- A create handler that dies between insert and `delay` leaves its row queued: the sweep looks at running rows.
- The soft limit raised inside the event loop may leave no status; the row waits for the sweep.

Admission:

- A delete gives the daily place back; resume and approve do not look at quotas.
- Used and reserved tokens are two statements; a task that ends in between is in neither sum (`repository.py:408`).
- A row inserted before midnight and checked after it counts for neither day.
- A task may use more than it reserved (`budget.py:26`, `nodes.py:1024`, `1077`), and the quota is exceeded by as much.

Start-up:

- A process that starts to wait together with a holder that crashes deletes the lease and gives up in the same moment:
  `LEASE_WAIT_S` equals `LEASE_STALE_S` (`repository.py:101`).
- A database older than Alembic is stamped at head without the server defaults; `0003_server_defaults.py:15` says so.
- Overlapping bootstraps may create two default tenants, leave a file with a key of neither row, and serve with
  different administrator keys (`security.py:406`); a cut-off file reads as empty.
- The tenant cache has no expiry, and a row read before an invalidation may be cached after it (`security.py:140`).

Events and spans:

- A stream may end with the terminal row before events stored between its two reads are pushed
  (`routes_tasks.py:273`), and it passes over events that commit after a larger number.
- Overlapping runs of a Celery task (redelivery, two resumes) have an engine each, seed from the same number and number
  their events alike; the unique index refuses the later ones, and a run whose counter lags behind is invisible to
  clients with a higher watermark. So is one whose `_seed_seq` failed, which is logged and ignored (`engine.py:168`). The
  docstring of `get_max_event_seq` says that seeding removes collisions at the source (`repository.py:483`).
- An engine without a sink drains the whole buffer (`engine.py:220`): a subagent's child that ends drops the closed spans
  of its parent and of all other tasks. Celery's engines have no sink and store no spans.
- The count of spans is the engine's (`engine.py:126`): after a restart a resumed task may store the limit again, and
  a commit that is not acknowledged is not counted. `repository.py:563` says a task's spans are limited.
- The span limit drops the spans closed last, the root first (`engine.py:230`). An exception or cancel in
  `is_paused` leaves the root unclosed; a cancelled flush loses its batch.

## 6. Not modelled

Model client, compression, sandbox, the other tools, MCP server, scripts and page are external effects or adapters: the
models see an answer, its tokens, a result or an exception. Metrics, logs and trace headers are formatting, and nothing
decides by them. The request windows per minute change in a single step without an await. The check of a request's
key is credential handling; the cache behind it is described above. Plan layering is text matching over what a
model returned; `AgentGraph` takes every sequence of batches it may produce. Two calls of one round with the same key
can be given to `ToolJournal` (`KeyOf`), but the instance with two workers and two kills is then too large.

## 7. Plan

1. An abstract `TaskLifecycle` (queued, running, waiting, over, deleted) that `LocalTaskQueue` and `CeleryWorker` both
   implement, and a composition of queue and gate for an approve that arrives for an earlier round.
2. `PlanLayers`: the layering as a function, checked against a reference over bounded plans.
3. `TenantRegistry`: the cache of keys against rotation, disabling and invalidation.
