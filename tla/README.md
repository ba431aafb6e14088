# Arrow Lake: a TLA+ verification project

Arrow Lake is a multimodal data lakehouse with a REST API that runs in several
uvicorn worker processes. Its data plane (Lance tables, DuckDB, vector search,
language models, HugeGraph) is mostly calls into external engines. Its own
protocols are in the layer above: actions with idempotency keys, scenarios whose
steps run in the background, long tasks whose state is shared between workers,
annotations that are recovered from another system, a cap on queries that all
workers share, and knowledge-graph builds that leave their result in several
files and a graph. That layer consists of coroutines, executor threads that
cannot be stopped, a control-plane database, Redis, files and processes that
die. Its unit tests run one interleaving at a time; the models here run all of
them.

`PROJECT.json` lists the components, the runs, the source lines behind every
definition, the findings, the hazards and the theorems.

## 1. The system

### Components that carry protocols

| component | state | operations | shared with |
|---|---|---|---|
| action middleware (`actions/middleware.py`) with the slot table (`system_db/stores/actions.py`) | `idempotency_keys` rows, the target row in storage, one executor thread per effect | execute, reset of a wedged slot | all workers, through the database; the scenario runner |
| scenario instances (`system_db/stores/scenario_instances.py`, `api/routers/actions.py`, `api/app.py`) | status and `updated_at` of instance rows; runner coroutines and their heartbeats | instantiate, terminate, resume, heartbeat, reap at start-up | all workers, through the database |
| scenario runner (`actions/runner.py`) | its map of step states, gateway decisions and context; step rows, context and pending compensations in the database | a round (gateways, cascade, batch), timeout and escalation, failure, acknowledgement | the middleware (each step is an execution) |
| background tasks (`api/tasks.py`, `api/_redis_task_store.py`) | task objects per process, hashes and an index in Redis, the history table, the gate and the ingest executor | create, run, heartbeat, time out, query, reap at start-up | all workers, through Redis |
| annotation recovery (`annotation/sync.py`, `recover.py`, `adl.py`, `quality.py`, `dispatch.py`) | watermark and counts per project, a Redis lock, the append-only ADL table, Label Studio tasks, a scheduler thread per worker | dispatch, recover, schedule, arbitrate | all workers; Label Studio and its annotators |
| DuckDB sessions (`query/session_manager.py`, `query/_redis_semaphore.py`) | idle connections, permits in Redis and in a local semaphore, a thread-local flag | acquire, release, finalize, interrupt | all workers, through Redis |
| knowledge-graph builds (`_lake_kg.py`, `knowledge_graph/builder.py`, `he_extractor.py`, `ka_versioning.py`) | the dump `data.json`, the checkpoint `map_reduce.json`, the marks `fed_chunks.json`, versions and their manifest, vertices and edges in HugeGraph, a lock per process | build (full, incremental), archive, prune, roll back, clear | all workers, through files and HugeGraph; `run_background` of the tasks |
| circuit breakers (`core/circuit_breaker.py`, `query/scan_breaker.py`) | state, failure and probe counters, cooldown key | allow, record | threads; workers |
| system database connection (`system_db/connection.py`) | one connection and a write lock per process | execute with reconnect and replay | every store |

The other components (catalog, ingestion, search, RAG, quality, configuration,
command line, console, deployment) are listed in `PROJECT.json` with the reason
why they are left out: they transform data, call external engines or hold no
protocol state.

### What is hard about them

* `run_sync` gives up waiting after a timeout and leaves the thread running: a
  database call, a storage write or a dump may land after its request has been
  answered.
* A worker can die between any two calls, and it takes all its coroutines and
  threads with it. A worker that starts decides from the age of a stamp which
  rows and tasks are orphans, beside workers that live.
* Endpoints race each other: two instantiations, two resumptions, a resumption
  and a termination, two acknowledgements, two recoveries, a rollback and a build.
* The runner keeps a copy of the step rows, a recovery a copy of the counters, a
  build a copy of the table and of the marks; what they were copied from goes on.
* Redis drops writes, expires keys and locks, and comes back; tasks are cached in
  every worker; permits may return to another place than they came from.
* A timeout can cancel a coroutine at any of its awaits.
* A build writes five things one after the other, and the next incremental build
  trusts the marks it finds.

### What makes them correct

* Actions: one executor per slot; no write reaches storage twice; what the slot
  and the answer say about storage is true; no slot is left running silently; all
  of it together is the slot table of `ExecuteOnce`.
* Instances: one running row per object; no runner is added to a running row; no
  live row is reaped; a running row has a runner; a closed row is left.
* Runner: never both arms of a gateway (while no run meets its deadline, section
  4); requirements first; what has succeeded stays; completion means completion;
  compensations are listed; every run ends.
* Tasks: slots balance; what has been failed is not started; what beats is not
  reaped; every task of a live worker ends.
* Annotations: nothing is counted that was not appended; nothing is appended
  twice; disputes reach an expert; an annotation nobody touches arrives.
* Sessions: the cap on permits holds, or degrades by a bounded amount; a stuck
  connection is never reused; every request ends (section 4 for what hangs); lost
  permits do not block the cluster.
* Builds: a marked chunk has its vertex and its text, and no name it yields is without
  a reference; a retry
  inserts what a cut build did not; the previous dump is kept; every build ends.

## 2. Modules

| module | models | used by |
|---|---|---|
| `ExecuteOnce` | abstract: what an idempotency key promises | `ActionIdempotency` (refinement), `ExecuteOnce_proofs` |
| `ActionIdempotency` | one execution of an action from the first refusal to the answer, the slot table, effect threads, late database calls, crashes, resets | `MCActionIdempotency`, `ActionIdempotency_proofs` |
| `ScenarioInstances` | the rows of `scenario_instances`, endpoints, life cycle of runners, heartbeats, reaping | `MCScenarioInstances`, `ScenarioInstances_proofs` |
| `ScenarioRunner` | the rounds of one runner over steps, XOR gateways and batches, deadline and escalation, failures and compensations, resumption, acknowledgement | `MCScenarioRunner`, `ScenarioRunner_proofs` |
| `TaskManager` | background tasks, gate and executor, Redis mirror, history, caches, reaping | `MCTaskManager`, `TaskManager_proofs` |
| `AnnotationRecovery` | `recover_one` with its lock, counters, append, verdicts and arbitration; scheduler threads, webhooks, annotators | `MCAnnotationRecovery`, `AnnotationRecovery_proofs` |
| `DuckDBSessions` | permits, connections, watchdog and finalizer of the sessions of several workers, the counter in Redis | `MCDuckDBSessions`, `DuckDBSessions_proofs` |
| `KGBuild` | builds of one dataset by both paths, versions, the operator's endpoints, failures and crashes between all of them | `MCKGBuild`, `KGBuild_proofs` |

The three modules of actions and scenarios split one system by question. A step of
`ScenarioRunner` is an execution of `ActionIdempotency`; `ScenarioRunner` assumes
one runner, and `ScenarioInstances` is about when that is so, with the round
abstracted to "read the row, dispatch, come back". `KGBuild` takes from the tasks
only that `run_background` ends a build that hangs.

### How state and actions correspond to the code

**ActionIdempotency.** `pc[r]` is the position of a request in `execute_action`;
`state` and `owner` are columns of `idempotency_keys`; `row` is the lifecycle
column of the target object and `seen` what the request read of it before it
claimed the slot. `effect[r]` is the thread of `_run_effect`; `late[r]` is a call
of `try_acquire` or `mark` that the request gave up and that still runs.
`timedOut`, `fault` and `reset` are history. Each database call is an action of
its own with an action for its failure (`AcquireError`, `ReadBackError`,
`MarkLost`); the audit and the event are kept as places in the order. The action
closes a pending object, so it invalidates its own precondition: the case
that makes the order of slot and precondition matter.

The refinement `Once` maps a slot to open, busy or done, an effect to *applied*
when its thread has written it (whenever that is), a timed-out request to a
*doubtful* one and a reset slot to an *overridden* one. `ExecuteOnce` has neither
threads nor failures: only the request a slot is busy with, or one in doubt, may
apply an effect; a slot becomes done only with its effect in place, and open again
only without; a client that was told no stays without one.

**ScenarioInstances.** `status` and `age` are the columns `status` and `updated_at`;
`pc[r]` is where a runner is in `_run_inner`. `hb`, `beat` and `misses` are its
heartbeat task, which sleeps `Beat` ticks and then waits up to `Timeout` ticks for its
touch: a beat that fails costs both. `call` is what that touch has answered; given up,
it joins `late` and may land later. The status `failed` stands for failed, timeout and
compensated, which no endpoint tells apart. `IndexAllows` is the partial unique index of
migration V028; `ResumeAllowed` the compare-and-set of `resume_instance`; `CrashWrite`
the handler of `run`; `late` also holds the outcome writes that a timed-out `run_sync`
left behind.

**ScenarioRunner.** `row`, `declared`, `saved`, `pending` and `inst` are in the
database; `known`, `decided`, `ctx`, `batch`, `gi` and `pc` in the runner. `Load`,
`ReadInstance`, `SkipLoser`, `PassGateway`/`Decide`, `Cascade`, `Dispatch`,
`NextRound`/`HandleFailure` are the stages of a round in their order;
`StartStep`, `RunStep`, `FinishStep`, `StepError` are a step of the batch, which
runs beside the others. `late` are the row writes that `_sync` gave up after its
timeout; each may land at any time, in the same run or in a later one (`LateStepWrite`),
or never. `stray` are the steps of which a write was given up, `won` those that have
ever been recorded as succeeded; both are history. `Slow` bounds the steps whose
writes may be given up. The outcome of a gateway's predicate is a free choice;
`failed` stands for failed, manual_intervention and dead_letter. The context is
abstracted to the assess step it mirrors last.

**TaskManager.** `obj` is the status of the task object in its process,
`entry[w]` worker w's `_tasks` ("own" is the object, anything else a copy),
`phase` the position of `run_background`, `thread` the function in the executor,
`free` the gate. `Begin` chooses whether the task is a coroutine, which runs at once
and has no thread, or a function, which queues for a slot. `redis`, `index` and
`history` are the hash, the index set and the table. `stamp` is the age of the
heartbeat in Redis, or of `created_at` while there is none. A beat that is lost costs
its sleep (`Beat`) and the socket timeout of the client (`Delay`). The reaping of one task
(read, test the age, write) is one action: the code has no await in it, and no
other process changes the age upwards. The executor's threads and the cancellation
of a submitted function are external.

**AnnotationRecovery.** One project. `ls` is Label Studio: tasks with their
annotations, in order; `adl` the table; `watermark` and `counts` the columns of
`annotation_projects`. `proc[p]` holds the local variables of the `recover_one` of a
thread: a scheduler's, a webhook's or a manual one's. Its stages are the project
row (read *before* the lock), the lock, the export, the read of the table, the
append, the two counters, the import of arbitration tasks and the release of the
lock by two calls (compare the token, delete). `lock` is the Redis key;
`LockExpires` is its 60 s, `LockExpiresUnder` the same while its holder still works,
`NoRedis` the path without Redis, which takes no lock. `sched` is the memory of a
scheduler: signature, failures in a row, breaker. Annotators post and edit at any
time. Verdicts (`adjudicate`), versions (`build_adl_batch`) and the selection
(`incremental_tasks`) are operators on sequences. The environment is assumed not to
delete annotations or tasks, and not to rebuild the Label Studio project; `MaxTasks`
bounds the tasks it accepts.

**DuckDBSessions.** `permits` and `ttl` are the counter key; `connected` and `sem`
belong to the `RedisCountingSemaphore` of a worker; `idle` is its pool. `took[t]`
remembers where the permit of a thread came from, `viaRedis[t]` what the code
remembers of it, and the release (`ReleasePermit`) goes by the latter and by
`connected`. The two Lua scripts are operators; a failing script may have run
(`RedisAcquireFails`). `Watchdog` is `run_duckdb_interruptible` giving up a query,
`Finalize` the finalizer of a session nobody released, on whatever thread. A query
that survives its interrupt is *wedged*; the clean-up of registrations before the
release may *block* on its connection (`CleanupBlocks`). Only `query` and `graph_query`
have the watchdog: `Unwatched` are the threads that also serve other requests, whose
hung query is *stuck*. Both last until `NativeReturns`, if it ever happens. `astray`
and `minted` are history, and say which promise is left.

**KGBuild.** One dataset, whose chunks are rows with a text that stands for its
hash; `Yield` says which names the text of a chunk mentions, and chunks may mention
the same ones. A pair `<<chunk, name>>` is a mention, or a references edge. `data`,
`fed`, `ckpt` are the three files, `dirs` and `manifest` the versions, `vtx`, `ent`,
`ref` the graph. `build[b].pc` follows `_execute_build`: lock and schema, vertices
of the new chunks, then either archive, prune, load, feed, dump and marks (the dataset
path), or map, checkpoint and marks (map-reduce), then entities and
references, and last, after the limit of the task, the ontology snapshot, still under
the lock. The dataset path records a mention only for the first chunk that brings a
name into the knowledge abstract (`owned`), as `build_dataset_ka` does; map-reduce
records all. Each file write, and each batch of graph writes, is a step of its own.
`TimeoutBuild` is `run_background` cancelling the coroutine where it awaits, with a
dump whose thread goes on (`ZombieDump`); `Crash` may tear the dump and the
manifest, which are not written atomically; `VersioningFails` is an archive or a prune that
raises, which the build swallows, with the manifest written or truncated;
`SnapshotHangs` a snapshot that never returns. Rollback and prune run in threads and
take no lock. Ghosts record what has been damaged (`damage`) and which full build
makes it good (`healing`); the properties say what each damage costs. Whether the
stored template matches is a free choice of each build.

## 3. What is checked

Times are for two TLC workers.

| run | instance | states | result |
|---|---|---|---|
| `idempotency` | 2 executions of one slot, the catalogue entry edited between them; timeouts, late calls, crashes, resets | 30 797, 9 s | one executor per slot, no double write, no silent wedge, completed stays completed, replays are not refused, every request is answered; implements `ExecuteOnce` |
| `instances` | 2 rows of one object, 3 runners, beat 1, orphan age 1 | 1 091 035, 54 s | one running row per object; a second runner only after the row was taken; a running row has a runner |
| `instance_heartbeat` | 1 row, 2 runners, beat 2, timeout 1, orphan age 7, one miss in a row | 212 493, 37 s | a beating row is never an orphan; a closed row is left by its runners |
| `runner` | 5 steps, one gateway, 2 compensations, 2 runs, 2 acknowledgements, late row writes of 3 steps | 410 804, 56 s | arms, requirements, completion, settled steps, listed compensations, no revival by an acknowledgement, every run ends |
| `tasks` | 2 tasks, 1 slot, 1 worker | 1 686 913, 51 s | slots balance through every cancellation; a failed task's function is not started |
| `task_reaping` | 1 task, 2 workers, beat 1, delay 1, orphan age 6, one miss in a row | 94 545, 11 s | a beating task is never reapable; every task of a live worker ends |
| `annotation_overlap` | 2 recoveries, 2 annotators, 3 events, 1 fault | 2 116 056, 70 s | counted means appended; versions and content keys are unique; disputes reach an expert |
| `annotation_scheduler` | 1 scheduler, 2 annotators, 2 events, 1 fault | 130 523, 51 s | an annotation nobody edits arrives, or the breaker has opened |
| `sessions` | 3 threads of 2 workers, 1 permit, 1 fault, 1 restart, one thread also without watchdog | 124 781, 93 s | the cap on permits with its bounded excess; stuck connections are not pooled; every request ends unless its connection is blocked; a full counter drains |
| `kg_build` | 2 builds, 2 chunks, 2 texts, 2 names that chunks share, both thresholds, 1 edit, 1 fault, 1 call | 687 244, 85 s | what the marks may be trusted for; a retry completes; the previous dump is kept; every build ends unless a snapshot hangs |

Every property of a run has a mutant: an operator that changes a mapped
definition the way a slip in the code would, under which the property fails.

Every module states its type invariant as `TypeOK`. Two runs check it, and it is
proved for every module. To check it elsewhere, add it to the invariants of the
module's configuration. The same goes for the inductive invariants of section 5, which
stand at the end of their modules: TLC has confirmed each of them on the instance of
its run before it was proved.
`CompletedIsInEffect` and `NegativeAnswerMeansNoWrite` of `ActionIdempotency` are
proved, and are no part of a run: `ExecuteOnce` says the same of the slots and
answers that it maps them to.

### Bounds, and why they are enough

* Two executions are an owner and a replay or a take-over; the theorems remove the
  bound. Two rows with three runners are the least with a resumption racing a
  second instantiation.
* `MaxRuns` (2) lets a decision change between a run and its resumption. Steps and
  gateways are those that each case needs: arms, a dependent of one arm, a step
  beside them, compensations on both sides.
* Ages stop at the first value that counts as an orphan. `MaxMisses` bounds
  consecutive lost heartbeats and is a parameter of the promise, as no reaper can
  spare what never beats. A failed beat costs its interval and the timeout of its
  call. With the code's numbers, `Timeout + (MaxMisses + 1) * (Beat + Timeout) <= Stale`
  allows a runner (20 s, 30 s, 180 s) two failed beats in a row, and
  `Delay + (MaxMisses + 1) * (Beat + Delay) < Stale` allows a task (20 s, 5 s, 180 s)
  five. `instance_heartbeat` is exactly at that boundary (1 + 2 * 3 = 7) and
  `task_reaping` one tick above it (1 + 2 * 2 < 6); in `instances` and `tasks`, which
  ask other questions, calls take no time.
* `Slow` (3 of 5 steps: a step of an arm, one beside it and the escalation) bounds the
  late row writes in `runner`; the safety and liveness properties also hold with all five
  (934 968 states).
* Two tasks and one slot are the least with a queue.
* Two recoveries, three annotations or edits and one fault: a dispute, a change of
  mind and an overlap. One fault per behaviour is what the promises are stated for;
  `lapses` names the two that suspend `AdlIsVersioned`.
* One permit and three threads of two workers: a holder, a waiter of its own worker
  and one of the other, with one fault, one restart and any number of hangs.
* Two builds of up to two chunks, with one edit, one fault and one call of the
  operator, and both thresholds: a build that leaves something and one that meets
  it. Two names are the least with one that chunks share and one that an edit moves
  from chunk to chunk; a text without names is included.
* `Unwatched` is one thread of three, beside two that have the watchdog.
* Deadlock is checked for `DuckDBSessions` and `KGBuild` (whose only final states are
  `Done`). The other systems may stop: requests end, rows close, tasks are over.

### Fairness

Weak fairness of the steps of each request (`ActionIdempotency`), runner
(`ScenarioInstances`, `ScenarioRunner`), task (`TaskManager`), scheduler thread
(`AnnotationRecovery`), query thread (`DuckDBSessions`) and build (`KGBuild`). It is
justified because every call that a request or a runner awaits goes through
`run_sync`, which has a timeout, because `run_background` is limited by `wait_for`, and
because the semaphore's wait has a deadline and a hung query a watchdog: some next
step is always possible while the process lives, and the event loop or the thread
takes it. Beyond the program, `DuckDBSessions` assumes that Redis expires a key that
has an expiry, and that DuckDB's calls return when a stuck connection is closed;
`KGBuild` that a limit is configured (`_resolve_max_lifetime` may be set to none).
Nothing is assumed of a native query that ignores its interrupt, nor of the ontology
snapshot, which no timeout bounds: `EveryRequestEnds` excepts a request that waits for
the one, `EveryBuildEnds` a build that waits for the other and the builds that queue
behind it. A
function in the executor and a call of a language model may hang for ever;
heartbeats, reaping, endpoints and restarts are not assumed to happen.

## 4. What the repository says and the code does not do

Each run below checks one sentence of the repository and TLC refutes it; the
quotations are in `PROJECT.json`.

| run | sentence | what happens |
|---|---|---|
| `timeout_replay` | a timed-out write is never replayed automatically | the slot is marked failed, which a second request may claim: both writes land |
| `annotation_edits` | an edit that keeps the number of annotations is caught by the webhook's recovery | that recovery selects by the same counters, and never looks at the annotation again |

More sentences are stated as properties in the last section of their modules. TLC
refutes each of them too, on the instance given, with a configuration that names
the property; they are not listed as runs because they repeat a lesson or concern a
lesser promise.

| property | sentence | what happens | instance |
|---|---|---|---|
| `OneLiveRunner` | resumption prevents two live runners | terminate and resume while the first runner is inside a step | 1 row, 2 runners |
| `GatewayReadsAssess` | resumption repeats assess steps | the endpoint never passes `resume=True`: a gateway is decided on the default assessment | the instance of `runner` |
| `LosingArmNeverRuns` | the losing arm of a gateway is skipped for good | a step that an earlier run marked timeout counts as terminal when the arm loses, and as runnable when a later run decides the other way | that of `runner`, with 3 runs |
| `AlreadyInEffectIsTrue` | `V016__actions_catalog.sql:19`: a completed slot is replayed as in effect | also answered for a slot that a dead request left running | two requests, `SameSlotCall` |
| `UnsatisfiableIsTrue` | `runner.py:14`: a gateway is evaluated when its requirements are terminal | not if they became so later in the same round; the deadlock guard fails the instance | two nested gateways, 1 run |
| `PendingIsDeclared` | `routers/actions.py:565-566`: a pending compensation is acknowledged through its step's declaration | a step that runs again loses the declaration | two steps with compensations, 2 runs |
| `LifetimeCountsExecution` | `tasks.py:434`: max-lifetime counts execution only | the wait for a slot is inside `wait_for` | 1 worker, 2 tasks |
| `QueuedTasksSpared` | `tasks.py:436-437`: queued tasks of a live process are not reaped | a sibling that starts goes by `created_at` | 2 workers, 2 tasks |
| `RunningIsHonest` | `tasks.py:432-434`: a task that queues for the pool is not shown as running | a timeout frees the slot and not the thread | 1 worker, 2 tasks |
| `EveryWorkerSeesTheVerdict` | `tasks.py:6-7`: any worker can query progress | an active copy is cached and never refreshed | 2 workers, 1 task |
| `IndexTracksActive` | `_redis_task_store.py:33`: the index tracks all active tasks | `update_task` neither adds to it nor renews its expiry | 1 worker, 1 task |

What the models show about the code without contradicting a sentence of it, and
why a property has the condition it has:

* **Preconditions** are evaluated on the row read before the slot was claimed; two
  actions with different keys on one object may both pass (`middleware.py:292`). The
  slot serialises one key only.
* **Heartbeats**: a touch that outlives its runner lands on a row that says running, if
  at all, and makes it look younger, never older; the model drops it.
* **Late step writes**: `start_step` and `finish_step` overwrite a row whatever it says.
  A `start_step` that timed out in one run can set a row back to running that a later run
  has set to succeeded; the next run then executes the step again, under the
  idempotency key of its slot, and what it unblocked has already run.
  `RequiresRespected` and `SettledStepsStay` therefore except the rows, and only the
  rows, of which a write was given up (`stray`): a required step *has* succeeded all
  the same (`won`). Late writes of the instance row are in `ScenarioInstances`.
* **Escalation**: a compensation that the escalation step itself needs is declared on
  its row and never listed (`runner.py:468`).
* **Task history**: if the final write to Redis is dropped, the next worker that
  starts overwrites a recorded success by a failure (`tasks.py:525`).
* **Annotations**: two identical annotations of one annotator count as two people;
  `RecoverInProgress` counts towards the breaker; a project bound to a rebuilt Label
  Studio keeps its counters; arbitration tasks may be duplicated because only the
  fresh tasks are searched for one; a Redis client made without `decode_responses`
  never recognises its token.
* **Sessions**: under steady load the counter's key expires under its holders and the
  cap is exceeded (`minted`); permits that Redis gave and the local semaphore took back
  stay there until a restart; a connection returned after `shutdown()` is pooled and
  never closed; `_try_reconnect` is called once, directly after a failure, and not "on
  the next operation"; `ArrowLakeError` from a missing extension leaks a permit;
  only `query` and `graph_query` run under the watchdog, and a hung query anywhere else
  keeps its thread, permit and connection. `max_concurrent_queries` is a cap on permits:
  the watchdog returns the permit of a query that survives its interrupt while the query
  goes on in its daemon thread, so more queries may run than the cap says. Before that
  release, `_cleanup_registration` works on the connection the query still runs on, and
  may block on it (`olap.py:240-243, 527-528`), which undoes what the watchdog is for.
* **Builds**: the lock is per process, and rollback, prune and clearing take none,
  although `ka_versioning.py:26-27` counts on a single writer. The comment at
  `builder.py:388-390` ("references edges for OLD chunks' entities already exist") is
  false chunk by chunk: the dataset path gives a name to the first chunk that yields it,
  and an append that crosses the threshold to map-reduce finds all the others and writes
  the edges of new chunks only. What holds, and is what `MarkedReferenced` says, is that
  *some* chunk references each name, perhaps one whose text has changed since. A name
  that a failed extraction missed and a later build finds in an old chunk gets no edge
  (`skipped`). Even that much is false after a failed insert, after a dump that a crash
  left without its marks, after clearing the graph (`fed_chunks.json` stays) and after a
  rollback (it stays too): the `damage` that `MarkedReferenced` excepts. A full rebuild
  cut after a checkpoint dump leaves a partial dump with the old marks, and a later
  incremental build skips the rest (`partial`). A failed write of the sidecar leaves the
  *old* sidecar, not a missing one (`he_extractor.py:1079-1080`), so a text that is
  changed and changed back is not fed again (`stale`). The two paths share the marks and
  not the results (`mapcut`). A chunk whose extraction failed or timed out is marked all
  the same and not extracted again until it changes (`skipped`). A full map-reduce build
  does not repair the dump. The ontology snapshot (`_lake_kg.py:893`) is awaited under
  the dataset's lock after the limit of `run_background` is over: one that hangs holds
  up every later build of the dataset in that process. A race with an endpoint ends what
  `PreviousDumpKept` promises (`before` is cleared). Failing writes of a rollback or
  prune *endpoint* are modelled as its crash. `execute_build` swallows errors, so the
  task of a failed build is shown as completed.

## 5. What is proved

TLAPS checks the theorems for every value of the constants, under the named
`ASSUME`s of the modules, which TLC evaluates on every instance.

**`ActionIdempotency_proofs`** (any requests, slots, objects and calls;
`NoSlotAssumption`, `CallAssumption`). None of the properties is inductive. The
invariant adds `ControlInv` (what the effect thread, an abandoned call and the
answer can be at each point of a request) and `SlotInv`: a slot that was never
reset is running and owned by the request from its claim to its own mark, *also
when that mark is an abandoned call that lands late*, and an effect that landed
without a timeout has a slot that is still owned or completed. From these:
`Exclusion`, `WriteOnce`, `CompletedBacked`, `NegativeAnswers`, `NoWedge` and the
action properties `CompletedFinal` and `ReplayNotRefused`.

**`ExecuteOnce_proofs`** (same assumptions). `Refines`: the middleware implements
`ExecuteOnce`. One lemma for each kind of abstract step says when a write of the slot
table, an effect or an answer is that step; `RefinementStep` then takes the actions one
by one. The invariant is what makes it true: a mark comes from the owner of a running
slot (or the slot was reset), with its effect in place exactly when it says completed;
an effect that lands late belongs to a request that still owns its slot or is in doubt.

**`ScenarioInstances_proofs`** (any rows, objects and runners;
`ObjectAssumption`, `BeatAssumption`:
Timeout + (MaxMisses + 1) * (Beat + Timeout) <= Stale). The
invariant adds `UncutDrives` (a live runner that nobody took the row from drives a
running row: what makes the compare-and-set sufficient), `ControlInv` and
`AgeBound` (the age of a row is at most the heartbeat's own clock, plus an interval and
a timeout for each miss, plus one timeout; once its touch has landed, at least an
interval less than that clock). From these: `OneRunning`, `NoMeeting`, `ReaperSpares` and
`NoAbandonedRow`.

**`TaskManager_proofs`** (any finite set of tasks, any workers and slots;
`TaskAssumption`, `StampAssumption`:
Delay + (MaxMisses + 1) * (Beat + Delay) < Stale). The
invariant adds `ControlInv` (a function that waits for a thread belongs to a
running task) and `AgeBound`. The balance of slots is a statement about
cardinalities: `LeavingSlot` shows that a task that leaves "running" gives back
the slot it has and only that one, wherever it was cancelled. From these:
`SlotsKept`, `ReaperSpares` and the action property `NoLateStart`.

**`ScenarioRunner_proofs`** (any steps, gateways, arms, requirements, acknowledgements
and number of runs; `ScenarioAssumption`: the arms of a gateway are disjoint and its
else-arm is not empty, no step is called "none" and no assessment "default"). A round
decides on the runner's own copy of the rows, so no property about rows is inductive.
The invariant adds `BatchInv` (where copy and row of a step agree at each stage of the
round, and which members a batch can have), `ControlInv` (a runner drives a row that is
running or was terminated under it, and dispatches with no losing arm left to mark),
`WonInv` (no row, copy, member of a batch or late write says succeeded of a step that
has not succeeded), `LateInv` (only given-up writes are still on their way, so that what
`BatchInv` says of the rows of all other steps is not disturbed by one), `ArmInv`
(without a deadline, once a step of an arm was executed the rows of the other arm say
skipped, which is what a resumed run reads) and `FirstRunInv`. From these: `OneArmOnly`,
`RequirementsFirst`, `CompletionIsTrue`, `FirstRunAssessed` and the action properties
`SettledStay`, `CompensationsListed` and `AcksOnlyClear`.

**`DuckDBSessions_proofs`** (any finite sets of threads and workers, any number of
permits, faults and restarts; `SessionConstants`). `PoolsAreClean` needs the types
only. The cap is not inductive: a worker without Redis grants from its own semaphore,
a session that was acquired there is returned to Redis once Redis is back, and the
counter then says less than there are holders. `CapInv` counts what can still be
granted as well: the sessions in use plus the permits that astray workers can still
grant themselves are at most the counter plus `MaxPermits` for every astray worker
(`PermitsCounted`). Holders and these reserves are elements of one set, so that a step
moves at most one element and `CapHolds` follows by cardinalities.

**`KGBuild_proofs`** (any number of builds, chunks, texts, versions to keep, edits,
faults and operator calls; `BuildConstants`: no set of names is the missing or the torn
dump). The properties hold unless some damage has happened; a full build makes damage
good, and is doing so (`healing`) from its vertices to its end. Every invariant
therefore has two parts: one for the running builds, while the damage is absent *or
being made good*, and one for the files, while it is absent. `ControlInv` says what a
build has collected at each stage, that a healing build is a full one and alone
(`HealInv`), and that writers are alone unless a race was recorded (`SoloInv`). Over it,
independently of each other: `HasVertexInv` and `MatchInv` (vertices of the rows, and of
the marks that a build carries over, are there before it marks), `KeptInv` (the dump is
the newest entry of the list before it may be overwritten, and active while the list is
rewritten), `EntityInv` (every name that is marked or dealt with is in the dump, among
the entities, or skipped; which one depends on the stage) and `CoveredInv` (every name
of the dump and of the marks is referenced from some chunk, was skipped, or is owed by
the build that runs: what it adds to the dump it owns, and what it owns it references).
From these: `VerticesBeforeMarks`, `MarksMatch`, `DumpKept`, `RetryWorks` and
`ReferencesKept`.

The proof corrected the model in one place. `CoveredInv` was not inductive for a
map-reduce build that resumes from a checkpoint: a chunk that the checkpoint
holds with no names counts as extracted and is not tried again, but it was recorded in
`skipped` only by the build that failed to extract it. `MapChunks` now records it
whenever it is reused; what the code does is unchanged, the properties' exception
names the chunk in both builds.

**`AnnotationRecovery_proofs`** (any scheduler threads and callers, any rows,
annotators, contents, number of tasks, annotations, edits and faults;
`PostsAssumption`, `BoundsAssumption`). None of the three properties is inductive,
because a recovery decides on copies: of the project's row, which it reads before it
takes the lock, of the export and of the table.

* `BackedInv` states the counters' promise of every copy. What the registry counts is
  in the table; what a recovery is about to count is in the table *or in the batch it
  holds*. It holds with two recoveries beside each other, so that `CountersBacked`
  needs no lock: the order of append and counters carries it alone.
* `VersionInv`: as long as no lock was lost and no read of the table failed, a recovery
  after the lock is the one that the lock names, and its batch continues the table as
  it is now. `TableVersioned` is the first part of it.
* `DisputeInv`: a dispute in a batch or in the table has a task of its own, or is still
  held by a recovery that has not come to the import. From it `DisputesHanded`.

The batch, the export and the import are sequences that are built by recursion
(`Batch` and the community modules' `FlattenSeq` and `SetToSeq`). The library's
induction theorems cannot be used, since they take an operator as a parameter.
`SetInduction` takes a set of numbers instead: a set that contains 0 and
with a number the next one contains all; it follows from the least element outside.
`Iterates` shows with it that a recursive function on 0..n exists and satisfies its
equation, and `FlattenHolds`, `SetToSeqHolds` and `BatchHolds` what the three return: the
elements that went in, and for a batch that its rows are new, numbered after those of
the table, and cover every annotation that was exported.

The proof corrected the model in one place. The bound on tasks made an import of
several arbitration tasks happen as a whole or not at all; with a dispute in two
rows and room for one task, `DisputesAreArbitrated` would not have held for a reason that
is not the program's. The import now adds as many as there is room for, and the
property excepts the state in which Label Studio is full.

Only model-checked: the liveness properties (`EveryRequestAnswered`,
`ClosedRowsAreLeft`, `RunEnds`, `TaskEnds`, `AnnotationsArrive`, `EveryRequestEnds`,
`FullCounterDrains`, `EveryBuildEnds`), which depend on fairness and `ENABLED` and are
beyond the prover. Every other property of a passing run is a theorem.

## 6. Not modelled

The content of rows, rules, audit records and messages; predicates and templates
(`actions/predicates.py`, `actions/templates.py`), whose results are free choices;
owner notifications, progress percentages and the legacy `run_export` of the task
manager; clocks that differ between workers; the escalation step's own failure.

* Annotations: the parsing of Label Studio's JSON, sampling, masking and
  pre-annotation, deletion of annotations, re-creation of a lost project.
* Sessions: `shutdown()`, `warmup()` (an acquire and a release), the registry of
  instances, statistics, settings of connections.
* Builds: the legacy granularity "chunk", relations and document vertices, the search
  index, entity resolution, orphan linking, two versions in one second, `keep` < 0,
  directories that are removed or copied in part.
* The system database's reconnect-and-replay: a statement is applied once, not at
  all, or late, and never twice. The circuit breakers.
* The rest of the 113 000 lines (routers, ingestion, search, RAG, quality, catalog,
  console, deployment) is translation of requests, computation on tables and calls of
  external engines, without state of its own that two steps could disagree about; a
  model of it would only repeat it.

## 7. Plan

Done: the seven protocols above, in the order of what a wrong step costs (a write in
storage, a scenario, a task, an annotation, the service, a graph), and the proofs of
their safety properties.

Candidates for further models: circuit breakers with concurrent callers, reconnect and
replay below `ActionIdempotency`, predicates against a reference definition.
