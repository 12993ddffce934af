# Universal Runtime in TLA+

Universal Runtime executes agent graphs (LangGraph and others) behind a
LangGraph-compatible HTTP gateway. A client creates *threads*, starts *runs* on
them and follows a run's *events*. There is a local profile (one process, one
asyncio loop, in-memory adapters) and a production profile (gateway, workers and
projector as services over Postgres, Kafka and gRPC). The code paths below are
relative to `src/src/universal_runtime/`.

## 1. Inventory

| Part | State | Operations | What makes it correct |
|---|---|---|---|
| Execution domain (`domain/execution`, `domain/events`) | statuses of runs and threads, event types | `mark_running`, `complete`, `fail`, `cancel`, ... through `Run._change` | a terminal run stays terminal; a run never goes back to pending |
| Execution service (`application/runtime_service.py`) | worker task, `_active_adapters` | `create_thread`, `start_run`, `cancel_run`, `resume_run`, worker loop, `_execute_receipt`, `start_worker`, `stop_worker` | one active run per thread; a running run is executed by somebody; every command is acknowledged; every run settles; shutdown returns |
| In-memory repositories, registry, outbox (`adapters/memory`) | thread, run and assistant tables, registered adapters, pending messages | get, create, update, delete, search, append | the active-run check agrees with the thread's status |
| Command queues (`adapters/memory/queue.py`, `adapters/kafka`) | heap or list, leases, delivery counts, rotation cursor; offsets in Kafka | publish, receive, acknowledge, reject, close | a command is queued, leased or settled, never lost; retries are bounded; nobody starves; a committed offset covers finished commands only |
| LangGraph adapter (`adapters/langgraph`) | task of each run | stream, invoke, cancel, state and store calls | every stream ends with one ending event |
| Execution capacity (`adapters/memory/capacity.py`) | semaphore, `_active`, `_draining`, condition | slot, start_draining, drain | permits conserved; nobody inside after `drain()` |
| gRPC worker (`adapters/grpc`) | semaphore, `_active`, `_running`, registration | Register, Work (heartbeats), Invoke, Stream, Cancel, Migrate, Drain, stop | `available_slots` is what is admitted; Cancel hits a live task; nobody new enters after a drain |
| In-memory event journal (`adapters/memory/events.py`) | events of each run, subscriber queues | append, replay, subscribe | ordered, gap-free delivery to registered subscribers; streams end |
| Postgres event journal (`adapters/postgres/events.py`) | event rows, advisory lock | append, replay, subscribe by polling | sequence unique per run; subscriptions end |
| Gateway streams (`services/gateway/app.py`) | queues of each run | `StreamEvents`, `_sse_response`, `_wait_for_run` | no gap for a client that joined; a stream ends when its run does; clients do not disturb the run |
| Assistants (gateway, both repositories) | assistant row, version rows | create, patch, set latest, delete, search, versions | accepted updates keep their version; concurrent creation is idempotent |
| Thread routes (gateway, both repositories) | thread and run rows | create, copy, patch, prune, delete, search, count, lists of runs | updates survive each other; paging shows every match once |
| Configuration (`configuration`, `adapters/memory/configuration.py`, Postgres) | revisions, the active one | create, activate, read | revisions immutable; the active one is the one activated last |
| Production worker (`services/worker`, `services/all`, `bootstrap/production.py`) | tasks of receipts | receive, execute, acknowledge, crash and restart | as for the execution service, over non-atomic steps |
| Event projector and batcher (`services/event_projector`, `adapters/memory/event_batching.py`) | inbox, last sequence, sinks, pending batch | handle, add, flush | sinks tell the journal; only failed batches are lost |
| Start-up (`adapters/postgres/migration.py`, `locks.py`, `langgraph.py`, gateway, worker) | schemas, advisory locks, migration row | migrate, set up, register | the application is migrated once; every process comes up or fails |
| A2A server (`adapters/a2a`) | none of its own | execute, cancel | a request's run is executed |
| LangGraph discovery, FastAPI applications, transport, telemetry, command line | none shared | imports, proxying, validation, logs | - |

How they interact. In the local profile a gateway handler calls the service; the
service changes the repositories and publishes a command; the worker task
receives it (a lease), creates an execution task, and that task pulls events out
of the adapter's stream, appends them to the journal, writes the resulting
statuses and acknowledges. `cancel_run` reaches across: it cancels the execution
task *and* writes run, thread and journal itself, while the task's own clean-up
is still to come. Readers follow the journal through bounded queues. In the
production profile the same conversation crosses Postgres, Kafka and gRPC: the
worker takes the command from Kafka, writes the rows in transactions of their own
and sends the events to the gateway over one gRPC stream per run, which the
gateway copies into a queue for each SSE client.

What is hard. Two actors (a client call and the unwinding execution task) write
the same run and thread; rows are written from reads that are out of date;
exceptions raised inside exception handlers; a worker loop that dies with the
exception of one run; cancellations that arrive before a task's first step or are
swallowed by it; capacity hand-over to a waiter that is cancelled or refused; the
hand-over from replay to live delivery; queues nobody reads; transactions that
read a maximum and insert the next number; locks and retries at start-up;
shutdown. The list, with the line of each, is `hazards` in `PROJECT.json`.

## 2. Modules

| Module | Models | Checked by |
|---|---|---|
| `ExecutionDomain` | statuses, `Run._change`, ending events (constant operators) | its users |
| `RunLifecycle` | abstract: what the run repository promises of each run | refined by `LocalExecution` |
| `LocalExecution` | service, in-memory repositories, queue, outbox, worker loop, adapter stream, the gateway's and A2A server's calls, `LocalRuntime` start and shutdown | `local_*`, `resume`, `outbox`, `shutdown` |
| `AsyncSemaphore` | `asyncio.Semaphore` (CPython 3.12), external | its two users |
| `ExecutionCapacity` | `adapters/memory/capacity.py` | `slots` |
| `BoundedWorker` | slots, running table, registration and drain of `adapters/grpc/worker.py`, handlers and stop of `server.py` | `slots` |
| `CommandQueues` | in-memory priority queue, weighted dispatcher, Kafka queue: selection, leases, retries, dead letters | `slots` |
| `EventJournal` | `adapters/memory/events.py`, for one run | `events` |
| `PostgresJournal` | `adapters/postgres/events.py`, for one run | `events` |
| `EventProjector`, `EventBatcher` | `services/event_projector/projector.py` with its sinks; `adapters/memory/event_batching.py` | `events` |
| `ProductionWorker` | `services/worker/main.py`, the Kafka command queue with partitions and offsets, run and thread rows, and the gateway's calls on them | `production*` |
| `GatewayStreams` | a run's event stream from the worker's generator (`services/worker`, `services/all`) through `StreamEvents` to the SSE clients, and `_wait_for_run` | `streams`, `disconnect` |
| `Assistants`, `ConfigRevisions`, `ThreadRoutes` | the gateway's routes over the Postgres and the in-memory repositories | `control_plane` |
| `Paging` | selections and slices of a list, as the repositories answer with them | its user `ThreadRoutes` |
| `Startup` | platform and LangGraph tables, registration, migration | `control_plane` |
| `LocalExecutionProofs`, `ProductionWorkerProofs`, `GatewayStreamsProofs` | theorems about the module of that name | TLAPS |
| `SlotsProofs`, `QueuesProofs` | theorems about `ExecutionCapacity` and `BoundedWorker`; about `CommandQueues` | TLAPS |
| `EventsProofs` | theorems about both journals, the projector and the batcher | TLAPS |
| `ControlPlaneProofs` | theorems about `Startup`, `ConfigRevisions`, `Assistants`, `ThreadRoutes` | TLAPS |
| `PagingProofs` | lemmas about `Paging` | TLAPS |
| `MC...` | instances for TLC | |

`MCSlots`, `MCEvents` and `MCControlPlane` each check several modules in one run.
Their components share no state: the variable `part`, chosen in the initial state,
names the component whose steps are taken, and the others stay in an initial
state. The state space is the sum of the components', and a property of one
component says nothing in the behaviours of another.

### LocalExecution

Everything in the local profile runs on one event loop, and no call of an
in-memory repository, queue or journal suspends (their `asyncio.Lock`s are never
contended: no holder gives up control). So a service call is one action, and the
action boundaries are the places where the code really suspends: the worker's
`receive()`, its `await execution`, the start of a created task, the adapter's
wait for the graph, and `stop_worker`'s `gather`.

State and code:

- `threads`, `runs`: the repositories, reduced to statuses (`"absent"` before
  creation or after a thread's deletion, `"deleted"` for a run: run ids are
  never reused).
- `journal`: the event types of each run. `outbox`: the runs with a pending message.
- `queue`, `sequence`, `leases`, `closed`: `InMemoryPriorityQueue`.
- `worker`: `off`, `receiving`, `awaiting` its execution task, `dead` (ended by
  an exception) or `done` (cancelled).
- `task`, `receipt`, `taskCancelled`, `interrupted`: the execution task, the
  command it holds, a `CancelledError` on its way to it, and the adapter's local
  `interrupted`. `ActiveAdapters` is `_active_adapters`.
- `shutdown`: `LocalRuntime.shutdown`.

Actions and code: `CreateThread`, `DeleteThread`, `DeleteRun`, `StartRun*`
(one for each way `start_run` can go: refused by `runs.create` after the thread
was marked busy, queued, put into the outbox, refused by a closed queue),
`Execute` (the A2A executor's call), `CancelRun` with `AdapterCancels`,
`ResumeRun`, `StartWorker`, `WorkerReceive` and `WorkerNoAdapter`
(`_consume_commands`), `TaskNeverRan`, `TaskSkips`, `TaskRunMissing`,
`TaskStarts` with `StreamBegins` (the ways into `_execute_receipt`), `GraphChunk`,
`TaskEnds`, `TaskCannotStore`, `TaskThreadMissing` (the ways out, with the
handlers of exceptions and the finally block folded in), `ShutdownBegins`,
`ShutdownCompletes`. The graph is the user's: it streams chunks, may interrupt,
complete or fail (`GraphOutcome`).

Abstracted: payloads, metadata, results, timestamps, identities other than run
and thread, and calls that raise before they change anything (a stutter).
`_capacity` does not appear: the loop is its only user and holds at most one slot.

### ExecutionCapacity and BoundedWorker

Both are a counter and a flag around an `asyncio.Semaphore`. `AsyncSemaphore`
models the hand-over: `release()` resolves the first waiter's future, which then
owns the permit before it runs; a waiter cancelled after that gives it back and
wakes the next. `ExecutionCapacity` checks the flag again after the wait
(`EnterAfterWait`, `RefusedAfterWait`); `BoundedWorker.acquire` does not
(`BeginAfterWait`). `drain` of the worker polls; a poll is a step that either
sees no active call or the deadline, and it is called by the Drain request and by
`WorkerServer.stop`, which then stops the server; the process closes its pool
when the remaining calls are over (`ProcessCloses`).

### CommandQueues

One module for the three queues, since they offer one interface: `queue` says which.
They differ in what `receive` selects (`Chosen`: aged, then the rotation, then the
highest priority; `Top`: the heap; `Offered`: the head of either topic), in the
number of tries and in what becomes of a command that is tried no more.
`created` and `aged` stand for the clock: the oldest commands are the aged ones.
Leases are never taken back by any of the queues. Offsets, partitions and
restarts of the Kafka queue are in `ProductionWorker`.

### EventJournal and PostgresJournal

One run each, since nothing is shared between runs but the lock. In memory, an
event is its sequence number together with whether its type is in `_TERMINAL`;
`AppendEvent` is `append` with the delivery to every registered queue, overflow
and the closing `None`; `Subscribe` is the part of `subscribe` under the lock;
`YieldReplayed`, `YieldLive`, `Finish`, `Disconnect` are the generator's steps. In
Postgres the statements of `append` are steps of their own (lock, read the
maximum, insert and commit), a connection may be lost between them, and
`subscribe` polls `replay` with a cursor.

### EventProjector and EventBatcher

The projector's consumer may repeat and skip events, every sink may fail, and a
restart empties the projector's tables but not its sinks. Events carry members of
`RuntimeEventType`, as the drafts do. The batcher's lock is held while the writer,
which may suspend and fail, is awaited; `Add` is the moment a caller gets the lock.

### ProductionWorker

Here nothing is atomic beyond one repository call, which is one transaction; no
row stays locked between two of them. So `start_run`, `cancel_run` and
`_process_receipt` are sequences of steps whose place is kept in `start`,
`cancel` and `task`, and a step writes what an earlier read decided. Reads whose
value decides nothing are left out: `threads.get` before a `mark_...`, and the
`runs.get` of `_mark_idle_if_needed`.

- `threads`, `runs`: the status columns. `IndexAllows` is the partial unique index
  `uq_rt_exec_active_run_thread`, which inserts and updates must satisfy.
- `buffer`, `log`, `committed`, `position`: what the producer has buffered, the
  partitions, the group's committed offsets and the consumer's position. The two
  topics (short and long queue) are partitions here; `PartitionOf` is the hash of
  the key, which is by run, so the order between runs of a thread is open.
- `alive`, `held`, `permits`, `task`, `outcome`: `_execution_loop`, the receipt it
  holds while it waits for `exec_sem`, the semaphore, and the tasks.
- `executions` counts, for a property, how often a run's graph was started.

`faults` counts what is allowed to go wrong: a crash and restart of the worker or
of the gateway, a publish that raises, an exception that escapes from an
execution, and the end of the loop. `StreamBreaks` (an event that cannot be
converted) is the code's own error path and not counted. One worker consumes all
partitions.

### GatewayStreams

One run and its row pair at the granularity of whole exits (their transactions
interleave in `ProductionWorker`), with the path of its events: the generator
suspends in its `yield` until the gRPC stream takes the event (`Window` is what
flow control keeps in flight), `StreamEvents` takes one event at a time and
`put()`s it into the registered queues one after the other, a client reads its
queue. `service` selects between `services/worker`, which marks the thread idle
after the stream was answered, and `services/all`, which does it inside its
generator and completes a run whose graph did not say how it ended. A client may
join at any point, also in the middle of the loop over the queues, and may leave;
its queue stays registered, as in the code. `services/worker` may have no adapter for
the run (`TaskHasNoAdapter`): it acknowledges the receipt after `mark_running` and
opens no stream. A run may be cancelled while it is pending, running or interrupted.

### Assistants, ConfigRevisions, ThreadRoutes

Over Postgres a request is a read and a transaction; several replicas share the
tables. A transaction's effects are atomic at its commit, and the unique keys, the
row locks of `UPDATE` and SQLAlchemy's `StaleDataError` decide which commits
succeed. That an `UPDATE` only sends the changed columns matters in `set_latest`
and is modelled there. The first `UPDATE` of `activate` is modelled as READ COMMITTED, the
default that `database.py` leaves in place, has it: its snapshot is fixed when it begins
(`ActivateBegin`), then it locks one row of the snapshot after the other and waits where
another transaction has one (`ActivateScan`); the second `UPDATE` sees the rows of its own
time, and may wait too (`ActivateCommit`). Rows are locked in any order, so that two
activations may wait for each other; Postgres then fails one (`ActivateRaises`). The tables
have no foreign keys. `created_at` tells rows apart. In memory a call is atomic:
`repository` selects between the two. Searches and lists are operators over the
tables (`SearchThreads`, `CountThreads`, `ListThreadRuns`, `AssistantVersions`),
because they change nothing: the properties evaluate them in every state. They are
put together from the operators of `Paging`: the entries at some places, in their order
(`Only`), and the slice that offset and limit cut out (`Slice`). Postgres selects by
status in the query, slices, and selects by metadata afterwards; the memory repository
selects by everything and slices last.

### Startup

`migrate_platform` tries a lock and goes on without it; `managed_langgraph_persistence`
waits for one; a worker registers with up to `MaxAttempts` requests, of which earlier
ones may still be served; the gateway that serves one looks for the migration row,
inserts it and calls the worker's `Migrate`. Gateways without a database or
without entrypoints (`ServesNoGraph`, which skips the LangGraph tables), and workers
without `UR_GATEWAY_REGISTER_URL`, start as well.

## 3. Runs

| Run | Instance | Distinct states | Checks |
|---|---|---|---|
| `local_safety` | r1, r2 compete for t1; r3 on t2, which clients delete; r4 an A2A request; a shutdown; graphs complete, interrupt or fail | 1.1 M | all safety invariants of `LocalExecution`, and that it implements `RunLifecycle` |
| `local_liveness` | r1, r2 on t1, a stateless r4 whose assistant has no adapter; two priorities | 29 k | every queued run settles, every lease is acknowledged, or the loop died |
| `resume`, `outbox`, `shutdown` (violated) | one or two runs | | findings 1, 2, 3 |
| `slots` | 4 callers, 2 slots; 3 calls, 2 slots, two calls of one run; 3 commands in 3 queues | 62 k | permits, drains, retries, progress |
| `events` | 2 subscribers, queues of 2, 4 events; 2 appenders, 1 stream, 4 rows; 2 sinks, a restart; 2 callers, batches of 2 events or 3 bytes | 283 k | hand-over, unique sequence, sinks, batches, ends of streams |
| `production` | r1, r2 on one thread, a partition each, 2 permits, at most one fault | 414 k | safety of the worker and the gateway on the same rows; every run settles unless a fault occurred |
| `production_offsets` (violated) | two runs in one partition, no fault | | finding 4 |
| `control_plane` | 2 gateways, 2 workers, 2 attempts; 3 concurrent requests on an assistant and on 2 revisions; 2 concurrent requests on 2 threads with 2 runs | 462 k | migration, start-up, versions, revisions, updates, paging |
| `streams` | 2 clients, 3 events, queues of 2, one event in flight | 298 k | no gap, freed threads, ends of streams and waits |
| `disconnect` (violated) | 1 client, 4 events, a queue of 1 | | finding 5 |

What the properties say of `LocalExecution`:

- `OneActiveRunPerThread`: no thread has two runs that are pending, running or
  interrupted. The first check of `start_run`, on the thread's status, is not
  enough: the clean-up of a cancelled run marks the thread idle after a newer run
  was started. `runs.create` catches that.
- `RunningRunIsExecuting`: no exit of `_execute_receipt`, also with the run or its
  thread deleted meanwhile, leaves a run shown as running.
- `PendingRunHasCommand`, `LeasedCommandIsExecuting`: no command is lost. A lease
  is left over only by a loop that died or was told to stop.
- `JournalTellsStatus`: the last ending event tells the stored status, though
  `cancel_run` and the unwinding task both journal. It is restricted to threads
  nobody deletes: with its thread gone, `cancel_run` raises before it journals.
- `BusyThreadHasActiveRun`: a thread is never busy for good, on threads whose
  runs nobody deletes; `start_run` marking it busy before `runs.create` refuses
  is harmless because the refusal means an active run.
- `ImplementsLifecycle`: refinement of `RunLifecycle`
  (`INSTANCE RunLifecycle WITH runs <- runs`).
- `EveryRunSettles`, `EveryLeaseAcknowledged`: progress, with `worker = "dead"` as
  the only excuse. The code does let one failing graph or one unknown assistant
  end the loop for all later runs; no document promises otherwise, so the
  properties state the exception rather than hide it.

Of the slots and queues: `DrainedStaysEmpty` (nobody is in a slot of the capacity
once `drain()` returned), `WaiterIsServed` and `DrainReturns` (no lost wake-up: every
waiter leaves the queue, `drain()` returns); `SlotsMatchPermits` (the gRPC worker's
count, permits and running table agree); `DrainedAdmitsQueuedOnly` (after its drain
only calls that were already queued execute, and none once the process closed its
pool); `DeliveriesBounded` (a command is in one place, and its tries are bounded);
`NobodyStarves` (the dispatcher leases every command though producers publish without
end; the rotation alone ensures it, the configured weights are not used).

Of the journals and readers: `HandOverExact` and `StreamEnds` (in-memory delivery is
ordered and gap-free while registered, also across the replay, and streams end);
`NoAppendRefused` (the advisory lock, not the three attempts, makes sequence numbers
unique); `SubscriptionEnds` (a poller behind an ending event reaches the end);
`SinksTellJournal` (a sink never shows what no prefix of the journal says, whatever
fails, is repeated or restarted); `BatchesComplete` (only a batch whose write failed is
lost, order and limits are kept, an ending event does not wait).

Of `ProductionWorker`:

- `OneActiveRunPerThread` holds although worker and gateway both write over rows
  they read earlier; it is the index alone that ensures it.
- `EndedUnlessRaced` says where ended runs *are* revived: only after `cancel_run`
  was called on them. A cancellation that commits between the worker's read and
  its `mark_running`, or its interrupt, is overwritten.
- `OneExecutionOnePermit`: redelivery after a crash never starts a graph twice, and
  every exit of `_process_receipt` returns its permit once. The price is that a
  run whose worker crashed after `mark_running` stays running.
- `BusyThreadIsAttended`: without faults the clean-ups of cancelled, refused and
  failed runs never leave a thread busy with nothing that will free it.
- `EveryRunSettles`: progress of the runs whose assistant the worker serves, up to
  the first fault. After one the code promises nothing: a lost send leaves a run
  pending and a crash may leave it running.

Of the control plane: `MigratedOnce` and `StartUpSettles` (one migration whatever
retries overlap; nobody waits for ever); `UpdatesKeepVersions` (gapless versions, one
per accepted update, the active one among them) and `FailsOnlyIfRaced` (replicas that
create the same assistant all succeed); `ActiveIsLatest` (the
row locks keep activations apart, whatever is created while they are held; the exception
is a revision stored between the snapshot of an activation's first `UPDATE` and its locks,
which that `UPDATE` never touches) and `RevisionsImmutable`; `UpdatesKept` (a
patch or a status is undone only by a write from a read that was out of date, which
happens over Postgres alone); `PagesCover` (for every page size, the pages of a search
or of a thread's runs, one after the other, are all the matches once and in order, from
either repository, although Postgres filters metadata after the slice; the run a thread
shows as its latest is the first of its runs, and at most one of them is active; the
count is right for tables of up to 100000 rows, since `count` is a search with that
limit).

Of `GatewayStreams`: `NothingSkipped` (a queue holds exactly the events between what
its client has read and what reached it, whenever it joined); `ThreadFreed` (every exit
frees the thread but two, the except block of `services/all` and the missing adapter of
`services/worker`); `StreamIsClosed` and
`WaitIsAnswered`, with their exceptions spelt out: an abandoned queue, a run without
any event, and a graph that ends without saying so, or is missing, under `services/worker`.

### Bounds

`MaxPublish` (3 or 4 publishes): as many as runs, plus a resume, so that starts,
a restart on the same thread and a resume all fit. `MaxEvents` of the local runs (3):
the graph stops streaming chunks at a journal length of three: queued, started and a
chunk, with or without an interrupt; more chunks repeat the same state. Two runs on
one thread are what mutual exclusion needs; a third run on a deletable thread and a
stateless one cover the other branches. Priorities take one value in the safety
run, where the queue's order does not matter, and two in the liveness run, where
one run may overtake another. Four callers over two slots give two waiters: one
to be cancelled or refused and one who must be woken. Queues of two with four
events overflow in every way (`_close_queue` on a full queue, and once more for
the final event). The bounds are guards of the model; the theorems hold for every
value of them.

In `production`, two runs of one thread are enough for a stale write to meet a newer
run, two permits let them execute together, and one fault puts a crash between
any two steps; each run has at most a start and a resume command (`Command`). The
two partitions make delivery order free; one shared partition with two permits is
the case of `production_offsets`.

In `slots`, one command per priority is enough to starve, since a settled command
is published again. In `events`, four rows (`MaxRows`) by two appenders give every
race for a number, with a rollback in between; four added events (`MaxAdds`) with
sizes 1 and 2 against the limits of two events and three bytes reach both limits, and
one event too many. In `control_plane`, three requests at a time (two on the threads,
`ThreadCallers`) and four in all (`MaxCalls`) let two updates and a delete or roll-back meet; two revisions with three
activations (`MaxRevisions`, `MaxActivations`); two runs (`MaxRuns`) and pages of one or
two entries (`Limits`) for a page boundary between them; two attempts (`MaxAttempts`, 10 in the code) for a retry that overlaps
its predecessor. In `streams`, queues of two (`QueueSize`, 10000 in the code) with
three events can fill, and one event in flight (`Window`) makes the back-pressure
reach the generator.

Deadlock checking is off: the system may be idle (no client calls), and the bounds
end every behaviour.

### Fairness

- The event loop runs every ready callback: weak fairness of the worker's and the
  execution task's steps, of a woken semaphore waiter, of a notified drainer and of
  `ShutdownCompletes`.
- The user's graph, and the body of a slot, ends: weak fairness of `TaskFinishes`
  and `Leave`. This is an assumption on user code; the runtime sets no timeout here.
  In `GatewayStreams` the graph yields at most `MaxEvents` events.
- A subscriber or SSE client that stays connected keeps reading.
- Workers keep asking the dispatcher for commands (`Receive`); nothing is assumed of
  lease holders, and no time need pass.
- Transactions go on; an advisory lock that is free again and again is granted in the
  end (strong fairness of `SetupBegins`: Postgres queues the waiters).
- In production: both event loops run their ready tasks, Postgres and Kafka answer,
  buffered messages are delivered while the gateway lives, and `getone()` returns
  a message if there is one. The semaphore needs weak fairness only, since one
  loop waits for it.
- Nothing is assumed of clients, of appends, of shutdown or of the drain being
  asked for. `StartWorker` is fair because `LocalRuntime` starts it at startup.

## 4. Findings

1. **Resume** (`runtime_service.py:244`). `resume_run` leaves the run interrupted
   and publishes a command; `_execute_receipt` drops every command whose run is
   not pending. The compatibility matrix and the SDK test expect the run to continue.
2. **Outbox** (`runtime_service.py:101`). With an outbox no command is published
   and nothing reads the outbox, so A2A runs stay pending in this profile.
3. **Shutdown** (`runtime_service.py:211`). The cancellation of the worker goes to
   the execution task, which swallows it; the loop goes on receiving and the
   `gather` never returns.
4. **Kafka offsets** (`aiokafka_queue.py:200`). Receipts of a partition are processed
   concurrently and each commits its own offset + 1; the first to finish commits
   earlier commands whose run is still pending, against the topic contract.
5. **Disconnect** (`gateway/app.py:76`). The queue of an SSE client that went away
   stays registered. Once it holds its 10000 events, `put()` never returns, the
   event stream is not read any more and the worker's generator stays suspended:
   the run never settles, though a disconnect should not touch its execution.

Each has a run whose counterexample shows it, and the quoted document or test in
`PROJECT.json`.

Met while modelling, and visible in the models, but contradicted by no document:

- A gRPC call queued on the semaphore when `drain()` begins executes after it returned
  (`BeginAfterWait`); a drain that times out in `WorkerServer.stop` raises, so that the
  server is not stopped.
- A gateway with `UR_DATABASE_URL` fails in its startup handler unless
  `app.state.migration_done` was set before (`StartUnflagged`); `register_worker` reads
  `row.status` from a Core result, which raises for every row found and also when the
  result of a migration is stored (`StoreMigration`).
- The SSE routes always pass `run_queues`: in the local profile nobody feeds or closes
  those queues, the journal branch of `_sse_response` is never taken, and
  `Last-Event-ID` cannot replay, since a queue holds new events only. A client that
  joins after the run's list was taken out never sees an end.
- Two activations of configurations may leave two rows active: A (`activate(2)`) locks the
  rows, B (`activate(1)`) takes its snapshot and waits, revision 2 is stored, A makes it
  active and commits, and B, whose first `UPDATE` does not see row 2, makes 1 active as well.
  `get_active` then serves 2, though 1 was activated last (`ActivateScan`, `unseen`).
- `Invoke` of the gRPC worker calls `initialize` and `configure_logging` after `acquire()`
  and before its `try` (`adapters/grpc/worker.py:227-228`): if one of them raised, the slot
  would not be given back. The model takes them not to raise.
- `services/all` marks the thread of an interrupted run idle right after it marked
  it interrupted, leaves the thread busy in its except block, and never registers.
- The dispatcher does not use its weights; the Kafka queue drops a command that was
  rejected for good without a dead letter; the in-memory assistants accept version 1
  only in `set_latest`; `prune` stops at the first missing thread.
- `count` of the threads is `len(search(..., limit=100000))` in both repositories
  (`adapters/postgres/repositories.py:360`, `adapters/memory/repositories.py:108`): it
  stops counting there, and over Postgres it limits the rows before it filters metadata.
- The projector compares event types by identity, which strings from a journal row
  never satisfy.
- `create_production_runtime` does not pass the `events` field that `LocalRuntime`
  requires, so the model takes the execution service over the Postgres and Kafka
  adapters as that function wires them; and the worker must be given the
  application id under which the gateway publishes.

## 5. Proofs

TLAPS proves every invariant the passing runs check, the action
properties `RevisionsImmutable` and `EndedUnlessRaced`, and the refinement of
`RunLifecycle`, for every value of the constants: any number of runs, threads,
callers, clients, sinks and events, and any value of the bounds. For most of the liveness
properties, which it cannot prove, it proves what they rest on in every state. A theorem about a
component that shares a run with others is about the component's own specification
(`Worker!Spec`, `Routes!Spec`, ...), not about the instance that joins them for TLC.

The assumptions are the ones declared with the constants, and TLC evaluates each of
them in a run:

- `LocalAssumption`, `ProductionAssumption`, `SlotsAssumption`: types of the
  constants; "nobody" is no thread and no call; limits are positive, as the
  configuration requires; a command has one priority.
- `CapacityAssumption`, `JournalAssumption`: the capacity and the queue size are
  positive (their constructors refuse anything else), cursors are at least -1.
- `EventsAssumption`, `StartupAssumption`, `LimitsAssumption`, `EventsAreBounded`: the
  holder of a free lock is nobody, there is a sink, `EventBatchConfig` refuses limits
  below one, and bounds are natural numbers.
- `PagingAssumption`: pages have room for something.

Each proof has the same shape: a lemma that the initial states satisfy the inductive
invariant, a lemma that a step keeps it (with a step for each action), and a theorem
that combines them. What the invariants add to the properties, and why:

**LocalExecution.** None of the invariants is inductive alone. That a run is running
only while its task streams it needs to know what the task may be doing:
`TaskConsistent` (a task exists exactly while the worker awaits it, it holds exactly
one command, and it is cancelled only while executing or by a shutdown). That a
terminal run is not revived by an interrupt needs `StreamedRunConsistent`: a run being
streamed is running, or deleted, or was cancelled by a client, and then the
cancellation is on its way to the task, so that the stream can only end as cancelled.
`IInv` is the conjunction of `TypeOK`, these two and the invariants themselves.
`LifecycleStep` shows from `IInv` that every step maps to a step of `RunLifecycle` or a
stutter. `JournalIsTrue` adds `JournalInv`: for a run whose thread nobody deletes, the
journal's last ending event tells the status (`Tells`), an open run has no ending event,
and the thread is still there, so that no writer raises between its status and its
event; a run ends without an event only when the queue was closed under `start_run`.

**ProductionWorker.** `OneActiveRunPerThread` rests on the index alone (`IndexStep`).
`OneExecutionOnePermit` needs the way of a command: it is sent once and after its run
was created (`CommandsSentOnce`, `RowsCreatedOnce`), the worker has it at most once, read
before its position in the log (`CommandsTakenOnce`), and only the command of a pending
run gets past the first read (`ExecutedOnce`); a resume therefore never executes, and a
redelivery finds a run that is not pending. `EndedUnlessRaced` needs `ReadsStillTrue`:
unless a cancellation of the run was called, the row is still what its writer read.
`BusyThreadIsAttended` needs in addition that a start fails only by a fault.
`OrderlyRuns` reads the same facts the other way round: since a writer's read is still
true, the row of a run that nobody cancels takes the steps of `RunLifecycle` and no others,
which is all of the refinement that the production profile keeps. `NothingIsLost` is the safety
half of `EveryRunSettles`: without a fault a pending run is on its way (`OnItsWay`: about to
be published, buffered, in the log ahead of the consumer, held, or with a task before
`mark_running`) and a running one with an adapter is with a task that has not written its
end. It needs that the consumer's position is within the log (`PositionsInLog`) and that an
active run's own writes never offend the index (`OwnThread`).

**Slots.** `Pool` and `Slots` say of any semaphore with its waiters that the free permits,
the ones handed to woken waiters and the slots in use make up its size, and that nobody
waits twice or is in two of these places. Lemmas about the
operators of `AsyncSemaphore` (waking, joining, leaving the queue, cancellation after the
hand-over) are proved once and used for both components. `CapacityInv` adds that the flag
is up while anyone drains, which with the second check after the wait keeps slots empty
(`DrainedIsEmpty`; `CapacityConserved` is the conservation itself). `WorkerInv` adds the
running table and `DrainTrue`: whoever waits or executes after a drain was queued when
it began. `NoWakeUpLost` and `NoSlotWasted` say that nobody is forgotten in the hand-over: a
waiter is queued only while the slots are all in use or a permit is on its way to somebody,
and `drain()` waits only while a slot is in use. A waiter beside a free permit is reachable,
so the invariant is `Awake`: then another waiter has been woken, and its step, also if it was
cancelled or is refused, wakes the next.

**Queues.** `OnePlace` (an entry, a lease or a dead letter for a command, never two) and
`CountsTrue` (the count carried by an entry is the number of deliveries so far) make the
bound inductive, for all three queues; it needs that `Chosen`, `Top` and `Offered` select
a queued entry (`SelectedIsQueued`).

**Events.** `NoAppendRefused` from the holder of the lock: between reading the maximum and
the commit the appender holds it, so its number is fresh (`LockHeld`, `NumberFresh`).
`HandOverExact` from an ordering of what was delivered, is left of the replay, and is
queued: ascending for everybody (`Ordered`) and without a gap up to the last event for
whoever is registered (`Complete`). A queue that overflows is closed and unregistered, so it
keeps only the order. `StreamsCanEnd`: a queue is never longer than its size, and a
subscription that still reads is registered and behind no ending event, or has the closing
`None` at the end of its queue, also after an overflow. `PollingIsExact`, for Postgres: a
batch is the numbers after the cursor without a gap, because rows are only ever added at the
end (which is `NoAppendRefused` again), and the stream returns only after an ending event.
`SinksTellJournal` from the same statement about the projection, which has handled exactly the
events up to its sequence, and about every sink, which equals it unless a write was missed.
`BatchesComplete` from `Books`: every added event is pending, in the hands of the caller that
holds the lock, written or lost, in this order and within the limits.

**Control plane.** `MigratedOnce`: whoever calls or stores has inserted the row, and nobody
begins once it exists. `ActiveIsLatest`: a snapshot with rows has row 1
(`FirstIsOne`), so of the activations that have their locks there is one at a time; until it
has them, an activation's snapshot is the whole table, or else `unseen` is set, so that the row
it replaces is among those it has locked (`LocksHeld`). `UpdatesKeepVersions` and `FailsOnlyIfRaced`: the stored
versions are `1..(1 + accepted)`, and what a request read is still true of an assistant that
was not deleted (`CallOk`). `UpdatesKept`: a request that is not marked stale holds all that the
row should have (`ReadTrue`), and in memory no request is ever stale (`MemoryTrue`).
`StartUpNeverStuck`: either lock is held exactly by the process that is in the step that
releases it, and every unanswered registration is with a gateway that serves, so nobody waits
for what cannot come.
`PagesCover` is an induction over the pages, which the prover does not do with the library's
induction theorems; it is done in first-order form, as a least counterexample
(`LeastNatural`, from `WFMin` and `NatLessThanWellFounded`). `PagingProofs` describes a
selection by its ascending list of places (`OnlyIs`, `ListIsNth`); a slice of a selection is
the selection of the places in between (`SliceIs`, `PageBounds`), consecutive slices
concatenate (`SlicesConcatenate`), and filtering the slices instead of the list gives the
same concatenation, since the filter of a part is a part of the filter (`OnlyOfPart`,
`FilteredSlicesConcatenate`). `ControlPlaneProofs` adds what the routes keep in the tables.

**GatewayStreams.** `ThreadFreed` from what the run may be at each step of the task,
and from the gateway never hearing of a run whose stream was not opened (`FreedInv`). `NothingSkipped` from `StreamsInv`: the events on the wire are the next ones
(`WireTrue`), every connected client is in the list once (`ListTrue`), and each queue holds what
lies between its client's last event and the last one that reached it, with the closing
`None` only after the loop has passed it (`QueuesTrue`). A client that joins in the middle of
the loop is appended at its end and still gets the event being put. `EndsAreFinal`: a client
that was told the end has read every event, and the run's row is settled by then (but for the
graph that ends without saying so under `services/worker`); once the stream is over, the end is
in the queue of every client that joined, or the closing loop is about to put it there.

Only model-checked, and why: liveness needs fairness and `ENABLED`, which the prover does not
handle. What is proved about the states in which somebody waits:

| Checked by TLC | Proved of every state |
|---|---|
| `EveryRunSettles`, `EveryLeaseAcknowledged` (local profile) | `PendingIsQueued`, `RunningIsExecuting`, `LeasesAccounted` |
| `EveryRunSettles` (production) | `NothingIsLost` |
| `WaiterIsServed`, `DrainReturns` | `NoWakeUpLost` |
| `StreamEnds` | `StreamsCanEnd` |
| `SubscriptionEnds` | `PollingIsExact` |
| `StartUpSettles` | `StartUpNeverStuck` |
| `StreamIsClosed` | `EndsAreFinal` |
| `WaitIsAnswered`, `NobodyStarves` | nothing beyond the invariants above |

## 6. Not modelled

- Pure I/O and conversions: HTTP validation, logging, tracing, command line, loading
  of graphs and applications (LangGraph discovery, the FastAPI custom application),
  payload mapping, proxying, generated gRPC code.
- State, history and store routes of the gateway, and the schemas, graph and
  subgraphs of an assistant: they pass through to the adapter and change neither
  runs nor threads. `invoke` of the LangGraph adapter likewise.
- `mark_published` of the outbox and the Kafka event transport: nothing uses them.
- In production: clients that delete a run or a thread while the worker executes it
  (`LocalExecution` has these deletions for the local profile; `BusyThreadIsAttended` and
  `EveryRunSettles` say nothing of them here); a second worker and rebalancing (hazard at `aiokafka_queue.py:147`);
  the unwinding of executions on SIGTERM, which may still store a cancellation (a
  crash is modelled instead); the heartbeat task; the migration subprocess of
  `adapters/fastapi`.
- Configuration loading, interpolation and precedence: pure functions of files and
  environment.

## 7. Plan

1. A second worker in `ProductionWorker`, with the rebalancing hazard at
   `aiokafka_queue.py:147`, and which of the theorems survive it.
2. The safety half of `NobodyStarves`: how many commands of other priorities the rotation can
   put before a queued one.
3. The unwinding of executions on SIGTERM.
