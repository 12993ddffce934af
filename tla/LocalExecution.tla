--------------------------- MODULE LocalExecution ---------------------------
(***************************************************************************)
(* The local profile of the runtime: RuntimeExecutionService over the      *)
(* in-memory repositories, command queue and journal, its single worker    *)
(* loop, the LangGraph adapter it drives, and the gateway operations that  *)
(* change threads and runs.                                                *)
(*                                                                         *)
(* Everything runs on one asyncio loop and no in-memory repository, queue  *)
(* or journal call suspends, so a service call is one step.  The code      *)
(* gives up control only while the worker waits for a command or for its   *)
(* execution task, before a created task first runs, while the adapter     *)
(* waits for the graph, and while stop_worker waits for the worker: those  *)
(* are the boundaries of the actions below.                                *)
(*                                                                         *)
(* A call that raises before it changed anything is a stuttering step.     *)
(***************************************************************************)
EXTENDS Integers, Sequences, ExecutionDomain

CONSTANTS
  Run,           \* run ids (RunId.new() never repeats, so each is used once)
  Thread,        \* thread ids
  NoThread,      \* the thread of a stateless run
  RunThread,     \* the thread each run is requested on
  Adapted,       \* runs whose assistant_id names a registered adapter
  ViaOutbox,     \* runs requested with an outbox (the A2A executor)
  Priority,      \* priorities a request may carry
  GraphOutcome,  \* how the user's graph may end a stream of its own accord
  Disposable,    \* threads that clients delete, and whose runs they delete
  Shutdowns,     \* whether LocalRuntime.shutdown is ever called
  MaxPublish,    \* bound: publishes to the queue
  MaxEvents      \* bound: the graph streams no chunk past this journal length

ASSUME LocalAssumption ==
  /\ NoThread \notin Thread
  /\ RunThread \in [Run -> Thread \cup {NoThread}]
  /\ Adapted \subseteq Run
  /\ ViaOutbox \subseteq Run
  /\ Priority \subseteq Int
  /\ GraphOutcome \subseteq {"run.completed", "run.interrupted", "run.failed"}
  /\ Disposable \subseteq Thread
  /\ Shutdowns \in BOOLEAN
  /\ MaxPublish \in Nat
  /\ MaxEvents \in Nat

VARIABLES
  threads,        \* InMemoryThreadRepository: status, or "absent"
  runs,           \* InMemoryRunRepository: status, "absent" or "deleted"
  journal,        \* InMemoryEventJournal: the event types of each run, in order
  outbox,         \* InMemoryOutboxRepository: runs whose message is pending
  queue,          \* InMemoryPriorityQueue: commands not yet received
  sequence,       \* its publication counter
  leases,         \* its commands received and not acknowledged
  closed,         \* whether it was closed
  worker,         \* where the _consume_commands task is
  receipt,        \* the commands in the hands of the execution task (at most one)
  task,           \* the execution task
  taskCancelled,  \* whether that task has a CancelledError on its way
  interrupted,    \* the adapter saw an __interrupt__ chunk in this stream
  shutdown        \* how far LocalRuntime.shutdown got

store == <<threads, runs, journal, outbox>>
commands == <<queue, sequence, leases, closed>>
execution == <<receipt, task, taskCancelled, interrupted>>
vars == <<store, commands, worker, execution, shutdown>>

Command == [run : Run, priority : Priority, sequence : Nat]

TypeOK ==
  /\ threads \in [Thread -> ThreadStatus \cup {"absent"}]
  /\ runs \in [Run -> RunStatus \cup {"absent", "deleted"}]
  /\ journal \in [Run -> Seq(EventType)]
  /\ outbox \subseteq Run
  /\ queue \subseteq Command
  /\ sequence \in Nat
  /\ leases \subseteq Command
  /\ closed \in BOOLEAN
  /\ worker \in {"off", "receiving", "awaiting", "dead", "done"}
  /\ receipt \subseteq leases
  /\ task \in {"none", "scheduled", "executing"}
  /\ taskCancelled \in BOOLEAN
  /\ interrupted \in BOOLEAN
  /\ shutdown \in {"no", "stopping", "complete"}

Init ==
  /\ threads = [t \in Thread |-> "absent"]
  /\ runs = [r \in Run |-> "absent"]
  /\ journal = [r \in Run |-> <<>>]
  /\ outbox = {}
  /\ queue = {} /\ sequence = 0 /\ leases = {} /\ closed = FALSE
  /\ worker = "off"
  /\ receipt = {} /\ task = "none" /\ taskCancelled = FALSE /\ interrupted = FALSE
  /\ shutdown = "no"

-----------------------------------------------------------------------------
(* Repositories *)

Stored(r) == runs[r] \in RunStatus

\* threads.get of the run's thread succeeds, or the run has no thread.
ThreadStored(r) == RunThread[r] # NoThread => threads[RunThread[r]] # "absent"

\* Mutant: an interrupted run does not count as active.
ActiveOnUninterrupted(t) ==
  \E r \in Run : RunThread[r] = t /\ runs[r] \in {"pending", "running"}

\* InMemoryRunRepository._active_for_thread finds a run.
ActiveOn(t) == \E r \in Run : RunThread[r] = t /\ runs[r] \in Active

\* The thread table once run r's thread has been given a status.
ThreadMarked(r, status) ==
  IF RunThread[r] = NoThread THEN threads ELSE [threads EXCEPT ![RunThread[r]] = status]

\* The journal once run r has been given further events.
Logged(r, events) == [journal EXCEPT ![r] = @ \o events]

\* The run whose adapter is registered in _active_adapters (the entry lives
\* exactly as long as the body of _execute_receipt).
ActiveAdapters == IF task = "executing" THEN {c.run : c \in receipt} ELSE {}

\* InMemoryPriorityQueue.publish on an open queue.
Publish(r, p) ==
  /\ ~closed
  /\ sequence < MaxPublish
  /\ queue' = queue \cup {[run |-> r, priority |-> p, sequence |-> sequence]}
  /\ sequence' = sequence + 1

-----------------------------------------------------------------------------
(* Clients: the gateway's handlers and the service calls behind them *)

CreateThread(t) ==
  /\ threads[t] = "absent"
  /\ threads' = [threads EXCEPT ![t] = "idle"]
  /\ UNCHANGED <<runs, journal, outbox, commands, worker, execution, shutdown>>

\* Neither delete looks at what the thread or the run is doing.
DeleteThread(t) ==
  /\ t \in Disposable
  /\ threads[t] # "absent"
  /\ threads' = [threads EXCEPT ![t] = "absent"]
  /\ UNCHANGED <<runs, journal, outbox, commands, worker, execution, shutdown>>

DeleteRun(r) ==
  /\ RunThread[r] \in Disposable
  /\ Stored(r)
  /\ runs' = [runs EXCEPT ![r] = "deleted"]
  /\ UNCHANGED <<threads, journal, outbox, commands, worker, execution, shutdown>>

\* start_run gets past the thread's status check.
MayStart(r) ==
  /\ runs[r] = "absent"
  /\ RunThread[r] # NoThread => threads[RunThread[r]] \notin {"absent", "busy"}

\* runs.create refuses: the thread was already marked busy, and stays so.
StartRunRefused(r) ==
  /\ MayStart(r)
  /\ RunThread[r] # NoThread /\ ActiveOn(RunThread[r])
  /\ threads' = ThreadMarked(r, "busy")
  /\ UNCHANGED <<runs, journal, outbox, commands, worker, execution, shutdown>>

Creates(r) ==
  /\ MayStart(r)
  /\ RunThread[r] # NoThread => ~ActiveOn(RunThread[r])
  /\ journal' = Logged(r, <<"run.queued">>)
  /\ UNCHANGED <<leases, closed, worker, execution, shutdown>>

StartRun(r, p) ==
  /\ r \notin ViaOutbox
  /\ Creates(r)
  /\ Publish(r, p)
  /\ runs' = [runs EXCEPT ![r] = "pending"]
  /\ threads' = ThreadMarked(r, "busy")
  /\ UNCHANGED outbox

StartRunOutbox(r) ==
  /\ r \in ViaOutbox
  /\ Creates(r)
  /\ outbox' = outbox \cup {r}
  /\ runs' = [runs EXCEPT ![r] = "pending"]
  /\ threads' = ThreadMarked(r, "busy")
  /\ UNCHANGED <<queue, sequence>>

\* Mutant: the exception of publish is not handled.
StartRunUnhandled(r) ==
  /\ r \notin ViaOutbox
  /\ Creates(r)
  /\ closed
  /\ runs' = [runs EXCEPT ![r] = "pending"]
  /\ threads' = ThreadMarked(r, "busy")
  /\ UNCHANGED <<outbox, queue, sequence>>

\* publish raises on a closed queue: RUN_QUEUE_FAILED.
StartRunQueueFailed(r) ==
  /\ r \notin ViaOutbox
  /\ Creates(r)
  /\ closed
  /\ runs' = [runs EXCEPT ![r] = "error"]
  /\ threads' = ThreadMarked(r, "error")
  /\ UNCHANGED <<outbox, queue, sequence>>

\* Mutant: the execution task is not told.
CancelRunUnsignalled(r) ==
  /\ Stored(r) /\ runs[r] \notin Terminal /\ ThreadStored(r)
  /\ runs' = [runs EXCEPT ![r] = "cancelled"]
  /\ threads' = ThreadMarked(r, "idle") /\ journal' = Logged(r, <<"run.cancelled">>)
  /\ UNCHANGED <<outbox, commands, worker, execution, shutdown>>

\* Mutant: the thread is not marked idle.
CancelRunLeavesThread(r) ==
  /\ Stored(r) /\ runs[r] \notin Terminal
  /\ taskCancelled' = (taskCancelled \/ r \in ActiveAdapters)
  /\ runs' = [runs EXCEPT ![r] = "cancelled"]
  /\ journal' = Logged(r, <<"run.cancelled">>)
  /\ UNCHANGED <<threads, outbox, commands, worker, receipt, task, interrupted, shutdown>>

\* adapter.cancel, for the adapter that executes the run, cancels its task.
AdapterCancels(r) == taskCancelled' = (taskCancelled \/ r \in ActiveAdapters)

\* The run is cancelled even where its thread is gone and the call then
\* raises before it journals anything.
CancelRun(r) ==
  /\ Stored(r) /\ runs[r] \notin Terminal
  /\ AdapterCancels(r)
  /\ runs' = [runs EXCEPT ![r] = "cancelled"]
  /\ IF ThreadStored(r)
     THEN threads' = ThreadMarked(r, "idle") /\ journal' = Logged(r, <<"run.cancelled">>)
     ELSE UNCHANGED <<threads, journal>>
  /\ UNCHANGED <<outbox, commands, worker, receipt, task, interrupted, shutdown>>

\* A second command for the same run, whose status is left as it is.  The
\* gateway finds the run through its thread.
ResumeRun(r, p) ==
  /\ RunThread[r] # NoThread /\ runs[r] = "interrupted"
  /\ Publish(r, p)
  /\ journal' = Logged(r, <<"run.queued">>)
  /\ UNCHANGED <<threads, runs, outbox, leases, closed, worker, execution, shutdown>>

\* RuntimeExecutor.execute of the A2A server starts its run with the outbox and
\* then streams its events; its cancel() is CancelRun.
Execute(r) == StartRunOutbox(r)

Client ==
  \/ \E t \in Thread : CreateThread(t) \/ DeleteThread(t)
  \/ \E r \in Run : \/ DeleteRun(r) \/ CancelRun(r)
                    \/ StartRunRefused(r) \/ Execute(r) \/ StartRunQueueFailed(r)
                    \/ \E p \in Priority : StartRun(r, p) \/ ResumeRun(r, p)

-----------------------------------------------------------------------------
(* The worker loop *)

StartWorker ==
  /\ worker = "off" /\ shutdown = "no"
  /\ worker' = "receiving"
  /\ UNCHANGED <<store, commands, execution, shutdown>>

\* PriorityQueue order: higher priority first, then publication order.
Before(c, d) ==
  \/ c.priority > d.priority
  \/ c.priority = d.priority /\ c.sequence < d.sequence

\* receive() leases the first command; adapters.get and create_task follow
\* without a suspension.
Receive(c) ==
  /\ worker = "receiving"
  /\ c \in queue /\ \A d \in queue \ {c} : Before(c, d)
  /\ queue' = queue \ {c}
  /\ leases' = leases \cup {c}
  /\ UNCHANGED <<store, sequence, closed, taskCancelled, interrupted, shutdown>>

WorkerReceive(c) ==
  /\ Receive(c)
  /\ c.run \in Adapted
  /\ worker' = "awaiting"
  /\ receipt' = {c} /\ task' = "scheduled"

\* adapters.get raises outside the loop's try: the worker task ends and the
\* command stays leased.
WorkerNoAdapter(c) ==
  /\ Receive(c)
  /\ c.run \notin Adapted
  /\ worker' = "dead"
  /\ UNCHANGED <<receipt, task>>

-----------------------------------------------------------------------------
(* The execution task: _execute_receipt and the adapter stream it consumes *)

\* Mutant: the loop does not come back to receive.
TaskOverStuck(next) ==
  /\ receipt' = {} /\ task' = "none" /\ taskCancelled' = FALSE /\ interrupted' = FALSE
  /\ UNCHANGED <<worker, outbox, queue, sequence, closed, shutdown>>

\* Mutant: the loop keeps the receipt it has acknowledged.
TaskOverKeepsReceipt(next) ==
  /\ task' = "none" /\ taskCancelled' = FALSE /\ interrupted' = FALSE
  /\ worker' = next
  /\ UNCHANGED <<receipt, outbox, queue, sequence, closed, shutdown>>

\* The task is over, by a return or by an exception; the loop resumes with
\* the next receive or dies with it.
TaskOver(next) ==
  /\ receipt' = {} /\ task' = "none" /\ taskCancelled' = FALSE /\ interrupted' = FALSE
  /\ worker' = next
  /\ UNCHANGED <<outbox, queue, sequence, closed, shutdown>>

\* A task cancelled before its first step never enters the coroutine: the
\* loop continues and nobody acknowledges the command.
TaskNeverRan(c) ==
  /\ c \in receipt /\ task = "scheduled" /\ taskCancelled
  /\ TaskOver("receiving")
  /\ UNCHANGED <<threads, runs, journal, leases>>

\* Mutant: the early return forgets to acknowledge.
TaskSkipsUnacknowledged(c) ==
  /\ c \in receipt /\ task = "scheduled" /\ ~taskCancelled
  /\ Stored(c.run) /\ runs[c.run] # "pending"
  /\ TaskOver("receiving")
  /\ UNCHANGED <<threads, runs, journal, leases>>

\* "duplicate command ignored": also the fate of every resume command.
TaskSkips(c) ==
  /\ c \in receipt /\ task = "scheduled" /\ ~taskCancelled
  /\ Stored(c.run) /\ runs[c.run] # "pending"
  /\ leases' = leases \ {c}
  /\ TaskOver("receiving")
  /\ UNCHANGED <<threads, runs, journal>>

\* runs.get raises before the try block.
TaskRunMissing(c) ==
  /\ c \in receipt /\ task = "scheduled" /\ ~taskCancelled
  /\ ~Stored(c.run)
  /\ TaskOver("dead")
  /\ UNCHANGED <<threads, runs, journal, leases>>

\* Mutant: a duplicate command is executed again.
TaskStartsAgain(c) ==
  /\ c \in receipt /\ task = "scheduled" /\ ~taskCancelled
  /\ Stored(c.run)
  /\ runs' = [runs EXCEPT ![c.run] = "running"]
  /\ journal' = Logged(c.run, <<"run.started">>)
  /\ task' = "executing"
  /\ UNCHANGED <<threads, outbox, commands, worker, receipt, taskCancelled, interrupted, shutdown>>

\* stream() registers its task and yields run.started before anything else.
StreamBegins(r) == task' = "executing" /\ journal' = Logged(r, <<"run.started">>)

TaskStarts(c) ==
  /\ c \in receipt /\ task = "scheduled" /\ ~taskCancelled
  /\ runs[c.run] = "pending"
  /\ runs' = [runs EXCEPT ![c.run] = "running"]
  /\ StreamBegins(c.run)
  /\ UNCHANGED <<threads, outbox, commands, worker, receipt, taskCancelled, interrupted, shutdown>>

Streaming(c) == c \in receipt /\ task = "executing"

\* The graph streams a chunk; one that holds __interrupt__ adds a second event.
GraphChunk(c) ==
  /\ Streaming(c) /\ ~taskCancelled
  /\ Len(journal[c.run]) < MaxEvents
  /\ \/ /\ journal' = Logged(c.run, <<"state.values">>)
        /\ UNCHANGED interrupted
     \/ /\ "run.interrupted" \in GraphOutcome
        /\ journal' = Logged(c.run, <<"state.values", "interrupt.created">>)
        /\ interrupted' = TRUE
  /\ UNCHANGED <<threads, runs, outbox, commands, worker, receipt, task, taskCancelled, shutdown>>

\* How the stream ends: cancelled if a CancelledError was thrown into it,
\* else as the graph decides.
StreamEnd ==
  IF taskCancelled THEN {"run.cancelled"}
  ELSE GraphOutcome \cap
         {"run.failed", IF interrupted THEN "run.interrupted" ELSE "run.completed"}

\* Mutant: the completed run is not saved.
TaskEndsUnsaved(c, event) ==
  /\ Streaming(c) /\ event \in StreamEnd
  /\ Stored(c.run) /\ CanStore(runs[c.run], event) /\ ThreadStored(c.run)
  /\ journal' = Logged(c.run, <<event>>)
  /\ threads' = ThreadMarked(c.run, "idle")
  /\ leases' = leases \ {c}
  /\ TaskOver("receiving")
  /\ UNCHANGED runs

\* The ending event reaches the repositories: run and thread take their new
\* statuses and the command is acknowledged.  A failing graph re-raises, and
\* that ends the worker loop too; a cancellation is swallowed.
TaskEnds(c, event) ==
  /\ Streaming(c) /\ event \in StreamEnd
  /\ Stored(c.run) /\ CanStore(runs[c.run], event) /\ ThreadStored(c.run)
  /\ journal' = Logged(c.run, <<event>>)
  /\ runs' = [runs EXCEPT ![c.run] = StatusOf(event)]
  /\ threads' = ThreadMarked(c.run, IF event = "run.interrupted" THEN "interrupted" ELSE "idle")
  /\ leases' = leases \ {c}
  /\ TaskOver(IF event = "run.failed" THEN "dead" ELSE "receiving")

\* The run is gone, or refuses the status: the exception handler finds
\* nothing to fail, the finally block frees a busy thread and acknowledges
\* unless the thread is gone as well.
TaskCannotStore(c, event) ==
  /\ Streaming(c) /\ event \in StreamEnd
  /\ ~(Stored(c.run) /\ CanStore(runs[c.run], event))
  /\ journal' = Logged(c.run, <<event>>)
  /\ threads' = IF RunThread[c.run] # NoThread /\ threads[RunThread[c.run]] = "busy"
                THEN ThreadMarked(c.run, "idle") ELSE threads
  /\ leases' = IF ThreadStored(c.run) THEN leases \ {c} ELSE leases
  /\ TaskOver("dead")
  /\ UNCHANGED runs

\* The thread is gone: the run has its status when threads.get raises, an
\* interrupted one is then failed, and the finally block raises before it
\* acknowledges.
TaskThreadMissing(c, event) ==
  /\ Streaming(c) /\ event \in StreamEnd
  /\ Stored(c.run) /\ CanStore(runs[c.run], event) /\ ~ThreadStored(c.run)
  /\ IF event = "run.interrupted"
     THEN /\ journal' = Logged(c.run, <<event, "run.failed">>)
          /\ runs' = [runs EXCEPT ![c.run] = "error"]
     ELSE /\ journal' = Logged(c.run, <<event>>)
          /\ runs' = [runs EXCEPT ![c.run] = StatusOf(event)]
  /\ TaskOver("dead")
  /\ UNCHANGED <<threads, leases>>

TaskFinishes ==
  \E c \in receipt, event \in EndEvent :
    TaskEnds(c, event) \/ TaskCannotStore(c, event) \/ TaskThreadMissing(c, event)

TaskBegins ==
  \E c \in receipt :
    TaskNeverRan(c) \/ TaskSkips(c) \/ TaskRunMissing(c) \/ TaskStarts(c)

-----------------------------------------------------------------------------
(* LocalRuntime.shutdown *)

\* stop_worker cancels the worker task.  Waiting for a command it ends; while
\* it awaits its execution task the cancellation goes to that task instead.
ShutdownBegins ==
  /\ Shutdowns /\ shutdown = "no"
  /\ shutdown' = "stopping"
  /\ worker' = IF worker = "receiving" THEN "done" ELSE worker
  /\ taskCancelled' = (taskCancelled \/ worker = "awaiting")
  /\ UNCHANGED <<store, commands, receipt, task, interrupted>>

\* gather returns once the worker task is over; the queue is closed and the
\* capacity, whose only user was that task, drains at once.
ShutdownCompletes ==
  /\ shutdown = "stopping" /\ worker \in {"off", "done", "dead"}
  /\ shutdown' = "complete"
  /\ closed' = TRUE
  /\ UNCHANGED <<store, queue, sequence, leases, worker, execution>>

-----------------------------------------------------------------------------
Receives == \E c \in queue : WorkerReceive(c) \/ WorkerNoAdapter(c)

Next ==
  \/ Client
  \/ StartWorker
  \/ Receives
  \/ TaskBegins
  \/ \E c \in receipt : GraphChunk(c)
  \/ TaskFinishes
  \/ ShutdownBegins
  \/ ShutdownCompletes

Spec == Init /\ [][Next]_vars

\* The loop runs every ready callback, and the graph is assumed to end its
\* stream; clients and shutdown may never come.
Fairness ==
  /\ WF_vars(StartWorker)
  /\ WF_vars(Receives)
  /\ WF_vars(TaskBegins)
  /\ WF_vars(TaskFinishes)
  /\ WF_vars(ShutdownCompletes)

FairSpec == Spec /\ Fairness

-----------------------------------------------------------------------------
(* Properties *)

\* start_run checks the thread's status, which the unwinding of a cancelled
\* run may reset under a newer run, and then runs.create checks again: no
\* interleaving of starts, cancels, interrupts, deletes and executions gives
\* a thread two active runs.
OneActiveRunPerThread ==
  \A r, s \in Run :
    (/\ RunThread[r] # NoThread /\ RunThread[r] = RunThread[s]
     /\ runs[r] \in Active /\ runs[s] \in Active) => r = s

\* A run is shown as running only while the execution task streams it, so
\* that cancel_run finds its adapter and no exit of _execute_receipt leaves
\* the status behind.
RunningRunIsExecuting ==
  \A r \in Run : runs[r] = "running" => r \in ActiveAdapters

\* A pending run can still be picked up: its command is queued or leased, or
\* its message waits in the outbox.
PendingRunHasCommand ==
  \A r \in Run : runs[r] = "pending" =>
    r \in outbox \/ \E c \in queue \cup leases : c.run = r

\* _execute_receipt acknowledges on every path: a command stays leased with
\* no task behind it only once the loop has died or was told to stop.
LeasedCommandIsExecuting ==
  leases = receipt \/ worker = "dead" \/ shutdown # "no"

\* The last ending event in a run's journal is the status the repository
\* shows, and a run that has none has not ended, save one whose command the
\* closed queue refused.  Deleting a thread breaks this for its runs: a
\* cancellation then changes the run and journals nothing.
JournalTellsStatus ==
  \A r \in {s \in Run : RunThread[s] \notin Disposable} :
    LET ends == {i \in DOMAIN journal[r] : journal[r][i] \in EndEvent} IN
    /\ \A i \in ends : (\A j \in ends : j <= i) => runs[r] = StatusOf(journal[r][i])
    /\ ends = {} => \/ runs[r] \in {"absent", "pending", "running"}
                    \/ runs[r] = "error" /\ closed

\* A thread is busy only while some run of it is active: no interleaving of
\* start_run's early marking, cancel_run and the finally block of
\* _execute_receipt locks a thread for good, unless its run is deleted.
BusyThreadHasActiveRun ==
  \A t \in Thread \ Disposable : threads[t] = "busy" => ActiveOn(t)

\* The run repository implements the run lifecycle: terminal statuses are
\* final although an interrupt bypasses Run._change, and no exit path of the
\* execution task restarts or revives a run.
Lifecycle == INSTANCE RunLifecycle WITH runs <- runs
ImplementsLifecycle == Lifecycle!Spec

\* Every queued run is executed, interrupted or cancelled in the end: only a
\* loop that died of an earlier command, of a failing graph or an unknown
\* assistant, leaves a run pending.
EveryRunSettles ==
  \A r \in Run \ ViaOutbox :
    runs[r] = "pending" ~> runs[r] \in Terminal \cup {"interrupted"} \/ worker = "dead"

\* Every command taken from the queue is acknowledged in the end, or the loop
\* has died.
EveryLeaseAcknowledged ==
  \A r \in Run :
    (\E c \in leases : c.run = r) ~> (\A c \in leases : c.run # r) \/ worker = "dead"

\* A resume command makes its run leave the interrupt.
ResumeContinuesRun ==
  \A r \in Run :
    (runs[r] = "interrupted" /\ \E c \in queue : c.run = r) ~> runs[r] # "interrupted"

\* A message appended to the outbox is published and its run executed.
OutboxIsDelivered ==
  \A r \in Run : (r \in outbox /\ runs[r] = "pending") ~> runs[r] # "pending"

\* LocalRuntime.shutdown returns.
ShutdownTerminates == shutdown = "stopping" ~> shutdown = "complete"
=============================================================================
