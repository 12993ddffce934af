-------------------------- MODULE ProductionWorker --------------------------
(***************************************************************************)
(* The worker service: commands from Kafka, runs and threads in Postgres,  *)
(* up to max_conc executions at a time, and the gateway's execution service*)
(* working on the same rows.  Every repository call is a transaction of    *)
(* its own and nothing is locked between two of them, so each call is a    *)
(* step; what a step writes was decided by an earlier read.  A read whose  *)
(* value decides nothing is left out.                                      *)
(*                                                                         *)
(* One worker consumes all partitions.  It may crash and be restarted, and *)
(* so may the gateway; an exception may escape from an execution.  faults  *)
(* counts these.                                                           *)
(***************************************************************************)
EXTENDS Integers, Sequences, FiniteSets, ExecutionDomain

CONSTANTS
  Run, Thread, NoThread, RunThread,
  Adapted,        \* runs whose assistant_id is one of the worker's adapters
  Partition,      \* topic partitions the worker consumes
  PartitionOf,    \* the partition a run's commands are hashed to
  GraphOutcome,   \* how the user's graph may end a stream
  max_conc,       \* UR_WORKER_MAX_CONCURRENCY
  MaxFaults       \* bound: crashes, lost or refused sends, escaping exceptions

ASSUME ProductionAssumption ==
  /\ NoThread \notin Thread
  /\ RunThread \in [Run -> Thread \cup {NoThread}]
  /\ Adapted \subseteq Run
  /\ PartitionOf \in [Run -> Partition]
  /\ GraphOutcome \subseteq {"run.completed", "run.interrupted", "run.failed"}
  /\ max_conc \in Nat \ {0}
  /\ MaxFaults \in Nat

\* A run has the command that starts it and, if interrupted, one more.
Command == [run : Run, resume : BOOLEAN]

VARIABLES
  threads,    \* rt_exec.threads: the status column
  runs,       \* rt_exec.runs: the status column, or "absent"
  start,      \* where start_run for each run is
  cancel,     \* where cancel_run for each run is
  buffer,     \* commands the producer has not sent yet
  log,        \* the commands in each partition
  committed,  \* the group's committed offset of each partition
  position,   \* the consumer's position in each partition
  alive,      \* whether _execution_loop runs
  held,       \* the receipt that waits for exec_sem (at most one)
  permits,    \* exec_sem
  task,       \* where _process_receipt is for each command
  outcome,    \* the ending event each execution is storing
  executions, \* how often each run's graph was started
  faults

rows == <<threads, runs>>
calls == <<start, cancel>>
kafka == <<buffer, log, committed>>
worker == <<alive, position, held, permits, task, outcome, executions>>
vars == <<rows, calls, kafka, worker, faults>>

Init ==
  /\ threads = [t \in Thread |-> "idle"]
  /\ runs = [r \in Run |-> "absent"]
  /\ start = [r \in Run |-> "none"] /\ cancel = [r \in Run |-> "none"]
  /\ buffer = {} /\ log = [p \in Partition |-> <<>>]
  /\ committed = [p \in Partition |-> 0]
  /\ alive = TRUE /\ position = [p \in Partition |-> 0]
  /\ held = {} /\ permits = max_conc
  /\ task = [c \in Command |-> "none"] /\ outcome = [c \in Command |-> "none"]
  /\ executions = [r \in Run |-> 0]
  /\ faults = 0

-----------------------------------------------------------------------------
(* Rows *)

\* Mutant: the index leaves out interrupted runs.
IndexWithoutInterrupted(r) ==
  RunThread[r] # NoThread =>
    \A s \in Run \ {r} : RunThread[s] = RunThread[r] => runs[s] \notin {"pending", "running"}

\* The unique index uq_rt_exec_active_run_thread lets run r be active.
IndexAllows(r) ==
  RunThread[r] # NoThread =>
    \A s \in Run \ {r} : RunThread[s] = RunThread[r] => runs[s] \notin Active

RunSet(r, status) == runs' = [runs EXCEPT ![r] = status]

ThreadSet(r, status) ==
  threads' = IF RunThread[r] = NoThread THEN threads
             ELSE [threads EXCEPT ![RunThread[r]] = status]

Fault == faults < MaxFaults /\ faults' = faults + 1

-----------------------------------------------------------------------------
(* The gateway: start_run, cancel_run and resume_run, without journal, outbox *)
(* or active adapters *)

StartTo(r, from, to) == start[r] = from /\ start' = [start EXCEPT ![r] = to]

StartCheck(r) ==
  /\ StartTo(r, "none", "checked")
  /\ RunThread[r] # NoThread => threads[RunThread[r]] # "busy"
  /\ UNCHANGED <<rows, cancel, kafka, worker, faults>>

StartMark(r) ==
  /\ StartTo(r, "checked", "marked")
  /\ ThreadSet(r, "busy")
  /\ UNCHANGED <<runs, cancel, kafka, worker, faults>>

StartCreate(r) ==
  /\ StartTo(r, "marked", "created")
  /\ IndexAllows(r)
  /\ RunSet(r, "pending")
  /\ UNCHANGED <<threads, cancel, kafka, worker, faults>>

\* THREAD_BUSY: the thread stays marked.
StartRefused(r) ==
  /\ StartTo(r, "marked", "over")
  /\ ~IndexAllows(r)
  /\ UNCHANGED <<rows, cancel, kafka, worker, faults>>

\* send() returns once the producer has buffered the message.
StartPublish(r) ==
  /\ StartTo(r, "created", "over")
  /\ buffer' = buffer \cup {[run |-> r, resume |-> FALSE]}
  /\ UNCHANGED <<rows, cancel, log, committed, worker, faults>>

\* RUN_QUEUE_FAILED, from the run as it was created: the row is not read again.
StartPublishFails(r) ==
  /\ StartTo(r, "created", "failing") /\ Fault
  /\ UNCHANGED <<rows, cancel, kafka, worker>>

StartFailRun(r) ==
  /\ StartTo(r, "failing", "failed")
  /\ RunSet(r, "error")
  /\ UNCHANGED <<threads, cancel, kafka, worker, faults>>

StartFailThread(r) ==
  /\ StartTo(r, "failed", "over")
  /\ ThreadSet(r, "error")
  /\ UNCHANGED <<runs, cancel, kafka, worker, faults>>

CancelTo(r, from, to) == cancel[r] = from /\ cancel' = [cancel EXCEPT ![r] = to]

\* The worker is not told: _active_adapters of the gateway is empty.
CancelRead(r) ==
  /\ CancelTo(r, "none", "read")
  /\ runs[r] \in RunStatus \ Terminal
  /\ UNCHANGED <<rows, start, kafka, worker, faults>>

CancelWrite(r) ==
  /\ CancelTo(r, "read", "written")
  /\ RunSet(r, "cancelled")
  /\ UNCHANGED <<threads, start, kafka, worker, faults>>

CancelThread(r) ==
  /\ CancelTo(r, "written", "over")
  /\ ThreadSet(r, "idle")
  /\ UNCHANGED <<runs, start, kafka, worker, faults>>

ResumeRun(r) ==
  LET c == [run |-> r, resume |-> TRUE] IN
  /\ runs[r] = "interrupted"
  /\ c \notin buffer /\ \A i \in DOMAIN log[PartitionOf[r]] : log[PartitionOf[r]][i] # c
  /\ buffer' = buffer \cup {c}
  /\ UNCHANGED <<rows, calls, log, committed, worker, faults>>

Deliver(c) ==
  /\ c \in buffer
  /\ buffer' = buffer \ {c}
  /\ log' = [log EXCEPT ![PartitionOf[c.run]] = Append(@, c)]
  /\ UNCHANGED <<rows, calls, committed, worker, faults>>

\* Calls under way and the producer's buffer are gone.
GatewayCrash ==
  /\ Fault
  /\ start' = [r \in Run |-> IF start[r] = "none" THEN "none" ELSE "over"]
  /\ cancel' = [r \in Run |-> IF cancel[r] = "none" THEN "none" ELSE "over"]
  /\ buffer' = {}
  /\ UNCHANGED <<rows, log, committed, worker>>

StartGoesOn(r) ==
  \/ StartMark(r) \/ StartCreate(r) \/ StartRefused(r) \/ StartPublish(r)
  \/ StartFailRun(r) \/ StartFailThread(r)

CancelGoesOn(r) == CancelWrite(r) \/ CancelThread(r)

Gateway ==
  \/ \E r \in Run : \/ StartCheck(r) \/ StartGoesOn(r) \/ StartPublishFails(r)
                    \/ CancelRead(r) \/ CancelGoesOn(r) \/ ResumeRun(r)
  \/ \E c \in buffer : Deliver(c)
  \/ GatewayCrash

-----------------------------------------------------------------------------
(* The worker's _execution_loop *)

Receive(p) ==
  /\ alive /\ held = {} /\ position[p] < Len(log[p])
  /\ held' = {log[p][position[p] + 1]}
  /\ position' = [position EXCEPT ![p] = @ + 1]
  /\ UNCHANGED <<rows, calls, kafka, alive, permits, task, outcome, executions, faults>>

\* exec_sem.acquire() returns and the task is created.
Dispatch(c) ==
  /\ c \in held /\ permits > 0
  /\ held' = {} /\ permits' = permits - 1
  /\ task' = [task EXCEPT ![c] = "read"]
  /\ UNCHANGED <<rows, calls, kafka, alive, position, outcome, executions, faults>>

\* A record that cannot be parsed, or the client, raises what the loop does
\* not catch; executions under way go on.
LoopDies ==
  /\ alive /\ held = {} /\ Fault
  /\ alive' = FALSE
  /\ UNCHANGED <<rows, calls, kafka, position, held, permits, task, outcome, executions>>

\* Everything in memory is lost; the restarted consumer begins at the
\* committed offsets.
WorkerCrash ==
  /\ Fault
  /\ alive' = TRUE /\ position' = committed
  /\ held' = {} /\ permits' = max_conc
  /\ task' = [c \in Command |-> "none"] /\ outcome' = [c \in Command |-> "none"]
  /\ UNCHANGED <<rows, calls, kafka, executions>>

-----------------------------------------------------------------------------
(* _process_receipt *)

TaskTo(c, from, to) == task[c] = from /\ task' = [task EXCEPT ![c] = to]

\* Mutant: a redelivered command of a running run is executed.
TaskReadRunning(c) ==
  /\ TaskTo(c, "read", IF runs[c.run] \in {"pending", "running"} THEN "mark" ELSE "ack")
  /\ UNCHANGED <<rows, calls, kafka, alive, position, held, permits, outcome, executions, faults>>

\* Mutant: the status is not looked at.
TaskReadUnchecked(c) ==
  /\ TaskTo(c, "read", "mark")
  /\ UNCHANGED <<rows, calls, kafka, alive, position, held, permits, outcome, executions, faults>>

\* Mutant: every command is taken for a duplicate.
TaskReadSkips(c) ==
  /\ TaskTo(c, "read", "ack")
  /\ UNCHANGED <<rows, calls, kafka, alive, position, held, permits, outcome, executions, faults>>

\* Duplicates, resumes and cancelled runs are acknowledged unexecuted.
TaskRead(c) ==
  /\ TaskTo(c, "read", IF runs[c.run] = "pending" THEN "mark" ELSE "ack")
  /\ UNCHANGED <<rows, calls, kafka, alive, position, held, permits, outcome, executions, faults>>

\* mark_running of the run as it was read, over whatever the row holds now.
TaskMark(c) ==
  /\ IndexAllows(c.run)
  /\ TaskTo(c, "mark", IF c.run \in Adapted THEN "stream" ELSE "ack")
  /\ RunSet(c.run, "running")
  /\ executions' = IF c.run \in Adapted THEN [executions EXCEPT ![c.run] = @ + 1] ELSE executions
  /\ UNCHANGED <<threads, calls, kafka, alive, position, held, permits, outcome, faults>>

\* The finally block releases the semaphore; nothing is acknowledged.
TaskRaises(c) ==
  /\ task' = [task EXCEPT ![c] = "none"]
  /\ permits' = permits + 1
  /\ UNCHANGED <<rows, calls, kafka, alive, position, held, outcome, executions>>

\* The cancelled run's thread has a newer run: the update violates the index.
TaskMarkRefused(c) ==
  /\ task[c] = "mark" /\ ~IndexAllows(c.run)
  /\ TaskRaises(c)
  /\ UNCHANGED faults

\* The stream's RPC or the database fails.
TaskCrashes(c) ==
  /\ task[c] # "none" /\ Fault
  /\ TaskRaises(c)

GraphEnds(c, event) ==
  /\ TaskTo(c, "stream", "store")
  /\ event \in GraphOutcome
  /\ outcome' = [outcome EXCEPT ![c] = event]
  /\ UNCHANGED <<rows, calls, kafka, alive, position, held, permits, executions, faults>>

\* An exception without an ending event: a request or a chunk that cannot be
\* converted.
StreamBreaks(c) ==
  /\ TaskTo(c, "stream", "fail")
  /\ UNCHANGED <<rows, calls, kafka, alive, position, held, permits, outcome, executions, faults>>

\* _maybe_take_action reads the run.  One that refuses the change raises, and
\* _fail_if_not_done then finds it done.
TaskStore(c) ==
  /\ TaskTo(c, "store", IF CanStore(runs[c.run], outcome[c]) THEN "write" ELSE "idle")
  /\ UNCHANGED <<rows, calls, kafka, alive, position, held, permits, outcome, executions, faults>>

\* ... and writes what follows from that.  An interrupt may offend the index:
\* the run was cancelled meanwhile, and _fail_if_not_done finds it done.
TaskWrite(c) ==
  LET status == StatusOf(outcome[c])
      allowed == status \in Active => IndexAllows(c.run)
  IN
  /\ TaskTo(c, "write", IF allowed THEN "thread" ELSE "idle")
  /\ IF allowed THEN RunSet(c.run, status) ELSE UNCHANGED runs
  /\ UNCHANGED <<threads, calls, kafka, alive, position, held, permits, outcome, executions, faults>>

TaskThread(c) ==
  /\ TaskTo(c, "thread", "idle")
  /\ ThreadSet(c.run, IF outcome[c] = "run.interrupted" THEN "interrupted" ELSE "idle")
  /\ UNCHANGED <<runs, calls, kafka, alive, position, held, permits, outcome, executions, faults>>

\* _fail_if_not_done.
TaskFail(c) ==
  /\ TaskTo(c, "fail", IF runs[c.run] \in Terminal \cup {"interrupted"} THEN "idle"
                       ELSE "failwrite")
  /\ UNCHANGED <<rows, calls, kafka, alive, position, held, permits, outcome, executions, faults>>

\* Mutant: a broken stream does not free the thread.
TaskFailWriteKeepsThread(c) ==
  /\ TaskTo(c, "failwrite", "ack")
  /\ RunSet(c.run, "error")
  /\ UNCHANGED <<threads, calls, kafka, alive, position, held, permits, outcome, executions, faults>>

TaskFailWrite(c) ==
  /\ TaskTo(c, "failwrite", "idle")
  /\ RunSet(c.run, "error")
  /\ UNCHANGED <<threads, calls, kafka, alive, position, held, permits, outcome, executions, faults>>

\* _mark_idle_if_needed, needed or not.
TaskIdle(c) ==
  /\ TaskTo(c, "idle", "ack")
  /\ ThreadSet(c.run, "idle")
  /\ UNCHANGED <<runs, calls, kafka, alive, position, held, permits, outcome, executions, faults>>

Offset(c) == CHOOSE i \in DOMAIN log[PartitionOf[c.run]] : log[PartitionOf[c.run]][i] = c

\* Commits this command's offset, whatever became of the ones before it.
TaskAck(c) ==
  /\ TaskTo(c, "ack", "none")
  /\ committed' = [committed EXCEPT ![PartitionOf[c.run]] = Offset(c)]
  /\ permits' = permits + 1
  /\ outcome' = [outcome EXCEPT ![c] = "none"]
  /\ UNCHANGED <<rows, calls, buffer, log, alive, position, held, executions, faults>>

TaskGoesOn(c) ==
  \/ TaskRead(c) \/ TaskMark(c) \/ TaskMarkRefused(c)
  \/ (\E event \in GraphOutcome : GraphEnds(c, event)) \/ StreamBreaks(c)
  \/ TaskStore(c) \/ TaskWrite(c) \/ TaskThread(c) \/ TaskFail(c) \/ TaskFailWrite(c)
  \/ TaskIdle(c) \/ TaskAck(c)

Worker ==
  \/ \E p \in Partition : Receive(p)
  \/ \E c \in Command : Dispatch(c) \/ TaskGoesOn(c) \/ TaskCrashes(c)
  \/ LoopDies \/ WorkerCrash

Next == Gateway \/ Worker

Spec == Init /\ [][Next]_vars

\* Both event loops run their ready tasks, the broker answers, and the graph
\* ends its stream.  Nobody has to start, cancel or resume a run.
Fairness ==
  /\ \A r \in Run : WF_vars(StartGoesOn(r)) /\ WF_vars(CancelGoesOn(r))
  /\ \A c \in Command : WF_vars(Deliver(c)) /\ WF_vars(Dispatch(c)) /\ WF_vars(TaskGoesOn(c))
  /\ WF_vars(\E p \in Partition : Receive(p))

FairSpec == Spec /\ Fairness

-----------------------------------------------------------------------------
(* Properties *)

\* The stale writes of worker and gateway revive ended runs, but the index
\* keeps a thread from having two active runs.
OneActiveRunPerThread ==
  \A r, s \in Run :
    (/\ RunThread[r] # NoThread /\ RunThread[r] = RunThread[s]
     /\ runs[r] \in Active /\ runs[s] \in Active) => r = s

\* Crashes, redeliveries and resumes never make the only worker run a run's
\* graph a second time: the check for pending comes before it and nothing makes
\* a run pending again.  However a task ends, it gives its permit back once.
OneExecutionOnePermit ==
  /\ \A r \in Run : executions[r] <= 1
  /\ permits + Cardinality({c \in Command : task[c] # "none"}) = max_conc

\* Without a fault a busy thread has an active run, or a call or an execution
\* that has yet to mark it: refused starts, cancellations of executing runs and
\* late clean-ups never leave it busy for good.
BusyThreadIsAttended ==
  \A t \in Thread : (threads[t] = "busy" /\ faults = 0) =>
    \E r \in Run :
      /\ RunThread[r] = t
      /\ \/ runs[r] \in Active
         \/ start[r] \in {"checked", "marked"} \/ cancel[r] = "written"
         \/ \E c \in Command : c.run = r /\ task[c] \in {"thread", "idle"}

\* A run that has ended is given another status only where a cancellation
\* raced the worker's writes or those of a failing start: every other read
\* that a write was decided by is still true when the write comes.
EndedUnlessRaced ==
  [][\A r \in Run : (runs[r] \in Terminal /\ runs'[r] # runs[r]) =>
       cancel[r] # "none"]_vars

\* Without a fault every created run is executed, interrupted or cancelled in
\* the end, provided the worker has its adapter.
EveryRunSettles ==
  \A r \in Adapted :
    runs[r] \in {"pending", "running"} ~>
      runs[r] \in Terminal \cup {"interrupted"} \/ faults > 0

\* A command's offset is committed only after its run has left pending.
CommittedAfterTransition ==
  \A p \in Partition : \A i \in 1..committed[p] : runs[log[p][i].run] # "pending"
=============================================================================
