------------------------ MODULE LocalExecutionProofs ------------------------
(***************************************************************************)
(* Proofs about LocalExecution for every set of runs and threads and every *)
(* bound: its type invariant, the safety invariants, that the run          *)
(* repository implements RunLifecycle, and what the journal tells.         *)
(***************************************************************************)
EXTENDS LocalExecution, TLAPS

-----------------------------------------------------------------------------
(* The operators the model is built from *)

\* What _change and the direct construction of an interrupted Run store is a
\* run status, and only an interrupt stores an active one.
LEMMA StatusOfType ==
  ASSUME NEW event \in EndEvent
  PROVE  /\ StatusOf(event) \in RunStatus
         /\ StatusOf(event) \notin {"pending", "running"}
         /\ event # "run.interrupted" => StatusOf(event) \in Terminal
BY DEF EndEvent, StatusOf, RunStatus, Terminal

\* Appending events to a run's journal keeps the journal well typed.
LEMMA LoggedType ==
  ASSUME journal \in [Run -> Seq(EventType)],
         NEW r \in Run, NEW events \in Seq(EventType)
  PROVE  Logged(r, events) \in [Run -> Seq(EventType)]
BY DEF Logged

\* Marking the thread of a run keeps the thread table well typed.
LEMMA ThreadMarkedType ==
  ASSUME threads \in [Thread -> ThreadStatus \cup {"absent"}],
         NEW r \in Run, NEW status \in ThreadStatus
  PROVE  ThreadMarked(r, status) \in [Thread -> ThreadStatus \cup {"absent"}]
BY LocalAssumption DEF ThreadMarked

\* The events a stream ends with: only those that the graph may choose, or
\* the cancellation.
LEMMA StreamEndType ==
  ASSUME NEW event \in StreamEnd
  PROVE  /\ event \in {"run.completed", "run.interrupted", "run.failed", "run.cancelled"}
         /\ event \in EndEvent
         /\ taskCancelled => event = "run.cancelled"
BY LocalAssumption DEF StreamEnd, EndEvent

-----------------------------------------------------------------------------
(* Type correctness *)

\* Every service call, worker step and shutdown keeps the state well typed.
LEMMA TypeStep ==
  ASSUME TypeOK, [Next]_vars
  PROVE  TypeOK'
<1> USE DEF TypeOK
<1>1. ASSUME NEW t \in Thread, CreateThread(t) PROVE TypeOK'
  BY <1>1 DEF CreateThread, ThreadStatus, commands, execution
<1>2. ASSUME NEW t \in Thread, DeleteThread(t) PROVE TypeOK'
  BY <1>2 DEF DeleteThread, commands, execution
<1>3. ASSUME NEW r \in Run, DeleteRun(r) PROVE TypeOK'
  BY <1>3 DEF DeleteRun, commands, execution
<1>4. ASSUME NEW r \in Run, CancelRun(r) PROVE TypeOK'
  <2>1. runs' \in [Run -> RunStatus \cup {"absent", "deleted"}]
    BY <1>4 DEF CancelRun, AdapterCancels, RunStatus
  <2>2. threads' \in [Thread -> ThreadStatus \cup {"absent"}]
    BY <1>4, ThreadMarkedType DEF CancelRun, AdapterCancels, ThreadStatus
  <2>3. journal' \in [Run -> Seq(EventType)]
    <3>1. <<"run.cancelled">> \in Seq(EventType)
      BY DEF EventType, EndEvent
    <3> QED  BY <1>4, <3>1, LoggedType DEF CancelRun, AdapterCancels
  <2>4. taskCancelled' \in BOOLEAN
    BY <1>4 DEF CancelRun, AdapterCancels
  <2> QED  BY <1>4, <2>1, <2>2, <2>3, <2>4 DEF CancelRun, AdapterCancels, commands
<1>5. ASSUME NEW r \in Run, StartRunRefused(r) PROVE TypeOK'
  <2>1. threads' \in [Thread -> ThreadStatus \cup {"absent"}]
    BY <1>5, ThreadMarkedType DEF StartRunRefused, ThreadStatus
  <2> QED  BY <1>5, <2>1 DEF StartRunRefused, commands, execution
<1>6. ASSUME NEW r \in Run, Creates(r) PROVE journal' \in [Run -> Seq(EventType)]
  <2>1. <<"run.queued">> \in Seq(EventType)
    BY DEF EventType
  <2> QED  BY <1>6, <2>1, LoggedType DEF Creates
<1>7. ASSUME NEW r \in Run, StartRunOutbox(r) PROVE TypeOK'
  <2>1. threads' \in [Thread -> ThreadStatus \cup {"absent"}]
    BY <1>7, ThreadMarkedType DEF StartRunOutbox, ThreadStatus
  <2>2. runs' \in [Run -> RunStatus \cup {"absent", "deleted"}]
    BY <1>7 DEF StartRunOutbox, RunStatus
  <2> QED  BY <1>7, <1>6, <2>1, <2>2 DEF StartRunOutbox, Creates, execution
<1>8. ASSUME NEW r \in Run, StartRunQueueFailed(r) PROVE TypeOK'
  <2>1. threads' \in [Thread -> ThreadStatus \cup {"absent"}]
    BY <1>8, ThreadMarkedType DEF StartRunQueueFailed, ThreadStatus
  <2>2. runs' \in [Run -> RunStatus \cup {"absent", "deleted"}]
    BY <1>8 DEF StartRunQueueFailed, RunStatus
  <2> QED  BY <1>8, <1>6, <2>1, <2>2 DEF StartRunQueueFailed, Creates, execution
<1>9. ASSUME NEW r \in Run, NEW p \in Priority, Publish(r, p)
      PROVE  queue' \subseteq Command /\ sequence' \in Nat
  BY <1>9, LocalAssumption DEF Publish, Command
<1>10. ASSUME NEW r \in Run, NEW p \in Priority, StartRun(r, p) PROVE TypeOK'
  <2>1. threads' \in [Thread -> ThreadStatus \cup {"absent"}]
    BY <1>10, ThreadMarkedType DEF StartRun, ThreadStatus
  <2>2. runs' \in [Run -> RunStatus \cup {"absent", "deleted"}]
    BY <1>10 DEF StartRun, RunStatus
  <2> QED  BY <1>10, <1>6, <1>9, <2>1, <2>2 DEF StartRun, Creates, execution
<1>11. ASSUME NEW r \in Run, NEW p \in Priority, ResumeRun(r, p) PROVE TypeOK'
  <2>1. <<"run.queued">> \in Seq(EventType)
    BY DEF EventType
  <2> QED  BY <1>11, <1>9, <2>1, LoggedType DEF ResumeRun, execution
<1>12. CASE StartWorker
  BY <1>12 DEF StartWorker, store, commands, execution
<1>13. ASSUME NEW c \in queue, WorkerReceive(c) \/ WorkerNoAdapter(c) PROVE TypeOK'
  BY <1>13 DEF WorkerReceive, WorkerNoAdapter, Receive, store
<1>14. ASSUME NEW c \in receipt PROVE c \in Command /\ c.run \in Run
  BY <1>14 DEF Command
<1>15. ASSUME NEW c \in receipt, TaskNeverRan(c) \/ TaskSkips(c) \/ TaskRunMissing(c)
       PROVE  TypeOK'
  BY <1>15 DEF TaskNeverRan, TaskSkips, TaskRunMissing, TaskOver
<1>16. ASSUME NEW c \in receipt, TaskStarts(c) PROVE TypeOK'
  <2>1. <<"run.started">> \in Seq(EventType)
    BY DEF EventType
  <2>2. runs' \in [Run -> RunStatus \cup {"absent", "deleted"}]
    BY <1>16 DEF TaskStarts, StreamBegins, RunStatus
  <2> QED  BY <1>14, <1>16, <2>1, <2>2, LoggedType DEF TaskStarts, StreamBegins, commands
<1>17. ASSUME NEW c \in receipt, GraphChunk(c) PROVE TypeOK'
  <2>1. /\ <<"state.values">> \in Seq(EventType)
        /\ <<"state.values", "interrupt.created">> \in Seq(EventType)
    BY DEF EventType
  <2>2. journal' \in [Run -> Seq(EventType)]
    <3>1. Logged(c.run, <<"state.values">>) \in [Run -> Seq(EventType)]
      BY <1>14, <2>1, LoggedType
    <3>2. Logged(c.run, <<"state.values", "interrupt.created">>) \in [Run -> Seq(EventType)]
      BY <1>14, <2>1, LoggedType
    <3> QED  BY <1>17, <3>1, <3>2 DEF GraphChunk
  <2>3. interrupted' \in BOOLEAN
    BY <1>17 DEF GraphChunk
  <2> QED  BY <1>17, <2>2, <2>3 DEF GraphChunk, commands
<1>18. ASSUME NEW c \in receipt, NEW event \in EndEvent,
              TaskEnds(c, event) \/ TaskCannotStore(c, event) \/ TaskThreadMissing(c, event)
       PROVE  TypeOK'
  <2>1. runs' \in [Run -> RunStatus \cup {"absent", "deleted"}]
    <3>1. "error" \in RunStatus /\ StatusOf(event) \in RunStatus
      BY StatusOfType DEF RunStatus
    <3> QED  BY <1>18, <3>1 DEF TaskEnds, TaskCannotStore, TaskThreadMissing
  <2>2. threads' \in [Thread -> ThreadStatus \cup {"absent"}]
    <3>1. "idle" \in ThreadStatus /\ "interrupted" \in ThreadStatus
      BY DEF ThreadStatus
    <3> QED  BY <1>14, <1>18, <3>1, ThreadMarkedType
             DEF TaskEnds, TaskCannotStore, TaskThreadMissing
  <2>3. journal' \in [Run -> Seq(EventType)]
    <3>1. <<event>> \in Seq(EventType) /\ <<event, "run.failed">> \in Seq(EventType)
      BY DEF EventType, EndEvent
    <3>2. journal' = Logged(c.run, <<event>>) \/ journal' = Logged(c.run, <<event, "run.failed">>)
      BY <1>18 DEF TaskEnds, TaskCannotStore, TaskThreadMissing
    <3>3. Logged(c.run, <<event>>) \in [Run -> Seq(EventType)]
      BY <1>14, <3>1, LoggedType
    <3>4. Logged(c.run, <<event, "run.failed">>) \in [Run -> Seq(EventType)]
      BY <1>14, <3>1, LoggedType
    <3> QED  BY <3>2, <3>3, <3>4
  <2> QED  BY <1>18, <2>1, <2>2, <2>3
           DEF TaskEnds, TaskCannotStore, TaskThreadMissing, TaskOver
<1>19. CASE ShutdownBegins
  BY <1>19 DEF ShutdownBegins, store, commands
<1>20. CASE ShutdownCompletes
  BY <1>20 DEF ShutdownCompletes, store, execution
<1>21. CASE UNCHANGED vars
  BY <1>21 DEF vars, store, commands, execution
<1> QED
  BY <1>1, <1>2, <1>3, <1>4, <1>5, <1>7, <1>8, <1>10, <1>11, <1>12, <1>13, <1>15, <1>16,
     <1>17, <1>18, <1>19, <1>20, <1>21
  DEF Next, Client, Execute, Receives, TaskBegins, TaskFinishes

\* create_local_runtime() leaves a well-typed state.
LEMMA InitTyped == Init => TypeOK
<1>1. Init => journal \in [Run -> Seq(EventType)]
  BY DEF Init
<1>2. Init => threads \in [Thread -> ThreadStatus \cup {"absent"}]
  BY DEF Init
<1>3. Init => runs \in [Run -> RunStatus \cup {"absent", "deleted"}]
  BY DEF Init
<1>4. Init => queue \subseteq Command /\ sequence \in Nat /\ leases \subseteq Command
  BY DEF Init
<1> QED  BY <1>1, <1>2, <1>3, <1>4, Zenon DEF Init, TypeOK

\* The state of the local profile is well typed at all times.
THEOREM TypeCorrect == Spec => []TypeOK
BY InitTyped, TypeStep, PTL DEF Spec

-----------------------------------------------------------------------------
(* The inductive invariant *)

\* The loop awaits exactly one execution task or none, and a task that was
\* cancelled before it ran was cancelled by stop_worker.
TaskConsistent ==
  /\ task = "none" <=> receipt = {}
  /\ worker = "awaiting" <=> task # "none"
  /\ \A c, d \in receipt : c = d
  /\ taskCancelled => task = "executing" \/ shutdown # "no"

\* A run that is being streamed is running, unless a client cancelled it, and
\* then its task has been told, or deleted it.
StreamedRunConsistent ==
  \A r \in ActiveAdapters :
    /\ runs[r] \in {"running", "cancelled", "deleted"}
    /\ runs[r] = "cancelled" => taskCancelled

\* The loop and the run it streams.
ExecutionInv == TaskConsistent /\ StreamedRunConsistent /\ RunningRunIsExecuting

\* The threads and the runs that hold them.
ThreadInv == OneActiveRunPerThread /\ BusyThreadHasActiveRun

\* The commands of pending runs and the leases.
CommandInv == PendingRunHasCommand /\ LeasedCommandIsExecuting

IInv == TypeOK /\ ExecutionInv /\ ThreadInv /\ CommandInv

\* No step of a client, of the worker or of shutdown breaks the invariant.
LEMMA InvStep ==
  ASSUME IInv, [Next]_vars
  PROVE  IInv'
<1> USE LocalAssumption DEF store, commands, execution
<1>1. TypeOK /\ ExecutionInv /\ ThreadInv /\ CommandInv /\ TypeOK'
  BY TypeStep DEF IInv
<1>2. \A c \in receipt : c.run \in Run /\ (task = "executing" => ActiveAdapters = {c.run})
  BY <1>1 DEF TypeOK, Command, ExecutionInv, TaskConsistent, ActiveAdapters
<1>3. ASSUME NEW t \in Thread, CreateThread(t) \/ DeleteThread(t) PROVE IInv'
  <2>1. ExecutionInv'
    BY <1>1, <1>2, <1>3 DEF CreateThread, DeleteThread, TypeOK, ExecutionInv, TaskConsistent,
        StreamedRunConsistent, RunningRunIsExecuting, ActiveAdapters
  <2>2. ThreadInv'
    BY <1>1, <1>2, <1>3 DEF CreateThread, DeleteThread, TypeOK, ThreadInv,
        OneActiveRunPerThread, BusyThreadHasActiveRun, ActiveOn, Active
  <2>3. CommandInv'
    BY <1>1, <1>2, <1>3 DEF CreateThread, DeleteThread, TypeOK, CommandInv,
        PendingRunHasCommand, LeasedCommandIsExecuting
  <2> QED  BY <1>1, <2>1, <2>2, <2>3 DEF IInv
<1>4. ASSUME NEW r \in Run, DeleteRun(r) PROVE IInv'
  <2>1. ExecutionInv'
    BY <1>1, <1>2, <1>4 DEF DeleteRun, Stored, TypeOK, ExecutionInv, TaskConsistent,
        StreamedRunConsistent, RunningRunIsExecuting, ActiveAdapters
  <2>2. ThreadInv'
    BY <1>1, <1>2, <1>4 DEF DeleteRun, Stored, TypeOK, ThreadInv, OneActiveRunPerThread,
        BusyThreadHasActiveRun, ActiveOn, Active
  <2>3. CommandInv'
    BY <1>1, <1>2, <1>4 DEF DeleteRun, Stored, TypeOK, CommandInv, PendingRunHasCommand,
        LeasedCommandIsExecuting
  <2> QED  BY <1>1, <2>1, <2>2, <2>3 DEF IInv
<1>5. ASSUME NEW r \in Run, CancelRun(r) PROVE IInv'
  <2>1. ExecutionInv'
    <3>1. /\ r \in ActiveAdapters => task = "executing" /\ taskCancelled'
          /\ r \notin ActiveAdapters => taskCancelled' = taskCancelled
          /\ taskCancelled => taskCancelled'
      BY <1>1, <1>5 DEF CancelRun, AdapterCancels, ActiveAdapters, TypeOK
    <3>2. TaskConsistent'
      BY <1>1, <3>1, <1>5 DEF CancelRun, AdapterCancels, ExecutionInv, TaskConsistent
    <3>3. StreamedRunConsistent' /\ RunningRunIsExecuting'
      BY <1>1, <1>2, <3>1, <1>5 DEF CancelRun, AdapterCancels, TypeOK, ExecutionInv, StreamedRunConsistent,
         RunningRunIsExecuting, ActiveAdapters
    <3> QED  BY <3>2, <3>3 DEF ExecutionInv
  <2>2. ThreadInv'
    BY <1>1, <1>2, <1>5 DEF CancelRun, AdapterCancels, Stored, ThreadMarked, ThreadStored, TypeOK, ThreadInv,
        OneActiveRunPerThread, BusyThreadHasActiveRun, ActiveOn, Active
  <2>3. CommandInv'
    BY <1>1, <1>2, <1>5 DEF CancelRun, AdapterCancels, Stored, ThreadMarked, ThreadStored, TypeOK, CommandInv,
        PendingRunHasCommand, LeasedCommandIsExecuting
  <2> QED  BY <1>1, <2>1, <2>2, <2>3 DEF IInv
<1>6. ASSUME NEW r \in Run, StartRunRefused(r) PROVE IInv'
  <2>1. ExecutionInv'
    BY <1>1, <1>2, <1>6 DEF StartRunRefused, ThreadMarked, MayStart, TypeOK, ExecutionInv,
        TaskConsistent, StreamedRunConsistent, RunningRunIsExecuting, ActiveAdapters
  <2>2. ThreadInv'
    BY <1>1, <1>2, <1>6 DEF StartRunRefused, ThreadMarked, MayStart, TypeOK, ThreadInv,
        OneActiveRunPerThread, BusyThreadHasActiveRun, ActiveOn, Active
  <2>3. CommandInv'
    BY <1>1, <1>2, <1>6 DEF StartRunRefused, ThreadMarked, MayStart, TypeOK, CommandInv,
        PendingRunHasCommand, LeasedCommandIsExecuting
  <2> QED  BY <1>1, <2>1, <2>2, <2>3 DEF IInv
<1>7. ASSUME NEW r \in Run, StartRunOutbox(r) PROVE IInv'
  <2>1. ExecutionInv'
    BY <1>1, <1>2, <1>7 DEF StartRunOutbox, Creates, MayStart, ThreadMarked, TypeOK,
        ExecutionInv, TaskConsistent, StreamedRunConsistent, RunningRunIsExecuting,
        ActiveAdapters
  <2>2. ThreadInv'
    BY <1>1, <1>2, <1>7 DEF StartRunOutbox, Creates, MayStart, ThreadMarked, TypeOK, ThreadInv,
        OneActiveRunPerThread, BusyThreadHasActiveRun, ActiveOn, Active
  <2>3. CommandInv'
    BY <1>1, <1>2, <1>7 DEF StartRunOutbox, Creates, MayStart, ThreadMarked, TypeOK, CommandInv,
        PendingRunHasCommand, LeasedCommandIsExecuting
  <2> QED  BY <1>1, <2>1, <2>2, <2>3 DEF IInv
<1>8. ASSUME NEW r \in Run, StartRunQueueFailed(r) PROVE IInv'
  <2>1. ExecutionInv'
    BY <1>1, <1>2, <1>8 DEF StartRunQueueFailed, Creates, MayStart, ThreadMarked, TypeOK,
        ExecutionInv, TaskConsistent, StreamedRunConsistent, RunningRunIsExecuting,
        ActiveAdapters
  <2>2. ThreadInv'
    BY <1>1, <1>2, <1>8 DEF StartRunQueueFailed, Creates, MayStart, ThreadMarked, TypeOK,
        ThreadInv, OneActiveRunPerThread, BusyThreadHasActiveRun, ActiveOn, Active
  <2>3. CommandInv'
    BY <1>1, <1>2, <1>8 DEF StartRunQueueFailed, Creates, MayStart, ThreadMarked, TypeOK,
        CommandInv, PendingRunHasCommand, LeasedCommandIsExecuting
  <2> QED  BY <1>1, <2>1, <2>2, <2>3 DEF IInv
<1>9. ASSUME NEW r \in Run, NEW p \in Priority, StartRun(r, p) PROVE IInv'
  <2>1. ExecutionInv'
    BY <1>1, <1>2, <1>9 DEF StartRun, Publish, Creates, MayStart, ThreadMarked, TypeOK,
        ExecutionInv, TaskConsistent, StreamedRunConsistent, RunningRunIsExecuting,
        ActiveAdapters
  <2>2. ThreadInv'
    BY <1>1, <1>2, <1>9 DEF StartRun, Publish, Creates, MayStart, ThreadMarked, TypeOK,
        ThreadInv, OneActiveRunPerThread, BusyThreadHasActiveRun, ActiveOn, Active
  <2>3. CommandInv'
    <3> DEFINE command == [run |-> r, priority |-> p, sequence |-> sequence]
    <3>1. command \in queue' /\ queue \subseteq queue' /\ command.run = r
      BY <1>9 DEF StartRun, Publish
    <3> HIDE DEF command
    <3> QED  BY <1>1, <1>9, <3>1 DEF StartRun, Creates, TypeOK, CommandInv, PendingRunHasCommand,
             LeasedCommandIsExecuting
  <2> QED  BY <1>1, <2>1, <2>2, <2>3 DEF IInv
<1>10. ASSUME NEW r \in Run, NEW p \in Priority, ResumeRun(r, p) PROVE IInv'
  <2>1. ExecutionInv'
    BY <1>1, <1>2, <1>10 DEF ResumeRun, Publish, TypeOK, ExecutionInv, TaskConsistent,
        StreamedRunConsistent, RunningRunIsExecuting, ActiveAdapters
  <2>2. ThreadInv'
    BY <1>1, <1>2, <1>10 DEF ResumeRun, Publish, TypeOK, ThreadInv, OneActiveRunPerThread,
        BusyThreadHasActiveRun, ActiveOn, Active
  <2>3. CommandInv'
    BY <1>1, <1>2, <1>10 DEF ResumeRun, Publish, TypeOK, CommandInv, PendingRunHasCommand,
        LeasedCommandIsExecuting
  <2> QED  BY <1>1, <2>1, <2>2, <2>3 DEF IInv
<1>11. CASE StartWorker
  <2>1. ExecutionInv'
    BY <1>1, <1>2, <1>11 DEF StartWorker, TypeOK, ExecutionInv, TaskConsistent,
        StreamedRunConsistent, RunningRunIsExecuting, ActiveAdapters
  <2>2. ThreadInv'
    BY <1>1, <1>2, <1>11 DEF StartWorker, TypeOK, ThreadInv, OneActiveRunPerThread,
        BusyThreadHasActiveRun, ActiveOn, Active
  <2>3. CommandInv'
    BY <1>1, <1>2, <1>11 DEF StartWorker, TypeOK, CommandInv, PendingRunHasCommand,
        LeasedCommandIsExecuting, ExecutionInv, TaskConsistent
  <2> QED  BY <1>1, <2>1, <2>2, <2>3 DEF IInv
<1>12. ASSUME NEW c \in queue, WorkerReceive(c) \/ WorkerNoAdapter(c) PROVE IInv'
  <2>1. ExecutionInv'
    BY <1>1, <1>2, <1>12 DEF WorkerReceive, WorkerNoAdapter, Receive, TypeOK, ExecutionInv,
        TaskConsistent, StreamedRunConsistent, RunningRunIsExecuting, ActiveAdapters
  <2>2. ThreadInv'
    BY <1>1, <1>2, <1>12 DEF WorkerReceive, WorkerNoAdapter, Receive, TypeOK, ThreadInv,
        OneActiveRunPerThread, BusyThreadHasActiveRun, ActiveOn, Active
  <2>3. CommandInv'
    <3>1. PendingRunHasCommand'
      BY <1>1, <1>12
      DEF WorkerReceive, WorkerNoAdapter, Receive, TypeOK, CommandInv, PendingRunHasCommand
    <3>2. LeasedCommandIsExecuting'
      BY <1>1, <1>12 DEF WorkerReceive, WorkerNoAdapter, Receive, TypeOK, CommandInv,
         LeasedCommandIsExecuting, ExecutionInv, TaskConsistent
    <3> QED  BY <3>1, <3>2 DEF CommandInv
  <2> QED  BY <1>1, <2>1, <2>2, <2>3 DEF IInv
<1>13. ASSUME NEW c \in receipt, TaskNeverRan(c) \/ TaskSkips(c) \/ TaskRunMissing(c) PROVE IInv'
  <2>1. ExecutionInv'
    BY <1>1, <1>2, <1>13 DEF TaskNeverRan, TaskSkips, TaskRunMissing, TaskOver, TypeOK,
        ExecutionInv, TaskConsistent, StreamedRunConsistent, RunningRunIsExecuting,
        ActiveAdapters
  <2>2. ThreadInv'
    BY <1>1, <1>2, <1>13 DEF TaskNeverRan, TaskSkips, TaskRunMissing, TaskOver, TypeOK,
        ThreadInv, OneActiveRunPerThread, BusyThreadHasActiveRun, ActiveOn, Active
  <2>3. CommandInv'
    <3>1. PendingRunHasCommand'
      BY <1>1, <1>13 DEF TaskNeverRan, TaskSkips, TaskRunMissing, TaskOver, TypeOK, CommandInv,
         PendingRunHasCommand
    <3>2. LeasedCommandIsExecuting'
      BY <1>1, <1>13 DEF TaskNeverRan, TaskSkips, TaskRunMissing, TaskOver, TypeOK, CommandInv,
         LeasedCommandIsExecuting, ExecutionInv, TaskConsistent
    <3> QED  BY <3>1, <3>2 DEF CommandInv
  <2> QED  BY <1>1, <2>1, <2>2, <2>3 DEF IInv
<1>14. ASSUME NEW c \in receipt, TaskStarts(c) PROVE IInv'
  <2>1. ExecutionInv'
    <3>1. ActiveAdapters' = {c.run} /\ runs'[c.run] = "running"
      BY <1>1, <1>2, <1>14 DEF TaskStarts, StreamBegins, ActiveAdapters, TypeOK, ExecutionInv, TaskConsistent
    <3>2. StreamedRunConsistent'
      BY <3>1 DEF StreamedRunConsistent
    <3>3. TaskConsistent'
      BY <1>1, <1>14 DEF TaskStarts, StreamBegins, TypeOK, ExecutionInv, TaskConsistent
    <3>4. RunningRunIsExecuting'
      BY <1>1, <3>1, <1>14 DEF TaskStarts, StreamBegins, TypeOK, ExecutionInv, RunningRunIsExecuting, ActiveAdapters
    <3> QED  BY <3>2, <3>3, <3>4 DEF ExecutionInv
  <2>2. ThreadInv'
    BY <1>1, <1>2, <1>14 DEF TaskStarts, StreamBegins, TypeOK, ThreadInv, OneActiveRunPerThread,
        BusyThreadHasActiveRun, ActiveOn, Active
  <2>3. CommandInv'
    BY <1>1, <1>2, <1>14 DEF TaskStarts, StreamBegins, TypeOK, CommandInv, PendingRunHasCommand,
        LeasedCommandIsExecuting, ExecutionInv, TaskConsistent
  <2> QED  BY <1>1, <2>1, <2>2, <2>3 DEF IInv
<1>15. ASSUME NEW c \in receipt, GraphChunk(c) PROVE IInv'
  <2>1. ExecutionInv'
    BY <1>1, <1>2, <1>15 DEF GraphChunk, TypeOK, ExecutionInv, TaskConsistent,
        StreamedRunConsistent, RunningRunIsExecuting, ActiveAdapters
  <2>2. ThreadInv'
    BY <1>1, <1>2, <1>15 DEF GraphChunk, TypeOK, ThreadInv, OneActiveRunPerThread,
        BusyThreadHasActiveRun, ActiveOn, Active
  <2>3. CommandInv'
    BY <1>1, <1>2, <1>15 DEF GraphChunk, TypeOK, CommandInv, PendingRunHasCommand,
        LeasedCommandIsExecuting
  <2> QED  BY <1>1, <2>1, <2>2, <2>3 DEF IInv
<1>16. ASSUME NEW c \in receipt, NEW event \in EndEvent, TaskEnds(c, event) PROVE IInv'
  <2>1. /\ c.run \in Run /\ runs[c.run] \in {"running", "cancelled", "deleted"}
        /\ runs[c.run] = "cancelled" => event = "run.cancelled"
        /\ \A r \in Run : runs[r] = "running" => r = c.run
    BY <1>1, <1>2, <1>16, StreamEndType
    DEF TaskEnds, Streaming, ExecutionInv, StreamedRunConsistent, RunningRunIsExecuting
  <2>2. \E status \in RunStatus :
          /\ runs' = [runs EXCEPT ![c.run] = status]
          /\ status \notin {"pending", "running"}
          /\ status = "interrupted" => runs[c.run] = "running" /\ event = "run.interrupted"
          /\ event = "run.interrupted" => status = "interrupted"
    BY <2>1, <1>16, StatusOfType DEF TaskEnds, Stored, RunStatus, Terminal, StatusOf
  <2>3. ExecutionInv'
    <3>1. \A r \in Run : runs'[r] # "running"
      BY <1>1, <2>1, <2>2 DEF TypeOK
    <3> QED  BY <1>1, <1>16, <3>1 DEF TaskEnds, TaskOver, ExecutionInv, TaskConsistent,
             StreamedRunConsistent, RunningRunIsExecuting, ActiveAdapters
  <2>4. ThreadInv'
    <3>1. OneActiveRunPerThread'
      BY <1>1, <2>1, <2>2 DEF TypeOK, ThreadInv, OneActiveRunPerThread, Active
    <3>2. BusyThreadHasActiveRun'
      BY <1>1, <2>1, <2>2, <1>16
      DEF TaskEnds, ThreadMarked, TypeOK, ThreadInv, BusyThreadHasActiveRun, ActiveOn, Active
    <3> QED  BY <3>1, <3>2 DEF ThreadInv
  <2>5. CommandInv'
    BY <1>1, <2>1, <2>2, <1>16 DEF TaskEnds, TaskOver, TypeOK, CommandInv, PendingRunHasCommand,
       LeasedCommandIsExecuting, ExecutionInv, TaskConsistent
  <2> QED  BY <1>1, <2>3, <2>4, <2>5 DEF IInv
<1>17. ASSUME NEW c \in receipt, NEW event \in EndEvent, TaskCannotStore(c, event) PROVE IInv'
  <2>1. /\ c.run \in Run /\ runs[c.run] \in {"running", "cancelled", "deleted"}
        /\ runs[c.run] = "cancelled" => event = "run.cancelled"
        /\ \A r \in Run : runs[r] = "running" => r = c.run
    BY <1>1, <1>2, <1>17, StreamEndType
    DEF TaskCannotStore, Streaming, ExecutionInv, StreamedRunConsistent, RunningRunIsExecuting
  <2>2. runs' = runs /\ runs[c.run] # "running"
    BY <1>1, <2>1, <1>17, StatusOfType
    DEF TaskCannotStore, Stored, CanStore, CanChange, Terminal, RunStatus
  <2>3. ExecutionInv'
    <3>1. \A r \in Run : runs'[r] # "running"
      BY <1>1, <2>1, <2>2 DEF TypeOK
    <3> QED  BY <1>1, <1>17, <3>1 DEF TaskCannotStore, TaskOver, ExecutionInv, TaskConsistent,
             StreamedRunConsistent, RunningRunIsExecuting, ActiveAdapters
  <2>4. ThreadInv'
    BY <1>1, <2>1, <2>2, <1>17 DEF TaskCannotStore, ThreadMarked, TypeOK, ThreadInv,
       OneActiveRunPerThread, BusyThreadHasActiveRun, ActiveOn
  <2>5. CommandInv'
    BY <1>1, <2>1, <2>2, <1>17 DEF TaskCannotStore, TaskOver, TypeOK, CommandInv,
       PendingRunHasCommand, LeasedCommandIsExecuting
  <2> QED  BY <1>1, <2>3, <2>4, <2>5 DEF IInv
<1>18. ASSUME NEW c \in receipt, NEW event \in EndEvent, TaskThreadMissing(c, event) PROVE IInv'
  <2>1. /\ c.run \in Run /\ runs[c.run] \in {"running", "cancelled", "deleted"}
        /\ runs[c.run] = "cancelled" => event = "run.cancelled"
        /\ \A r \in Run : runs[r] = "running" => r = c.run
    BY <1>1, <1>2, <1>18, StreamEndType
    DEF TaskThreadMissing, Streaming, ExecutionInv, StreamedRunConsistent, RunningRunIsExecuting
  <2>2. \E status \in RunStatus :
          runs' = [runs EXCEPT ![c.run] = status] /\ status \notin {"pending", "running", "interrupted"}
    BY <2>1, <1>18, StatusOfType DEF TaskThreadMissing, Terminal, RunStatus
  <2>3. ExecutionInv'
    <3>1. \A r \in Run : runs'[r] # "running"
      BY <1>1, <2>1, <2>2 DEF TypeOK
    <3> QED  BY <1>1, <1>18, <3>1 DEF TaskThreadMissing, TaskOver, ExecutionInv, TaskConsistent,
             StreamedRunConsistent, RunningRunIsExecuting, ActiveAdapters
  <2>4. ThreadInv'
    <3>1. OneActiveRunPerThread'
      BY <1>1, <2>1, <2>2 DEF TypeOK, ThreadInv, OneActiveRunPerThread, Active
    <3>2. BusyThreadHasActiveRun'
      BY <1>1, <2>1, <2>2, <1>18 DEF TaskThreadMissing, ThreadStored, TypeOK, ThreadInv,
         BusyThreadHasActiveRun, ActiveOn, Active
    <3> QED  BY <3>1, <3>2 DEF ThreadInv
  <2>5. CommandInv'
    BY <1>1, <2>1, <2>2, <1>18 DEF TaskThreadMissing, TaskOver, TypeOK, CommandInv,
       PendingRunHasCommand, LeasedCommandIsExecuting
  <2> QED  BY <1>1, <2>3, <2>4, <2>5 DEF IInv
<1>19. CASE ShutdownBegins
  <2>1. ExecutionInv'
    BY <1>1, <1>2, <1>19 DEF ShutdownBegins, TypeOK, ExecutionInv, TaskConsistent,
        StreamedRunConsistent, RunningRunIsExecuting, ActiveAdapters
  <2>2. ThreadInv'
    BY <1>1, <1>2, <1>19 DEF ShutdownBegins, TypeOK, ThreadInv, OneActiveRunPerThread,
        BusyThreadHasActiveRun, ActiveOn, Active
  <2>3. CommandInv'
    BY <1>1, <1>2, <1>19 DEF ShutdownBegins, TypeOK, CommandInv, PendingRunHasCommand,
        LeasedCommandIsExecuting, ExecutionInv, TaskConsistent
  <2> QED  BY <1>1, <2>1, <2>2, <2>3 DEF IInv
<1>20. CASE ShutdownCompletes
  <2>1. ExecutionInv'
    BY <1>1, <1>2, <1>20 DEF ShutdownCompletes, TypeOK, ExecutionInv, TaskConsistent,
        StreamedRunConsistent, RunningRunIsExecuting, ActiveAdapters
  <2>2. ThreadInv'
    BY <1>1, <1>2, <1>20 DEF ShutdownCompletes, TypeOK, ThreadInv, OneActiveRunPerThread,
        BusyThreadHasActiveRun, ActiveOn, Active
  <2>3. CommandInv'
    BY <1>1, <1>2, <1>20 DEF ShutdownCompletes, TypeOK, CommandInv, PendingRunHasCommand,
        LeasedCommandIsExecuting, ExecutionInv, TaskConsistent
  <2> QED  BY <1>1, <2>1, <2>2, <2>3 DEF IInv
<1>21. CASE UNCHANGED vars
  <2>1. ExecutionInv'
    BY <1>1, <1>2, <1>21 DEF vars, TypeOK, ExecutionInv, TaskConsistent, StreamedRunConsistent,
        RunningRunIsExecuting, ActiveAdapters
  <2>2. ThreadInv'
    BY <1>1, <1>2, <1>21 DEF vars, TypeOK, ThreadInv, OneActiveRunPerThread,
        BusyThreadHasActiveRun, ActiveOn, Active
  <2>3. CommandInv'
    BY <1>1, <1>2, <1>21 DEF vars, TypeOK, CommandInv, PendingRunHasCommand,
        LeasedCommandIsExecuting
  <2> QED  BY <1>1, <2>1, <2>2, <2>3 DEF IInv
<1> QED
  BY <1>3, <1>4, <1>5, <1>6, <1>7, <1>8, <1>9, <1>10, <1>11, <1>12, <1>13, <1>14, <1>15, <1>16,
     <1>17, <1>18, <1>19, <1>20, <1>21
  DEF Next, Client, Execute, Receives, TaskBegins, TaskFinishes

\* The invariant holds at all times.
THEOREM Invariance == Spec => []IInv
<1>1. Init => IInv
  <2>1. Init => TypeOK
    BY InitTyped
  <2>2. Init => ExecutionInv
    BY DEF Init, ExecutionInv, TaskConsistent, StreamedRunConsistent, RunningRunIsExecuting,
       ActiveAdapters
  <2>3. Init => ThreadInv /\ CommandInv
    BY DEF Init, ThreadInv, OneActiveRunPerThread, BusyThreadHasActiveRun, Active, CommandInv,
       PendingRunHasCommand, LeasedCommandIsExecuting
  <2> QED  BY <2>1, <2>2, <2>3 DEF IInv
<1> QED  BY <1>1, InvStep, PTL DEF Spec

\* No interleaving of starts, cancels, interrupts, resumes, deletes and
\* executions gives a thread two active runs, however many there are.
THEOREM ThreadsExclusive == Spec => []OneActiveRunPerThread
BY Invariance, PTL DEF IInv, ThreadInv

\* cancel_run finds the adapter of every run shown as running: no exit of
\* _execute_receipt leaves a run running without a task behind it.
THEOREM RunningIsExecuting == Spec => []RunningRunIsExecuting
BY Invariance, PTL DEF IInv, ExecutionInv

\* No pending run is without a command or an outbox message.
THEOREM PendingIsQueued == Spec => []PendingRunHasCommand
BY Invariance, PTL DEF IInv, CommandInv

\* Before the loop dies or is stopped every leased command is in the hands of
\* the execution task.
THEOREM LeasesAccounted == Spec => []LeasedCommandIsExecuting
BY Invariance, PTL DEF IInv, CommandInv

\* A thread whose runs nobody deletes is busy only while one of them is active.
THEOREM BusyIsActive == Spec => []BusyThreadHasActiveRun
BY Invariance, PTL DEF IInv, ThreadInv

-----------------------------------------------------------------------------
(* Refinement *)

\* Every step of the local profile is a step of the run lifecycle or leaves
\* the run repository alone.
LEMMA LifecycleStep ==
  ASSUME IInv, [Next]_vars
  PROVE  [Lifecycle!Next]_runs
<1> USE DEF store, commands, execution, Lifecycle!Next, Lifecycle!Becomes
<1>1. /\ TypeOK /\ ExecutionInv
      /\ \A c \in receipt : c.run \in Run /\ (task = "executing" => c.run \in ActiveAdapters)
  BY DEF IInv, TypeOK, Command, ActiveAdapters
<1>2. ASSUME NEW r \in Run, DeleteRun(r) PROVE Lifecycle!Delete(r)
  BY <1>2 DEF DeleteRun, Stored, RunStatus, Lifecycle!Delete, Lifecycle!RunStatus
<1>3. ASSUME NEW r \in Run, CancelRun(r) PROVE Lifecycle!Cancel(r)
  BY <1>3 DEF CancelRun, AdapterCancels, Stored, RunStatus, Terminal, Lifecycle!Cancel, Lifecycle!Active
<1>4. ASSUME NEW r \in Run, Creates(r) PROVE runs[r] = "absent" /\ Lifecycle!ThreadFree(r)
  BY <1>4 DEF Creates, MayStart, ActiveOn, Active, Lifecycle!ThreadFree, Lifecycle!Active
<1>5. ASSUME NEW r \in Run, StartRunOutbox(r) \/ StartRunQueueFailed(r) PROVE Lifecycle!Create(r)
  BY <1>4, <1>5 DEF StartRunOutbox, StartRunQueueFailed, Lifecycle!Create
<1>6. ASSUME NEW r \in Run, NEW p \in Priority, StartRun(r, p) PROVE Lifecycle!Create(r)
  BY <1>4, <1>6 DEF StartRun, Lifecycle!Create
<1>7. ASSUME NEW c \in receipt, TaskStarts(c) PROVE Lifecycle!Begin(c.run)
  BY <1>7 DEF TaskStarts, StreamBegins, Lifecycle!Begin
<1>8. ASSUME NEW c \in receipt, NEW event \in EndEvent,
             TaskEnds(c, event) \/ TaskThreadMissing(c, event)
      PROVE  Lifecycle!End(c.run) \/ Lifecycle!Cancel(c.run) \/ UNCHANGED runs
  <2>1. /\ runs[c.run] \in {"running", "cancelled"}
        /\ runs[c.run] = "cancelled" => event = "run.cancelled"
        /\ event \in {"run.completed", "run.interrupted", "run.failed", "run.cancelled"}
    BY <1>1, <1>8, StreamEndType DEF TaskEnds, TaskThreadMissing, Streaming, Stored, RunStatus,
       ExecutionInv, StreamedRunConsistent
  <2>2. \E status \in {"success", "error", "interrupted", "cancelled"} :
          /\ runs' = [runs EXCEPT ![c.run] = status]
          /\ status = "cancelled" <=> event = "run.cancelled"
    BY <1>8, <2>1 DEF TaskEnds, TaskThreadMissing, StatusOf
  <2>3. CASE runs[c.run] = "cancelled"
    BY <1>1, <2>1, <2>2, <2>3 DEF TypeOK
  <2>4. CASE runs[c.run] = "running"
    BY <2>2, <2>4 DEF Lifecycle!End, Lifecycle!Cancel, Lifecycle!Active
  <2> QED  BY <2>1, <2>3, <2>4
<1>9. ASSUME NEW c \in receipt, NEW event \in EndEvent, TaskCannotStore(c, event)
      PROVE  UNCHANGED runs
  BY <1>9 DEF TaskCannotStore
<1>10. CASE \/ \E t \in Thread : CreateThread(t) \/ DeleteThread(t)
            \/ \E r \in Run : StartRunRefused(r) \/ \E p \in Priority : ResumeRun(r, p)
            \/ StartWorker \/ Receives \/ ShutdownBegins \/ ShutdownCompletes \/ UNCHANGED vars
            \/ \E c \in receipt : \/ TaskNeverRan(c) \/ TaskSkips(c) \/ TaskRunMissing(c)
                                  \/ GraphChunk(c)
  <2>1. UNCHANGED runs
    BY <1>10
    DEF CreateThread, DeleteThread, StartRunRefused, ResumeRun, StartWorker, Receives,
        WorkerReceive, WorkerNoAdapter, Receive, ShutdownBegins, ShutdownCompletes, vars,
        TaskNeverRan, TaskSkips, TaskRunMissing, GraphChunk
  <2> QED  BY <2>1
<1> QED
  BY <1>1, <1>2, <1>3, <1>5, <1>6, <1>7, <1>8, <1>9, <1>10
  DEF Next, Client, Execute, TaskBegins, TaskFinishes

\* The run repository of the local profile implements the run lifecycle.
THEOREM LifecycleImplemented == Spec => ImplementsLifecycle
<1>1. Init => Lifecycle!Init
  BY DEF Init, Lifecycle!Init
<1> QED  BY <1>1, Invariance, LifecycleStep, PTL DEF Spec, ImplementsLifecycle, Lifecycle!Spec

-----------------------------------------------------------------------------
(* The journal and the status *)

\* The places of the ending events in a journal.
Ends(q) == {i \in 1..Len(q) : q[i] \in EndEvent}

Open == {"absent", "pending", "running"}

\* Journal q goes with a run of status st; quiet tells whether the queue is
\* closed, so that a run may have failed without an ending event.
Tells(q, st, quiet) ==
  /\ \A i \in Ends(q) : (\A j \in Ends(q) : j <= i) => st = StatusOf(q[i])
  /\ Ends(q) = {} => st \in Open \/ (st = "error" /\ quiet)
  /\ st \in Open => Ends(q) = {}

\* Beyond what its journal tells, a run that nobody deletes keeps its thread.
Kept(r) ==
  /\ Tells(journal[r], runs[r], closed)
  /\ runs[r] # "deleted"
  /\ runs[r] # "absent" /\ RunThread[r] # NoThread => threads[RunThread[r]] # "absent"

Lasting == {r \in Run : RunThread[r] \notin Disposable}

JournalInv == \A r \in Lasting : Kept(r)

\* Events that end nothing do not change what a journal tells.
LEMMA QuietEvents ==
  ASSUME NEW q \in Seq(EventType), NEW events \in Seq(EventType),
         \A i \in 1..Len(events) : events[i] \notin EndEvent,
         NEW st, NEW quiet, Tells(q, st, quiet)
  PROVE  Tells(q \o events, st, quiet)
<1> DEFINE u == q \o events
<1>1. Len(q) \in Nat /\ Len(events) \in Nat /\ Len(u) = Len(q) + Len(events)
  OBVIOUS
<1>2. \A i \in 1..Len(q) : u[i] = q[i]
  OBVIOUS
<1>3. \A i \in (Len(q) + 1)..Len(u) : u[i] \notin EndEvent
  <2> SUFFICES ASSUME NEW i \in (Len(q) + 1)..(Len(q) + Len(events)) PROVE u[i] \notin EndEvent
    BY <1>1
  <2>1. i - Len(q) \in 1..Len(events)
    BY <1>1
  <2>2. u[i] = events[i - Len(q)]
    BY <1>1
  <2> QED
    BY <2>1, <2>2
<1> HIDE DEF u
<1>4. Ends(u) = Ends(q)
  BY <1>1, <1>2, <1>3 DEF Ends
<1>5. \A i \in Ends(q) : u[i] = q[i]
  BY <1>2 DEF Ends
<1>6. Tells(u, st, quiet)
  BY <1>4, <1>5 DEF Tells
<1> QED
  BY <1>6 DEF u

\* A journal tells the status of the ending event appended to it.
LEMMA EndingEvent ==
  ASSUME NEW q \in Seq(EventType), NEW e \in EndEvent, NEW quiet
  PROVE  Tells(q \o <<e>>, StatusOf(e), quiet)
<1> DEFINE u == q \o <<e>>
           n == Len(q) + 1
<1>1. Len(q) \in Nat /\ n \in Nat /\ n >= 1 /\ Len(u) = n /\ u[n] = e
  OBVIOUS
<1>2. StatusOf(e) \notin Open
  BY StatusOfType DEF Open, RunStatus
<1> HIDE DEF u, n
<1>3. n \in Ends(u) /\ \A i \in Ends(u) : i \in Nat /\ i <= n
  BY <1>1 DEF Ends
<1>4. \A i \in Ends(u) : (\A j \in Ends(u) : j <= i) => i = n
  BY <1>1, <1>3
<1>5. Tells(u, StatusOf(e), quiet)
  BY <1>1, <1>2, <1>3, <1>4 DEF Tells
<1> QED
  BY <1>5 DEF u

\* A thread that nobody deletes stays, and so does a closed queue.
LEMMA ThreadsStay ==
  ASSUME IInv, [Next]_vars
  PROVE  /\ \A t \in Thread \ Disposable : threads[t] # "absent" => threads'[t] # "absent"
         /\ closed => closed'
<1> USE LocalAssumption DEF store, commands, execution
<1>1. TypeOK /\ \A c \in receipt : c.run \in Run
  BY DEF IInv, TypeOK, Command
<1>2. ASSUME NEW r \in Run, NEW st, st # "absent", threads' = ThreadMarked(r, st)
      PROVE  \A t \in Thread : threads[t] # "absent" => threads'[t] # "absent"
  BY <1>1, <1>2 DEF ThreadMarked, TypeOK
<1>3. ASSUME NEW t \in Thread, CreateThread(t) \/ DeleteThread(t)
      PROVE  (\A u \in Thread \ Disposable : threads[u] # "absent" => threads'[u] # "absent")
             /\ (closed => closed')
  BY <1>1, <1>3 DEF CreateThread, DeleteThread, TypeOK
<1>4. ASSUME NEW r \in Run, DeleteRun(r) \/ CancelRun(r) \/ StartRunRefused(r) \/ Execute(r)
                            \/ StartRunQueueFailed(r)
      PROVE  (\A u \in Thread \ Disposable : threads[u] # "absent" => threads'[u] # "absent")
             /\ (closed => closed')
  BY <1>2, <1>4 DEF DeleteRun, CancelRun, StartRunRefused, Execute, StartRunOutbox, StartRunQueueFailed,
                    Creates
<1>5. ASSUME NEW r \in Run, NEW p \in Priority, StartRun(r, p) \/ ResumeRun(r, p)
      PROVE  (\A u \in Thread \ Disposable : threads[u] # "absent" => threads'[u] # "absent")
             /\ (closed => closed')
  BY <1>2, <1>5 DEF StartRun, ResumeRun, Creates
<1>6. ASSUME NEW c \in receipt, NEW e \in EndEvent, TaskEnds(c, e)
      PROVE  (\A u \in Thread \ Disposable : threads[u] # "absent" => threads'[u] # "absent")
             /\ (closed => closed')
  BY <1>1, <1>2, <1>6 DEF TaskEnds, TaskOver
<1>7. ASSUME NEW c \in receipt, NEW e \in EndEvent, TaskCannotStore(c, e) \/ TaskThreadMissing(c, e)
      PROVE  (\A u \in Thread \ Disposable : threads[u] # "absent" => threads'[u] # "absent")
             /\ (closed => closed')
  BY <1>1, <1>2, <1>7 DEF TaskCannotStore, TaskThreadMissing, TaskOver
<1>8. ASSUME NEW c \in receipt,
             TaskNeverRan(c) \/ TaskSkips(c) \/ TaskRunMissing(c) \/ TaskStarts(c) \/ GraphChunk(c)
      PROVE  threads' = threads /\ closed' = closed
  BY <1>8 DEF TaskNeverRan, TaskSkips, TaskRunMissing, TaskStarts, GraphChunk, TaskOver
<1>9. CASE StartWorker \/ Receives \/ ShutdownBegins \/ ShutdownCompletes \/ UNCHANGED vars
  BY <1>9 DEF StartWorker, Receives, WorkerReceive, WorkerNoAdapter, Receive, ShutdownBegins,
              ShutdownCompletes, vars
<1> QED
  BY <1>3, <1>4, <1>5, <1>6, <1>7, <1>8, <1>9 DEF Next, Client, TaskBegins, TaskFinishes

\* A step does one of three things to the journal and the status of a run:
\* nothing at all,
LEMMA RunStays ==
  ASSUME NEW r \in Lasting, Kept(r), runs'[r] = runs[r], journal'[r] = journal[r],
         closed => closed',
         \A t \in Thread \ Disposable : threads[t] # "absent" => threads'[t] # "absent"
  PROVE  Kept(r)'
BY LocalAssumption DEF Kept, Lasting, Tells, Ends, Open

\* events that end nothing, while the run goes from one open status to the
\* next or its command is refused,
LEMMA RunGoesOn ==
  ASSUME TypeOK, NEW r \in Lasting, Kept(r), NEW events \in Seq(EventType),
         \A i \in 1..Len(events) : events[i] \notin EndEvent,
         journal'[r] = journal[r] \o events,
         \/ runs'[r] = runs[r]
         \/ runs[r] \in Open /\ runs'[r] \in Open \ {"absent"}
         \/ runs[r] = "absent" /\ runs'[r] = "error" /\ closed,
         closed => closed',
         runs'[r] # "absent" /\ RunThread[r] # NoThread => threads'[RunThread[r]] # "absent"
  PROVE  Kept(r)'
<1> DEFINE u == journal[r] \o events
<1>1. journal[r] \in Seq(EventType)
  BY DEF TypeOK, Lasting
<1>2. Tells(u, runs[r], closed)
  BY <1>1, QuietEvents DEF Kept
<1> HIDE DEF u
<1>3. Tells(u, runs'[r], closed')
  BY <1>2 DEF Tells, Open
<1>4. journal'[r] = u
  BY DEF u
<1>5. Tells(journal[r], runs[r], closed)'
  BY <1>3, <1>4 DEF Tells, Ends, Open
<1>6. runs'[r] # "deleted"
  BY DEF Kept, Open
<1> QED
  BY <1>5, <1>6 DEF Kept

\* or an ending event together with its status.
LEMMA RunEnds ==
  ASSUME TypeOK, NEW r \in Lasting, NEW e \in EndEvent,
         journal'[r] = journal[r] \o <<e>>, runs'[r] = StatusOf(e),
         RunThread[r] # NoThread => threads'[RunThread[r]] # "absent"
  PROVE  Kept(r)'
<1> DEFINE u == journal[r] \o <<e>>
           st == StatusOf(e)
<1>1. journal[r] \in Seq(EventType)
  BY DEF TypeOK, Lasting
<1>2. Tells(u, st, closed')
  BY <1>1, EndingEvent
<1>3. st \in RunStatus
  BY StatusOfType
<1>4. st # "deleted"
  BY <1>3 DEF RunStatus
<1>5. journal'[r] = u /\ runs'[r] = st
  OBVIOUS
<1> HIDE DEF u, st
<1>6. Tells(journal[r], runs[r], closed)'
  BY <1>2, <1>5 DEF Tells, Ends, Open
<1> QED
  BY <1>4, <1>5, <1>6 DEF Kept

\* No step of a client, of the worker or of shutdown makes a journal lie.
LEMMA JournalStep ==
  ASSUME IInv, JournalInv, [Next]_vars
  PROVE  JournalInv'
<1> SUFFICES ASSUME NEW r \in Lasting PROVE Kept(r)'
  BY LocalAssumption DEF JournalInv, Lasting
<1> USE LocalAssumption DEF store, commands, execution
<1>1. /\ TypeOK /\ ExecutionInv /\ Kept(r) /\ r \in Run /\ RunThread[r] \notin Disposable
      /\ \A c \in receipt : c.run \in Run
  BY DEF IInv, TypeOK, Command, JournalInv, Lasting
<1>2. /\ \A t \in Thread \ Disposable : threads[t] # "absent" => threads'[t] # "absent"
      /\ closed => closed'
  BY ThreadsStay
<1>3. ASSUME runs'[r] = runs[r], journal'[r] = journal[r] PROVE Kept(r)'
  BY <1>1, <1>2, <1>3, RunStays
<1>4. RunThread[r] # NoThread /\ threads[RunThread[r]] # "absent" => threads'[RunThread[r]] # "absent"
  BY <1>1, <1>2
<1>5. ASSUME NEW s \in Run, NEW events, journal' = Logged(s, events)
      PROVE  /\ s # r => journal'[r] = journal[r]
             /\ s = r => journal'[r] = journal[r] \o events
  BY <1>1, <1>5 DEF Logged, TypeOK
<1>6. ASSUME NEW s \in Run, NEW st, runs' = [runs EXCEPT ![s] = st]
      PROVE  /\ s # r => runs'[r] = runs[r]
             /\ s = r => runs'[r] = st
  BY <1>1, <1>6 DEF TypeOK
<1>7. ASSUME NEW t \in Thread, CreateThread(t) \/ DeleteThread(t) PROVE Kept(r)'
  BY <1>3, <1>7 DEF CreateThread, DeleteThread
<1>8. ASSUME NEW s \in Run, DeleteRun(s) PROVE Kept(r)'
  BY <1>1, <1>3, <1>6, <1>8 DEF DeleteRun
<1>9. ASSUME NEW s \in Run, StartRunRefused(s) PROVE Kept(r)'
  BY <1>3, <1>9 DEF StartRunRefused
<1>10. ASSUME NEW s \in Run, CancelRun(s) PROVE Kept(r)'
  <2>1. CASE s # r
    BY <1>3, <1>5, <1>6, <1>10, <2>1 DEF CancelRun
  <2>2. CASE s = r
    <3>1. runs[r] # "absent"
      BY <1>10, <2>2 DEF CancelRun, Stored, RunStatus
    <3>2. RunThread[r] # NoThread => threads[RunThread[r]] # "absent"
      BY <1>1, <3>1 DEF Kept
    <3>3. journal' = Logged(r, <<"run.cancelled">>) /\ runs' = [runs EXCEPT ![r] = "cancelled"]
      BY <1>10, <2>2, <3>2 DEF CancelRun, ThreadStored
    <3>4. "run.cancelled" \in EndEvent /\ StatusOf("run.cancelled") = "cancelled"
      BY DEF EndEvent, StatusOf
    <3>5. journal'[r] = journal[r] \o <<"run.cancelled">> /\ runs'[r] = "cancelled"
      BY <1>1, <1>5, <1>6, <3>3
    <3> QED
      BY <1>1, <1>4, <3>2, <3>4, <3>5, RunEnds
  <2> QED
    BY <2>1, <2>2
<1>11. <<"run.queued">> \in Seq(EventType) /\ \A i \in 1..Len(<<"run.queued">>) : <<"run.queued">>[i] \notin EndEvent
  BY DEF EventType, EndEvent
<1>12. ASSUME NEW s \in Run, NEW st, Creates(s), runs' = [runs EXCEPT ![s] = st],
              threads' \in {ThreadMarked(s, "busy"), ThreadMarked(s, "error")},
              st = "pending" \/ (st = "error" /\ closed)
       PROVE  Kept(r)'
  <2>1. journal' = Logged(s, <<"run.queued">>) /\ runs[s] = "absent"
    BY <1>12 DEF Creates, MayStart
  <2>2. CASE s # r
    BY <1>3, <1>5, <1>6, <1>12, <2>1, <2>2
  <2>3. CASE s = r
    <3>1. journal'[r] = journal[r] \o <<"run.queued">> /\ runs'[r] = st /\ runs[r] = "absent"
      BY <1>1, <1>5, <1>6, <1>12, <2>1, <2>3
    <3>2. RunThread[r] # NoThread => threads'[RunThread[r]] # "absent"
      BY <1>1, <1>12, <2>3 DEF ThreadMarked, TypeOK
    <3> QED
      BY <1>1, <1>2, <1>11, <1>12, <3>1, <3>2, RunGoesOn DEF Open
  <2> QED
    BY <2>2, <2>3
<1>13. ASSUME NEW s \in Run, Execute(s) \/ StartRunQueueFailed(s) PROVE Kept(r)'
  BY <1>12, <1>13 DEF Execute, StartRunOutbox, StartRunQueueFailed
<1>14. ASSUME NEW s \in Run, NEW p \in Priority, StartRun(s, p) PROVE Kept(r)'
  BY <1>12, <1>14 DEF StartRun
<1>15. ASSUME NEW s \in Run, NEW events \in Seq(EventType), journal' = Logged(s, events),
              \A i \in 1..Len(events) : events[i] \notin EndEvent,
              runs'[r] = runs[r] \/ (s = r /\ runs[r] = "pending" /\ runs'[r] = "running"),
              runs[s] # "absent"
       PROVE  Kept(r)'
  <2>1. CASE s # r
    BY <1>3, <1>5, <1>15, <2>1
  <2>2. CASE s = r
    <3>1. journal'[r] = journal[r] \o events
      BY <1>5, <1>15, <2>2
    <3>2. RunThread[r] # NoThread => threads'[RunThread[r]] # "absent"
      BY <1>1, <1>4, <1>15, <2>2 DEF Kept
    <3>3. runs'[r] = runs[r] \/ (runs[r] \in Open /\ runs'[r] \in Open \ {"absent"})
      BY <1>15 DEF Open
    <3> QED
      BY <1>1, <1>2, <1>15, <3>1, <3>2, <3>3, RunGoesOn
  <2> QED
    BY <2>1, <2>2
<1>16. ASSUME NEW s \in Run, NEW p \in Priority, ResumeRun(s, p) PROVE Kept(r)'
  <2>1. journal' = Logged(s, <<"run.queued">>) /\ runs' = runs /\ runs[s] # "absent"
    BY <1>16 DEF ResumeRun
  <2> QED
    BY <1>11, <1>15, <2>1
<1>17. ASSUME NEW c \in receipt, TaskStarts(c) PROVE Kept(r)'
  <2>1. /\ journal' = Logged(c.run, <<"run.started">>) /\ runs[c.run] = "pending"
        /\ runs' = [runs EXCEPT ![c.run] = "running"]
    BY <1>17 DEF TaskStarts, StreamBegins
  <2>2. <<"run.started">> \in Seq(EventType) /\ \A i \in 1..Len(<<"run.started">>) : <<"run.started">>[i] \notin EndEvent
    BY DEF EventType, EndEvent
  <2>3. runs'[r] = runs[r] \/ (c.run = r /\ runs[r] = "pending" /\ runs'[r] = "running")
    BY <1>1, <1>6, <2>1
  <2> QED
    BY <1>1, <1>15, <2>1, <2>2, <2>3
<1>18. \A c \in receipt : task = "executing" => runs[c.run] \in {"running", "cancelled", "deleted"}
  BY <1>1 DEF ExecutionInv, StreamedRunConsistent, ActiveAdapters
<1>19. ASSUME NEW c \in receipt, GraphChunk(c) PROVE Kept(r)'
  <2> DEFINE one == <<"state.values">>
             two == <<"state.values", "interrupt.created">>
  <2>1. /\ one \in Seq(EventType) /\ \A i \in 1..Len(one) : one[i] \notin EndEvent
        /\ two \in Seq(EventType) /\ \A i \in 1..Len(two) : two[i] \notin EndEvent
    BY DEF EventType, EndEvent
  <2>2. /\ journal' = Logged(c.run, one) \/ journal' = Logged(c.run, two)
        /\ runs' = runs /\ runs[c.run] # "absent"
    BY <1>18, <1>19 DEF GraphChunk, Streaming
  <2> HIDE DEF one, two
  <2> QED
    BY <1>1, <1>15, <2>1, <2>2
<1>20. ASSUME NEW c \in receipt, NEW e \in EndEvent, TaskEnds(c, e) PROVE Kept(r)'
  <2>1. /\ journal' = Logged(c.run, <<e>>) /\ runs' = [runs EXCEPT ![c.run] = StatusOf(e)]
        /\ runs[c.run] # "absent"
    BY <1>18, <1>20 DEF TaskEnds, Streaming
  <2>2. CASE c.run # r
    BY <1>1, <1>3, <1>5, <1>6, <2>1, <2>2
  <2>3. CASE c.run = r
    <3>1. journal'[r] = journal[r] \o <<e>> /\ runs'[r] = StatusOf(e)
      BY <1>1, <1>5, <1>6, <2>1, <2>3
    <3>2. RunThread[r] # NoThread => threads'[RunThread[r]] # "absent"
      BY <1>1, <1>4, <2>1, <2>3 DEF Kept
    <3> QED
      BY <1>1, <3>1, <3>2, RunEnds
  <2> QED
    BY <2>2, <2>3
<1>21. ASSUME NEW c \in receipt, NEW e \in EndEvent, TaskCannotStore(c, e) \/ TaskThreadMissing(c, e)
       PROVE  Kept(r)'
  <2>1. c.run # r
    <3> SUFFICES ASSUME c.run = r PROVE FALSE
      OBVIOUS
    <3>1. r \in ActiveAdapters /\ e \in StreamEnd
      BY <1>21 DEF ActiveAdapters, Streaming, TaskCannotStore, TaskThreadMissing
    <3>2. /\ runs[r] \in {"running", "cancelled"}
          /\ runs[r] = "cancelled" => e = "run.cancelled"
      BY <1>1, <3>1, StreamEndType DEF ExecutionInv, StreamedRunConsistent, Kept
    <3>3. ThreadStored(r)
      BY <1>1, <3>2 DEF Kept, ThreadStored
    <3>4. Stored(r) /\ CanStore(runs[r], e)
      BY <3>2 DEF Stored, RunStatus, CanStore, CanChange, Terminal, StatusOf
    <3> QED
      BY <1>21, <3>3, <3>4 DEF TaskCannotStore, TaskThreadMissing
  <2>2. journal' = Logged(c.run, <<e>>) \/ journal' = Logged(c.run, <<e, "run.failed">>)
    BY <1>21 DEF TaskCannotStore, TaskThreadMissing
  <2>3. runs' = runs \/ \E st : runs' = [runs EXCEPT ![c.run] = st]
    BY <1>21 DEF TaskCannotStore, TaskThreadMissing
  <2>4. runs'[r] = runs[r] /\ journal'[r] = journal[r]
    <3>1. runs'[r] = runs[r]
      BY <1>1, <2>1, <2>3 DEF TypeOK
    <3>2. journal'[r] = journal[r]
      BY <1>1, <1>5, <2>1, <2>2
    <3> QED
      BY <3>1, <3>2
  <2> QED
    BY <1>3, <2>4
<1>22. ASSUME NEW c \in receipt, TaskNeverRan(c) \/ TaskSkips(c) \/ TaskRunMissing(c) PROVE Kept(r)'
  BY <1>3, <1>22 DEF TaskNeverRan, TaskSkips, TaskRunMissing
<1>23. CASE StartWorker \/ Receives \/ ShutdownBegins \/ ShutdownCompletes \/ UNCHANGED vars
  BY <1>3, <1>23 DEF StartWorker, Receives, WorkerReceive, WorkerNoAdapter, Receive, ShutdownBegins,
                     ShutdownCompletes, vars
<1> QED
  BY <1>7, <1>8, <1>9, <1>10, <1>13, <1>14, <1>16, <1>17, <1>19, <1>20, <1>21, <1>22, <1>23
     DEF Next, Client, TaskBegins, TaskFinishes

\* The last ending event in the journal of a run whose thread nobody deletes
\* is the status that the repository shows, and a run that has none has not
\* ended, save one whose command a closed queue refused.
THEOREM JournalIsTrue == Spec => []JournalTellsStatus
<1>1. Init => JournalInv
  <2> SUFFICES ASSUME Init, NEW r \in Lasting PROVE Kept(r)
    BY DEF JournalInv
  <2>1. journal[r] = <<>> /\ runs[r] = "absent"
    BY DEF Init, Lasting
  <2>2. Ends(journal[r]) = {}
    BY <2>1 DEF Ends
  <2> QED
    BY <2>1, <2>2 DEF Kept, Tells, Open
<1>2. IInv /\ JournalInv => JournalTellsStatus
  <2> SUFFICES ASSUME IInv, JournalInv, NEW r \in Lasting
               PROVE  LET ends == {i \in DOMAIN journal[r] : journal[r][i] \in EndEvent} IN
                      /\ \A i \in ends : (\A j \in ends : j <= i) => runs[r] = StatusOf(journal[r][i])
                      /\ ends = {} => \/ runs[r] \in {"absent", "pending", "running"}
                                      \/ runs[r] = "error" /\ closed
    BY DEF JournalTellsStatus, Lasting
  <2>1. {i \in DOMAIN journal[r] : journal[r][i] \in EndEvent} = Ends(journal[r])
    BY DEF IInv, TypeOK, Lasting, Ends
  <2>2. Tells(journal[r], runs[r], closed)
    BY DEF JournalInv, Kept
  <2> QED
    BY <2>1, <2>2 DEF Tells, Open
<1> QED
  BY <1>1, <1>2, Invariance, JournalStep, PTL DEF Spec
=============================================================================
