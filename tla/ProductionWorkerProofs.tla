----------------------- MODULE ProductionWorkerProofs -----------------------
(***************************************************************************)
(* Proofs about ProductionWorker for every set of runs, threads and        *)
(* partitions, finite or not, every number of permits and every bound on   *)
(* the faults: the unique index keeps a thread's runs apart, no run's      *)
(* graph is executed twice, permits are conserved, a busy thread is        *)
(* attended, an ended run is revived only where a cancellation raced, and  *)
(* without a fault no run is lost on its way to its end.                   *)
(***************************************************************************)
EXTENDS ProductionWorker, FiniteSetTheorems, TLAPS

-----------------------------------------------------------------------------
(* The inductive invariant *)

StartStep  == {"none", "checked", "marked", "created", "failing", "failed", "over"}
CancelStep == {"none", "read", "written", "over"}
TaskStep   == {"none", "read", "mark", "stream", "store", "write", "thread",
               "fail", "failwrite", "idle", "ack"}

\* What every variable holds.
TypeOK ==
  /\ threads \in [Thread -> ThreadStatus]
  /\ runs \in [Run -> RunStatus \cup {"absent"}]
  /\ start \in [Run -> StartStep] /\ cancel \in [Run -> CancelStep]
  /\ buffer \subseteq Command /\ log \in [Partition -> Seq(Command)]
  /\ committed \in [Partition -> Nat] /\ position \in [Partition -> Nat]
  /\ alive \in BOOLEAN /\ held \subseteq Command /\ permits \in Int
  /\ task \in [Command -> TaskStep] /\ outcome \in [Command -> GraphOutcome \cup {"none"}]
  /\ executions \in [Run -> Nat] /\ faults \in Nat

\* Where a command is: with the producer or in its partition.
LogOf(c) == log[PartitionOf[c.run]]
InLog(c) == \E i \in DOMAIN LogOf(c) : LogOf(c)[i] = c
Known(c) == c \in buffer \/ InLog(c)

Working == {c \in Command : task[c] # "none"}

\* What the worker is busy with was read from the log before its position.
Taken(c) == \E i \in DOMAIN LogOf(c) : i <= position[PartitionOf[c.run]] /\ LogOf(c)[i] = c

\* A command is sent once, after its run was created.
CommandsSentOnce ==
  /\ \A p \in Partition : \A i \in DOMAIN log[p] : PartitionOf[log[p][i].run] = p
  /\ \A p \in Partition : \A i, j \in DOMAIN log[p] : log[p][i] = log[p][j] => i = j
  /\ \A c \in buffer : ~InLog(c)
  /\ \A r \in Run : start[r] # "over" => ~Known([run |-> r, resume |-> FALSE])
  /\ \A c \in Command : Known(c) => start[c.run] \notin {"none", "checked", "marked"}

\* A run gets its row once and is never pending again afterwards.
RowsCreatedOnce ==
  /\ \A r \in Run : runs[r] # "absent" => start[r] \notin {"none", "checked", "marked"}
  /\ \A r \in Run : cancel[r] # "none" => runs[r] # "absent"
  /\ \A c \in Command : Known(c) /\ c.resume => runs[c.run] # "pending"

\* The worker has a command at most once.
CommandsTakenOnce ==
  /\ \A c \in Command : (c \in held \/ task[c] # "none") => Taken(c)
  /\ \A c \in held : task[c] = "none" /\ held = {c}

PermitsConserved ==
  /\ IsFiniteSet(Working)
  /\ permits + Cardinality(Working) = max_conc

\* Only the command that started a pending run gets past the first read.
ExecutedOnce ==
  /\ \A r \in Run : executions[r] <= 1
  /\ \A r \in Run : runs[r] \in {"absent", "pending"} => executions[r] = 0
  /\ \A c \in Command : c.resume => task[c] \in {"none", "read", "ack"}
  /\ \A c \in Command : task[c] = "mark" => executions[c.run] = 0

\* Between the start of the stream and the write that ends it.
Streaming == {"stream", "store", "write", "fail", "failwrite"}

\* Unless it is being cancelled, a run is as the last read of its writer saw it.
ReadsStillTrue ==
  /\ \A r \in Run : (cancel[r] = "none" /\ start[r] \in {"created", "failing"}) => runs[r] = "pending"
  /\ \A c \in Command : cancel[c.run] = "none" =>
       /\ task[c] = "mark" => runs[c.run] = "pending"
       /\ task[c] \in Streaming => runs[c.run] = "running"

StartFailsByFault ==
  \A r \in Run : start[r] \in {"failing", "failed"} => faults > 0

IInv ==
  /\ TypeOK /\ CommandsSentOnce /\ RowsCreatedOnce /\ CommandsTakenOnce
  /\ PermitsConserved /\ ExecutedOnce /\ ReadsStillTrue
  /\ OneActiveRunPerThread /\ StartFailsByFault /\ BusyThreadIsAttended

-----------------------------------------------------------------------------
(* Type correctness *)

\* Marking the thread of a run keeps the thread table well typed.
LEMMA ThreadSetType ==
  ASSUME TypeOK, NEW r \in Run, NEW status \in ThreadStatus, ThreadSet(r, status)
  PROVE  threads' \in [Thread -> ThreadStatus]
BY ProductionAssumption DEF ThreadSet, TypeOK

\* What an ending event makes of a run is a run status.
LEMMA StatusOfType ==
  ASSUME NEW event
  PROVE  StatusOf(event) \in RunStatus
BY DEF StatusOf, RunStatus

\* A command that is in the log has an offset there.
LEMMA OffsetType ==
  ASSUME TypeOK, NEW c \in Command, InLog(c)
  PROVE  Offset(c) \in Nat
<1>1. c.run \in Run /\ PartitionOf[c.run] \in Partition
  BY ProductionAssumption DEF Command
<1>2. Offset(c) \in DOMAIN log[PartitionOf[c.run]]
  BY DEF Offset, InLog, LogOf
<1> QED  BY <1>1, <1>2 DEF TypeOK

\* A fault is counted.
LEMMA FaultType ==
  ASSUME TypeOK, Fault
  PROVE  faults' \in Nat /\ faults' > 0
BY DEF TypeOK, Fault

\* Every step of the gateway and of the worker keeps the state well typed.
LEMMA TypeStep ==
  ASSUME TypeOK, CommandsTakenOnce, [Next]_vars
  PROVE  TypeOK'
<1> USE DEF TypeOK
<1>1. ASSUME NEW r \in Run, StartCheck(r) \/ StartRefused(r) \/ StartPublishFails(r) PROVE TypeOK'
  <2>1. CASE StartCheck(r) \/ StartRefused(r)
    BY <2>1 DEF StartCheck, StartRefused, StartTo, StartStep, rows, kafka, worker
  <2>2. CASE StartPublishFails(r)
    BY <2>2, FaultType DEF StartPublishFails, StartTo, StartStep, rows, kafka, worker
  <2> QED  BY <1>1, <2>1, <2>2
<1>2. ASSUME NEW r \in Run, StartMark(r) \/ StartFailThread(r) PROVE TypeOK'
  <2>1. threads' \in [Thread -> ThreadStatus]
    BY <1>2, ThreadSetType DEF StartMark, StartFailThread, ThreadStatus
  <2> QED  BY <1>2, <2>1 DEF StartMark, StartFailThread, StartTo, StartStep, kafka, worker
<1>3. ASSUME NEW r \in Run, StartCreate(r) \/ StartFailRun(r) PROVE TypeOK'
  <2>1. runs' \in [Run -> RunStatus \cup {"absent"}]
    BY <1>3 DEF StartCreate, StartFailRun, RunSet, RunStatus
  <2> QED  BY <1>3, <2>1 DEF StartCreate, StartFailRun, StartTo, StartStep, kafka, worker
<1>4. ASSUME NEW r \in Run, StartPublish(r) PROVE TypeOK'
  BY <1>4 DEF StartPublish, StartTo, StartStep, Command, rows, worker
<1>5. ASSUME NEW r \in Run, CancelRead(r) PROVE TypeOK'
  BY <1>5 DEF CancelRead, CancelTo, CancelStep, rows, kafka, worker
<1>6. ASSUME NEW r \in Run, CancelWrite(r) PROVE TypeOK'
  <2>1. runs' \in [Run -> RunStatus \cup {"absent"}]
    BY <1>6 DEF CancelWrite, RunSet, RunStatus
  <2> QED  BY <1>6, <2>1 DEF CancelWrite, CancelTo, CancelStep, kafka, worker
<1>7. ASSUME NEW r \in Run, CancelThread(r) PROVE TypeOK'
  <2>1. threads' \in [Thread -> ThreadStatus]
    BY <1>7, ThreadSetType DEF CancelThread, ThreadStatus
  <2> QED  BY <1>7, <2>1 DEF CancelThread, CancelTo, CancelStep, kafka, worker
<1>8. ASSUME NEW r \in Run, ResumeRun(r) PROVE TypeOK'
  BY <1>8 DEF ResumeRun, Command, rows, calls, worker
<1>9. ASSUME NEW c \in buffer, Deliver(c) PROVE TypeOK'
  <2>1. c \in Command /\ PartitionOf[c.run] \in Partition
    BY ProductionAssumption DEF Command
  <2>2. log' \in [Partition -> Seq(Command)]
    BY <1>9, <2>1 DEF Deliver
  <2> QED  BY <1>9, <2>2 DEF Deliver, rows, calls, worker
<1>10. CASE GatewayCrash
  BY <1>10 DEF GatewayCrash, Fault, StartStep, CancelStep, rows, worker
<1>11. ASSUME NEW p \in Partition, Receive(p) PROVE TypeOK'
  BY <1>11 DEF Receive, rows, calls, kafka
<1>12. ASSUME NEW c \in Command, Dispatch(c) PROVE TypeOK'
  BY <1>12 DEF Dispatch, TaskStep, rows, calls, kafka
<1>13. CASE LoopDies
  BY <1>13, FaultType DEF LoopDies, rows, calls, kafka
<1>14. CASE WorkerCrash
  <2>1. max_conc \in Int
    BY ProductionAssumption
  <2> QED  BY <1>14, <2>1 DEF WorkerCrash, Fault, TaskStep, rows, calls, kafka
<1>15. ASSUME NEW c \in Command,
              TaskRead(c) \/ StreamBreaks(c) \/ TaskStore(c) \/ TaskFail(c)
       PROVE  TypeOK'
  BY <1>15 DEF TaskRead, StreamBreaks, TaskStore, TaskFail, TaskTo, TaskStep, rows, calls, kafka
<1>16. ASSUME NEW c \in Command, TaskMark(c) PROVE TypeOK'
  <2>1. runs' \in [Run -> RunStatus \cup {"absent"}]
    BY <1>16 DEF TaskMark, RunSet, RunStatus
  <2>2. task' \in [Command -> TaskStep]
    BY <1>16 DEF TaskMark, TaskTo, TaskStep
  <2>3. executions' \in [Run -> Nat]
    BY <1>16 DEF TaskMark, Command
  <2> QED  BY <1>16, <2>1, <2>2, <2>3 DEF TaskMark, calls, kafka
<1>17. ASSUME NEW c \in Command, TaskMarkRefused(c) \/ TaskCrashes(c) PROVE TypeOK'
  <2>1. TypeOK' \/ faults' \notin Nat
    BY <1>17 DEF TaskMarkRefused, TaskCrashes, TaskRaises, TaskStep, rows, calls, kafka
  <2>2. faults' \in Nat
    BY <1>17, FaultType DEF TaskMarkRefused, TaskCrashes
  <2> QED  BY <2>1, <2>2
<1>18. ASSUME NEW c \in Command, NEW event \in GraphOutcome, GraphEnds(c, event) PROVE TypeOK'
  BY <1>18 DEF GraphEnds, TaskTo, TaskStep, rows, calls, kafka
<1>19. ASSUME NEW c \in Command, TaskWrite(c) PROVE TypeOK'
  <2>1. runs' \in [Run -> RunStatus \cup {"absent"}]
    BY <1>19, StatusOfType DEF TaskWrite, RunSet
  <2>2. task' \in [Command -> TaskStep]
    BY <1>19 DEF TaskWrite, TaskTo, TaskStep
  <2> QED  BY <1>19, <2>1, <2>2 DEF TaskWrite, calls, kafka
<1>20. ASSUME NEW c \in Command, TaskThread(c) \/ TaskIdle(c) PROVE TypeOK'
  <2>1. c.run \in Run
    BY DEF Command
  <2>2. "idle" \in ThreadStatus /\ "interrupted" \in ThreadStatus
    BY DEF ThreadStatus
  <2>3. threads' \in [Thread -> ThreadStatus]
    BY <1>20, <2>1, <2>2, ThreadSetType DEF TaskThread, TaskIdle
  <2> QED  BY <1>20, <2>3 DEF TaskThread, TaskIdle, TaskTo, TaskStep, calls, kafka
<1>21. ASSUME NEW c \in Command, TaskFailWrite(c) PROVE TypeOK'
  <2>1. runs' \in [Run -> RunStatus \cup {"absent"}]
    BY <1>21 DEF TaskFailWrite, RunSet, RunStatus
  <2> QED  BY <1>21, <2>1 DEF TaskFailWrite, TaskTo, TaskStep, calls, kafka
<1>22. ASSUME NEW c \in Command, TaskAck(c) PROVE TypeOK'
  <2>1. InLog(c)
    BY <1>22 DEF TaskAck, TaskTo, CommandsTakenOnce, Taken, InLog
  <2>2. committed' \in [Partition -> Nat]
    BY <1>22, <2>1, OffsetType DEF TaskAck
  <2>3. /\ task' \in [Command -> TaskStep] /\ permits' \in Int
        /\ outcome' \in [Command -> GraphOutcome \cup {"none"}]
    BY <1>22 DEF TaskAck, TaskTo, TaskStep
  <2> QED  BY <1>22, <2>2, <2>3 DEF TaskAck, rows, calls
<1>23. CASE UNCHANGED vars
  BY <1>23 DEF vars, rows, calls, kafka, worker
<1> QED
  BY <1>1, <1>2, <1>3, <1>4, <1>5, <1>6, <1>7, <1>8, <1>9, <1>10, <1>11, <1>12,
     <1>13, <1>14, <1>15, <1>16, <1>17, <1>18, <1>19, <1>20, <1>21, <1>22, <1>23
  DEF Next, Gateway, Worker, StartGoesOn, CancelGoesOn, TaskGoesOn

-----------------------------------------------------------------------------
(* What the steps leave alone *)

\* The steps of one execution move its task, and give the permit back exactly
\* when they end it.
LEMMA TaskFrame ==
  ASSUME TypeOK, NEW c \in Command, TaskGoesOn(c) \/ TaskCrashes(c)
  PROVE  /\ task[c] # "none"
         /\ \E to \in TaskStep :
              /\ task' = [task EXCEPT ![c] = to]
              /\ permits' = IF to = "none" THEN permits + 1 ELSE permits
         /\ UNCHANGED <<calls, buffer, log, alive, position, held>>
<1> USE DEF TaskStep, TaskTo, calls, kafka
<1>1. CASE TaskRead(c)
  BY <1>1 DEF TaskRead
<1>2. CASE TaskMark(c)
  BY <1>2 DEF TaskMark
<1>3. CASE TaskMarkRefused(c)
  BY <1>3 DEF TaskMarkRefused, TaskRaises
<1>4. ASSUME NEW event \in GraphOutcome, GraphEnds(c, event)
      PROVE  /\ task[c] # "none"
             /\ \E to \in TaskStep :
                  /\ task' = [task EXCEPT ![c] = to]
                  /\ permits' = IF to = "none" THEN permits + 1 ELSE permits
             /\ UNCHANGED <<calls, buffer, log, alive, position, held>>
  BY <1>4 DEF GraphEnds
<1>5. CASE StreamBreaks(c)
  BY <1>5 DEF StreamBreaks
<1>6. CASE TaskStore(c)
  BY <1>6 DEF TaskStore
<1>7. CASE TaskWrite(c)
  BY <1>7 DEF TaskWrite
<1>8. CASE TaskThread(c)
  BY <1>8 DEF TaskThread
<1>9. CASE TaskFail(c)
  BY <1>9 DEF TaskFail
<1>10. CASE TaskFailWrite(c)
  BY <1>10 DEF TaskFailWrite
<1>11. CASE TaskIdle(c)
  BY <1>11 DEF TaskIdle
<1>12. CASE TaskAck(c)
  BY <1>12 DEF TaskAck
<1>13. CASE TaskCrashes(c)
  BY <1>13 DEF TaskCrashes, TaskRaises
<1> QED
  BY <1>1, <1>2, <1>3, <1>4, <1>5, <1>6, <1>7, <1>8, <1>9, <1>10, <1>11, <1>12, <1>13
  DEF TaskGoesOn

\* The statements that write a run's status.
WritesRun ==
  \/ \E r \in Run : StartCreate(r) \/ StartFailRun(r) \/ CancelWrite(r)
  \/ \E c \in Command : TaskMark(c) \/ TaskWrite(c) \/ TaskFailWrite(c)

\* Every other step leaves the runs as they are.
LEMMA RunsFrame ==
  ASSUME [Next]_vars
  PROVE  WritesRun \/ UNCHANGED runs
<1> USE DEF WritesRun, rows
<1>1. CASE Gateway
  BY <1>1 DEF Gateway, StartGoesOn, CancelGoesOn, StartCheck, StartMark, StartRefused, StartPublish,
     StartPublishFails, StartFailThread, CancelRead, CancelThread, ResumeRun, Deliver, GatewayCrash
<1>2. CASE Worker
  BY <1>2 DEF Worker, Receive, Dispatch, LoopDies, WorkerCrash, TaskGoesOn, TaskCrashes, TaskRaises,
     TaskRead, TaskMarkRefused, GraphEnds, StreamBreaks, TaskStore, TaskThread, TaskFail, TaskIdle, TaskAck
<1>3. CASE UNCHANGED vars
  BY <1>3 DEF vars
<1> QED  BY <1>1, <1>2, <1>3 DEF Next

\* Steps of the worker leave the gateway's calls and what it sent alone; only
\* its tasks, its receipts and a crash touch what the worker holds.
LEMMA WorkerFrame ==
  ASSUME TypeOK, Worker
  PROVE  /\ UNCHANGED <<calls, buffer, log>>
         /\ \/ \E p \in Partition : Receive(p)
            \/ \E c \in Command : Dispatch(c) \/ TaskGoesOn(c) \/ TaskCrashes(c)
            \/ WorkerCrash
            \/ UNCHANGED <<position, held, permits, task, outcome, executions, runs, threads>>
BY TaskFrame DEF Worker, Receive, Dispatch, LoopDies, WorkerCrash, rows, calls, kafka

\* Steps of the gateway leave the worker alone.
LEMMA GatewayFrame ==
  ASSUME Gateway
  PROVE  UNCHANGED worker
BY DEF Gateway, StartGoesOn, CancelGoesOn, StartCheck, StartMark, StartCreate, StartRefused,
   StartPublish, StartPublishFails, StartFailRun, StartFailThread, CancelRead, CancelWrite,
   CancelThread, ResumeRun, Deliver, GatewayCrash, worker

-----------------------------------------------------------------------------
(* The index *)

\* A status that the index was asked for, or that is not active, leaves every
\* thread with at most one active run.
LEMMA IndexHolds ==
  ASSUME TypeOK, OneActiveRunPerThread,
         NEW r \in Run, NEW status, RunSet(r, status),
         status \in Active => IndexAllows(r)
  PROVE  OneActiveRunPerThread'
BY DEF TypeOK, OneActiveRunPerThread, RunSet, IndexAllows

\* Whatever was read before, no write gives a thread a second active run.
LEMMA IndexStep ==
  ASSUME TypeOK, OneActiveRunPerThread, [Next]_vars
  PROVE  OneActiveRunPerThread'
<1>1. ASSUME NEW r \in Run, StartCreate(r) \/ StartFailRun(r) \/ CancelWrite(r)
      PROVE  OneActiveRunPerThread'
  <2>1. "error" \notin Active /\ "cancelled" \notin Active
    BY DEF Active
  <2> QED  BY <1>1, <2>1, IndexHolds DEF StartCreate, StartFailRun, CancelWrite
<1>2. ASSUME NEW c \in Command, TaskMark(c) \/ TaskWrite(c) \/ TaskFailWrite(c)
      PROVE  OneActiveRunPerThread'
  <2>1. c.run \in Run /\ "error" \notin Active
    BY DEF Command, Active
  <2>2. CASE runs' = runs
    BY <2>2 DEF OneActiveRunPerThread
  <2>3. CASE TaskMark(c) \/ TaskFailWrite(c)
    BY <2>1, <2>3, IndexHolds DEF TaskMark, TaskFailWrite
  <2>4. CASE TaskWrite(c)
    <3>1. \/ runs' = runs
          \/ /\ RunSet(c.run, StatusOf(outcome[c]))
             /\ StatusOf(outcome[c]) \in Active => IndexAllows(c.run)
      BY <2>4 DEF TaskWrite
    <3> QED  BY <2>1, <2>2, <3>1, IndexHolds
  <2> QED  BY <1>2, <2>3, <2>4
<1>3. CASE UNCHANGED runs
  BY <1>3 DEF OneActiveRunPerThread
<1> QED  BY <1>1, <1>2, <1>3, RunsFrame DEF WritesRun

-----------------------------------------------------------------------------
(* Commands *)

\* A command is its run and whether it resumes it.
LEMMA CommandEqual ==
  ASSUME NEW c \in Command, NEW d \in Command, c.run = d.run, c.resume = d.resume
  PROVE  c = d
BY DEF Command

\* The places of a log that grew by a command.
LEMMA AppendPlaces ==
  ASSUME NEW S, NEW q \in Seq(S), NEW c \in S
  PROVE  /\ Append(q, c) \in Seq(S)
         /\ DOMAIN q = 1..Len(q) /\ DOMAIN Append(q, c) = 1..(Len(q) + 1)
         /\ \A i \in DOMAIN q : i \in DOMAIN Append(q, c) /\ Append(q, c)[i] = q[i]
         /\ \A i \in DOMAIN Append(q, c) : i \in DOMAIN q \/ i = Len(q) + 1
         /\ Append(q, c)[Len(q) + 1] = c
OBVIOUS

\* A command that is added to the buffer, or moved on to the log, is the only
\* one that becomes known.
LEMMA KnownAfterDeliver ==
  ASSUME TypeOK, CommandsSentOnce, NEW c \in buffer, Deliver(c)
  PROVE  /\ c \in Command /\ PartitionOf[c.run] \in Partition
         /\ \A d \in Command : InLog(d)' <=> (InLog(d) \/ d = c)
         /\ \A d \in Command : Known(d)' <=> Known(d)
<1>1. c \in Command /\ PartitionOf[c.run] \in Partition
  BY ProductionAssumption DEF TypeOK, Command
<1>2. log' = [log EXCEPT ![PartitionOf[c.run]] = Append(@, c)] /\ buffer' = buffer \ {c}
  BY DEF Deliver
<1>3. ASSUME NEW d \in Command
      PROVE  InLog(d)' <=> (InLog(d) \/ d = c)
  <2>1. PartitionOf[d.run] \in Partition
    BY ProductionAssumption DEF Command
  <2>2. CASE PartitionOf[d.run] # PartitionOf[c.run]
    BY <1>1, <1>2, <2>1, <2>2 DEF InLog, LogOf, TypeOK
  <2>3. CASE PartitionOf[d.run] = PartitionOf[c.run]
    <3> DEFINE q == log[PartitionOf[c.run]]
    <3>1. q \in Seq(Command) /\ log'[PartitionOf[c.run]] = Append(q, c)
      BY <1>1, <1>2 DEF TypeOK
    <3>2. (\E i \in DOMAIN Append(q, c) : Append(q, c)[i] = d) <=> ((\E i \in DOMAIN q : q[i] = d) \/ d = c)
      BY <1>1, <3>1
    <3> QED  BY <2>3, <3>1, <3>2 DEF InLog, LogOf
  <2> QED  BY <2>2, <2>3
<1>4. ASSUME NEW d \in Command
      PROVE  Known(d)' <=> Known(d)
  BY <1>2, <1>3 DEF Known
<1> QED  BY <1>1, <1>3, <1>4

\* Every command is sent once, and only after the row of its run is there.
LEMMA SentStep ==
  ASSUME TypeOK, CommandsSentOnce, RowsCreatedOnce, [Next]_vars
  PROVE  CommandsSentOnce'
<1> USE DEF TypeOK
<1>1. CASE UNCHANGED <<start, buffer, log>>
  BY <1>1 DEF CommandsSentOnce, Known, InLog, LogOf
<1>2. ASSUME UNCHANGED <<buffer, log>>,
             \A r \in Run : start[r] = "over" => start'[r] = "over",
             \A r \in Run : start[r] \notin {"none", "checked", "marked"}
                              => start'[r] \notin {"none", "checked", "marked"}
      PROVE  CommandsSentOnce'
  <2>1. \A c \in Command : c.run \in Run
    BY DEF Command
  <2> QED  BY <1>2, <2>1 DEF CommandsSentOnce, Known, InLog, LogOf
<1>3. ASSUME NEW r \in Run, NEW from \in StartStep, NEW to \in StartStep,
             StartTo(r, from, to), UNCHANGED <<buffer, log>>,
             from # "over", to \in {"none", "checked", "marked"} => from \in {"none", "checked", "marked"}
      PROVE  CommandsSentOnce'
  BY <1>2, <1>3 DEF StartTo
<1>4. ASSUME NEW r \in Run,
             \/ StartCheck(r) \/ StartMark(r) \/ StartCreate(r) \/ StartRefused(r)
             \/ StartPublishFails(r) \/ StartFailRun(r) \/ StartFailThread(r)
      PROVE  CommandsSentOnce'
  BY <1>3, <1>4 DEF StartCheck, StartMark, StartCreate, StartRefused, StartPublishFails, StartFailRun,
     StartFailThread, StartStep, kafka
<1>5. ASSUME NEW r \in Run, StartPublish(r) PROVE CommandsSentOnce'
  <2> DEFINE c == [run |-> r, resume |-> FALSE]
  <2>1. c \in Command /\ ~Known(c) /\ c.run = r
    BY <1>5 DEF Command, StartPublish, StartTo, CommandsSentOnce
  <2>2. \A d \in Command : InLog(d)' <=> InLog(d)
    BY <1>5 DEF StartPublish, InLog, LogOf
  <2>3. \A d \in Command : Known(d)' <=> (Known(d) \/ d = c)
    BY <1>5, <2>2 DEF StartPublish, Known
  <2>4. /\ start' = [start EXCEPT ![r] = "over"] /\ log' = log /\ buffer' = buffer \cup {c}
        /\ start[r] = "created"
    BY <1>5 DEF StartPublish, StartTo
  <2>5. \A d \in buffer' : ~InLog(d)'
    BY <2>1, <2>2, <2>4 DEF CommandsSentOnce, Known
  <2>6. \A s \in Run : start'[s] # "over" => ~Known([run |-> s, resume |-> FALSE])'
    <3>1. \A s \in Run : [run |-> s, resume |-> FALSE] \in Command
      BY DEF Command
    <3> QED  BY <2>3, <2>4, <3>1 DEF CommandsSentOnce
  <2>7. \A d \in Command : Known(d)' => start'[d.run] \notin {"none", "checked", "marked"}
    BY <2>1, <2>3, <2>4 DEF CommandsSentOnce, Command
  <2> QED  BY <2>4, <2>5, <2>6, <2>7 DEF CommandsSentOnce
<1>6. ASSUME NEW r \in Run, ResumeRun(r) PROVE CommandsSentOnce'
  <2> DEFINE c == [run |-> r, resume |-> TRUE]
  <2>1. c \in Command /\ ~Known(c) /\ c.run = r /\ start[r] \notin {"none", "checked", "marked"}
    BY <1>6 DEF Command, ResumeRun, Known, InLog, LogOf, RowsCreatedOnce
  <2>2. \A d \in Command : InLog(d)' <=> InLog(d)
    BY <1>6 DEF ResumeRun, InLog, LogOf
  <2>3. \A d \in Command : Known(d)' <=> (Known(d) \/ d = c)
    BY <1>6, <2>2 DEF ResumeRun, Known
  <2>4. start' = start /\ log' = log /\ buffer' = buffer \cup {c}
    BY <1>6 DEF ResumeRun, calls
  <2>5. \A d \in buffer' : ~InLog(d)'
    BY <2>1, <2>2, <2>4 DEF CommandsSentOnce, Known
  <2>6. \A s \in Run : start'[s] # "over" => ~Known([run |-> s, resume |-> FALSE])'
    <3>1. \A s \in Run : [run |-> s, resume |-> FALSE] \in Command /\ [run |-> s, resume |-> FALSE] # c
      BY DEF Command
    <3> QED  BY <2>3, <2>4, <3>1 DEF CommandsSentOnce
  <2>7. \A d \in Command : Known(d)' => start'[d.run] \notin {"none", "checked", "marked"}
    BY <2>1, <2>3, <2>4 DEF CommandsSentOnce
  <2> QED  BY <2>4, <2>5, <2>6, <2>7 DEF CommandsSentOnce
<1>7. ASSUME NEW c \in buffer, Deliver(c) PROVE CommandsSentOnce'
  <2> DEFINE p == PartitionOf[c.run]
  <2>1. /\ c \in Command /\ p \in Partition /\ ~InLog(c)
        /\ \A d \in Command : InLog(d)' <=> (InLog(d) \/ d = c)
        /\ \A d \in Command : Known(d)' <=> Known(d)
    BY <1>7, KnownAfterDeliver DEF CommandsSentOnce
  <2>2. start' = start /\ log' = [log EXCEPT ![p] = Append(@, c)] /\ buffer' = buffer \ {c}
    BY <1>7 DEF Deliver, calls
  <2>3. \A q \in Partition : q # p => log'[q] = log[q]
    BY <2>2
  <2>4. log[p] \in Seq(Command) /\ log'[p] = Append(log[p], c)
    BY <2>1, <2>2
  <2>5. \A i \in DOMAIN log[p] : log[p][i] # c
    BY <2>1 DEF InLog, LogOf
  <2>6. /\ \A i \in DOMAIN log'[p] : PartitionOf[log'[p][i].run] = p
        /\ \A i, j \in DOMAIN log'[p] : log'[p][i] = log'[p][j] => i = j
    <3>1. /\ \A i \in DOMAIN log'[p] : i \in DOMAIN log[p] \/ i = Len(log[p]) + 1
          /\ \A i \in DOMAIN log[p] : log'[p][i] = log[p][i]
          /\ log'[p][Len(log[p]) + 1] = c
      BY <2>1, <2>4, AppendPlaces
    <3>2. /\ \A i \in DOMAIN log[p] : PartitionOf[log[p][i].run] = p
          /\ \A i, j \in DOMAIN log[p] : log[p][i] = log[p][j] => i = j
      BY <2>1 DEF CommandsSentOnce
    <3>3. PartitionOf[c.run] = p
      OBVIOUS
    <3> HIDE DEF p, TypeOK
    <3>4. \A i \in DOMAIN log'[p] : PartitionOf[log'[p][i].run] = p
      BY <3>1, <3>2, <3>3
    <3>5. \A i, j \in DOMAIN log'[p] : log'[p][i] = log'[p][j] => i = j
      BY <2>5, <3>1, <3>2
    <3> QED  BY <3>4, <3>5
  <2>7. \A d \in buffer' : ~InLog(d)'
    BY <2>1, <2>2 DEF CommandsSentOnce
  <2>8. \A s \in Run : start'[s] # "over" => ~Known([run |-> s, resume |-> FALSE])'
    <3>1. \A s \in Run : [run |-> s, resume |-> FALSE] \in Command
      BY DEF Command
    <3> QED  BY <2>1, <2>2, <3>1 DEF CommandsSentOnce
  <2>9. \A d \in Command : Known(d)' => start'[d.run] \notin {"none", "checked", "marked"}
    BY <2>1, <2>2 DEF CommandsSentOnce
  <2> QED  BY <2>3, <2>6, <2>7, <2>8, <2>9 DEF CommandsSentOnce
<1>8. CASE GatewayCrash
  <2>1. log' = log /\ buffer' = {} /\ start' = [r \in Run |-> IF start[r] = "none" THEN "none" ELSE "over"]
    BY <1>8 DEF GatewayCrash
  <2>2. \A d \in Command : InLog(d)' <=> InLog(d)
    BY <2>1 DEF InLog, LogOf
  <2>3. \A d \in Command : Known(d)' => Known(d)
    BY <2>1, <2>2 DEF Known
  <2>4. \A s \in Run : [run |-> s, resume |-> FALSE] \in Command
    BY DEF Command
  <2>5. \A d \in Command : d.run \in Run
    BY DEF Command
  <2> QED  BY <2>1, <2>3, <2>4, <2>5 DEF CommandsSentOnce
<1>9. ASSUME NEW r \in Run, CancelRead(r) \/ CancelGoesOn(r) PROVE UNCHANGED <<start, buffer, log>>
  BY <1>9 DEF CancelRead, CancelGoesOn, CancelWrite, CancelThread, kafka
<1>10. CASE Gateway
  BY <1>1, <1>4, <1>5, <1>6, <1>7, <1>8, <1>9, <1>10 DEF Gateway, StartGoesOn
<1>11. CASE Worker
  BY <1>1, <1>11, WorkerFrame DEF calls
<1>12. CASE UNCHANGED vars
  BY <1>1, <1>12 DEF vars, calls, kafka
<1> QED  BY <1>10, <1>11, <1>12 DEF Next

\* A start never goes back, and is not resumed by a crash of the gateway.
LEMMA StartAdvances ==
  ASSUME TypeOK, [Next]_vars, NEW r \in Run, start[r] \notin {"none", "checked", "marked"}
  PROVE  start'[r] \notin {"none", "checked", "marked"}
<1> USE DEF TypeOK, StartTo
<1>1. ASSUME NEW s \in Run, StartCheck(s) \/ StartGoesOn(s) \/ StartPublishFails(s)
      PROVE  start'[r] \notin {"none", "checked", "marked"}
  BY <1>1 DEF StartGoesOn, StartCheck, StartMark, StartCreate, StartRefused, StartPublish, StartPublishFails,
     StartFailRun, StartFailThread
<1>2. CASE GatewayCrash
  BY <1>2 DEF GatewayCrash
<1>3. ASSUME NEW s \in Run, CancelRead(s) \/ CancelGoesOn(s) \/ ResumeRun(s)
      PROVE  UNCHANGED start
  BY <1>3 DEF CancelRead, CancelGoesOn, CancelWrite, CancelThread, ResumeRun, calls
<1>4. ASSUME NEW c \in buffer, Deliver(c) PROVE UNCHANGED start
  BY <1>4 DEF Deliver, calls
<1>5. CASE Gateway
  BY <1>1, <1>2, <1>3, <1>4, <1>5 DEF Gateway
<1>6. CASE Worker
  BY <1>6, WorkerFrame DEF calls
<1>7. CASE UNCHANGED vars
  BY <1>7 DEF vars, calls
<1> QED  BY <1>5, <1>6, <1>7 DEF Next

\* A resuming command becomes known only while its run is interrupted.
LEMMA KnownFrame ==
  ASSUME TypeOK, CommandsSentOnce, [Next]_vars, NEW c \in Command, c.resume, Known(c)'
  PROVE  Known(c) \/ (runs[c.run] = "interrupted" /\ UNCHANGED runs)
<1>1. CASE UNCHANGED <<buffer, log>>
  BY <1>1 DEF Known, InLog, LogOf
<1>2. ASSUME NEW r \in Run, StartPublish(r) PROVE Known(c)
  <2>1. InLog(c)' <=> InLog(c)
    BY <1>2 DEF StartPublish, InLog, LogOf
  <2>2. c # [run |-> r, resume |-> FALSE]
    OBVIOUS
  <2> QED  BY <1>2, <2>1, <2>2 DEF StartPublish, Known
<1>3. ASSUME NEW r \in Run, ResumeRun(r)
      PROVE  Known(c) \/ (runs[c.run] = "interrupted" /\ UNCHANGED runs)
  <2>1. InLog(c)' <=> InLog(c)
    BY <1>3 DEF ResumeRun, InLog, LogOf
  <2>2. CASE c = [run |-> r, resume |-> TRUE]
    BY <1>3, <2>2 DEF ResumeRun, rows
  <2>3. CASE c # [run |-> r, resume |-> TRUE]
    BY <1>3, <2>1, <2>3 DEF ResumeRun, Known
  <2> QED  BY <2>2, <2>3
<1>4. ASSUME NEW d \in buffer, Deliver(d) PROVE Known(c)
  BY <1>4, KnownAfterDeliver
<1>5. CASE GatewayCrash
  <2>1. InLog(c)' <=> InLog(c)
    BY <1>5 DEF GatewayCrash, InLog, LogOf
  <2> QED  BY <1>5, <2>1 DEF GatewayCrash, Known
<1>6. ASSUME NEW r \in Run,
             \/ StartCheck(r) \/ StartMark(r) \/ StartCreate(r) \/ StartRefused(r)
             \/ StartPublishFails(r) \/ StartFailRun(r) \/ StartFailThread(r)
             \/ CancelRead(r) \/ CancelWrite(r) \/ CancelThread(r)
      PROVE  UNCHANGED <<buffer, log>>
  BY <1>6 DEF StartCheck, StartMark, StartCreate, StartRefused, StartPublishFails, StartFailRun,
     StartFailThread, CancelRead, CancelWrite, CancelThread, kafka
<1>7. CASE Gateway
  BY <1>1, <1>2, <1>3, <1>4, <1>5, <1>6, <1>7 DEF Gateway, StartGoesOn, CancelGoesOn
<1>8. CASE Worker
  BY <1>1, <1>8, WorkerFrame
<1>9. CASE UNCHANGED vars
  BY <1>1, <1>9 DEF vars, kafka
<1> QED  BY <1>7, <1>8, <1>9 DEF Next

\* What a task works on is a known command of a created run.
LEMMA TaskRunCreated ==
  ASSUME TypeOK, CommandsSentOnce, CommandsTakenOnce, NEW c \in Command, task[c] # "none"
  PROVE  /\ c.run \in Run /\ Known(c)
         /\ start[c.run] \notin {"none", "checked", "marked"}
         /\ c.resume = FALSE => start[c.run] = "over"
<1>1. c.run \in Run /\ Known(c)
  BY DEF Command, CommandsTakenOnce, Taken, Known, InLog
<1>2. c.resume = FALSE => c = [run |-> c.run, resume |-> FALSE]
  BY DEF Command
<1> QED  BY <1>1, <1>2 DEF CommandsSentOnce

\* A write to a run that is not the one that creates it finds its row, and
\* does not make it pending.
LEMMA RunsAdvance ==
  ASSUME TypeOK, CommandsSentOnce, RowsCreatedOnce, CommandsTakenOnce, [Next]_vars, NEW r \in Run
  PROVE  \/ StartCreate(r)
         \/ /\ runs[r] # "absent" => runs'[r] # "absent"
            /\ runs'[r] # "absent" => start[r] \notin {"none", "checked", "marked"}
            /\ runs'[r] = "pending" => runs[r] = "pending"
<1> USE DEF TypeOK, RunSet
<1>1. CASE runs'[r] = runs[r]
  BY <1>1 DEF RowsCreatedOnce
<1>2. ASSUME NEW s \in Run, StartCreate(s), r # s PROVE runs'[r] = runs[r]
  BY <1>2 DEF StartCreate
<1>3. ASSUME NEW s \in Run, StartFailRun(s), r = s
      PROVE  start[r] \notin {"none", "checked", "marked"} /\ runs'[r] = "error"
  BY <1>3 DEF StartFailRun, StartTo
<1>4. ASSUME NEW s \in Run, CancelWrite(s), r = s
      PROVE  start[r] \notin {"none", "checked", "marked"} /\ runs'[r] = "cancelled"
  BY <1>4 DEF CancelWrite, CancelTo, RowsCreatedOnce
<1>5. ASSUME NEW s \in Run, StartFailRun(s) \/ CancelWrite(s), r # s PROVE runs'[r] = runs[r]
  BY <1>5 DEF StartFailRun, CancelWrite
<1>6. ASSUME NEW c \in Command, TaskMark(c) \/ TaskWrite(c) \/ TaskFailWrite(c), r # c.run
      PROVE  runs'[r] = runs[r]
  BY <1>6 DEF TaskMark, TaskWrite, TaskFailWrite
<1>7. ASSUME NEW c \in Command, TaskMark(c) \/ TaskWrite(c) \/ TaskFailWrite(c), r = c.run
      PROVE  /\ start[r] \notin {"none", "checked", "marked"}
             /\ runs'[r] = runs[r] \/ runs'[r] \notin {"absent", "pending"}
  <2>1. task[c] # "none"
    BY <1>7 DEF TaskMark, TaskWrite, TaskFailWrite, TaskTo
  <2>2. StatusOf(outcome[c]) \notin {"absent", "pending"}
    BY DEF StatusOf
  <2>3. runs'[r] = runs[r] \/ runs'[r] \notin {"absent", "pending"}
    BY <1>7, <2>2 DEF TaskMark, TaskWrite, TaskFailWrite
  <2> QED  BY <1>7, <2>1, <2>3, TaskRunCreated
<1> QED
  BY <1>1, <1>2, <1>3, <1>4, <1>5, <1>6, <1>7, RunsFrame DEF WritesRun

\* A row is created once; afterwards its run is never pending again.
LEMMA RowsStep ==
  ASSUME TypeOK, CommandsSentOnce, RowsCreatedOnce, CommandsTakenOnce, [Next]_vars
  PROVE  RowsCreatedOnce'
<1>1. ASSUME NEW r \in Run, StartCreate(r)
      PROVE  /\ start[r] \in {"none", "checked", "marked"}
             /\ start'[r] \notin {"none", "checked", "marked"} /\ runs'[r] = "pending"
             /\ UNCHANGED <<buffer, log, cancel>>
  BY <1>1 DEF StartCreate, StartTo, RunSet, TypeOK, kafka
<1>2. ASSUME NEW r \in Run, runs'[r] # "absent"
      PROVE  start'[r] \notin {"none", "checked", "marked"}
  BY <1>1, <1>2, RunsAdvance, StartAdvances
<1>3. ASSUME NEW r \in Run, cancel'[r] # "none"
      PROVE  runs'[r] # "absent"
  <2>1. cancel[r] # "none" \/ runs[r] # "absent"
    <3>1. ASSUME NEW s \in Run, StartCheck(s) \/ StartGoesOn(s) \/ StartPublishFails(s) \/ ResumeRun(s)
          PROVE  UNCHANGED cancel
      BY <3>1 DEF StartGoesOn, StartCheck, StartMark, StartCreate, StartRefused, StartPublish,
         StartPublishFails, StartFailRun, StartFailThread, ResumeRun, calls
    <3>2. ASSUME NEW s \in Run, CancelRead(s) \/ CancelGoesOn(s)
          PROVE  cancel[r] # "none" \/ runs[r] # "absent"
      BY <1>3, <3>2 DEF CancelRead, CancelGoesOn, CancelWrite, CancelThread, CancelTo, TypeOK, RunStatus
    <3>3. CASE GatewayCrash
      BY <1>3, <3>3 DEF GatewayCrash
    <3>4. ASSUME NEW c \in buffer, Deliver(c) PROVE UNCHANGED cancel
      BY <3>4 DEF Deliver, calls
    <3>5. CASE Gateway
      BY <1>3, <3>1, <3>2, <3>3, <3>4, <3>5 DEF Gateway
    <3>6. CASE Worker
      BY <1>3, <3>6, WorkerFrame DEF calls
    <3>7. CASE UNCHANGED vars
      BY <1>3, <3>7 DEF vars, calls
    <3> QED  BY <3>5, <3>6, <3>7 DEF Next
  <2>2. runs[r] # "absent"
    BY <2>1 DEF RowsCreatedOnce
  <2> QED  BY <1>1, <2>2, RunsAdvance
<1>4. ASSUME NEW c \in Command, Known(c)', c.resume
      PROVE  runs'[c.run] # "pending"
  <2>1. c.run \in Run
    BY DEF Command
  <2>2. CASE StartCreate(c.run)
    <3>1. Known(c)
      BY <1>1, <1>4, <2>1, <2>2 DEF Known, InLog, LogOf
    <3> QED  BY <1>1, <2>1, <2>2, <3>1 DEF CommandsSentOnce
  <2>3. CASE ~StartCreate(c.run)
    BY <1>4, <2>1, <2>3, KnownFrame, RunsAdvance DEF RowsCreatedOnce
  <2> QED  BY <2>2, <2>3
<1> QED  BY <1>2, <1>3, <1>4 DEF RowsCreatedOnce

-----------------------------------------------------------------------------
(* Receipts and permits *)

\* The worker never holds a command that it is executing already.
LEMMA TakenStep ==
  ASSUME TypeOK, CommandsSentOnce, CommandsTakenOnce, [Next]_vars
  PROVE  CommandsTakenOnce'
<1> USE DEF TypeOK
<1>1. CASE UNCHANGED <<held, task, position, log>>
  BY <1>1 DEF CommandsTakenOnce, Taken, LogOf
<1>2. ASSUME NEW c \in buffer, Deliver(c) PROVE CommandsTakenOnce'
  <2>1. /\ c \in Command /\ PartitionOf[c.run] \in Partition
        /\ log' = [log EXCEPT ![PartitionOf[c.run]] = Append(@, c)]
        /\ UNCHANGED <<held, task, position>>
    BY <1>2, ProductionAssumption DEF Deliver, Command, worker
  <2>2. ASSUME NEW d \in Command, Taken(d) PROVE Taken(d)'
    <3>1. PartitionOf[d.run] \in Partition
      BY ProductionAssumption DEF Command
    <3>2. \A i \in DOMAIN LogOf(d) : i \in DOMAIN LogOf(d)' /\ LogOf(d)'[i] = LogOf(d)[i]
      BY <2>1, <3>1, AppendPlaces DEF LogOf
    <3> QED  BY <2>1, <2>2, <3>2 DEF Taken
  <2> QED  BY <2>1, <2>2 DEF CommandsTakenOnce
<1>3. ASSUME NEW p \in Partition, Receive(p) PROVE CommandsTakenOnce'
  <2>1. /\ held = {} /\ position' = [position EXCEPT ![p] = @ + 1]
        /\ position[p] + 1 \in DOMAIN log[p] /\ UNCHANGED <<task, log>>
    BY <1>3 DEF Receive, kafka
  <2>2. PICK c \in Command : c = log[p][position[p] + 1]
    BY <2>1
  <2>3. held' = {c} /\ PartitionOf[c.run] = p
    BY <1>3, <2>1, <2>2 DEF Receive, CommandsSentOnce
  <2>4. ~Taken(c)
    BY <2>1, <2>2, <2>3 DEF Taken, LogOf, CommandsSentOnce
  <2>5. Taken(c)'
    <3>1. /\ LogOf(c)' = log[p] /\ position'[PartitionOf[c.run]] = position[p] + 1
          /\ position[p] + 1 <= position[p] + 1
      BY <2>1, <2>3 DEF LogOf
    <3> QED  BY <2>1, <2>2, <3>1 DEF Taken
  <2>6. ASSUME NEW d \in Command, Taken(d) PROVE Taken(d)'
    <3>1. PartitionOf[d.run] \in Partition
      BY ProductionAssumption DEF Command
    <3> QED  BY <2>1, <2>6, <3>1 DEF Taken, LogOf
  <2>7. task[c] = "none"
    BY <2>4 DEF CommandsTakenOnce
  <2> QED  BY <2>1, <2>3, <2>5, <2>6, <2>7 DEF CommandsTakenOnce
<1>4. ASSUME NEW c \in Command, Dispatch(c) PROVE CommandsTakenOnce'
  <2>1. /\ c \in held /\ held' = {} /\ task' = [task EXCEPT ![c] = "read"]
        /\ UNCHANGED <<position, log>>
    BY <1>4 DEF Dispatch, kafka
  <2>2. \A d \in Command : Taken(d)' <=> Taken(d)
    BY <2>1 DEF Taken, LogOf
  <2> QED  BY <2>1, <2>2 DEF CommandsTakenOnce
<1>5. ASSUME NEW c \in Command, TaskGoesOn(c) \/ TaskCrashes(c) PROVE CommandsTakenOnce'
  <2>1. PICK to \in TaskStep : task' = [task EXCEPT ![c] = to]
    BY <1>5, TaskFrame
  <2>2. task[c] # "none" /\ UNCHANGED <<held, position, log>>
    BY <1>5, TaskFrame
  <2>3. \A d \in Command : Taken(d)' <=> Taken(d)
    BY <2>2 DEF Taken, LogOf
  <2> QED  BY <2>1, <2>2, <2>3 DEF CommandsTakenOnce
<1>6. CASE WorkerCrash
  BY <1>6 DEF WorkerCrash, CommandsTakenOnce
<1>7. CASE Gateway
  <2>1. (\E c \in buffer : Deliver(c)) \/ UNCHANGED log
    BY <1>7 DEF Gateway, StartGoesOn, CancelGoesOn, StartCheck, StartMark, StartCreate, StartRefused,
       StartPublish, StartPublishFails, StartFailRun, StartFailThread, CancelRead, CancelWrite,
       CancelThread, ResumeRun, GatewayCrash, kafka
  <2> QED  BY <1>1, <1>2, <1>7, <2>1, GatewayFrame DEF worker
<1>8. CASE Worker
  BY <1>1, <1>3, <1>4, <1>5, <1>6, <1>8, WorkerFrame
<1>9. CASE UNCHANGED vars
  BY <1>1, <1>9 DEF vars, worker, kafka
<1> QED  BY <1>7, <1>8, <1>9 DEF Next

\* However a task ends, its permit comes back exactly once.
LEMMA PermitsStep ==
  ASSUME TypeOK, CommandsTakenOnce, PermitsConserved, [Next]_vars
  PROVE  PermitsConserved'
<1> USE DEF TypeOK
<1>1. max_conc \in Int /\ Cardinality(Working) \in Nat
  BY ProductionAssumption, FS_CardinalityType DEF PermitsConserved
<1>2. CASE UNCHANGED <<permits, task>>
  BY <1>2 DEF PermitsConserved, Working
<1>3. ASSUME NEW c \in Command, Dispatch(c) PROVE PermitsConserved'
  <2>1. c \notin Working /\ Working' = Working \cup {c} /\ permits' = permits - 1
    BY <1>3 DEF Dispatch, Working, CommandsTakenOnce
  <2>2. IsFiniteSet(Working \cup {c}) /\ Cardinality(Working \cup {c}) = Cardinality(Working) + 1
    BY <2>1, FS_AddElement DEF PermitsConserved
  <2> QED  BY <1>1, <2>1, <2>2 DEF PermitsConserved
<1>4. ASSUME NEW c \in Command, TaskGoesOn(c) \/ TaskCrashes(c) PROVE PermitsConserved'
  <2>1. PICK to \in TaskStep :
          /\ task' = [task EXCEPT ![c] = to]
          /\ permits' = IF to = "none" THEN permits + 1 ELSE permits
    BY <1>4, TaskFrame
  <2>2. c \in Working
    BY <1>4, TaskFrame DEF Working
  <2>3. CASE to = "none"
    <3>1. Working' = Working \ {c}
      BY <2>1, <2>3 DEF Working
    <3>2. IsFiniteSet(Working \ {c}) /\ Cardinality(Working \ {c}) = Cardinality(Working) - 1
      BY <2>2, FS_RemoveElement DEF PermitsConserved
    <3> QED  BY <1>1, <2>1, <2>3, <3>1, <3>2 DEF PermitsConserved
  <2>4. CASE to # "none"
    <3>1. Working' = Working
      BY <2>1, <2>2, <2>4 DEF Working
    <3> QED  BY <2>1, <2>4, <3>1 DEF PermitsConserved
  <2> QED  BY <2>3, <2>4
<1>5. CASE WorkerCrash
  <2>1. Working' = {} /\ permits' = max_conc
    BY <1>5 DEF WorkerCrash, Working
  <2> QED  BY <1>1, <2>1, FS_EmptySet DEF PermitsConserved
<1>6. CASE Gateway
  BY <1>2, <1>6, GatewayFrame DEF worker
<1>7. ASSUME NEW p \in Partition, Receive(p) PROVE UNCHANGED <<permits, task>>
  BY <1>7 DEF Receive
<1>8. CASE Worker
  BY <1>2, <1>3, <1>4, <1>5, <1>7, <1>8, WorkerFrame
<1>9. CASE UNCHANGED vars
  BY <1>2, <1>9 DEF vars, worker
<1> QED  BY <1>6, <1>8, <1>9 DEF Next

-----------------------------------------------------------------------------
(* Executions *)

\* The write of a task to its run.
Writes(c) == TaskMark(c) \/ TaskWrite(c) \/ TaskFailWrite(c)

\* Where a task may go.
Move(c) ==
  \/ task'[c] = task[c] /\ ~Writes(c)
  \/ task'[c] \in {"none", "read"}
  \/ task[c] = "read" /\ UNCHANGED runs /\ task'[c] = IF runs[c.run] = "pending" THEN "mark" ELSE "ack"
  \/ task[c] = "mark" /\ TaskMark(c) /\ task'[c] \in {"stream", "ack"}
  \/ task[c] \in Streaming /\ task'[c] \in Streaming /\ ~Writes(c)
  \/ task[c] \in Streaming \cup {"thread", "idle"} /\ task'[c] \in {"thread", "idle", "ack"}

\* No other step moves a task than the ones of _process_receipt and a crash.
LEMMA TaskMoves ==
  ASSUME TypeOK, [Next]_vars, NEW c \in Command
  PROVE  Move(c)
<1> USE DEF TypeOK, TaskTo
<1>1. ASSUME Writes(c) PROVE task'[c] # task[c]
  BY <1>1 DEF Writes, TaskMark, TaskWrite, TaskFailWrite
<1>2. CASE task'[c] = task[c]
  BY <1>1, <1>2 DEF Move
<1>3. ASSUME NEW d \in Command, d # c, TaskGoesOn(d) \/ TaskCrashes(d) \/ Dispatch(d)
      PROVE  task'[c] = task[c]
  BY <1>3, TaskFrame DEF Dispatch
<1>4. ASSUME TaskGoesOn(c) \/ TaskCrashes(c) \/ Dispatch(c) PROVE Move(c)
  <2> USE DEF Move
  <2>1. CASE TaskMark(c)
    BY <2>1 DEF TaskMark
  <2>2. CASE TaskRead(c)
    BY <2>2 DEF TaskRead, rows
  <2>3. CASE TaskMarkRefused(c) \/ TaskCrashes(c) \/ TaskAck(c) \/ Dispatch(c)
    BY <2>3 DEF TaskMarkRefused, TaskCrashes, TaskRaises, TaskAck, Dispatch
  <2>4. CASE TaskWrite(c) \/ TaskFailWrite(c) \/ TaskThread(c) \/ TaskIdle(c)
    BY <2>4 DEF TaskWrite, TaskFailWrite, TaskThread, TaskIdle, Streaming
  <2>5. ASSUME (\E event \in GraphOutcome : GraphEnds(c, event)) \/ StreamBreaks(c) \/ TaskStore(c) \/ TaskFail(c)
        PROVE  Move(c)
    <3>1. task[c] \in {"stream", "store", "fail"}
      BY <2>5 DEF GraphEnds, StreamBreaks, TaskStore, TaskFail
    <3>2. ~Writes(c)
      BY <3>1 DEF Writes, TaskMark, TaskWrite, TaskFailWrite
    <3>3. task'[c] \in Streaming \cup {"idle"}
      BY <2>5 DEF GraphEnds, StreamBreaks, TaskStore, TaskFail, Streaming
    <3> QED  BY <3>1, <3>2, <3>3 DEF Streaming
  <2> QED  BY <1>4, <2>1, <2>2, <2>3, <2>4, <2>5 DEF TaskGoesOn
<1>5. CASE WorkerCrash
  BY <1>5 DEF WorkerCrash, Move
<1>6. ASSUME NEW p \in Partition, Receive(p) PROVE UNCHANGED task
  BY <1>6 DEF Receive
<1>7. CASE Worker
  BY <1>2, <1>3, <1>4, <1>5, <1>6, <1>7, WorkerFrame
<1>8. CASE Gateway
  BY <1>2, <1>8, GatewayFrame DEF worker
<1>9. CASE UNCHANGED vars
  BY <1>2, <1>9 DEF vars, worker
<1> QED  BY <1>7, <1>8, <1>9 DEF Next

\* Only mark_running starts a graph.
LEMMA ExecutionsFrame ==
  ASSUME [Next]_vars
  PROVE  (\E c \in Command : TaskMark(c)) \/ UNCHANGED executions
<1>1. CASE Gateway
  BY <1>1, GatewayFrame DEF worker
<1>2. CASE Worker
  BY <1>2 DEF Worker, Receive, Dispatch, LoopDies, WorkerCrash, TaskGoesOn, TaskCrashes, TaskRaises,
     TaskRead, TaskMarkRefused, GraphEnds, StreamBreaks, TaskStore, TaskWrite, TaskThread, TaskFail,
     TaskFailWrite, TaskIdle, TaskAck
<1>3. CASE UNCHANGED vars
  BY <1>3 DEF vars, worker
<1> QED  BY <1>1, <1>2, <1>3 DEF Next

\* No run's graph is started a second time.
LEMMA ExecutedStep ==
  ASSUME TypeOK, CommandsSentOnce, RowsCreatedOnce, CommandsTakenOnce, ExecutedOnce, [Next]_vars
  PROVE  ExecutedOnce'
<1> USE DEF TypeOK
<1>1. \A c \in Command : c.run \in Run /\ c.resume \in BOOLEAN
  BY DEF Command
<1>2. ASSUME NEW r \in Run, runs'[r] \in {"absent", "pending"}
      PROVE  runs[r] \in {"absent", "pending"}
  <2>1. CASE StartCreate(r)
    BY <2>1 DEF StartCreate, StartTo, RowsCreatedOnce
  <2> QED  BY <1>2, <2>1, RunsAdvance
<1>3. ASSUME NEW c \in Command, c.resume
      PROVE  task'[c] \in {"none", "read", "ack"}
  <2>1. task[c] \in {"none", "read", "ack"}
    BY <1>3 DEF ExecutedOnce
  <2>2. task[c] = "read" => runs[c.run] # "pending"
    BY <1>3, TaskRunCreated DEF RowsCreatedOnce
  <2> QED  BY <2>1, <2>2, TaskMoves DEF Move, Streaming
<1>4. ASSUME NEW c \in Command, task'[c] = "mark"
      PROVE  executions[c.run] = 0 /\ c.resume = FALSE
  <2>1. task[c] = "mark" \/ runs[c.run] = "pending"
    BY <1>4, TaskMoves DEF Move, Streaming
  <2> QED  BY <1>1, <1>3, <1>4, <2>1 DEF ExecutedOnce
<1>5. CASE UNCHANGED executions
  BY <1>2, <1>3, <1>4, <1>5 DEF ExecutedOnce
<1>6. ASSUME NEW c \in Command, TaskMark(c) PROVE ExecutedOnce'
  <2>1. /\ task[c] = "mark" /\ task'[c] # "mark" /\ c.resume = FALSE /\ executions[c.run] = 0
        /\ runs' = [runs EXCEPT ![c.run] = "running"]
    BY <1>1, <1>6 DEF TaskMark, TaskTo, RunSet, ExecutedOnce
  <2>2. executions' = executions \/ executions' = [executions EXCEPT ![c.run] = 1]
    BY <1>1, <1>6, <2>1 DEF TaskMark
  <2>3. ASSUME NEW d \in Command, task'[d] = "mark" PROVE d.run # c.run
    BY <1>4, <2>1, <2>3, CommandEqual
  <2>4. \A r \in Run : executions'[r] <= 1
    BY <2>2 DEF ExecutedOnce
  <2>5. \A r \in Run : runs'[r] \in {"absent", "pending"} => executions'[r] = 0
    BY <1>2, <2>1, <2>2 DEF ExecutedOnce
  <2>6. \A d \in Command : task'[d] = "mark" => executions'[d.run] = 0
    BY <1>1, <1>4, <2>2, <2>3
  <2> QED  BY <1>3, <2>4, <2>5, <2>6 DEF ExecutedOnce
<1> QED  BY <1>5, <1>6, ExecutionsFrame

-----------------------------------------------------------------------------
(* Stale reads *)

\* A cancellation is not forgotten.
LEMMA CancelStays ==
  ASSUME TypeOK, [Next]_vars, NEW r \in Run, cancel'[r] = "none"
  PROVE  cancel[r] = "none"
<1>1. ASSUME NEW s \in Run, StartCheck(s) \/ StartGoesOn(s) \/ StartPublishFails(s) \/ ResumeRun(s)
      PROVE  UNCHANGED cancel
  BY <1>1 DEF StartGoesOn, StartCheck, StartMark, StartCreate, StartRefused, StartPublish,
     StartPublishFails, StartFailRun, StartFailThread, ResumeRun, calls
<1>2. ASSUME NEW s \in Run, CancelRead(s) \/ CancelGoesOn(s)
      PROVE  cancel[r] = "none"
  BY <1>2 DEF CancelRead, CancelGoesOn, CancelWrite, CancelThread, CancelTo, TypeOK
<1>3. CASE GatewayCrash
  BY <1>3 DEF GatewayCrash
<1>4. ASSUME NEW c \in buffer, Deliver(c) PROVE UNCHANGED cancel
  BY <1>4 DEF Deliver, calls
<1>5. CASE Gateway
  BY <1>1, <1>2, <1>3, <1>4, <1>5 DEF Gateway
<1>6. CASE Worker
  BY <1>6, WorkerFrame DEF calls
<1>7. CASE UNCHANGED vars
  BY <1>7 DEF vars, calls
<1> QED  BY <1>5, <1>6, <1>7 DEF Next

\* A start is where it was or has just created its run, if it is about to
\* publish or to fail.
LEMMA StartFrame ==
  ASSUME TypeOK, [Next]_vars, NEW r \in Run, start'[r] \in {"created", "failing"}
  PROVE  StartCreate(r) \/ start[r] \in {"created", "failing"}
<1> USE DEF TypeOK, StartTo
<1>1. ASSUME NEW s \in Run, StartCheck(s) \/ StartGoesOn(s) \/ StartPublishFails(s)
      PROVE  StartCreate(r) \/ start[r] \in {"created", "failing"}
  <2>1. CASE s = r
    BY <1>1, <2>1 DEF StartGoesOn, StartCheck, StartMark, StartRefused, StartPublish,
       StartPublishFails, StartFailRun, StartFailThread
  <2>2. CASE s # r
    BY <1>1, <2>2 DEF StartGoesOn, StartCheck, StartMark, StartCreate, StartRefused, StartPublish,
       StartPublishFails, StartFailRun, StartFailThread
  <2> QED  BY <2>1, <2>2
<1>2. CASE GatewayCrash
  BY <1>2 DEF GatewayCrash
<1>3. ASSUME NEW s \in Run, CancelRead(s) \/ CancelGoesOn(s) \/ ResumeRun(s)
      PROVE  UNCHANGED start
  BY <1>3 DEF CancelRead, CancelGoesOn, CancelWrite, CancelThread, ResumeRun, calls
<1>4. ASSUME NEW c \in buffer, Deliver(c) PROVE UNCHANGED start
  BY <1>4 DEF Deliver, calls
<1>5. CASE Gateway
  BY <1>1, <1>2, <1>3, <1>4, <1>5 DEF Gateway
<1>6. CASE Worker
  BY <1>6, WorkerFrame DEF calls
<1>7. CASE UNCHANGED vars
  BY <1>7 DEF vars, calls
<1> QED  BY <1>5, <1>6, <1>7 DEF Next

\* Who changes a run that is not being cancelled: its start, while it is not
\* published, or the execution of the command that started it.
LEMMA WriterOfRun ==
  ASSUME IInv, [Next]_vars, NEW r \in Run, runs'[r] # runs[r], cancel'[r] = "none"
  PROVE  \/ StartCreate(r) \/ StartFailRun(r)
         \/ /\ Writes([run |-> r, resume |-> FALSE])
            /\ start[r] = "over"
<1> USE DEF IInv, TypeOK, RunSet
<1>1. ASSUME NEW s \in Run, StartCreate(s) \/ StartFailRun(s) \/ CancelWrite(s)
      PROVE  StartCreate(r) \/ StartFailRun(r)
  <2>1. s = r
    BY <1>1 DEF StartCreate, StartFailRun, CancelWrite
  <2>2. ~CancelWrite(s)
    BY <2>1 DEF CancelWrite, CancelTo
  <2> QED  BY <1>1, <2>1, <2>2
<1>2. ASSUME NEW c \in Command, Writes(c)
      PROVE  Writes([run |-> r, resume |-> FALSE]) /\ start[r] = "over"
  <2>1. c.run = r
    BY <1>2 DEF Writes, TaskMark, TaskWrite, TaskFailWrite
  <2>2. task[c] \notin {"none", "read", "ack"}
    BY <1>2 DEF Writes, TaskMark, TaskWrite, TaskFailWrite, TaskTo
  <2>3. c.resume = FALSE
    BY <2>2 DEF ExecutedOnce, Command
  <2>4. c = [run |-> r, resume |-> FALSE]
    BY <2>1, <2>3 DEF Command
  <2> QED  BY <1>2, <2>1, <2>2, <2>3, <2>4, TaskRunCreated
<1> QED  BY <1>1, <1>2, RunsFrame DEF WritesRun, Writes

\* Unless it is being cancelled, a run is still as its next writer read it.
LEMMA ReadsStep ==
  ASSUME IInv, [Next]_vars
  PROVE  ReadsStillTrue'
<1> USE DEF TypeOK
<1>1. ASSUME NEW r \in Run, StartCreate(r)
      PROVE  start[r] = "marked" /\ runs'[r] = "pending"
  BY <1>1 DEF StartCreate, StartTo, RunSet, IInv
<1>2. ASSUME NEW r \in Run, StartFailRun(r)
      PROVE  start[r] = "failing" /\ start'[r] = "failed"
  BY <1>2 DEF StartFailRun, StartTo, IInv
<1>3. ASSUME NEW r \in Run, cancel'[r] = "none", start'[r] \in {"created", "failing"}
      PROVE  runs'[r] = "pending"
  <2>1. CASE StartCreate(r)
    BY <1>1, <2>1
  <2>2. CASE ~StartCreate(r)
    <3>1. start[r] \in {"created", "failing"} /\ cancel[r] = "none"
      BY <1>3, <2>2, StartFrame, CancelStays DEF IInv
    <3>2. runs[r] = "pending"
      BY <3>1 DEF IInv, ReadsStillTrue
    <3> QED  BY <1>2, <1>3, <2>2, <3>1, <3>2, WriterOfRun
  <2> QED  BY <2>1, <2>2
<1>4. ASSUME NEW c \in Command, cancel'[c.run] = "none", task'[c] = "mark"
      PROVE  runs'[c.run] = "pending"
  <2>1. c.run \in Run /\ cancel[c.run] = "none"
    BY <1>4, CancelStays DEF IInv, Command
  <2>2. \/ task[c] = "read" /\ UNCHANGED runs /\ runs[c.run] = "pending"
        \/ task[c] = "mark" /\ ~Writes(c)
    BY <1>4, TaskMoves DEF Move, Streaming, IInv
  <2>3. CASE task[c] = "mark" /\ ~Writes(c)
    <3>1. c = [run |-> c.run, resume |-> FALSE] /\ start[c.run] = "over"
      BY <2>3, TaskRunCreated DEF IInv, ExecutedOnce, Command
    <3>2. runs[c.run] = "pending"
      BY <2>1, <2>3 DEF IInv, ReadsStillTrue
    <3> QED  BY <1>1, <1>2, <1>4, <2>1, <2>3, <3>1, <3>2, WriterOfRun
  <2> QED  BY <2>2, <2>3
<1>5. ASSUME NEW c \in Command, cancel'[c.run] = "none", task'[c] \in Streaming
      PROVE  runs'[c.run] = "running"
  <2>1. c.run \in Run /\ cancel[c.run] = "none"
    BY <1>5, CancelStays DEF IInv, Command
  <2>2. TaskMark(c) \/ (task[c] \in Streaming /\ ~Writes(c))
    BY <1>5, TaskMoves DEF Move, Streaming, IInv
  <2>3. CASE TaskMark(c)
    BY <2>1, <2>3 DEF TaskMark, RunSet, IInv
  <2>4. CASE task[c] \in Streaming /\ ~Writes(c)
    <3>1. c = [run |-> c.run, resume |-> FALSE] /\ start[c.run] = "over"
      BY <2>4, TaskRunCreated DEF IInv, ExecutedOnce, Command, Streaming
    <3>2. runs[c.run] = "running"
      BY <2>1, <2>4 DEF IInv, ReadsStillTrue
    <3> QED  BY <1>1, <1>2, <1>5, <2>1, <2>4, <3>1, <3>2, WriterOfRun
  <2> QED  BY <2>2, <2>3, <2>4
<1> QED  BY <1>3, <1>4, <1>5 DEF ReadsStillTrue

-----------------------------------------------------------------------------
(* Busy threads *)

\* Faults are counted and never uncounted.
LEMMA FaultsFrame ==
  ASSUME TypeOK, [Next]_vars
  PROVE  faults' = faults \/ (faults' \in Nat /\ faults' > 0)
<1>1. CASE Gateway
  BY <1>1, FaultType DEF Gateway, StartGoesOn, CancelGoesOn, StartCheck, StartMark, StartCreate, StartRefused,
     StartPublish, StartPublishFails, StartFailRun, StartFailThread, CancelRead, CancelWrite,
     CancelThread, ResumeRun, Deliver, GatewayCrash
<1>2. CASE Worker
  BY <1>2, FaultType DEF Worker, Receive, Dispatch, LoopDies, WorkerCrash, TaskGoesOn, TaskCrashes,
     TaskRead, TaskMark, TaskMarkRefused, GraphEnds, StreamBreaks, TaskStore, TaskWrite, TaskThread, TaskFail,
     TaskFailWrite, TaskIdle, TaskAck
<1>3. CASE UNCHANGED vars
  BY <1>3 DEF vars
<1> QED  BY <1>1, <1>2, <1>3 DEF Next

\* A start fails only where a send was refused.
LEMMA FailsByFaultStep ==
  ASSUME TypeOK, StartFailsByFault, [Next]_vars
  PROVE  StartFailsByFault'
<1> USE DEF TypeOK, StartTo
<1>1. ASSUME NEW r \in Run, start'[r] \in {"failing", "failed"}
      PROVE  start[r] \in {"failing", "failed"} \/ Fault
  <2>1. ASSUME NEW s \in Run, StartCheck(s) \/ StartGoesOn(s) \/ StartPublishFails(s)
        PROVE  start[r] \in {"failing", "failed"} \/ Fault
    BY <1>1, <2>1 DEF StartGoesOn, StartCheck, StartMark, StartCreate, StartRefused, StartPublish,
       StartPublishFails, StartFailRun, StartFailThread
  <2>2. CASE GatewayCrash
    BY <2>2 DEF GatewayCrash
  <2>3. ASSUME NEW s \in Run, CancelRead(s) \/ CancelGoesOn(s) \/ ResumeRun(s)
        PROVE  UNCHANGED start
    BY <2>3 DEF CancelRead, CancelGoesOn, CancelWrite, CancelThread, ResumeRun, calls
  <2>4. ASSUME NEW c \in buffer, Deliver(c) PROVE UNCHANGED start
    BY <2>4 DEF Deliver, calls
  <2>5. CASE Gateway
    BY <1>1, <2>1, <2>2, <2>3, <2>4, <2>5 DEF Gateway
  <2>6. CASE Worker
    BY <1>1, <2>6, WorkerFrame DEF calls
  <2>7. CASE UNCHANGED vars
    BY <1>1, <2>7 DEF vars, calls
  <2> QED  BY <2>5, <2>6, <2>7 DEF Next
<1> QED  BY <1>1, FaultType, FaultsFrame DEF StartFailsByFault

\* A run that sees to it that its thread does not stay busy.
Attends(r) ==
  \/ runs[r] \in Active
  \/ start[r] \in {"checked", "marked"} \/ cancel[r] = "written"
  \/ \E c \in Command : c.run = r /\ task[c] \in {"thread", "idle"}

\* Without a fault a step keeps the attendance of a busy thread, or hands it
\* to another run of the thread.
LEMMA BusyStep ==
  ASSUME IInv, [Next]_vars
  PROVE  BusyThreadIsAttended'
<1> USE DEF TypeOK
<1>1. IInv => TypeOK /\ BusyThreadIsAttended /\ CommandsTakenOnce /\ StartFailsByFault
  BY DEF IInv
<1> SUFFICES ASSUME faults' = 0, faults = 0, ~Fault
             PROVE  BusyThreadIsAttended'
  BY <1>1, FaultsFrame, FaultType DEF BusyThreadIsAttended
<1> DEFINE Mine(t) == {r \in Run : RunThread[r] = t}
<1>2. ASSUME NEW t \in Thread, threads[t] = "busy"
      PROVE  \E r \in Mine(t) : Attends(r)
  BY <1>1, <1>2 DEF BusyThreadIsAttended, Attends
<1>3. ASSUME \A t \in Thread : threads'[t] = "busy" => \E r \in Mine(t) : Attends(r)'
      PROVE  BusyThreadIsAttended'
  BY <1>3 DEF BusyThreadIsAttended, Attends
<1>4. ASSUME \A t \in Thread : threads'[t] = "busy" => threads[t] = "busy",
             \A r \in Run : Attends(r) /\ (\A t \in Thread : RunThread[r] = t => threads'[t] = "busy")
               => \E s \in Run : RunThread[s] = RunThread[r] /\ Attends(s)'
      PROVE  BusyThreadIsAttended'
  <2>1. ASSUME NEW t \in Thread, threads'[t] = "busy"
        PROVE  \E r \in Mine(t) : Attends(r)'
    BY <1>2, <1>4, <2>1
  <2> QED  BY <1>3, <2>1
<1> HIDE DEF Mine
<1>5. ASSUME NEW r \in Run, NEW status, status # "busy", ThreadSet(r, status)
      PROVE  /\ \A t \in Thread : threads'[t] = "busy" => threads[t] = "busy"
             /\ \A t \in Thread : RunThread[r] = t => threads'[t] # "busy"
  BY <1>1, <1>5, ProductionAssumption DEF ThreadSet
<1>6. ASSUME NEW r \in Run, NEW status, status # "busy", ThreadSet(r, status),
              \A s \in Run : s # r /\ Attends(s) => Attends(s)'
       PROVE  BusyThreadIsAttended'
  <2>1. CASE RunThread[r] = NoThread
    <3>1. UNCHANGED threads
      BY <1>6, <2>1 DEF ThreadSet
    <3>2. ASSUME NEW t \in Thread, threads'[t] = "busy" PROVE \E s \in Mine(t) : Attends(s)'
      BY <1>2, <1>6, <2>1, <3>1, <3>2, ProductionAssumption DEF Mine
    <3> QED  BY <1>3, <3>2
  <2>2. CASE RunThread[r] # NoThread
    <3>1. RunThread[r] \in Thread
      BY <2>2, ProductionAssumption
    <3> QED  BY <1>4, <1>5, <1>6, <3>1
  <2> QED  BY <2>1, <2>2
<1>7. ASSUME UNCHANGED <<threads, runs, cancel, task>>,
             \A r \in Run : start[r] \in {"checked", "marked"} => start'[r] \in {"checked", "marked"}
      PROVE  BusyThreadIsAttended'
  BY <1>4, <1>7 DEF Attends
<1>8. ASSUME NEW r \in Run, StartCheck(r) \/ StartPublish(r) \/ StartPublishFails(r)
      PROVE  BusyThreadIsAttended'
  BY <1>1, <1>7, <1>8 DEF StartCheck, StartPublish, StartPublishFails, StartTo, rows, worker
<1>9. ASSUME NEW r \in Run, StartMark(r) PROVE BusyThreadIsAttended'
  <2>1. Attends(r)' /\ UNCHANGED <<runs, cancel, task>> /\ start' = [start EXCEPT ![r] = "marked"]
    BY <1>1, <1>9 DEF StartMark, StartTo, Attends, worker
  <2>2. \A s \in Run : Attends(s) => Attends(s)'
    BY <1>1, <2>1 DEF Attends
  <2>3. \A t \in Thread : threads'[t] = "busy" => threads[t] = "busy" \/ RunThread[r] = t
    BY <1>1, <1>9, ProductionAssumption DEF StartMark, ThreadSet
  <2> QED  BY <1>2, <1>3, <2>1, <2>2, <2>3 DEF Mine
<1>10. ASSUME NEW r \in Run, StartCreate(r) PROVE BusyThreadIsAttended'
  <2>1. /\ UNCHANGED <<threads, cancel, task>> /\ start' = [start EXCEPT ![r] = "created"]
        /\ runs' = [runs EXCEPT ![r] = "pending"]
    BY <1>10 DEF StartCreate, StartTo, RunSet, worker
  <2>2. \A s \in Run : Attends(s) => Attends(s)'
    BY <1>1, <2>1 DEF Attends, Active
  <2> QED  BY <1>4, <2>1, <2>2
<1>11. ASSUME NEW r \in Run, StartRefused(r) PROVE BusyThreadIsAttended'
  <2>1. /\ UNCHANGED <<threads, runs, cancel, task>> /\ start' = [start EXCEPT ![r] = "over"]
        /\ ~IndexAllows(r)
    BY <1>11 DEF StartRefused, StartTo, rows, worker
  <2>2. PICK s \in Run : RunThread[s] = RunThread[r] /\ runs[s] \in Active
    BY <2>1 DEF IndexAllows
  <2>3. Attends(s)'
    BY <2>1, <2>2 DEF Attends
  <2>4. \A q \in Run : q # r /\ Attends(q) => Attends(q)'
    BY <1>1, <2>1 DEF Attends
  <2> QED  BY <1>4, <2>1, <2>2, <2>3, <2>4
<1>12. ASSUME NEW r \in Run, StartFailRun(r) \/ StartFailThread(r) PROVE FALSE
  BY <1>1, <1>12 DEF StartFailRun, StartFailThread, StartTo, StartFailsByFault
<1>13. ASSUME NEW r \in Run, CancelRead(r) \/ CancelWrite(r) PROVE BusyThreadIsAttended'
  <2>1. UNCHANGED <<threads, start, task>>
    BY <1>13 DEF CancelRead, CancelWrite, rows, worker
  <2>2. \A s \in Run : Attends(s) => Attends(s)'
    BY <1>1, <1>13, <2>1 DEF CancelRead, CancelWrite, CancelTo, RunSet, Attends, rows
  <2> QED  BY <1>4, <2>1, <2>2
<1>14. ASSUME NEW r \in Run, CancelThread(r) PROVE BusyThreadIsAttended'
  <2>1. UNCHANGED <<runs, start, task>> /\ cancel' = [cancel EXCEPT ![r] = "over"] /\ ThreadSet(r, "idle")
    BY <1>14 DEF CancelThread, CancelTo, worker
  <2>2. \A s \in Run : s # r /\ Attends(s) => Attends(s)'
    BY <1>1, <2>1 DEF Attends
  <2> QED  BY <1>6, <2>1, <2>2
<1>15. ASSUME NEW r \in Run, ResumeRun(r) PROVE BusyThreadIsAttended'
  BY <1>7, <1>15 DEF ResumeRun, rows, calls, worker
<1>16. ASSUME NEW c \in buffer, Deliver(c) PROVE BusyThreadIsAttended'
  BY <1>7, <1>16 DEF Deliver, rows, calls, worker
<1>17. CASE Gateway
  BY <1>8, <1>9, <1>10, <1>11, <1>12, <1>13, <1>14, <1>15, <1>16, <1>17
  DEF Gateway, GatewayCrash, StartGoesOn, CancelGoesOn
<1>18. ASSUME NEW c \in Command, NEW to,
              task' = [task EXCEPT ![c] = to], UNCHANGED <<threads, start, cancel>>,
              \/ UNCHANGED runs /\ task[c] \notin {"thread", "idle"}
              \/ runs' = [runs EXCEPT ![c.run] = "running"] /\ task[c] \notin {"thread", "idle"}
              \/ (\E status : runs' = [runs EXCEPT ![c.run] = status]) /\ to \in {"thread", "idle"}
              \/ UNCHANGED runs /\ to \in {"thread", "idle"}
       PROVE  BusyThreadIsAttended'
  <2>1. c.run \in Run
    BY DEF Command
  <2>2. \A s \in Run : s # c.run /\ Attends(s) => Attends(s)'
    BY <1>1, <1>18, <2>1 DEF Attends
  <2>3. Attends(c.run) => Attends(c.run)'
    BY <1>1, <1>18, <2>1 DEF Attends, Active
  <2> QED  BY <1>4, <1>18, <2>2, <2>3
<1>19. ASSUME NEW c \in Command, Dispatch(c) PROVE BusyThreadIsAttended'
  <2>1. task[c] = "none"
    BY <1>1, <1>19 DEF Dispatch, CommandsTakenOnce
  <2> QED  BY <1>18, <1>19, <2>1 DEF Dispatch, rows, calls
<1>20. ASSUME NEW c \in Command, TaskRead(c) \/ TaskMarkRefused(c) \/ TaskAck(c) PROVE BusyThreadIsAttended'
  BY <1>18, <1>20 DEF TaskRead, TaskMarkRefused, TaskRaises, TaskAck, TaskTo, rows, calls
<1>21. ASSUME NEW c \in Command, TaskMark(c) PROVE BusyThreadIsAttended'
  BY <1>18, <1>21 DEF TaskMark, TaskTo, RunSet, calls
<1>22. ASSUME NEW c \in Command,
              (\E event \in GraphOutcome : GraphEnds(c, event)) \/ StreamBreaks(c) \/ TaskStore(c) \/ TaskFail(c)
       PROVE  BusyThreadIsAttended'
  BY <1>18, <1>22 DEF GraphEnds, StreamBreaks, TaskStore, TaskFail, TaskTo, rows, calls
<1>23. ASSUME NEW c \in Command, TaskWrite(c) \/ TaskFailWrite(c) PROVE BusyThreadIsAttended'
  BY <1>18, <1>23 DEF TaskWrite, TaskFailWrite, TaskTo, RunSet, calls
<1>24. ASSUME NEW c \in Command, TaskThread(c) \/ TaskIdle(c) PROVE BusyThreadIsAttended'
  <2>1. c.run \in Run /\ UNCHANGED <<runs, start, cancel>>
    BY <1>24 DEF TaskThread, TaskIdle, Command, calls
  <2>2. PICK to : task' = [task EXCEPT ![c] = to]
    BY <1>24 DEF TaskThread, TaskIdle, TaskTo
  <2>3. \A s \in Run : s # c.run /\ Attends(s) => Attends(s)'
    BY <1>1, <2>1, <2>2 DEF Attends
  <2> QED  BY <1>6, <1>24, <2>1, <2>3 DEF TaskThread, TaskIdle
<1>25. ASSUME NEW p \in Partition, Receive(p) PROVE BusyThreadIsAttended'
  BY <1>7, <1>25 DEF Receive, rows, calls
<1>26. CASE Worker
  BY <1>19, <1>20, <1>21, <1>22, <1>23, <1>24, <1>25, <1>26
  DEF Worker, TaskGoesOn, TaskCrashes, LoopDies, WorkerCrash
<1>27. CASE UNCHANGED vars
  BY <1>7, <1>27 DEF vars, rows, calls, worker
<1> QED  BY <1>17, <1>26, <1>27 DEF Next

-----------------------------------------------------------------------------
(* The theorems *)

\* In the beginning nothing was sent, nothing is executed and no thread is busy.
LEMMA InitInv ==
  ASSUME Init
  PROVE  IInv
<1> USE DEF Init
<1>1. TypeOK
  BY ProductionAssumption
  DEF TypeOK, ThreadStatus, StartStep, CancelStep, TaskStep
<1>2. \A c \in Command : ~Known(c) /\ PartitionOf[c.run] \in Partition
  BY ProductionAssumption DEF Known, InLog, LogOf, Command
<1>3. CommandsSentOnce
  <2>1. \A r \in Run : [run |-> r, resume |-> FALSE] \in Command
    BY DEF Command
  <2> QED  BY <1>2, <2>1 DEF CommandsSentOnce
<1>4. RowsCreatedOnce /\ ReadsStillTrue /\ StartFailsByFault /\ ExecutedOnce
  BY <1>2 DEF RowsCreatedOnce, ReadsStillTrue, StartFailsByFault, ExecutedOnce, Command, Streaming
<1>5. CommandsTakenOnce
  BY DEF CommandsTakenOnce
<1>6. PermitsConserved
  <2>1. Working = {} /\ max_conc \in Nat
    BY ProductionAssumption DEF Working
  <2> QED  BY <2>1, FS_EmptySet DEF PermitsConserved
<1>7. OneActiveRunPerThread /\ BusyThreadIsAttended
  BY DEF OneActiveRunPerThread, Active, BusyThreadIsAttended
<1> QED  BY <1>1, <1>3, <1>4, <1>5, <1>6, <1>7 DEF IInv

\* The invariant is inductive.
LEMMA InvStep ==
  ASSUME IInv, [Next]_vars
  PROVE  IInv'
<1>1. TypeOK' /\ CommandsSentOnce' /\ RowsCreatedOnce' /\ CommandsTakenOnce'
  BY TypeStep, SentStep, RowsStep, TakenStep DEF IInv
<1>2. PermitsConserved' /\ ExecutedOnce' /\ OneActiveRunPerThread' /\ StartFailsByFault'
  BY PermitsStep, ExecutedStep, IndexStep, FailsByFaultStep DEF IInv
<1> QED  BY <1>1, <1>2, ReadsStep, BusyStep DEF IInv

\* Whatever crashes, races and redeliveries there are, gateway and worker stay
\* within the inductive invariant.
THEOREM Invariance == Spec => []IInv
<1>1. Init => IInv
  BY InitInv
<1>2. IInv /\ [Next]_vars => IInv'
  BY InvStep
<1> QED  BY <1>1, <1>2, PTL DEF Spec

\* The stale writes of gateway and worker never give a thread two active runs:
\* the unique index refuses the second one.
THEOREM ThreadsExclusive == Spec => []OneActiveRunPerThread
<1>1. IInv => OneActiveRunPerThread
  BY DEF IInv
<1> QED  BY <1>1, Invariance, PTL

\* No crash, redelivery or resume makes the worker run a graph twice, and
\* every task gives its permit of exec_sem back once.
THEOREM ExecutedAtMostOnce == Spec => []OneExecutionOnePermit
<1>1. IInv => OneExecutionOnePermit
  BY DEF IInv, ExecutedOnce, PermitsConserved, Working, OneExecutionOnePermit
<1> QED  BY <1>1, Invariance, PTL

\* Without a fault, a thread that is marked busy has a run, a call or an
\* execution that will mark it again.
THEOREM ThreadsAttended == Spec => []BusyThreadIsAttended
<1>1. IInv => BusyThreadIsAttended
  BY DEF IInv
<1> QED  BY <1>1, Invariance, PTL

\* The step with which a cancellation begins only reads the run.
LEMMA CancelBegins ==
  ASSUME TypeOK, [Next]_vars, NEW r \in Run, cancel[r] = "none", cancel'[r] # "none"
  PROVE  runs' = runs
<1>1. ASSUME NEW s \in Run, StartCheck(s) \/ StartGoesOn(s) \/ StartPublishFails(s) \/ ResumeRun(s)
      PROVE  UNCHANGED cancel
  BY <1>1 DEF StartGoesOn, StartCheck, StartMark, StartCreate, StartRefused, StartPublish,
     StartPublishFails, StartFailRun, StartFailThread, ResumeRun, calls
<1>2. ASSUME NEW s \in Run, CancelRead(s)
      PROVE  runs' = runs
  BY <1>2 DEF CancelRead, rows
<1>3. ASSUME NEW s \in Run, CancelGoesOn(s)
      PROVE  cancel'[r] = cancel[r]
  BY <1>3 DEF CancelGoesOn, CancelWrite, CancelThread, CancelTo, TypeOK
<1>4. CASE GatewayCrash
  BY <1>4 DEF GatewayCrash
<1>5. ASSUME NEW c \in buffer, Deliver(c) PROVE UNCHANGED cancel
  BY <1>5 DEF Deliver, calls
<1>6. CASE Gateway
  BY <1>1, <1>2, <1>3, <1>4, <1>5, <1>6 DEF Gateway
<1>7. CASE Worker
  BY <1>7, WorkerFrame DEF calls
<1>8. CASE UNCHANGED vars
  BY <1>8 DEF vars, calls
<1> QED  BY <1>6, <1>7, <1>8 DEF Next

\* A run that has ended gets another status only where it is being cancelled:
\* every other write was decided by a read that is still true.
LEMMA EndedStep ==
  ASSUME IInv, [Next]_vars, NEW r \in Run, runs[r] \in Terminal, runs'[r] # runs[r]
  PROVE  cancel[r] # "none"
<1> SUFFICES ASSUME cancel[r] = "none"
             PROVE  FALSE
  OBVIOUS
<1>1. runs[r] \notin {"absent", "pending", "running"}
  BY DEF Terminal
<1>2. CASE cancel'[r] = "none"
  <2>1. ~StartCreate(r)
    BY <1>1 DEF StartCreate, StartTo, IInv, RowsCreatedOnce
  <2>2. ~StartFailRun(r)
    BY <1>1 DEF StartFailRun, StartTo, IInv, ReadsStillTrue
  <2>3. ~Writes([run |-> r, resume |-> FALSE])
    <3> DEFINE c == [run |-> r, resume |-> FALSE]
    <3>1. c \in Command /\ c.run = r
      BY DEF Command
    <3>2. Writes(c) => task[c] \in Streaming \cup {"mark"}
      BY DEF Writes, TaskMark, TaskWrite, TaskFailWrite, TaskTo, Streaming
    <3> HIDE DEF c
    <3>3. ~Writes(c)
      BY <1>1, <3>1, <3>2 DEF IInv, ReadsStillTrue
    <3> QED  BY <3>3 DEF c
  <2> QED  BY <1>2, <2>1, <2>2, <2>3, WriterOfRun
<1>3. CASE cancel'[r] # "none"
  BY <1>3, CancelBegins DEF IInv
<1> QED  BY <1>2, <1>3

\* The status of an ended run changes only while a cancellation of that run is,
\* or was, under way.
THEOREM EndedOnlyIfRaced == Spec => EndedUnlessRaced
<1>1. IInv /\ [Next]_vars =>
        [\A r \in Run : (runs[r] \in Terminal /\ runs'[r] # runs[r]) => cancel[r] # "none"]_vars
  BY EndedStep
<1> QED  BY <1>1, Invariance, PTL DEF Spec, EndedUnlessRaced

\* The changes RunLifecycle knows of a run that nobody cancels.
LifecycleStep(from, to) ==
  \/ from = "absent" /\ to = "pending"
  \/ from = "pending" /\ to \in {"running", "error"}
  \/ from = "running" /\ to \in {"success", "error", "interrupted"}

\* A run of which no cancellation was called goes through its lifecycle: it is
\* created, begun and ended once each, and stays as it ended.
OrderlyUnlessCancelled ==
  [][\A r \in Run : (cancel'[r] = "none" /\ runs'[r] # runs[r]) =>
       LifecycleStep(runs[r], runs'[r])]_vars

\* Each write to a run that is not cancelled finds the status before it in the
\* lifecycle.
LEMMA OrderlyStep ==
  ASSUME IInv, [Next]_vars, NEW r \in Run, cancel'[r] = "none", runs'[r] # runs[r]
  PROVE  LifecycleStep(runs[r], runs'[r])
<1> USE DEF IInv, TypeOK, RunSet, LifecycleStep
<1>1. cancel[r] = "none"
  BY CancelStays
<1>2. ASSUME StartCreate(r) PROVE runs[r] = "absent" /\ runs'[r] = "pending"
  BY <1>2 DEF StartCreate, StartTo, RowsCreatedOnce
<1>3. ASSUME StartFailRun(r) PROVE runs[r] = "pending" /\ runs'[r] = "error"
  BY <1>1, <1>3 DEF StartFailRun, StartTo, ReadsStillTrue
<1>4. ASSUME NEW c \in Command, Writes(c), c.run = r PROVE LifecycleStep(runs[r], runs'[r])
  <2>1. CASE TaskMark(c)
    BY <1>1, <1>4, <2>1 DEF TaskMark, TaskTo, ReadsStillTrue
  <2>2. ASSUME TaskWrite(c) \/ TaskFailWrite(c) PROVE runs[r] = "running"
    BY <1>1, <1>4, <2>2 DEF TaskWrite, TaskFailWrite, TaskTo, ReadsStillTrue, Streaming
  <2>3. StatusOf(outcome[c]) \in {"success", "error", "interrupted"}
    BY ProductionAssumption DEF StatusOf
  <2>4. CASE TaskWrite(c)
    BY <1>4, <2>2, <2>3, <2>4 DEF TaskWrite
  <2>5. CASE TaskFailWrite(c)
    BY <1>4, <2>2, <2>5 DEF TaskFailWrite
  <2> QED  BY <1>4, <2>1, <2>4, <2>5 DEF Writes
<1>5. [run |-> r, resume |-> FALSE] \in Command
  BY DEF Command
<1> QED  BY <1>2, <1>3, <1>4, <1>5, WriterOfRun

\* Through crashes, redeliveries, resumes and stale reads, the row of a run
\* that nobody cancels takes the steps of the lifecycle and no others.
THEOREM OrderlyRuns == Spec => OrderlyUnlessCancelled
<1>1. IInv /\ [Next]_vars =>
        [\A r \in Run : (cancel'[r] = "none" /\ runs'[r] # runs[r]) =>
           LifecycleStep(runs[r], runs'[r])]_vars
  BY OrderlyStep
<1> QED  BY <1>1, Invariance, PTL DEF Spec, OrderlyUnlessCancelled

-----------------------------------------------------------------------------
(* No run is lost without a fault *)

\* The command that starts run r, and a command that is yet to be received.
Starting(r) == [run |-> r, resume |-> FALSE]
Ahead(c) == \E i \in DOMAIN LogOf(c) : i > position[PartitionOf[c.run]] /\ LogOf(c)[i] = c

\* A pending run is still to be published, or its command is on its way to the
\* worker or with a task that has not marked it running.
OnItsWay(r) ==
  \/ start[r] = "created"
  \/ Starting(r) \in buffer \/ Ahead(Starting(r)) \/ Starting(r) \in held
  \/ task[Starting(r)] \in {"read", "mark"}

\* Without a fault the loop lives, no pending run is forgotten, and a running
\* run that has an adapter has a task that will write how it ended.
NoRunLost ==
  faults = 0 =>
    /\ alive
    /\ \A r \in Run : runs[r] = "pending" => OnItsWay(r)
    /\ \A r \in Adapted : runs[r] = "running" => task[Starting(r)] \in Streaming

\* Without a crash the consumer has read no further than the log goes.
PositionsInLog ==
  faults = 0 => \A p \in Partition : position[p] <= Len(log[p])

\* A run that is active has its thread to itself, so the index lets it go on.
LEMMA OwnThread ==
  ASSUME TypeOK, OneActiveRunPerThread, NEW r \in Run, runs[r] \in Active
  PROVE  IndexAllows(r)
BY ProductionAssumption DEF TypeOK, OneActiveRunPerThread, IndexAllows

\* The starting command of a run is a command of that run.
LEMMA StartingIs ==
  ASSUME NEW r \in Run
  PROVE  /\ Starting(r) \in Command /\ Starting(r).run = r /\ Starting(r).resume = FALSE
         /\ PartitionOf[r] \in Partition
BY ProductionAssumption DEF Starting, Command

\* Without a fault no step ends the loop, and only a receipt moves the consumer.
LEMMA QuietStep ==
  ASSUME TypeOK, [Next]_vars, faults' = 0
  PROVE  /\ faults = 0 /\ ~Fault /\ (alive' = alive)
         /\ \/ UNCHANGED position
            \/ \E p \in Partition : Receive(p)
<1>1. faults = 0 /\ ~Fault
  BY FaultsFrame, FaultType
<1>2. CASE Gateway
  BY <1>1, <1>2, GatewayFrame DEF worker
<1>3. CASE Worker
  <2>1. ASSUME NEW c \in Command, TaskGoesOn(c) \/ TaskCrashes(c)
        PROVE  UNCHANGED <<alive, position>>
    BY <2>1, TaskFrame
  <2> QED  BY <1>1, <1>3, <2>1 DEF Worker, Receive, Dispatch, LoopDies, WorkerCrash
<1>4. CASE UNCHANGED vars
  BY <1>1, <1>4 DEF vars, worker
<1> QED  BY <1>1, <1>2, <1>3, <1>4 DEF Next

\* The log only grows, at its end.
LEMMA LogGrows ==
  ASSUME TypeOK, [Next]_vars
  PROVE  UNCHANGED log \/ \E c \in buffer : Deliver(c)
<1>1. CASE Gateway
  BY <1>1 DEF Gateway, StartGoesOn, CancelGoesOn, StartCheck, StartMark, StartCreate, StartRefused,
     StartPublish, StartPublishFails, StartFailRun, StartFailThread, CancelRead, CancelWrite,
     CancelThread, ResumeRun, GatewayCrash, kafka
<1>2. CASE Worker
  BY <1>2, WorkerFrame
<1>3. CASE UNCHANGED vars
  BY <1>3 DEF vars, kafka
<1> QED  BY <1>1, <1>2, <1>3 DEF Next

\* A record is received only if it is there.
LEMMA PositionsStep ==
  ASSUME TypeOK, PositionsInLog, [Next]_vars
  PROVE  PositionsInLog'
<1> SUFFICES ASSUME faults' = 0, NEW p \in Partition
             PROVE  position'[p] <= Len(log'[p])
  BY DEF PositionsInLog
<1>1. faults = 0 /\ position[p] <= Len(log[p]) /\ log[p] \in Seq(Command) /\ position[p] \in Nat
  BY QuietStep DEF PositionsInLog, TypeOK
<1>2. ASSUME NEW q \in Partition, Receive(q) PROVE position'[p] <= Len(log'[p])
  BY <1>1, <1>2 DEF Receive, kafka, TypeOK
<1>3. ASSUME NEW c \in buffer, Deliver(c) PROVE position'[p] <= Len(log'[p])
  <2>1. /\ c \in Command /\ UNCHANGED position
        /\ log' = [log EXCEPT ![PartitionOf[c.run]] = Append(@, c)]
    BY <1>3 DEF Deliver, worker, TypeOK
  <2>2. log'[p] = log[p] \/ log'[p] = Append(log[p], c)
    BY <2>1 DEF TypeOK
  <2>3. Len(log'[p]) >= Len(log[p])
    BY <1>1, <2>1, <2>2
  <2> QED  BY <1>1, <2>1, <2>3
<1>4. CASE UNCHANGED <<log, position>>
  BY <1>1, <1>4
<1> QED  BY <1>2, <1>3, <1>4, QuietStep, LogGrows

\* What the gateway does with the command of a pending run brings it closer.
LEMMA GatewayHandsOn ==
  ASSUME IInv, PositionsInLog, Gateway, faults' = 0, NEW r \in Run, OnItsWay(r)
  PROVE  OnItsWay(r)'
<1> USE DEF IInv, TypeOK
<1>1. faults = 0 /\ ~Fault
  BY QuietStep DEF Next
<1>2. UNCHANGED <<position, held, task>>
  BY GatewayFrame DEF worker
<1>3. Starting(r) \in Command /\ Starting(r).run = r /\ PartitionOf[r] \in Partition
  BY StartingIs
<1>4. ASSUME UNCHANGED log, Ahead(Starting(r)) PROVE Ahead(Starting(r))'
  BY <1>2, <1>4 DEF Ahead, LogOf, Starting
<1>5. ASSUME NEW s \in Run, StartPublish(s) PROVE OnItsWay(r)'
  <2>1. /\ buffer' = buffer \cup {Starting(s)} /\ UNCHANGED log
        /\ s # r => start'[r] = start[r]
    BY <1>5 DEF StartPublish, StartTo, Starting
  <2> QED  BY <1>2, <1>4, <2>1 DEF OnItsWay, Starting
<1>6. ASSUME NEW c \in buffer, Deliver(c) PROVE OnItsWay(r)'
  <2>1. /\ c \in Command /\ PartitionOf[c.run] \in Partition
        /\ log' = [log EXCEPT ![PartitionOf[c.run]] = Append(@, c)]
        /\ buffer' = buffer \ {c} /\ UNCHANGED start
    BY <1>6, KnownAfterDeliver DEF Deliver, calls
  <2>2. ASSUME c # Starting(r), Ahead(Starting(r)) PROVE Ahead(Starting(r))'
    <3>1. \A i \in DOMAIN log[PartitionOf[r]] :
             i \in DOMAIN log'[PartitionOf[r]] /\ log'[PartitionOf[r]][i] = log[PartitionOf[r]][i]
      BY <1>3, <2>1, AppendPlaces
    <3> QED  BY <1>2, <1>3, <2>2, <3>1 DEF Ahead, LogOf, Starting
  <2>3. ASSUME c = Starting(r) PROVE Ahead(Starting(r))'
    <3> DEFINE q == log[PartitionOf[r]]
    <3>1. q \in Seq(Command) /\ log'[PartitionOf[r]] = Append(q, c)
      BY <1>3, <2>1, <2>3
    <3>2. /\ Len(q) + 1 \in DOMAIN Append(q, c) /\ Append(q, c)[Len(q) + 1] = c
          /\ position[PartitionOf[r]] < Len(q) + 1
      BY <1>1, <1>3, <2>1, <3>1 DEF PositionsInLog
    <3> HIDE DEF q
    <3> QED  BY <1>2, <1>3, <2>3, <3>1, <3>2 DEF Ahead, LogOf, Starting
  <2> QED  BY <1>2, <2>1, <2>2, <2>3 DEF OnItsWay, Starting
<1>7. ASSUME NEW s \in Run,
             \/ StartCheck(s) \/ StartMark(s) \/ StartCreate(s) \/ StartRefused(s)
             \/ StartFailRun(s) \/ StartFailThread(s)
      PROVE  (start[r] = "created" => start'[r] = "created") /\ UNCHANGED <<buffer, log>>
  BY <1>7 DEF StartCheck, StartMark, StartCreate, StartRefused, StartFailRun, StartFailThread, StartTo, kafka
<1>8. ASSUME NEW s \in Run, CancelRead(s) \/ CancelWrite(s) \/ CancelThread(s) \/ ResumeRun(s)
      PROVE  UNCHANGED <<start, log>> /\ buffer \subseteq buffer'
  BY <1>8 DEF CancelRead, CancelWrite, CancelThread, ResumeRun, kafka, calls
<1>9. ~GatewayCrash /\ \A s \in Run : ~StartPublishFails(s)
  BY <1>1 DEF GatewayCrash, StartPublishFails
<1>10. ASSUME start[r] = "created" => start'[r] = "created", buffer \subseteq buffer', UNCHANGED log
       PROVE  OnItsWay(r)'
  BY <1>2, <1>4, <1>10 DEF OnItsWay, Starting
<1> QED  BY <1>5, <1>6, <1>7, <1>8, <1>9, <1>10 DEF Gateway, StartGoesOn, CancelGoesOn

\* What the worker does with the command of a run that stays pending brings it
\* closer to being marked running.
LEMMA WorkerHandsOn ==
  ASSUME IInv, Worker, faults' = 0, NEW r \in Run, OnItsWay(r),
         runs[r] = "pending", runs'[r] = "pending"
  PROVE  OnItsWay(r)'
<1> USE DEF IInv, TypeOK
<1>1. ~Fault
  BY QuietStep DEF Next
<1>2. UNCHANGED <<start, buffer, log>>
  BY WorkerFrame DEF calls
<1>3. Starting(r) \in Command /\ Starting(r).run = r /\ PartitionOf[r] \in Partition
  BY StartingIs
<1>4. ASSUME NEW p \in Partition, Receive(p) PROVE OnItsWay(r)'
  <2>1. /\ position' = [position EXCEPT ![p] = @ + 1] /\ held = {}
        /\ held' = {log[p][position[p] + 1]} /\ UNCHANGED task
    BY <1>4 DEF Receive
  <2>2. ASSUME Ahead(Starting(r)) PROVE Ahead(Starting(r))' \/ Starting(r) \in held'
    <3>1. PICK i \in DOMAIN log[PartitionOf[r]] :
             i > position[PartitionOf[r]] /\ log[PartitionOf[r]][i] = Starting(r)
      BY <1>3, <2>2 DEF Ahead, LogOf
    <3>2. i \in Nat /\ position[PartitionOf[r]] \in Nat
      BY <1>3, <3>1
    <3>3. CASE p = PartitionOf[r] /\ i = position[p] + 1
      BY <2>1, <3>1, <3>3
    <3>4. CASE ~(p = PartitionOf[r] /\ i = position[p] + 1)
      <4>1. i > position'[PartitionOf[r]]
        BY <1>3, <2>1, <3>1, <3>2, <3>4
      <4> QED  BY <1>2, <1>3, <3>1, <4>1 DEF Ahead, LogOf, Starting
    <3> QED  BY <3>3, <3>4
  <2> QED  BY <1>2, <2>1, <2>2 DEF OnItsWay, Starting
<1>5. ASSUME UNCHANGED position, Ahead(Starting(r)) PROVE Ahead(Starting(r))'
  BY <1>2, <1>5 DEF Ahead, LogOf, Starting
<1>6. ASSUME NEW c \in Command, Dispatch(c) PROVE OnItsWay(r)'
  <2>1. /\ c \in held /\ task' = [task EXCEPT ![c] = "read"] /\ UNCHANGED position
    BY <1>6 DEF Dispatch
  <2>2. held = {c}
    BY <2>1 DEF CommandsTakenOnce
  <2>3. task'[Starting(r)] = IF c = Starting(r) THEN "read" ELSE task[Starting(r)]
    BY <1>3, <2>1
  <2> QED  BY <1>2, <1>5, <2>1, <2>2, <2>3 DEF OnItsWay, Starting
<1>7. ASSUME NEW c \in Command, TaskGoesOn(c) PROVE OnItsWay(r)'
  <2>1. UNCHANGED <<held, position>>
    BY <1>7, TaskFrame
  <2>2. ASSUME task[Starting(r)] \in {"read", "mark"} PROVE task'[Starting(r)] \in {"read", "mark"}
    <3>1. CASE c # Starting(r)
      BY <1>3, <1>7, <2>2, <3>1, TaskFrame
    <3>2. CASE c = Starting(r)
      <4>1. IndexAllows(c.run)
        BY <1>3, <3>2, OwnThread DEF Active
      <4>2. TaskRead(c) \/ TaskMark(c)
        BY <1>7, <2>2, <3>2, <4>1 DEF TaskGoesOn, TaskMarkRefused, GraphEnds, StreamBreaks, TaskStore, TaskWrite,
           TaskThread, TaskFail, TaskFailWrite, TaskIdle, TaskAck, TaskTo
      <4>3. ~TaskMark(c)
        BY <1>3, <3>2 DEF TaskMark, RunSet
      <4> QED  BY <1>3, <3>2, <4>2, <4>3 DEF TaskRead, TaskTo
    <3> QED  BY <3>1, <3>2
  <2> QED  BY <1>2, <1>5, <2>1, <2>2 DEF OnItsWay, Starting
<1>8. \A c \in Command : ~TaskCrashes(c)
  BY <1>1 DEF TaskCrashes
<1> QED
  BY <1>1, <1>4, <1>6, <1>7, <1>8 DEF Worker, LoopDies, WorkerCrash

\* A task that has not written how a running run ended goes on to do so.
LEMMA StreamGoesOn ==
  ASSUME IInv, NEW c \in Command, TaskGoesOn(c), task[c] \in Streaming,
         runs[c.run] = "running", runs'[c.run] = "running"
  PROVE  task'[c] \in Streaming
<1> USE DEF IInv, TypeOK, TaskTo, Streaming
<1>1. c.run \in Run
  BY DEF Command
<1>2. IndexAllows(c.run)
  BY <1>1, OwnThread DEF Active
<1>3. ~TaskFailWrite(c)
  BY <1>1 DEF TaskFailWrite, RunSet
<1>4. ~TaskWrite(c)
  <2>1. StatusOf(outcome[c]) # "running"
    BY DEF StatusOf
  <2> QED  BY <1>1, <1>2, <2>1 DEF TaskWrite, RunSet
<1>5. ASSUME TaskStore(c) PROVE task'[c] \in Streaming
  <2>1. CanStore(runs[c.run], outcome[c])
    BY DEF CanStore, CanChange, Terminal
  <2> QED  BY <1>5, <2>1 DEF TaskStore
<1>6. ASSUME TaskFail(c) PROVE task'[c] \in Streaming
  BY <1>6 DEF TaskFail, Terminal
<1>7. ASSUME (\E event \in GraphOutcome : GraphEnds(c, event)) \/ StreamBreaks(c)
      PROVE  task'[c] \in Streaming
  BY <1>7 DEF GraphEnds, StreamBreaks
<1> QED
  BY <1>3, <1>4, <1>5, <1>6, <1>7 DEF TaskGoesOn, TaskRead, TaskMark, TaskMarkRefused, TaskThread, TaskIdle, TaskAck

\* Without a fault a running run that has an adapter is with its task.
LEMMA RunningStep ==
  ASSUME IInv, NoRunLost, [Next]_vars, faults' = 0, NEW r \in Adapted, runs'[r] = "running"
  PROVE  task'[Starting(r)] \in Streaming
<1> USE DEF IInv, TypeOK
<1>1. faults = 0 /\ ~Fault
  BY QuietStep
<1>2. r \in Run /\ Starting(r) \in Command /\ Starting(r).run = r
  BY ProductionAssumption, StartingIs
<1>3. CASE runs[r] # "running"
  <2>1. ASSUME NEW s \in Run, StartCreate(s) \/ StartFailRun(s) \/ CancelWrite(s) PROVE FALSE
    BY <1>2, <1>3, <2>1 DEF StartCreate, StartFailRun, CancelWrite, RunSet
  <2>2. ASSUME NEW c \in Command, TaskWrite(c) \/ TaskFailWrite(c) PROVE FALSE
    <3>1. StatusOf(outcome[c]) # "running"
      BY DEF StatusOf
    <3> QED  BY <1>2, <1>3, <2>2, <3>1 DEF TaskWrite, TaskFailWrite, RunSet
  <2>3. PICK c \in Command : TaskMark(c)
    BY <1>2, <1>3, <2>1, <2>2, RunsFrame DEF WritesRun
  <2>4. c.run = r /\ task[c] = "mark"
    BY <1>2, <1>3, <2>3 DEF TaskMark, RunSet, TaskTo
  <2>5. c.resume = FALSE
    BY <2>4 DEF ExecutedOnce, Command
  <2>6. c = Starting(r)
    BY <2>4, <2>5 DEF Command, Starting
  <2> QED  BY <2>3, <2>4, <2>6 DEF TaskMark, TaskTo, Streaming
<1>4. CASE runs[r] = "running"
  <2>1. task[Starting(r)] \in Streaming
    BY <1>1, <1>4 DEF NoRunLost
  <2>2. CASE UNCHANGED task
    BY <2>1, <2>2
  <2>3. ASSUME NEW c \in Command, TaskGoesOn(c) PROVE task'[Starting(r)] \in Streaming
    <3>1. CASE c # Starting(r)
      BY <1>2, <2>1, <2>3, <3>1, TaskFrame
    <3>2. CASE c = Starting(r)
      BY <1>2, <1>4, <2>1, <2>3, <3>2, StreamGoesOn
    <3> QED  BY <3>1, <3>2
  <2>4. ASSUME NEW c \in Command, Dispatch(c) PROVE task'[Starting(r)] \in Streaming
    <3>1. c \in held /\ task' = [task EXCEPT ![c] = "read"]
      BY <2>4 DEF Dispatch
    <3>2. c # Starting(r)
      BY <2>1, <3>1 DEF CommandsTakenOnce, Streaming
    <3> QED  BY <1>2, <2>1, <3>1, <3>2
  <2>5. (\A c \in Command : ~TaskCrashes(c)) /\ ~WorkerCrash
    BY <1>1 DEF TaskCrashes, WorkerCrash
  <2>6. CASE Worker
    BY <2>2, <2>3, <2>4, <2>5, <2>6 DEF Worker, Receive, LoopDies
  <2>7. CASE Gateway
    BY <2>2, <2>7, GatewayFrame DEF worker
  <2>8. CASE UNCHANGED vars
    BY <2>2, <2>8 DEF vars, worker
  <2> QED  BY <2>6, <2>7, <2>8 DEF Next
<1> QED  BY <1>3, <1>4

\* Without a fault no step loses a run.
LEMMA LostStep ==
  ASSUME IInv, PositionsInLog, NoRunLost, [Next]_vars
  PROVE  NoRunLost'
<1> SUFFICES ASSUME faults' = 0
             PROVE  /\ alive'
                    /\ \A r \in Run : runs'[r] = "pending" => OnItsWay(r)'
                    /\ \A r \in Adapted : runs'[r] = "running" => task'[Starting(r)] \in Streaming
  BY DEF NoRunLost, Starting
<1>1. faults = 0 /\ alive'
  BY QuietStep DEF IInv, NoRunLost
<1>2. ASSUME NEW r \in Run, runs'[r] = "pending" PROVE OnItsWay(r)'
  <2>1. CASE StartCreate(r)
    BY <2>1 DEF StartCreate, StartTo, IInv, TypeOK, OnItsWay
  <2>2. CASE ~StartCreate(r)
    <3>1. runs[r] = "pending"
      BY <1>2, <2>2, RunsAdvance DEF IInv
    <3>2. OnItsWay(r)
      BY <1>1, <3>1 DEF NoRunLost
    <3>3. CASE UNCHANGED vars
      BY <3>2, <3>3 DEF vars, calls, kafka, worker, OnItsWay, Ahead, LogOf, Starting
    <3> QED  BY <1>2, <3>1, <3>2, <3>3, GatewayHandsOn, WorkerHandsOn DEF Next
  <2> QED  BY <2>1, <2>2
<1> QED  BY <1>1, <1>2, RunningStep

\* Without a fault no run is lost: every pending run is still to be published
\* or its command is on the way to mark_running, and every running run whose
\* adapter the worker has is with a task that has yet to write how it ended,
\* whatever cancels, resumes and other runs interleave.
THEOREM NothingIsLost == Spec => []NoRunLost
<1>1. Init => PositionsInLog /\ NoRunLost
  <2>1. Init => PositionsInLog
    BY DEF Init, PositionsInLog
  <2>2. Init => NoRunLost
    BY ProductionAssumption DEF Init, NoRunLost
  <2> QED  BY <2>1, <2>2
<1>2. IInv /\ PositionsInLog /\ NoRunLost /\ [Next]_vars => PositionsInLog' /\ NoRunLost'
  BY PositionsStep, LostStep DEF IInv
<1> QED  BY <1>1, <1>2, Invariance, PTL DEF Spec
=============================================================================
