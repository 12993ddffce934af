------------------------------- MODULE MCSlots -------------------------------
(***************************************************************************)
(* What bounds and orders the work of a process: the execution capacity,   *)
(* the slots of the gRPC worker and the command queues.  They share no     *)
(* state: a behaviour exercises one of them, named by part, and the others *)
(* stay in an initial state.                                               *)
(***************************************************************************)
EXTENDS ExecutionCapacity

CONSTANTS
  Call, Run, RunOf, NoCall, configured, environment, ceiling,
  Interactive, Normal, Batch

\* WorkerConfig refuses limits below one; a priority is one number.
ASSUME SlotsAssumption ==
  /\ RunOf \in [Call -> Run] /\ NoCall \notin Call
  /\ {configured, environment, ceiling} \subseteq Nat \ {0}
  /\ Interactive \cap Normal = {} /\ (Interactive \cup Normal) \cap Batch = {}

VARIABLES
  part,
  wValue, wWaiters, wGranted, wInside, wDone, wActive, wRunning,
  wCancelled, wRegistered, wDraining, wDrain, wListening, wClosed, wQueued,
  queue, items, cursor, created, aged, leases, dead, tries

\* Two of the calls are requests for one run.
Pair == CHOOSE p \in SUBSET Call : Cardinality(p) = 2
SharedRun == [c \in Call |-> IF c \in Pair THEN CHOOSE r \in Run : TRUE
                             ELSE CHOOSE r \in Run : r # CHOOSE q \in Run : TRUE]

Worker == INSTANCE BoundedWorker WITH
  value <- wValue, waiters <- wWaiters, granted <- wGranted, inside <- wInside,
  done <- wDone, active <- wActive, running <- wRunning, cancelled <- wCancelled,
  registered <- wRegistered, draining <- wDraining, drain <- wDrain,
  listening <- wListening, closed <- wClosed, queued <- wQueued

Queues == INSTANCE CommandQueues

workerVars == <<wValue, wWaiters, wGranted, wInside, wDone, wActive, wRunning,
  wCancelled, wRegistered, wDraining, wDrain, wListening, wClosed, wQueued>>
queueVars == <<queue, items, cursor, created, aged, leases, dead, tries>>
allVars == <<part, vars, workerVars, queueVars>>

PartInit ==
  /\ part \in {"capacity", "worker", "queues"}
  /\ Init /\ Worker!Init /\ Queues!Init
  /\ part # "queues" => queue = "priority"

PartNext ==
  \/ part = "capacity" /\ Next /\ UNCHANGED <<part, workerVars, queueVars>>
  \/ part = "worker" /\ Worker!Next /\ UNCHANGED <<part, vars, queueVars>>
  \/ part = "queues" /\ Queues!Next /\ UNCHANGED <<part, vars, workerVars>>

PartSpec ==
  /\ PartInit
  /\ [][PartNext]_allVars
  /\ part = "capacity" => Fairness
  /\ part = "queues" => Queues!Fairness

-----------------------------------------------------------------------------
(* The properties of the parts *)

\* The gRPC worker's count of active calls, its permits and its table of
\* running calls agree, whatever calls are abandoned or share a run.
SlotsMatchPermits == Worker!SlotsMatchPermits

\* After drain() of the gRPC worker only calls that were already queued on
\* its semaphore still execute.
DrainedAdmitsQueuedOnly == Worker!DrainedAdmitsQueuedOnly

\* A command is in one place of its queue, and its deliveries are bounded.
DeliveriesBounded == Queues!DeliveriesBounded

\* The dispatcher leases every queued command at last.
NobodyStarves == part = "queues" => Queues!NobodyStarves
=============================================================================
