---------------------------- MODULE BoundedWorker ----------------------------
(***************************************************************************)
(* adapters/grpc/worker.py and server.py: the slots of a gRPC worker, the  *)
(* table of running calls that Cancel looks up, the registration, and      *)
(* drain(), called by the Drain request and by the stop of the server.  A  *)
(* call is one Invoke or Stream request; the gateway may send two for the  *)
(* same run.                                                               *)
(***************************************************************************)
EXTENDS AsyncSemaphore, FiniteSetsExt

CONSTANTS
  Call,             \* Invoke and Stream requests
  Run,              \* run ids
  RunOf,            \* the run a request names, a function from Call to Run
  NoCall,           \* no entry in _running
  configured, environment, ceiling   \* the limits of WorkerConfig, positive

VARIABLES
  inside,      \* calls between acquire() and release()
  done,        \* calls that are over
  active,      \* _active
  running,     \* _running: the call registered for a run
  cancelled,   \* calls whose task was cancelled
  registered,  \* registration is not None
  draining,    \* _draining
  drain,       \* the drain() calls of the Drain request and of stop()
  listening,   \* the server takes requests
  closed,      \* the process has closed its pool and its command queue
  queued       \* ghost: calls that waited for a slot when draining began

vars == <<semaphore, inside, done, active, running, cancelled, registered, draining, drain, listening, closed, queued>>
control == <<registered, draining, drain, listening, closed, queued>>

Waiting == {waiters[i] : i \in DOMAIN waiters}

\* WorkerConfig.resolve()
max_concurrency == Min({configured, environment, ceiling})

Init ==
  /\ SemaphoreInit(max_concurrency)
  /\ inside = {} /\ done = {} /\ active = 0
  /\ running = [r \in Run |-> NoCall]
  /\ cancelled = {} /\ registered = FALSE
  /\ draining = FALSE /\ drain = [d \in {"request", "stop"} |-> "away"]
  /\ listening = TRUE /\ closed = FALSE /\ queued = {}

Fresh(c) == listening /\ c \notin inside \cup done \cup granted \cup Waiting

\* acquire() returned: the slot is counted and the task registered.
Enters(c) ==
  /\ inside' = inside \cup {c}
  /\ active' = active + 1
  /\ running' = [running EXCEPT ![RunOf[c]] = c]
  /\ UNCHANGED <<done, cancelled, control>>

\* Mutant: a request is not refused while the worker drains.
BeginUnchecked(c) == Fresh(c) /\ AcquireNow /\ Enters(c)

Begin(c) == Fresh(c) /\ ~draining /\ AcquireNow /\ Enters(c)

Queue(c) ==
  /\ Fresh(c) /\ ~draining /\ AcquireWait(c)
  /\ UNCHANGED <<inside, done, active, running, cancelled, control>>

\* "worker is draining"
Refuse(c) ==
  /\ Fresh(c) /\ draining
  /\ done' = done \cup {c}
  /\ UNCHANGED <<semaphore, inside, active, running, cancelled, control>>

\* The draining flag is not looked at again after the wait.
BeginAfterWait(c) == AcquireResumes(c) /\ Enters(c)

\* The client goes away while its call is queued.
Abandon(c) ==
  /\ AcquireCancelled(c)
  /\ done' = done \cup {c}
  /\ UNCHANGED <<inside, active, running, cancelled, control>>

\* Mutant: the permit is not given back.
EndKeepsPermit(c) ==
  /\ c \in inside
  /\ inside' = inside \ {c} /\ done' = done \cup {c}
  /\ running' = [running EXCEPT ![RunOf[c]] = NoCall]
  /\ active' = active - 1
  /\ UNCHANGED <<semaphore, cancelled, control>>

\* The finally block: unregister_running, then release().
End(c) ==
  /\ c \in inside
  /\ inside' = inside \ {c} /\ done' = done \cup {c}
  /\ running' = [running EXCEPT ![RunOf[c]] = NoCall]
  /\ IF active > 0 THEN active' = active - 1 /\ Release
                   ELSE UNCHANGED <<active, semaphore>>
  /\ UNCHANGED <<cancelled, control>>

Cancel(r) ==
  /\ running[r] # NoCall
  /\ cancelled' = cancelled \cup {running[r]}
  /\ UNCHANGED <<semaphore, inside, done, active, running, control>>

\* register() raises ValueError for a request with another limit.
Registrable(limit) == limit = max_concurrency

\* Register: the ValueError is answered "not accepted".
Register(limit) ==
  /\ registered' = (registered \/ Registrable(limit))
  /\ UNCHANGED <<semaphore, inside, done, active, running, cancelled, draining, drain, listening, closed, queued>>

\* drain(): by Drain, which a worker without registration refuses, or by
\* stop().  The first check of the loop is part of the call.
DrainBegins(d) ==
  /\ drain[d] = "away"
  /\ d = "request" => registered
  /\ draining' = TRUE
  /\ queued' = IF draining THEN queued ELSE Waiting \cup granted
  /\ drain' = [drain EXCEPT ![d] = IF active = 0 THEN "returned" ELSE "polling"]
  /\ UNCHANGED <<semaphore, inside, done, active, running, cancelled, registered, listening, closed>>

\* The loop sees no active call, or its deadline passes with some left.
DrainEnds(d) ==
  /\ drain[d] = "polling"
  /\ drain' = [drain EXCEPT ![d] = IF active = 0 THEN "returned" ELSE "timeout"]
  /\ UNCHANGED <<semaphore, inside, done, active, running, cancelled, registered, draining, listening, closed, queued>>

\* WorkerServer.stop goes on to stop the server; a TimeoutError skips that.
ServerStops ==
  /\ drain["stop"] = "returned"
  /\ listening
  /\ listening' = FALSE
  /\ UNCHANGED <<semaphore, inside, done, active, running, cancelled, registered, draining, drain, closed, queued>>

\* grpc's stop() has waited for the calls that are left, or cancelled them;
\* the process closes what its calls were using.
ProcessCloses ==
  /\ ~listening /\ ~closed
  /\ inside \cup granted \cup Waiting = {}
  /\ closed' = TRUE
  /\ UNCHANGED <<semaphore, inside, done, active, running, cancelled, registered, draining, drain, listening, queued>>

\* Work answers every heartbeat with available_slots.
HeartbeatAnswer == max_concurrency - active

Next ==
  \/ \E c \in Call : \/ Begin(c) \/ Queue(c) \/ Refuse(c) \/ BeginAfterWait(c)
                     \/ Abandon(c) \/ End(c)
  \/ \E r \in Run : Cancel(r)
  \/ \E limit \in {max_concurrency, configured} : Register(limit)
  \/ \E d \in {"request", "stop"} : DrainBegins(d) \/ DrainEnds(d)
  \/ ServerStops \/ ProcessCloses

Spec == Init /\ [][Next]_vars

-----------------------------------------------------------------------------
(* Properties *)

\* The slots that a heartbeat reports are the permits the semaphore has left
\* and the ones on their way to a queued call: the count of active calls and
\* the permits never drift apart, also when queued calls are abandoned after
\* they were granted a permit, and Cancel never hits a task whose call is
\* over, even where two calls shared the entry of one run.
SlotsMatchPermits ==
  /\ active = Cardinality(inside)
  /\ HeartbeatAnswer = value + Cardinality(granted)
  /\ \A r \in Run : running[r] # NoCall => running[r] \in inside

\* Once a drain() has returned, only calls that were queued on the semaphore
\* when draining began still execute: acquire() does not look at the flag
\* again after its wait, but nobody new gets in, and nobody executes when
\* the process has closed its database.
DrainedAdmitsQueuedOnly ==
  /\ closed => inside = {}
  /\ (\E d \in {"request", "stop"} : drain[d] = "returned") => inside \subseteq queued
=============================================================================
