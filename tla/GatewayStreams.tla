--------------------------- MODULE GatewayStreams ---------------------------
(***************************************************************************)
(* A run of the production profile as its clients see it.  The worker's    *)
(* generator yields numbered events into a gRPC stream and writes the run  *)
(* and thread rows when an ending event has been yielded; StreamEvents of  *)
(* the gateway puts every event into the queues registered for the run;    *)
(* _sse_response reads one queue; _wait_for_run polls the row.  One run:   *)
(* queues and rows of different runs are independent.  The interleavings   *)
(* of single database transactions are the subject of ProductionWorker.    *)
(***************************************************************************)
EXTENDS ExecutionDomain, Integers, Sequences, SequencesExt

CONSTANTS
    Subscribers,    \* SSE requests for the run
    MaxEvents,      \* bound: events the graph yields
    QueueSize,      \* asyncio.Queue(maxsize=10000)
    Window          \* events that gRPC flow control keeps in flight

ASSUME EventsAreBounded == MaxEvents \in Nat

VARIABLES
    service,    \* "worker" (services/worker) or "all" (services/all)
    run, thread,    \* the status in the two rows
    task,       \* how far the worker's task has come
    ending,     \* the ending event whose status is being stored
    seq,        \* the sequence number of the next event
    wire,       \* events in flight to the gateway, End after the last one
    ingress,    \* state of StreamEvents
    item,       \* sequence number of the latest event StreamEvents has taken
    registered, \* the queues listed for the run, by subscriber
    position,   \* index of the queue that is next in the loop over them
    sub,        \* state of an SSE request
    buffer,     \* contents of its queue
    last,       \* latest event it has read, or the one before its first
    waiter      \* a request that waits for the run in _wait_for_run

worker   == <<run, thread, task, ending, seq>>
gateway  == <<ingress, item, registered, position>>
client   == <<sub, last, waiter>>
vars     == <<service, worker, wire, gateway, buffer, client>>

End     == MaxEvents    \* the closing None
Settled == Terminal \union {"interrupted"}

-----------------------------------------------------------------------------
Init ==
    /\ service \in {"worker", "all"}
    /\ run = "pending" /\ thread = "busy" /\ task = "queued" /\ ending = "none" /\ seq = 0
    /\ wire = <<>>
    /\ ingress = "idle" /\ item = -1 /\ registered = <<>> /\ position = 1
    /\ sub = [s \in Subscribers |-> "away"]
    /\ buffer = [s \in Subscribers |-> <<>>]
    /\ last = [s \in Subscribers |-> -1]
    /\ waiter = "away"

-----------------------------------------------------------------------------
(* The worker: _process_receipt with the generator it streams from.        *)

\* The execution loop receives the command, takes a permit of exec_sem and
\* creates the task.
Dispatch ==
    /\ task = "queued"
    /\ task' = "received"
    /\ UNCHANGED <<service, run, thread, ending, seq, wire, gateway, buffer, client>>

\* Only a pending run is executed.
TaskStarts ==
    /\ task = "received"
    /\ IF run = "pending"
       THEN run' = "running" /\ task' = "streaming"
       ELSE task' = "done" /\ UNCHANGED run
    /\ UNCHANGED <<service, thread, ending, seq, wire, gateway, buffer, client>>

\* services/worker has no adapter for the assistant of the run: the receipt is
\* acknowledged, the run stays running and its thread busy.
TaskHasNoAdapter ==
    /\ task = "received"
    /\ service = "worker"
    /\ run = "pending"
    /\ run' = "running"
    /\ task' = "done"
    /\ UNCHANGED <<service, thread, ending, seq, wire, gateway, buffer, client>>

\* The graph produces an event, maybe its ending one.
Draft(e) ==
    /\ task = "streaming"
    /\ ending = "none"
    /\ seq < MaxEvents
    /\ task' = "yielding"
    /\ ending' = e
    /\ UNCHANGED <<service, run, thread, seq, wire, gateway, buffer, client>>

\* The generator is suspended in its yield until the stream takes the event.
Yield ==
    /\ task = "yielding"
    /\ Len(wire) < Window
    /\ wire' = Append(wire, seq)
    /\ seq' = seq + 1
    /\ task' = "streaming"
    /\ UNCHANGED <<service, run, thread, ending, gateway, buffer, client>>

Row(status) == IF status = "interrupted" THEN "interrupted" ELSE "idle"

\* The run's ending is stored, or Run._change raises: the run was cancelled.
StoreEnding ==
    /\ task = "streaming"
    /\ ending # "none"
    /\ IF CanStore(run, ending)
       THEN run' = StatusOf(ending) /\ thread' = Row(StatusOf(ending)) /\ task' = "ended"
       ELSE task' = "raised" /\ UNCHANGED <<run, thread>>
    /\ UNCHANGED <<service, ending, seq, wire, gateway, buffer, client>>

\* The graph ends without an ending event: only services/all completes the run.
StreamEndsOpen ==
    /\ task = "streaming"
    /\ ending = "none"
    /\ IF service = "worker"
       THEN task' = "ended" /\ UNCHANGED run
       ELSE IF CanStore(run, "run.completed")
       THEN task' = "ended" /\ run' = "success"
       ELSE task' = "raised" /\ UNCHANGED run
    /\ UNCHANGED <<service, thread, ending, seq, wire, gateway, buffer, client>>

\* The graph, or the conversion of one of its payloads, raises.
StreamRaises ==
    /\ task = "streaming"
    /\ ending = "none"
    /\ task' = "raised"
    /\ UNCHANGED <<service, run, thread, ending, seq, wire, gateway, buffer, client>>

\* The except block of the generator; services/all leaves the thread alone.
FailRun ==
    /\ task = "raised"
    /\ run' = IF run \in Settled THEN run ELSE "error"
    /\ task' = "closing"
    /\ UNCHANGED <<service, thread, ending, seq, wire, gateway, buffer, client>>

\* services/all marks the thread idle before its generator returns.
GeneratorReturns ==
    /\ task = "ended"
    /\ thread' = IF service = "all" THEN "idle" ELSE thread
    /\ task' = "closing"
    /\ UNCHANGED <<service, run, ending, seq, wire, gateway, buffer, client>>

CloseStream ==
    /\ task = "closing"
    /\ Len(wire) < Window
    /\ wire' = Append(wire, End)
    /\ task' = "awaiting"
    /\ UNCHANGED <<service, run, thread, ending, seq, gateway, buffer, client>>

\* Mutant: services/worker leaves the thread alone as well.
StreamAnsweredOnly ==
    /\ task = "awaiting"
    /\ ingress = "closed"
    /\ task' = "done"
    /\ UNCHANGED <<service, run, thread, ending, seq, wire, gateway, buffer, client>>

\* The answer of StreamEvents; services/worker marks the thread idle now.
StreamAnswered ==
    /\ task = "awaiting"
    /\ ingress = "closed"
    /\ thread' = IF service = "worker" THEN "idle" ELSE thread
    /\ task' = "done"
    /\ UNCHANGED <<service, run, ending, seq, wire, gateway, buffer, client>>

-----------------------------------------------------------------------------
(* _EventIngressServicer.StreamEvents                                      *)

\* The first event names the run; every event starts a loop over its queues.
TakeEvent ==
    /\ ingress \in {"idle", "open"}
    /\ wire # <<>> /\ Head(wire) # End
    /\ item' = Head(wire)
    /\ wire' = Tail(wire)
    /\ ingress' = "putting"
    /\ position' = 1
    /\ UNCHANGED <<service, worker, registered, buffer, client>>

\* Mutant: the event is dropped for a queue that is full.
PutOrDrop ==
    /\ ingress \in {"putting", "ending"}
    /\ position <= Len(registered)
    /\ LET s == registered[position] IN
       buffer' = IF Len(buffer[s]) < QueueSize
                 THEN [buffer EXCEPT ![s] = Append(@, IF ingress = "putting" THEN item ELSE End)]
                 ELSE buffer
    /\ position' = position + 1
    /\ UNCHANGED <<service, worker, wire, ingress, item, registered, client>>

\* put() waits while the queue is full; queues that are registered meanwhile
\* are part of the loop.
Put ==
    /\ ingress \in {"putting", "ending"}
    /\ position <= Len(registered)
    /\ LET s == registered[position] IN
       /\ Len(buffer[s]) < QueueSize
       /\ buffer' = [buffer EXCEPT ![s] = Append(@, IF ingress = "putting" THEN item ELSE End)]
    /\ position' = position + 1
    /\ UNCHANGED <<service, worker, wire, ingress, item, registered, client>>

PutDone ==
    /\ ingress = "putting"
    /\ position > Len(registered)
    /\ ingress' = "open"
    /\ UNCHANGED <<service, worker, wire, item, registered, position, buffer, client>>

\* Mutant: the queues are not closed at the end of the stream.
TakeEndSilently ==
    /\ ingress \in {"idle", "open"}
    /\ wire # <<>> /\ Head(wire) = End
    /\ wire' = Tail(wire)
    /\ position' = 1
    /\ ingress' = "closed"
    /\ UNCHANGED <<service, worker, item, registered, buffer, client>>

\* The list of the run is taken out of the table and its queues are closed; a
\* stream without events never learnt its run and closes nothing.
TakeEnd ==
    /\ ingress \in {"idle", "open"}
    /\ wire # <<>> /\ Head(wire) = End
    /\ wire' = Tail(wire)
    /\ position' = 1
    /\ ingress' = IF ingress = "idle" THEN "closed" ELSE "ending"
    /\ UNCHANGED <<service, worker, item, registered, buffer, client>>

EndDone ==
    /\ ingress = "ending"
    /\ position > Len(registered)
    /\ ingress' = "closed"
    /\ registered' = <<>>
    /\ UNCHANGED <<service, worker, wire, item, position, buffer, client>>

-----------------------------------------------------------------------------
(* The clients of the run.                                                 *)

\* The list of the run is in the table; nobody feeds a queue of a later one.
Listed == ingress \in {"idle", "open", "putting"}

\* _sse_response registers a new queue and answers with a stream over it.
Subscribe(s) ==
    /\ sub' = [sub EXCEPT ![s] = IF Listed THEN "joined" ELSE "late"]
    /\ registered' = IF Listed THEN Append(registered, s) ELSE registered
    /\ last' = [last EXCEPT ![s] = IF ingress = "putting" THEN item - 1 ELSE item]
    /\ UNCHANGED <<service, worker, wire, ingress, item, position, buffer, waiter>>

\* stream_run, join_stream, join_thread_stream, stream_stateless_run and
\* native_run_events: the run exists, whatever has become of it.
Join(s) == sub[s] = "away" /\ Subscribe(s)

\* queue.get(): None ends the stream, an event is sent or, by its mode or the
\* client's Last-Event-ID, skipped.
Read(s) ==
    /\ sub[s] = "joined"
    /\ buffer[s] # <<>>
    /\ buffer' = [buffer EXCEPT ![s] = Tail(@)]
    /\ IF Head(buffer[s]) = End
       THEN sub' = [sub EXCEPT ![s] = "ended"] /\ UNCHANGED last
       ELSE last' = [last EXCEPT ![s] = Head(buffer[s])] /\ UNCHANGED sub
    /\ UNCHANGED <<service, worker, wire, gateway, waiter>>

\* The client goes away; its queue stays in the list.
Disconnect(s) ==
    /\ sub[s] = "joined"
    /\ sub' = [sub EXCEPT ![s] = "gone"]
    /\ UNCHANGED <<service, worker, wire, gateway, buffer, last, waiter>>

\* cancel_run, also of a run that waits for a resume
CancelRun ==
    /\ run \notin Terminal
    /\ run' = "cancelled"
    /\ thread' = "idle"
    /\ UNCHANGED <<service, task, ending, seq, wire, gateway, buffer, client>>

\* wait_stateless_run and wait_thread_run, for the run they have started, and
\* join_run at any time.
Wait ==
    /\ waiter = "away"
    /\ waiter' = "polling"
    /\ UNCHANGED <<service, worker, wire, gateway, buffer, sub, last>>

\* Mutant: an interrupted run does not answer the request.
WaitForRunEnded ==
    /\ waiter = "polling"
    /\ run \in Terminal
    /\ waiter' = "answered"
    /\ UNCHANGED <<service, worker, wire, gateway, buffer, sub, last>>

WaitForRun ==
    /\ waiter = "polling"
    /\ run \in Settled
    /\ waiter' = "answered"
    /\ UNCHANGED <<service, worker, wire, gateway, buffer, sub, last>>

-----------------------------------------------------------------------------
Endings == {"run.completed", "run.failed", "run.interrupted"}

Task == Dispatch \/ TaskStarts \/ TaskHasNoAdapter \/ (\E e \in Endings \union {"none"} : Draft(e)) \/ Yield
          \/ StoreEnding \/ StreamEndsOpen \/ StreamRaises \/ FailRun \/ GeneratorReturns \/ CloseStream \/ StreamAnswered
Ingress == TakeEvent \/ Put \/ PutDone \/ TakeEnd \/ EndDone

Next ==
    \/ Task \/ Ingress
    \/ \E s \in Subscribers : Join(s) \/ Read(s) \/ Disconnect(s)
    \/ CancelRun \/ Wait \/ WaitForRun

\* Worker and gateway keep running and a connected client reads on; nobody
\* has to join, leave or cancel.
Fairness ==
    /\ WF_vars(Task) /\ WF_vars(Ingress) /\ WF_vars(WaitForRun)
    /\ \A s \in Subscribers : WF_vars(Read(s))

Spec == Init /\ [][Next]_vars /\ Fairness

-----------------------------------------------------------------------------
\* The latest event that the loop over the queues has put into the queue of s.
Reached(s) == IF ingress = "putting" /\ \E i \in position .. Len(registered) : registered[i] = s
              THEN item - 1 ELSE item

\* A queue holds exactly the events between the latest one its client has
\* read and the latest one that reached it, and the closing None at most after
\* them: whoever joins in the middle of the loop over the queues, and whoever
\* is slow, no client sees a gap, a repetition or a disorder.
NothingSkipped == \A s \in Subscribers : sub[s] \in {"joined", "gone"} =>
    \E close \in {<<>>, <<End>>} :
        buffer[s] = [i \in 1 .. (Reached(s) - last[s]) |-> last[s] + i] \o close

\* services/all failed the run in its except block, which forgets the thread.
FailedByAll == service = "all" /\ run = "error" /\ ending = "none"

\* services/worker had no adapter for the run: no stream was opened and the
\* run is left running.
NoAdapter == service = "worker" /\ run = "running" /\ ingress = "idle"

\* When the worker is done with a run, its thread is free again, whatever
\* raised, was cancelled or ended without saying so; two exits leave it busy,
\* the except block of services/all and the missing adapter of services/worker.
ThreadFreed ==
    task = "done" => thread # "busy" \/ FailedByAll \/ NoAdapter

Stuck == \E s \in Subscribers : sub[s] = "gone"

\* A client that joined before the list was taken out, and stays, is told the
\* end of the stream, unless an abandoned queue is in the way or the worker
\* sent no event at all (the run was cancelled before it began, had no adapter
\* or failed before its first event), so that the gateway never heard of the run.
StreamIsClosed == \A s \in Subscribers :
    sub[s] = "joined" ~> sub[s] # "joined" \/ Stuck \/ (item = -1 /\ task = "done")

\* A request that waits for the run is answered, unless an abandoned queue is
\* in the way, or services/worker executed a graph that ended without saying so
\* or had no adapter for the run.
WaitIsAnswered ==
    waiter = "polling" ~>
      waiter = "answered" \/ Stuck \/ (service = "worker" /\ ending = "none" /\ task = "done")

\* "Stream disconnect with continue policy does not cancel execution": clients
\* come and go, and the run settles all the same.
DisconnectLeavesRun == service = "all" => <>(run \in Settled)
=============================================================================
