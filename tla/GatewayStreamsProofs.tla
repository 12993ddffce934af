------------------------ MODULE GatewayStreamsProofs ------------------------
(***************************************************************************)
(* Proofs about a run as its clients see it: the thread that the worker    *)
(* frees, and the events that an SSE request gets from its queue.          *)
(***************************************************************************)
EXTENDS GatewayStreams, SequenceTheorems, TLAPS

-----------------------------------------------------------------------------
(* The thread of the run *)

\* Only a cancel changes a run that the task has not begun or not ended, and
\* it frees the thread; services/all frees it before the stream is closed.
\* Where no stream was opened, the gateway never hears of the run.
FreedInv ==
  /\ service \in {"worker", "all"}
  /\ run = "cancelled" => thread # "busy"
  /\ task \in {"queued", "received"} => run \in {"pending", "cancelled"}
  /\ task \in {"streaming", "yielding", "raised"} => run \in {"running", "cancelled"}
  /\ task = "raised" /\ ending # "none" => run = "cancelled"
  /\ task \in {"closing", "awaiting"} /\ service = "all" => thread # "busy" \/ FailedByAll
  /\ task = "done" => thread # "busy" \/ FailedByAll \/ (NoAdapter /\ wire = <<>>)
  /\ task \in {"queued", "received"} => wire = <<>> /\ ingress = "idle"

\* Worker, gateway and clients keep the invariant.
LEMMA FreedStep == FreedInv /\ [Next]_vars => FreedInv'
<1> SUFFICES ASSUME FreedInv, [Next]_vars PROVE FreedInv'
  OBVIOUS
<1> USE DEF FreedInv, FailedByAll, NoAdapter
<1>1. ASSUME Dispatch \/ (\E e \in Endings \union {"none"} : Draft(e)) \/ Yield PROVE FreedInv'
  BY <1>1 DEF Dispatch, Draft, Yield, gateway
<1>2. CASE TaskStarts
  BY <1>2 DEF TaskStarts, gateway
<1>16. CASE TaskHasNoAdapter
  BY <1>16 DEF TaskHasNoAdapter, gateway
<1>3. CASE StoreEnding
  <2>1. CASE CanStore(run, ending)
    <3>1. thread' # "busy" /\ task' = "ended" /\ service' = service
      BY <1>3, <2>1 DEF StoreEnding, Row
    <3> QED
      BY <3>1
  <2>2. CASE ~CanStore(run, ending)
    BY <1>3, <2>2 DEF StoreEnding, CanStore, CanChange, Terminal
  <2> QED
    BY <2>1, <2>2
<1>4. CASE StreamEndsOpen
  BY <1>4 DEF StreamEndsOpen
<1>5. CASE StreamRaises
  BY <1>5 DEF StreamRaises
<1>6. CASE FailRun
  BY <1>6 DEF FailRun, Settled, Terminal
<1>7. CASE GeneratorReturns
  BY <1>7 DEF GeneratorReturns
<1>8. CASE CloseStream
  BY <1>8 DEF CloseStream
<1>9. CASE StreamAnswered
  <2>1. CASE service = "worker"
    BY <1>9, <2>1 DEF StreamAnswered
  <2>2. CASE service # "worker"
    BY <1>9, <2>2 DEF StreamAnswered
  <2> QED
    BY <2>1, <2>2
<1>10. CASE CancelRun
  BY <1>10 DEF CancelRun, Terminal, gateway
<1>11. ASSUME UNCHANGED <<service, worker, wire, ingress>> PROVE FreedInv'
  BY <1>11 DEF worker
<1>12. CASE Ingress
  BY <1>12 DEF Ingress, TakeEvent, Put, PutDone, TakeEnd, EndDone, worker
<1>13. ASSUME NEW s \in Subscribers, Join(s) \/ Read(s) \/ Disconnect(s) PROVE FreedInv'
  BY <1>11, <1>13 DEF Join, Subscribe, Read, Disconnect, gateway
<1>14. CASE Wait \/ WaitForRun
  BY <1>11, <1>14 DEF Wait, WaitForRun, gateway
<1>15. CASE UNCHANGED vars
  BY <1>11, <1>15 DEF vars, gateway
<1> QED
  BY <1>1, <1>2, <1>3, <1>4, <1>5, <1>6, <1>7, <1>8, <1>9, <1>10, <1>12, <1>13, <1>14, <1>15, <1>16
     DEF Next, Task

\* When the task of a run is done its thread is free for the next run, unless
\* services/all failed the run in its except block or services/worker had no
\* adapter for it.
THEOREM ThreadIsFreed == Spec => []ThreadFreed
<1>1. Init => FreedInv
  BY DEF Init, FreedInv
<1>2. FreedInv => ThreadFreed
  BY DEF FreedInv, ThreadFreed
<1> QED
  BY <1>1, <1>2, FreedStep, PTL DEF Spec

-----------------------------------------------------------------------------
(* The queues of the SSE requests *)

Sent == {"awaiting", "done"}

TypeOfStreams ==
  /\ seq \in Nat /\ item \in Int /\ -1 <= item /\ item < seq /\ seq <= MaxEvents
  /\ wire \in Seq(Int)
  /\ registered \in Seq(Subscribers)
  /\ position \in Nat /\ 1 <= position
  /\ ingress # "closed" => position <= Len(registered) + 1
  /\ DOMAIN sub = Subscribers
  /\ last \in [Subscribers -> Int]
  /\ buffer \in [Subscribers -> Seq(Int)]

\* The wire holds the events after the latest one taken, up to the latest one
\* yielded, and the end of the stream at most after them.
WireTrue ==
  /\ \A i \in 1..(seq - 1 - item) : wire[i] = item + i
  /\ \/ Len(wire) = seq - 1 - item
     \/ Len(wire) = seq - item /\ wire[seq - item] = End /\ task \in Sent
  /\ task = "yielding" => seq < MaxEvents
  /\ ingress \in {"ending", "closed"} => wire = <<>> /\ task \in Sent

Connected == {"joined", "gone"}

\* Every queue is registered once, by a request that has come, and stays in
\* the list as long as there is one.
ListTrue ==
  /\ \A i, j \in 1..Len(registered) : registered[i] = registered[j] => i = j
  /\ \A i \in 1..Len(registered) : sub[registered[i]] # "away"
  /\ \A s \in Subscribers : sub[s] \in Connected /\ Listed =>
       \E i \in 1..Len(registered) : registered[i] = s
  /\ \A s \in Subscribers : sub[s] = "away" => buffer[s] = <<>>

\* The loop over the queues has not come to the queue of s.
Waits(s) == \E i \in position..Len(registered) : registered[i] = s

\* The closing None may be in the queue of s.
Closing(s) == ingress = "closed" \/ (ingress = "ending" /\ ~Waits(s))

\* A queue that holds the n events after k, and maybe the closing None.
Holds(q, k, n, closed) ==
  /\ n \in Nat
  /\ \A i \in 1..n : q[i] = k + i
  /\ Len(q) = n \/ (Len(q) = n + 1 /\ q[n + 1] = End /\ closed)

QueueTrue(s) == sub[s] \in Connected => Holds(buffer[s], last[s], Reached(s) - last[s], Closing(s))

QueuesTrue == \A s \in Subscribers : QueueTrue(s)

StreamsInv == TypeOfStreams /\ WireTrue /\ ListTrue /\ QueuesTrue

\* Nothing sent and nobody connected.
LEMMA StreamsStart == Init => StreamsInv
<1> SUFFICES ASSUME Init PROVE StreamsInv
  OBVIOUS
<1> USE EventsAreBounded
<1>1. TypeOfStreams
  BY DEF Init, TypeOfStreams
<1>2. WireTrue
  BY DEF Init, WireTrue
<1>3. ListTrue
  BY DEF Init, ListTrue, Connected
<1>4. QueuesTrue
  BY DEF Init, QueuesTrue, QueueTrue, Connected
<1> QED
  BY <1>1, <1>2, <1>3, <1>4 DEF StreamsInv

\* A step that leaves the queue of s, what s has read and what has reached it.
LEMMA QueueSame ==
  ASSUME QueuesTrue, NEW s \in Subscribers,
         sub'[s] \in Connected => sub[s] \in Connected,
         Reached(s)' = Reached(s), last'[s] = last[s], buffer'[s] = buffer[s],
         Closing(s) => Closing(s)'
  PROVE  QueueTrue(s)'
BY DEF QueuesTrue, QueueTrue, Holds, End

\* Worker steps: at most one more event, or the end, on the wire.
LEMMA WorkerStep ==
  ASSUME StreamsInv, [Task \/ CancelRun]_vars, UNCHANGED <<gateway, buffer, client>>
  PROVE  StreamsInv'
<1>1. /\ ingress' = ingress /\ item' = item /\ registered' = registered /\ position' = position
      /\ sub' = sub /\ last' = last /\ buffer' = buffer
  BY DEF gateway, client
<1>2. ListTrue'
  BY <1>1 DEF StreamsInv, ListTrue, Listed
<1>3. QueuesTrue'
  BY <1>1 DEF StreamsInv, QueuesTrue, QueueTrue, Reached, Closing, Waits, Holds, End
<1>4. ASSUME wire' = wire, seq' = seq, task \in Sent => task' \in Sent,
             task' = "yielding" => task = "yielding" \/ seq < MaxEvents
      PROVE  StreamsInv'
  <2>1. TypeOfStreams'
    BY <1>1, <1>4 DEF StreamsInv, TypeOfStreams
  <2>2. WireTrue'
    BY <1>1, <1>4 DEF StreamsInv, WireTrue, End
  <2> QED
    BY <2>1, <2>2, <1>2, <1>3 DEF StreamsInv
<1>5. CASE Yield
  <2>1. wire' = Append(wire, seq) /\ seq' = seq + 1 /\ task = "yielding" /\ task' = "streaming"
    BY <1>5 DEF Yield
  <2>2. /\ seq < MaxEvents /\ seq \in Nat /\ item \in Int /\ -1 <= item /\ item < seq
        /\ wire \in Seq(Int) /\ Len(wire) = seq - 1 - item
        /\ \A i \in 1..(seq - 1 - item) : wire[i] = item + i
        /\ ingress \notin {"ending", "closed"}
    BY <2>1 DEF StreamsInv, TypeOfStreams, WireTrue, Sent
  <2>3. /\ wire' \in Seq(Int) /\ Len(wire') = seq - item
        /\ \A i \in 1..Len(wire) : wire'[i] = wire[i]
        /\ wire'[seq - item] = seq
    BY <2>1, <2>2
  <2>4. TypeOfStreams'
    BY <1>1, <2>1, <2>2, <2>3, EventsAreBounded DEF StreamsInv, TypeOfStreams
  <2>5. \A i \in 1..(seq' - 1 - item') : wire'[i] = item' + i
    <3> SUFFICES ASSUME NEW i \in 1..(seq - item) PROVE wire'[i] = item + i
      BY <1>1, <2>1, <2>2
    <3>1. CASE i = seq - item
      BY <2>2, <2>3, <3>1
    <3>2. CASE i # seq - item
      BY <2>2, <2>3, <3>2
    <3> QED
      BY <3>1, <3>2
  <2>6. WireTrue'
    BY <1>1, <2>1, <2>2, <2>3, <2>5 DEF WireTrue
  <2> QED
    BY <1>2, <1>3, <2>4, <2>6 DEF StreamsInv
<1>6. CASE CloseStream
  <2>1. wire' = Append(wire, End) /\ seq' = seq /\ task = "closing" /\ task' = "awaiting"
    BY <1>6 DEF CloseStream
  <2>2. /\ seq \in Nat /\ item \in Int /\ -1 <= item /\ item < seq
        /\ wire \in Seq(Int) /\ Len(wire) = seq - 1 - item
        /\ \A i \in 1..(seq - 1 - item) : wire[i] = item + i
        /\ ingress \notin {"ending", "closed"}
    BY <2>1 DEF StreamsInv, TypeOfStreams, WireTrue, Sent
  <2>3. End \in Int
    BY EventsAreBounded DEF End
  <2>4. /\ wire' \in Seq(Int) /\ Len(wire') = seq - item
        /\ \A i \in 1..Len(wire) : wire'[i] = wire[i]
        /\ wire'[seq - item] = End
    BY <2>1, <2>2, <2>3
  <2>5. TypeOfStreams'
    BY <1>1, <2>1, <2>4 DEF StreamsInv, TypeOfStreams
  <2>6. WireTrue'
    BY <1>1, <2>1, <2>2, <2>4 DEF WireTrue, Sent, End
  <2> QED
    BY <1>2, <1>3, <2>5, <2>6 DEF StreamsInv
<1>7. CASE Dispatch \/ TaskStarts \/ TaskHasNoAdapter \/ StoreEnding \/ StreamEndsOpen \/ StreamRaises
  BY <1>4, <1>7 DEF Dispatch, TaskStarts, TaskHasNoAdapter, StoreEnding, StreamEndsOpen, StreamRaises, Sent
<1>8. CASE FailRun \/ GeneratorReturns \/ StreamAnswered \/ CancelRun
  BY <1>4, <1>8 DEF FailRun, GeneratorReturns, StreamAnswered, CancelRun, Sent
<1>9. ASSUME NEW e, Draft(e) PROVE StreamsInv'
  BY <1>4, <1>9 DEF Draft, Sent
<1>10. CASE UNCHANGED vars
  BY <1>4, <1>10 DEF vars, worker
<1> QED
  BY <1>5, <1>6, <1>7, <1>8, <1>9, <1>10 DEF Task

\* StreamEvents takes the next event: no queue has it yet.
LEMMA TakeEventStep ==
  ASSUME StreamsInv, TakeEvent
  PROVE  StreamsInv'
<1>1. /\ ingress \in {"idle", "open"} /\ wire # <<>> /\ Head(wire) # End
      /\ item' = Head(wire) /\ wire' = Tail(wire) /\ ingress' = "putting" /\ position' = 1
      /\ seq' = seq /\ task' = task /\ registered' = registered /\ buffer' = buffer
      /\ sub' = sub /\ last' = last
  BY DEF TakeEvent, worker, client
<1>2. /\ seq \in Nat /\ item \in Int /\ -1 <= item /\ item < seq /\ wire \in Seq(Int)
      /\ Len(registered) \in Nat /\ registered \in Seq(Subscribers)
  BY DEF StreamsInv, TypeOfStreams
<1>3. Len(wire) \in Nat /\ Len(wire) >= 1 /\ Head(wire) = wire[1]
  BY <1>1, <1>2
<1>4. item + 1 < seq /\ item' = item + 1
  <2>1. ASSUME ~(item + 1 < seq) PROVE FALSE
    <3>1. seq - 1 - item = 0 /\ seq - item = 1
      BY <1>2, <2>1
    <3>2. wire[1] = End
      BY <1>3, <3>1 DEF StreamsInv, WireTrue
    <3> QED
      BY <1>1, <1>3, <3>2
  <2>2. wire[1] = item + 1
    BY <1>2, <2>1 DEF StreamsInv, WireTrue
  <2> QED
    BY <1>1, <1>3, <2>1, <2>2
<1>5. /\ wire' \in Seq(Int) /\ Len(wire') = Len(wire) - 1
      /\ \A i \in 1..(Len(wire) - 1) : wire'[i] = wire[i + 1]
  BY <1>1, <1>2, <1>3
<1>6. TypeOfStreams'
  BY <1>1, <1>2, <1>4, <1>5 DEF StreamsInv, TypeOfStreams
<1>7. WireTrue'
  <2>1. \A i \in 1..(seq' - 1 - item') : wire'[i] = item' + i
    <3>0. seq' - 1 - item' = seq - 2 - item /\ item' = item + 1
      BY <1>1, <1>2, <1>4
    <3> SUFFICES ASSUME NEW i \in 1..(seq - 2 - item) PROVE wire'[i] = item + 1 + i
      BY <3>0
    <3>1. i + 1 \in 1..(seq - 1 - item) /\ i \in 1..(Len(wire) - 1)
      BY <1>2, <1>3, <1>4 DEF StreamsInv, WireTrue
    <3>2. wire'[i] = wire[i + 1] /\ wire[i + 1] = item + (i + 1)
      BY <3>1, <1>5 DEF StreamsInv, WireTrue
    <3> QED
      BY <3>2, <1>2
  <2>2. CASE Len(wire) = seq - 1 - item
    <3>1. Len(wire') = seq' - 1 - item'
      BY <1>1, <1>2, <1>4, <1>5, <2>2
    <3> QED
      BY <1>1, <2>1, <3>1 DEF StreamsInv, WireTrue
  <2>3. CASE Len(wire) = seq - item /\ wire[seq - item] = End /\ task \in Sent
    <3>1. Len(wire') = seq' - item' /\ seq' - item' \in 1..(Len(wire) - 1)
      BY <1>1, <1>2, <1>3, <1>4, <1>5, <2>3
    <3>2. wire'[seq' - item'] = wire[seq' - item' + 1] /\ seq' - item' + 1 = seq - item
      BY <3>1, <1>1, <1>2, <1>4, <1>5
    <3> QED
      BY <1>1, <2>1, <2>3, <3>1, <3>2 DEF StreamsInv, WireTrue, End
  <2> QED
    BY <2>2, <2>3 DEF StreamsInv, WireTrue
<1>8. ListTrue'
  BY <1>1 DEF StreamsInv, ListTrue, Listed
<1>9. QueuesTrue'
  <2> SUFFICES ASSUME NEW s \in Subscribers, sub[s] \in Connected PROVE QueueTrue(s)'
    BY <1>1 DEF QueuesTrue, QueueTrue
  <2>1. Waits(s)'
    BY <1>1 DEF StreamsInv, ListTrue, Listed, Waits
  <2>2. Reached(s) = item /\ Reached(s)' = item' - 1
    BY <1>1, <2>1 DEF Reached, Waits
  <2>3. Reached(s)' = Reached(s) /\ ~Closing(s)
    BY <1>1, <1>2, <1>4, <2>2 DEF Closing
  <2> QED
    BY <1>1, <2>3, QueueSame DEF StreamsInv
<1> QED
  BY <1>6, <1>7, <1>8, <1>9 DEF StreamsInv

\* put() into the queue that is next in the loop.
LEMMA PutStep ==
  ASSUME StreamsInv, Put
  PROVE  StreamsInv'
<1>0. /\ position \in Nat /\ 1 <= position /\ position <= Len(registered)
      /\ registered \in Seq(Subscribers)
  BY DEF Put, StreamsInv, TypeOfStreams
<1> PICK s \in Subscribers : s = registered[position]
  BY <1>0
<1> DEFINE e == IF ingress = "putting" THEN item ELSE End
<1>1. /\ ingress \in {"putting", "ending"} /\ position <= Len(registered)
      /\ buffer' = [buffer EXCEPT ![s] = Append(buffer[s], e)] /\ position' = position + 1
      /\ item' = item /\ wire' = wire /\ ingress' = ingress /\ seq' = seq /\ task' = task
      /\ registered' = registered /\ sub' = sub /\ last' = last
  BY DEF Put, worker, client
<1>2. /\ position \in 1..Len(registered) /\ item \in Int /\ Len(registered) \in Nat
      /\ registered \in Seq(Subscribers) /\ position \in Nat
  BY <1>1 DEF StreamsInv, TypeOfStreams
<1>3. s \in Subscribers /\ e \in Int
  BY <1>2, EventsAreBounded DEF End
<1>4. buffer[s] \in Seq(Int) /\ last[s] \in Int
  BY <1>3 DEF StreamsInv, TypeOfStreams
<1>5. /\ buffer' \in [Subscribers -> Seq(Int)] /\ buffer'[s] = Append(buffer[s], e)
      /\ \A u \in Subscribers : u # s => buffer'[u] = buffer[u]
  BY <1>1, <1>3, <1>4 DEF StreamsInv, TypeOfStreams
<1>6. TypeOfStreams'
  BY <1>1, <1>2, <1>5 DEF StreamsInv, TypeOfStreams
<1>7. WireTrue'
  BY <1>1 DEF StreamsInv, WireTrue, End
<1>8. ListTrue'
  <2>1. sub[s] # "away"
    BY <1>2 DEF StreamsInv, ListTrue
  <2> HIDE DEF e
  <2> QED
    BY <1>1, <1>5, <2>1 DEF StreamsInv, ListTrue, Listed
<1>9. Waits(s) /\ ~Waits(s)'
  <2>1. Waits(s)
    BY <1>2 DEF Waits
  <2>2. ASSUME NEW i \in (position + 1)..Len(registered), registered[i] = registered[position]
        PROVE  FALSE
    <3>1. i \in 1..Len(registered) /\ i # position
      BY <1>2
    <3> QED
      BY <1>2, <2>2, <3>1 DEF StreamsInv, ListTrue
  <2> QED
    BY <1>1, <2>1, <2>2 DEF Waits
<1>10. ASSUME NEW u \in Subscribers, u # s PROVE Waits(u)' <=> Waits(u)
  BY <1>1, <1>2, <1>10 DEF Waits
<1>11. ASSUME NEW u \in Subscribers, u # s PROVE QueueTrue(u)'
  <2>1. Reached(u)' = Reached(u)
    BY <1>1, <1>10, <1>11 DEF Reached, Waits
  <2>2. Closing(u) => Closing(u)'
    BY <1>1, <1>10, <1>11 DEF Closing
  <2> QED
    BY <1>1, <1>5, <1>11, <2>1, <2>2, QueueSame DEF StreamsInv
<1>12. QueueTrue(s)'
  <2> SUFFICES ASSUME sub[s] \in Connected PROVE QueueTrue(s)'
    BY <1>1 DEF QueueTrue
  <2> DEFINE n == Reached(s) - last[s]
  <2>1. /\ n \in Nat /\ Len(buffer[s]) = n
        /\ \A i \in 1..n : buffer[s][i] = last[s] + i
    BY <1>1, <1>3, <1>9 DEF StreamsInv, QueuesTrue, QueueTrue, Holds, Closing
  <2>2. /\ Len(buffer'[s]) = n + 1 /\ buffer'[s][n + 1] = e
        /\ \A i \in 1..n : buffer'[s][i] = last[s] + i
    BY <1>3, <1>4, <1>5, <2>1
  <2>3. CASE ingress = "putting"
    <3>1. Reached(s) = item - 1 /\ Reached(s)' = item /\ e = item
      BY <1>1, <1>9, <2>3 DEF Reached, Waits
    <3>2. Reached(s)' - last'[s] = n + 1 /\ e = last[s] + (n + 1)
      <4>1. n = (item - 1) - last[s] /\ last'[s] = last[s]
        BY <1>1, <3>1
      <4>2. (item - 1) - last[s] + 1 = item - last[s] /\ last[s] + ((item - 1) - last[s] + 1) = item
        BY <1>2, <1>4
      <4> QED
        BY <3>1, <4>1, <4>2
    <3> HIDE DEF n, e
    <3>3. \A i \in 1..(n + 1) : buffer'[s][i] = last'[s] + i
      BY <1>1, <2>1, <2>2, <3>2
    <3> QED
      BY <2>1, <2>2, <3>2, <3>3 DEF QueueTrue, Holds
  <2>4. CASE ingress = "ending"
    <3>1. Reached(s)' = Reached(s) /\ e = End
      BY <1>1, <2>4 DEF Reached
    <3>2. Reached(s)' - last'[s] = n /\ Closing(s)'
      BY <1>1, <1>9, <2>4, <3>1 DEF Closing
    <3> HIDE DEF n, e
    <3> QED
      BY <1>1, <2>1, <2>2, <3>1, <3>2 DEF QueueTrue, Holds, End
  <2> QED
    BY <1>1, <2>3, <2>4
<1>13. QueuesTrue'
  BY <1>11, <1>12 DEF QueuesTrue
<1> QED
  BY <1>6, <1>7, <1>8, <1>13 DEF StreamsInv

\* The end of the stream comes after every event.
LEMMA TakeEndStep ==
  ASSUME StreamsInv, TakeEnd
  PROVE  StreamsInv'
<1>1. /\ ingress \in {"idle", "open"} /\ wire # <<>> /\ Head(wire) = End
      /\ wire' = Tail(wire) /\ ingress' \in {"ending", "closed"} /\ position' = 1
      /\ item' = item /\ seq' = seq /\ task' = task /\ registered' = registered
      /\ buffer' = buffer /\ sub' = sub /\ last' = last
  BY DEF TakeEnd, worker, client
<1>2. /\ seq \in Nat /\ item \in Int /\ -1 <= item /\ item < seq /\ wire \in Seq(Int)
      /\ seq <= MaxEvents /\ Len(wire) \in Nat /\ Len(registered) \in Nat
  BY DEF StreamsInv, TypeOfStreams
<1>3. Len(wire) >= 1 /\ wire[1] = End
  BY <1>1, <1>2
<1>4. seq - 1 - item = 0
  <2>1. ASSUME seq - 1 - item # 0 PROVE FALSE
    <3>1. wire[1] = item + 1
      BY <1>2, <2>1 DEF StreamsInv, WireTrue
    <3> QED
      BY <1>2, <1>3, <2>1, <3>1, EventsAreBounded DEF End
  <2> QED
    BY <2>1
<1>5. Len(wire) = 1 /\ task \in Sent
  <2>1. seq - item = 1
    BY <1>2, <1>4
  <2>2. \/ Len(wire) = seq - 1 - item
        \/ Len(wire) = seq - item /\ task \in Sent
    BY DEF StreamsInv, WireTrue
  <2>3. Len(wire) # seq - 1 - item
    BY <1>2, <1>3, <1>4
  <2> QED
    BY <2>1, <2>2, <2>3
<1>6. wire' = <<>> /\ Len(wire') = 0
  BY <1>1, <1>2, <1>5
<1>7. TypeOfStreams'
  BY <1>1, <1>2, <1>6 DEF StreamsInv, TypeOfStreams
<1>8. WireTrue'
  <2>1. seq' - 1 - item' = 0 /\ 1..0 = {}
    BY <1>1, <1>4
  <2>2. task' \in Sent /\ task' # "yielding"
    BY <1>1, <1>5 DEF Sent
  <2> QED
    BY <1>6, <2>1, <2>2 DEF WireTrue
<1>9. ListTrue'
  BY <1>1 DEF StreamsInv, ListTrue, Listed
<1>10. QueuesTrue'
  <2> SUFFICES ASSUME NEW s \in Subscribers PROVE QueueTrue(s)'
    BY DEF QueuesTrue
  <2>1. Reached(s)' = Reached(s) /\ ~Closing(s)
    BY <1>1 DEF Reached, Closing
  <2> QED
    BY <1>1, <2>1, QueueSame DEF StreamsInv
<1> QED
  BY <1>7, <1>8, <1>9, <1>10 DEF StreamsInv

\* The loop over the queues ends.
LEMMA LoopEndsStep ==
  ASSUME StreamsInv, PutDone \/ EndDone
  PROVE  StreamsInv'
<1>1. /\ position > Len(registered) /\ position' = position /\ wire' = wire /\ item' = item
      /\ seq' = seq /\ task' = task /\ buffer' = buffer /\ sub' = sub /\ last' = last
      /\ \/ ingress = "putting" /\ ingress' = "open" /\ registered' = registered
         \/ ingress = "ending" /\ ingress' = "closed" /\ registered' = <<>>
  BY DEF PutDone, EndDone, worker, client
<1>2. registered \in Seq(Subscribers) /\ Len(registered) \in Nat /\ position \in Nat
  BY DEF StreamsInv, TypeOfStreams
<1>3. registered' \in Seq(Subscribers)
  <2>1. <<>> \in Seq(Subscribers)
    OBVIOUS
  <2> QED
    BY <1>1, <1>2, <2>1
<1>4. TypeOfStreams'
  BY <1>1, <1>2, <1>3 DEF StreamsInv, TypeOfStreams
<1>5. WireTrue'
  BY <1>1 DEF StreamsInv, WireTrue, End
<1>6. ListTrue'
  <2>1. CASE registered' = registered /\ ingress = "putting"
    BY <1>1, <2>1 DEF StreamsInv, ListTrue, Listed
  <2>2. CASE registered' = <<>> /\ ingress' = "closed"
    BY <1>1, <2>2 DEF StreamsInv, ListTrue, Listed
  <2> QED
    BY <1>1, <2>1, <2>2
<1>7. QueuesTrue'
  <2> SUFFICES ASSUME NEW s \in Subscribers PROVE QueueTrue(s)'
    BY DEF QueuesTrue
  <2>1. ~Waits(s)
    BY <1>1, <1>2 DEF Waits
  <2>2. Reached(s)' = Reached(s)
    BY <1>1, <2>1 DEF Reached, Waits
  <2>3. Closing(s) => Closing(s)'
    BY <1>1 DEF Closing
  <2> QED
    BY <1>1, <2>2, <2>3, QueueSame DEF StreamsInv
<1> QED
  BY <1>4, <1>5, <1>6, <1>7 DEF StreamsInv

\* A request that joins begins at the event that will be put into its queue
\* first; one that comes too late has no events at all.
LEMMA JoinStep ==
  ASSUME StreamsInv, NEW s \in Subscribers, Join(s)
  PROVE  StreamsInv'
<1>1. /\ sub[s] = "away" /\ sub' = [sub EXCEPT ![s] = IF Listed THEN "joined" ELSE "late"]
      /\ registered' = (IF Listed THEN Append(registered, s) ELSE registered)
      /\ last' = [last EXCEPT ![s] = IF ingress = "putting" THEN item - 1 ELSE item]
      /\ wire' = wire /\ ingress' = ingress /\ item' = item /\ position' = position
      /\ seq' = seq /\ task' = task /\ buffer' = buffer
  BY DEF Join, Subscribe, worker
<1>2. /\ registered \in Seq(Subscribers) /\ Len(registered) \in Nat /\ position \in Nat
      /\ item \in Int
      /\ DOMAIN sub = Subscribers /\ last \in [Subscribers -> Int] /\ buffer[s] = <<>>
  BY <1>1 DEF StreamsInv, TypeOfStreams, ListTrue
<1>3. /\ sub'[s] = IF Listed THEN "joined" ELSE "late"
      /\ \A u \in Subscribers : u # s => sub'[u] = sub[u] /\ last'[u] = last[u]
      /\ DOMAIN sub' = Subscribers
      /\ last'[s] = IF ingress = "putting" THEN item - 1 ELSE item
  BY <1>1, <1>2
<1>4. last' \in [Subscribers -> Int]
  BY <1>1, <1>2
<1>5. WireTrue'
  BY <1>1 DEF StreamsInv, WireTrue, End
<1>6. CASE ~Listed
  <2>1. registered' = registered /\ sub'[s] = "late"
    BY <1>1, <1>3, <1>6
  <2>2. TypeOfStreams'
    BY <1>1, <1>3, <1>4, <2>1 DEF StreamsInv, TypeOfStreams
  <2>3. ListTrue'
    BY <1>1, <1>2, <1>3, <1>6, <2>1 DEF StreamsInv, TypeOfStreams, ListTrue, Listed, Connected
  <2>4. ASSUME NEW u \in Subscribers PROVE QueueTrue(u)'
    <3>1. CASE u = s
      BY <2>1, <3>1 DEF QueueTrue, Connected
    <3>2. CASE u # s
      <4>1. Reached(u)' = Reached(u) /\ (Closing(u) => Closing(u)')
        BY <1>1, <2>1 DEF Reached, Closing, Waits
      <4> QED
        BY <1>1, <1>3, <3>2, <4>1, QueueSame DEF StreamsInv
    <3> QED
      BY <3>1, <3>2
  <2> QED
    BY <1>5, <2>2, <2>3, <2>4 DEF StreamsInv, QueuesTrue
<1>7. CASE Listed
  <2>1. /\ registered' \in Seq(Subscribers) /\ Len(registered') = Len(registered) + 1
        /\ registered'[Len(registered) + 1] = s
        /\ \A i \in 1..Len(registered) : registered'[i] = registered[i]
    BY <1>1, <1>2, <1>7
  <2>2. sub'[s] = "joined" /\ ingress # "closed" /\ ingress # "ending"
    BY <1>3, <1>7 DEF Listed
  <2>3. position <= Len(registered) + 1
    BY <2>2 DEF StreamsInv, TypeOfStreams
  <2>4. TypeOfStreams'
    BY <1>1, <1>2, <1>3, <1>4, <2>1, <2>3 DEF StreamsInv, TypeOfStreams
  <2>5. \A i \in 1..Len(registered) : registered[i] # s
    BY <1>1 DEF StreamsInv, ListTrue
  <2>6. ListTrue'
    <3>1. \A i, j \in 1..Len(registered') : registered'[i] = registered'[j] => i = j
      BY <1>2, <2>1, <2>5 DEF StreamsInv, ListTrue
    <3>2. \A i \in 1..Len(registered') : sub'[registered'[i]] # "away"
      <4> SUFFICES ASSUME NEW i \in 1..Len(registered') PROVE sub'[registered'[i]] # "away"
        OBVIOUS
      <4>1. CASE i = Len(registered) + 1
        BY <2>1, <2>2, <4>1
      <4>2. CASE i # Len(registered) + 1
        <5>1. i \in 1..Len(registered) /\ registered'[i] = registered[i]
          BY <1>2, <2>1, <4>2
        <5>2. registered[i] # s /\ registered[i] \in Subscribers /\ sub[registered[i]] # "away"
          BY <1>2, <2>5, <5>1 DEF StreamsInv, ListTrue
        <5> QED
          BY <1>3, <5>1, <5>2
      <4> QED
        BY <4>1, <4>2
    <3>3. \A u \in Subscribers : sub'[u] \in Connected => \E i \in 1..Len(registered') : registered'[i] = u
      <4> SUFFICES ASSUME NEW u \in Subscribers, sub'[u] \in Connected
                   PROVE  \E i \in 1..Len(registered') : registered'[i] = u
        OBVIOUS
      <4>1. CASE u = s
        BY <1>2, <2>1, <4>1
      <4>2. CASE u # s
        <5>1. PICK i \in 1..Len(registered) : registered[i] = u
          BY <1>3, <1>7, <4>2 DEF StreamsInv, ListTrue
        <5> QED
          BY <1>2, <2>1, <5>1
      <4> QED
        BY <4>1, <4>2
    <3>4. \A u \in Subscribers : sub'[u] = "away" => buffer'[u] = <<>>
      BY <1>1, <1>3, <2>2 DEF StreamsInv, ListTrue
    <3> QED
      BY <3>1, <3>2, <3>3, <3>4 DEF ListTrue
  <2>7. QueueTrue(s)'
    <3>1. Waits(s)'
      BY <1>1, <1>2, <2>1, <2>3 DEF Waits
    <3>2. Reached(s)' = last'[s] /\ last'[s] \in Int
      BY <1>1, <1>2, <1>3, <3>1 DEF Reached, Waits
    <3>3. Reached(s)' - last'[s] = 0 /\ Len(buffer'[s]) = 0
      BY <1>1, <1>2, <3>2
    <3> QED
      BY <3>3 DEF QueueTrue, Holds
  <2>8. ASSUME NEW u \in Subscribers, u # s PROVE QueueTrue(u)'
    <3>1. Waits(u)' <=> Waits(u)
      <4>1. ASSUME Waits(u) PROVE Waits(u)'
        <5>1. PICK i \in position..Len(registered) : registered[i] = u
          BY <4>1 DEF Waits
        <5>2. i \in position'..Len(registered') /\ registered'[i] = u
          BY <1>1, <1>2, <2>1, <5>1 DEF StreamsInv, TypeOfStreams
        <5> QED
          BY <5>2 DEF Waits
      <4>2. ASSUME Waits(u)' PROVE Waits(u)
        <5>1. PICK i \in position'..Len(registered') : registered'[i] = u
          BY <4>2 DEF Waits
        <5>2. i \in position..Len(registered) /\ registered[i] = u
          BY <1>1, <1>2, <2>1, <2>8, <5>1 DEF StreamsInv, TypeOfStreams
        <5> QED
          BY <5>2 DEF Waits
      <4> QED
        BY <4>1, <4>2
    <3>2. Reached(u)' = Reached(u) /\ ~Closing(u)
      BY <1>1, <2>2, <3>1 DEF Reached, Waits, Closing
    <3> QED
      BY <1>1, <1>3, <2>8, <3>2, QueueSame DEF StreamsInv
  <2> QED
    BY <1>5, <2>4, <2>6, <2>7, <2>8 DEF StreamsInv, QueuesTrue
<1> QED
  BY <1>6, <1>7

\* queue.get(): the next event, or the end.
LEMMA ReadStep ==
  ASSUME StreamsInv, NEW s \in Subscribers, Read(s)
  PROVE  StreamsInv'
<1>1. /\ sub[s] = "joined" /\ buffer[s] # <<>>
      /\ buffer' = [buffer EXCEPT ![s] = Tail(buffer[s])]
      /\ wire' = wire /\ ingress' = ingress /\ item' = item /\ position' = position
      /\ seq' = seq /\ task' = task /\ registered' = registered
  BY DEF Read, worker, gateway
<1>2. /\ buffer \in [Subscribers -> Seq(Int)] /\ last \in [Subscribers -> Int]
      /\ DOMAIN sub = Subscribers /\ item \in Int /\ item < MaxEvents
  BY EventsAreBounded DEF StreamsInv, TypeOfStreams
<1>3. /\ buffer[s] \in Seq(Int) /\ Len(buffer[s]) \in Nat /\ Len(buffer[s]) >= 1
      /\ Head(buffer[s]) = buffer[s][1] /\ Head(buffer[s]) \in Int /\ Tail(buffer[s]) \in Seq(Int)
      /\ Len(Tail(buffer[s])) = Len(buffer[s]) - 1
      /\ \A i \in 1..(Len(buffer[s]) - 1) : Tail(buffer[s])[i] = buffer[s][i + 1]
  BY <1>1, <1>2
<1>4. /\ buffer' \in [Subscribers -> Seq(Int)] /\ buffer'[s] = Tail(buffer[s])
      /\ \A u \in Subscribers : u # s => buffer'[u] = buffer[u]
  BY <1>1, <1>2, <1>3
<1>5. WireTrue'
  BY <1>1 DEF StreamsInv, WireTrue, End
<1>6. \A u \in Subscribers : Reached(u)' = Reached(u) /\ (Closing(u) <=> Closing(u)')
  BY <1>1 DEF Reached, Closing, Waits
<1>7. CASE Head(buffer[s]) = End
  <2>1. sub' = [sub EXCEPT ![s] = "ended"] /\ last' = last
    BY <1>7 DEF Read
  <2>2. /\ sub'[s] = "ended" /\ DOMAIN sub' = Subscribers
        /\ \A u \in Subscribers : u # s => sub'[u] = sub[u]
    BY <1>2, <2>1
  <2>3. TypeOfStreams'
    BY <1>1, <1>4, <2>1, <2>2 DEF StreamsInv, TypeOfStreams
  <2>4. ListTrue'
    <3>1. \A i \in 1..Len(registered) : sub'[registered[i]] # "away"
      <4> SUFFICES ASSUME NEW i \in 1..Len(registered) PROVE sub'[registered[i]] # "away"
        OBVIOUS
      <4>1. registered[i] \in Subscribers /\ sub[registered[i]] # "away"
        BY DEF StreamsInv, TypeOfStreams, ListTrue
      <4> QED
        BY <2>2, <4>1
    <3>2. \A u \in Subscribers : sub'[u] \in Connected => sub[u] \in Connected
      BY <1>1, <2>2 DEF Connected
    <3>3. \A u \in Subscribers : sub'[u] = "away" => buffer'[u] = <<>>
      BY <1>4, <2>2 DEF StreamsInv, ListTrue
    <3> QED
      BY <1>1, <3>1, <3>2, <3>3 DEF StreamsInv, ListTrue, Listed
  <2>5. ASSUME NEW u \in Subscribers PROVE QueueTrue(u)'
    <3>1. CASE u = s
      BY <2>2, <3>1 DEF QueueTrue, Connected
    <3>2. CASE u # s
      BY <1>4, <1>6, <2>1, <2>2, <3>2, QueueSame DEF StreamsInv
    <3> QED
      BY <3>1, <3>2
  <2> QED
    BY <1>5, <2>3, <2>4, <2>5 DEF StreamsInv, QueuesTrue
<1>8. CASE Head(buffer[s]) # End
  <2>1. last' = [last EXCEPT ![s] = Head(buffer[s])] /\ sub' = sub
    BY <1>8 DEF Read
  <2>2. /\ last' \in [Subscribers -> Int] /\ last'[s] = Head(buffer[s])
        /\ \A u \in Subscribers : u # s => last'[u] = last[u]
    BY <1>2, <1>3, <2>1
  <2>3. TypeOfStreams'
    BY <1>1, <1>4, <2>1, <2>2 DEF StreamsInv, TypeOfStreams
  <2>4. ListTrue'
    BY <1>1, <1>4, <2>1 DEF StreamsInv, ListTrue, Listed
  <2>5. QueueTrue(s)'
    <3> DEFINE n == Reached(s) - last[s]
    <3>1. Holds(buffer[s], last[s], n, Closing(s))
      BY <1>1 DEF StreamsInv, QueuesTrue, QueueTrue, Connected
    <3>2. Reached(s) \in Int /\ last[s] \in Int
      BY <1>2 DEF Reached
    <3>3. n \in Nat /\ n >= 1 /\ buffer[s][1] = last[s] + 1
      <4> HIDE DEF n
      <4> QED
        BY <1>3, <1>8, <3>1 DEF Holds
    <3>4. last'[s] = last[s] + 1 /\ Reached(s)' - last'[s] = n - 1
      BY <1>3, <1>6, <2>2, <3>2, <3>3
    <3> DEFINE q == Tail(buffer[s])
    <3> HIDE DEF n
    <3>5. \A i \in 1..(n - 1) : q[i] = last'[s] + i
      <4> SUFFICES ASSUME NEW i \in 1..(n - 1) PROVE q[i] = last'[s] + i
        OBVIOUS
      <4>1. i + 1 \in 1..n /\ i \in 1..(Len(buffer[s]) - 1)
        BY <1>3, <3>1, <3>3 DEF Holds
      <4>2. q[i] = buffer[s][i + 1] /\ buffer[s][i + 1] = last[s] + (i + 1)
        BY <1>3, <3>1, <4>1 DEF Holds
      <4>3. last[s] + (i + 1) = (last[s] + 1) + i
        BY <3>2
      <4> QED
        BY <3>4, <4>2, <4>3
    <3>6. Len(q) = n - 1 \/ (Len(q) = n /\ q[n] = End /\ Closing(s))
      <4>1. CASE Len(buffer[s]) = n
        BY <1>3, <4>1
      <4>2. CASE Len(buffer[s]) = n + 1 /\ buffer[s][n + 1] = End /\ Closing(s)
        <5>1. Len(q) = n /\ q[n] = buffer[s][n + 1]
          BY <1>3, <3>3, <4>2
        <5> QED
          BY <4>2, <5>1
      <4> QED
        BY <3>1, <4>1, <4>2 DEF Holds
    <3>7. n - 1 \in Nat /\ (n - 1) + 1 = n
      BY <3>3
    <3>8. buffer'[s] = q
      BY <1>4
    <3> HIDE DEF q
    <3>9. Holds(q, last'[s], n - 1, Closing(s)')
      BY <1>6, <3>5, <3>6, <3>7 DEF Holds
    <3> QED
      BY <3>4, <3>8, <3>9 DEF QueueTrue, Holds, End
  <2>6. ASSUME NEW u \in Subscribers, u # s PROVE QueueTrue(u)'
    BY <1>4, <1>6, <2>1, <2>2, <2>6, QueueSame DEF StreamsInv
  <2> QED
    BY <1>5, <2>3, <2>4, <2>5, <2>6 DEF StreamsInv, QueuesTrue
<1> QED
  BY <1>7, <1>8

\* Clients that leave, and requests that wait for the run.
LEMMA ClientStep ==
  ASSUME StreamsInv, Wait \/ WaitForRun \/ \E s \in Subscribers : Disconnect(s)
  PROVE  StreamsInv'
<1>1. /\ wire' = wire /\ ingress' = ingress /\ item' = item /\ position' = position
      /\ seq' = seq /\ task' = task /\ registered' = registered /\ buffer' = buffer /\ last' = last
  BY DEF Wait, WaitForRun, Disconnect, worker, gateway
<1>2. DOMAIN sub' = Subscribers /\ \A u \in Subscribers :
        sub'[u] = sub[u] \/ (sub[u] \in Connected /\ sub'[u] \in Connected)
  <2>1. CASE Wait \/ WaitForRun
    BY <2>1 DEF Wait, WaitForRun, StreamsInv, TypeOfStreams
  <2>2. ASSUME NEW s \in Subscribers, Disconnect(s)
        PROVE  DOMAIN sub' = Subscribers /\ \A u \in Subscribers :
                 sub'[u] = sub[u] \/ (sub[u] \in Connected /\ sub'[u] \in Connected)
    BY <2>2 DEF Disconnect, StreamsInv, TypeOfStreams, Connected
  <2> QED
    BY <2>1, <2>2
<1>3. TypeOfStreams'
  BY <1>1, <1>2 DEF StreamsInv, TypeOfStreams
<1>4. WireTrue'
  BY <1>1 DEF StreamsInv, WireTrue, End
<1>5. ListTrue'
  <2>1. \A u \in Subscribers : (sub'[u] \in Connected => sub[u] \in Connected)
                               /\ (sub'[u] = "away" <=> sub[u] = "away")
    BY <1>2 DEF Connected
  <2>2. \A i \in 1..Len(registered) : registered[i] \in Subscribers
    BY DEF StreamsInv, TypeOfStreams
  <2> QED
    BY <1>1, <2>1, <2>2 DEF StreamsInv, ListTrue, Listed
<1>6. QueuesTrue'
  <2> SUFFICES ASSUME NEW u \in Subscribers PROVE QueueTrue(u)'
    BY DEF QueuesTrue
  <2>1. Reached(u)' = Reached(u) /\ (Closing(u) => Closing(u)')
    BY <1>1 DEF Reached, Closing, Waits
  <2> QED
    BY <1>1, <1>2, <2>1, QueueSame DEF StreamsInv
<1> QED
  BY <1>3, <1>4, <1>5, <1>6 DEF StreamsInv

\* Worker, gateway and clients keep wire, list and queues true.
LEMMA StreamsStep == StreamsInv /\ [Next]_vars => StreamsInv'
<1> SUFFICES ASSUME StreamsInv, [Next]_vars PROVE StreamsInv'
  OBVIOUS
<1>1. CASE Task \/ CancelRun
  <2>1. UNCHANGED <<gateway, buffer, client>>
    BY <1>1 DEF Task, Dispatch, TaskStarts, TaskHasNoAdapter, Draft, Yield, StoreEnding, StreamEndsOpen, StreamRaises,
                FailRun, GeneratorReturns, CloseStream, StreamAnswered, CancelRun
  <2> QED
    BY <1>1, <2>1, WorkerStep
<1>2. CASE UNCHANGED vars
  <2>1. UNCHANGED <<gateway, buffer, client>>
    BY <1>2 DEF vars
  <2> QED
    BY <1>2, <2>1, WorkerStep
<1> QED
  BY <1>1, <1>2, TakeEventStep, PutStep, TakeEndStep, LoopEndsStep, JoinStep, ReadStep, ClientStep
     DEF Next, Ingress

\* What a queue holds, as one sequence.
LEMMA HeldSequence ==
  ASSUME NEW q \in Seq(Int), NEW k \in Int, NEW n, NEW closed, Holds(q, k, n, closed)
  PROVE  \E close \in {<<>>, <<End>>} : q = [i \in 1..n |-> k + i] \o close
<1> DEFINE f == [i \in 1..n |-> k + i]
<1>1. n \in Nat /\ \A i \in 1..n : q[i] = k + i
  BY DEF Holds
<1>2. f \in Seq(Int) /\ Len(f) = n /\ \A i \in 1..n : f[i] = k + i
  BY <1>1
<1> HIDE DEF f
<1>3. CASE Len(q) = n
  <2>1. q = f
    BY <1>1, <1>2, <1>3
  <2>2. f \o <<>> = f
    BY <1>2
  <2> QED
    BY <2>1, <2>2 DEF f
<1>4. CASE Len(q) = n + 1 /\ q[n + 1] = End
  <2>1. End \in Int
    BY EventsAreBounded DEF End
  <2>2. <<End>> \in Seq(Int) /\ Len(<<End>>) = 1 /\ <<End>>[1] = End
    BY <2>1
  <2>3. /\ f \o <<End>> \in Seq(Int) /\ Len(f \o <<End>>) = n + 1
        /\ \A i \in 1..(n + 1) : (f \o <<End>>)[i] = IF i <= n THEN f[i] ELSE <<End>>[i - n]
    BY <1>1, <1>2, <2>2, ConcatProperties
  <2>4. ASSUME NEW i \in 1..(n + 1) PROVE (f \o <<End>>)[i] = q[i]
    <3>1. CASE i <= n
      BY <1>1, <1>2, <2>3, <3>1
    <3>2. CASE ~(i <= n)
      <4>1. i = n + 1 /\ i - n = 1
        BY <1>1, <3>2
      <4> QED
        BY <1>4, <2>2, <2>3, <3>2, <4>1
    <3> QED
      BY <3>1, <3>2
  <2>5. q = f \o <<End>>
    BY <1>4, <2>3, <2>4, SeqEqual
  <2> QED
    BY <2>5 DEF f
<1> QED
  BY <1>3, <1>4 DEF Holds

\* Whoever joins in the middle of the loop over the queues, and whoever is
\* slow, no client of a run sees a gap, a repetition or a disorder.
THEOREM NothingIsSkipped == Spec => []NothingSkipped
<1>1. StreamsInv => NothingSkipped
  <2> SUFFICES ASSUME StreamsInv, NEW s \in Subscribers, sub[s] \in {"joined", "gone"}
               PROVE  \E close \in {<<>>, <<End>>} :
                        buffer[s] = [i \in 1 .. (Reached(s) - last[s]) |-> last[s] + i] \o close
    BY DEF NothingSkipped
  <2>1. Holds(buffer[s], last[s], Reached(s) - last[s], Closing(s))
    BY DEF StreamsInv, QueuesTrue, QueueTrue, Connected
  <2>2. buffer[s] \in Seq(Int) /\ last[s] \in Int
    BY DEF StreamsInv, TypeOfStreams
  <2> QED
    BY <2>1, <2>2, HeldSequence
<1> QED
  BY <1>1, StreamsStart, StreamsStep, PTL DEF Spec

-----------------------------------------------------------------------------
(* The end of the stream *)

\* The closing None is in the queue of s, after all events.
EndQueued(s) == buffer[s] # <<>> /\ buffer[s][Len(buffer[s])] = End

Over == ingress \in {"ending", "closed"}

\* A client that was told the end of the stream has read every event that the
\* worker yielded, and the row of the run is settled, except where
\* services/worker executed a graph that ended without saying so.  A client
\* that waits when the stream is over has the closing None in its queue, or
\* it is next in the loop that closes the queues, unless there was no event.
EndIsFinal ==
  \A s \in Subscribers :
    /\ sub[s] = "ended" => /\ last[s] = seq - 1
                           /\ run \in Settled \/ (service = "worker" /\ ending = "none")
    /\ sub[s] = "joined" /\ Over => Waits(s) \/ EndQueued(s) \/ item = -1

\* The row is settled before the stream is closed, or by a cancel.
RowSettled ==
  task \in {"ended", "closing", "awaiting", "done"} =>
    run \in Settled \/ (service = "worker" /\ ending = "none")

\* The queue of s is closed, or about to be, once the stream is over; whoever
\* was told has read all.
Told(s) ==
  /\ sub[s] = "ended" => Over /\ last[s] = seq - 1
  /\ sub[s] = "joined" /\ Over => Waits(s) \/ EndQueued(s) \/ item = -1

ToldInv ==
  /\ service \in {"worker", "all"}
  /\ task \in {"queued", "received"} => run \in {"pending", "cancelled"} /\ ending = "none"
  /\ RowSettled
  /\ ingress = "idle" => item = -1
  /\ \A s \in Subscribers : Told(s)

\* Over is over: everything that was yielded was taken.
LEMMA OverTakenAll ==
  ASSUME StreamsInv, Over
  PROVE  item = seq - 1 /\ task \in Sent
<1>1. wire = <<>> /\ task \in Sent /\ seq \in Nat /\ item \in Int /\ item < seq
  BY DEF StreamsInv, TypeOfStreams, WireTrue, Over
<1>2. Len(wire) = seq - 1 - item \/ Len(wire) = seq - item
  BY DEF StreamsInv, WireTrue
<1> QED
  BY <1>1, <1>2

\* The worker settles the row before it closes the stream.
LEMMA RowStep ==
  ASSUME ToldInv, [Next]_vars
  PROVE  /\ service' \in {"worker", "all"}
         /\ task' \in {"queued", "received"} => run' \in {"pending", "cancelled"} /\ ending' = "none"
         /\ RowSettled'
<1> DEFINE Goal == /\ service' \in {"worker", "all"}
                   /\ task' \in {"queued", "received"} => run' \in {"pending", "cancelled"} /\ ending' = "none"
                   /\ RowSettled'
<1>0. /\ service \in {"worker", "all"} /\ RowSettled
      /\ task \in {"queued", "received"} => run \in {"pending", "cancelled"} /\ ending = "none"
  BY DEF ToldInv
<1> USE DEF RowSettled
<1>1. ASSUME Dispatch \/ (\E e \in Endings \union {"none"} : Draft(e)) \/ Yield \/ StreamRaises PROVE Goal
  BY <1>0, <1>1 DEF Dispatch, Draft, Yield, StreamRaises
<1>2. CASE TaskStarts \/ TaskHasNoAdapter
  BY <1>0, <1>2 DEF TaskStarts, TaskHasNoAdapter, Settled, Terminal
<1>3. CASE StoreEnding
  <2>1. CASE CanStore(run, ending)
    <3>1. /\ task' = "ended" /\ run' = StatusOf(ending) /\ service' = service
      BY <1>3, <2>1 DEF StoreEnding
    <3>2. StatusOf(ending) \in Settled
      BY DEF StatusOf, Settled, Terminal
    <3> QED
      BY <1>0, <3>1, <3>2
  <2>2. CASE ~CanStore(run, ending)
    BY <1>0, <1>3, <2>2 DEF StoreEnding
  <2> QED
    BY <2>1, <2>2
<1>4. CASE StreamEndsOpen
  BY <1>0, <1>4 DEF StreamEndsOpen, Settled, Terminal
<1>5. CASE FailRun
  BY <1>0, <1>5 DEF FailRun, Settled, Terminal
<1>6. CASE GeneratorReturns \/ CloseStream \/ StreamAnswered
  BY <1>0, <1>6 DEF GeneratorReturns, CloseStream, StreamAnswered
<1>7. CASE CancelRun
  BY <1>0, <1>7 DEF CancelRun, Settled, Terminal
<1>8. ASSUME UNCHANGED <<service, worker>> PROVE Goal
  BY <1>0, <1>8 DEF worker
<1>9. CASE Ingress
  BY <1>8, <1>9 DEF Ingress, TakeEvent, Put, PutDone, TakeEnd, EndDone
<1>10. ASSUME NEW s \in Subscribers, Join(s) \/ Read(s) \/ Disconnect(s) PROVE Goal
  BY <1>8, <1>10 DEF Join, Subscribe, Read, Disconnect
<1>11. CASE Wait \/ WaitForRun
  BY <1>8, <1>11 DEF Wait, WaitForRun
<1>12. CASE UNCHANGED vars
  BY <1>8, <1>12 DEF vars
<1> QED
  BY <1>1, <1>2, <1>3, <1>4, <1>5, <1>6, <1>7, <1>9, <1>10, <1>11, <1>12 DEF Next, Task

\* The gateway closes every queue in its list.
LEMMA IngressTells ==
  ASSUME StreamsInv, ToldInv, Ingress
  PROVE  (ingress' = "idle" => item' = -1) /\ \A s \in Subscribers : Told(s)'
<1>0. /\ ingress = "idle" => item = -1
      /\ \A s \in Subscribers : Told(s)
      /\ registered \in Seq(Subscribers) /\ Len(registered) \in Nat /\ position \in Nat
      /\ buffer \in [Subscribers -> Seq(Int)]
  BY DEF ToldInv, StreamsInv, TypeOfStreams
<1>1. CASE TakeEvent \/ PutDone
  <2>1. ingress \in {"idle", "open", "putting"} /\ ingress' \in {"putting", "open"} /\ sub' = sub
    BY <1>1 DEF TakeEvent, PutDone, client
  <2> QED
    BY <1>0, <2>1 DEF Told, Over
<1>2. CASE TakeEnd
  <2>1. /\ ingress \in {"idle", "open"} /\ position' = 1 /\ item' = item /\ registered' = registered
        /\ sub' = sub /\ ingress' = IF ingress = "idle" THEN "closed" ELSE "ending"
    BY <1>2 DEF TakeEnd, client
  <2>2. ASSUME NEW s \in Subscribers, sub[s] = "joined" PROVE Waits(s)'
    <3>1. \E i \in 1..Len(registered) : registered[i] = s
      BY <2>1, <2>2 DEF StreamsInv, ListTrue, Listed, Connected
    <3> QED
      BY <2>1, <3>1 DEF Waits
  <2> QED
    BY <1>0, <2>1, <2>2 DEF Told, Over
<1>3. CASE EndDone
  <2>1. /\ ingress = "ending" /\ ingress' = "closed" /\ position > Len(registered) /\ item' = item
        /\ buffer' = buffer /\ sub' = sub /\ last' = last /\ seq' = seq
    BY <1>3 DEF EndDone, worker, client
  <2>2. \A s \in Subscribers : ~Waits(s) /\ EndQueued(s)' = EndQueued(s)
    BY <1>0, <2>1 DEF Waits, EndQueued, End
  <2> QED
    BY <1>0, <2>1, <2>2 DEF Told, Over
<1>4. CASE Put
  <2> DEFINE r == registered[position]
             e == IF ingress = "putting" THEN item ELSE End
  <2>1. /\ ingress \in {"putting", "ending"} /\ position <= Len(registered) /\ position' = position + 1
        /\ buffer' = [buffer EXCEPT ![r] = Append(buffer[r], e)]
        /\ ingress' = ingress /\ item' = item /\ registered' = registered
        /\ sub' = sub /\ last' = last /\ seq' = seq
    BY <1>4 DEF Put, worker, client
  <2>2. r \in Subscribers /\ item \in Int /\ End \in Int
    <3>1. position \in 1..Len(registered) /\ item \in Int
      BY <1>0, <2>1 DEF StreamsInv, TypeOfStreams
    <3> QED
      BY <1>0, <3>1, EventsAreBounded DEF End
  <2> HIDE DEF r
  <2>3. ASSUME NEW s \in Subscribers, sub[s] = "joined", ingress = "ending"
        PROVE  Waits(s)' \/ EndQueued(s)' \/ item = -1
    <3>1. CASE s = r
      <4>1. buffer'[s] = Append(buffer[s], End) /\ buffer[s] \in Seq(Int)
        BY <1>0, <2>1, <2>2, <2>3, <3>1
      <4>2. Len(Append(buffer[s], End)) = Len(buffer[s]) + 1 /\ Len(buffer[s]) \in Nat
            /\ Append(buffer[s], End)[Len(buffer[s]) + 1] = End
        BY <2>2, <4>1, AppendProperties
      <4>3. Append(buffer[s], End) # <<>>
        BY <4>2
      <4> QED
        BY <4>1, <4>2, <4>3 DEF EndQueued, End
    <3>2. CASE s # r
      <4>1. buffer'[s] = buffer[s]
        BY <1>0, <2>1, <3>2
      <4>2. Waits(s) => Waits(s)'
        <5>1. ASSUME NEW i \in position..Len(registered), registered[i] = s
              PROVE  i \in (position + 1)..Len(registered)
          BY <1>0, <3>2, <5>1 DEF r
        <5> QED
          BY <2>1, <5>1 DEF Waits
      <4>3. Waits(s) \/ EndQueued(s) \/ item = -1
        BY <1>0, <2>3 DEF Told, Over
      <4> QED
        BY <4>1, <4>2, <4>3 DEF EndQueued, End
    <3> QED
      BY <3>1, <3>2
  <2> QED
    BY <1>0, <2>1, <2>3 DEF Told, Over
<1> QED
  BY <1>1, <1>2, <1>3, <1>4 DEF Ingress

\* A client that finds the closing None at the head of its queue has read
\* everything.
LEMMA NoneIsLast ==
  ASSUME StreamsInv, NEW s \in Subscribers, sub[s] = "joined", buffer[s] # <<>>, Head(buffer[s]) = End
  PROVE  Over /\ last[s] = seq - 1
<1> DEFINE n == Reached(s) - last[s]
<1>1. /\ buffer[s] \in Seq(Int) /\ last[s] \in Int /\ item \in Int /\ seq \in Nat
      /\ item < seq /\ seq <= MaxEvents
  BY DEF StreamsInv, TypeOfStreams
<1>2. Holds(buffer[s], last[s], n, Closing(s))
  BY DEF StreamsInv, QueuesTrue, QueueTrue, Connected
<1>3. Len(buffer[s]) \in Nat /\ Len(buffer[s]) >= 1 /\ buffer[s][1] = End
  BY <1>1
<1>4. Reached(s) \in Int /\ Reached(s) <= item
  BY <1>1 DEF Reached
<1>5. n = 0
  <2>1. n \in Nat
    BY <1>2 DEF Holds
  <2>2. ASSUME n >= 1 PROVE FALSE
    <3>1. buffer[s][1] = last[s] + 1
      BY <1>2, <2>1, <2>2 DEF Holds
    <3> QED
      BY <1>1, <1>3, <1>4, <2>1, <2>2, <3>1 DEF End
  <2> QED
    BY <2>1, <2>2
<1>6. Closing(s)
  BY <1>2, <1>3, <1>5 DEF Holds
<1>7. Over /\ Reached(s) = item
  BY <1>6 DEF Closing, Over, Reached
<1>8. item = seq - 1
  BY <1>7, OverTakenAll
<1> QED
  BY <1>1, <1>4, <1>5, <1>7, <1>8

\* Clients come, read and go.
LEMMA ClientsTold ==
  ASSUME StreamsInv, ToldInv, NEW s \in Subscribers, Join(s) \/ Read(s) \/ Disconnect(s)
  PROVE  (ingress' = "idle" => item' = -1) /\ \A o \in Subscribers : Told(o)'
<1>0. /\ ingress = "idle" => item = -1
      /\ \A o \in Subscribers : Told(o)
      /\ buffer \in [Subscribers -> Seq(Int)] /\ DOMAIN sub = Subscribers /\ DOMAIN last = Subscribers
  BY DEF ToldInv, StreamsInv, TypeOfStreams
<1>1. /\ ingress' = ingress /\ item' = item /\ seq' = seq /\ position' = position
      /\ \A o \in Subscribers \ {s} : sub'[o] = sub[o] /\ last'[o] = last[o] /\ buffer'[o] = buffer[o]
      /\ Over => registered' = registered
  BY <1>0 DEF Join, Subscribe, Read, Disconnect, gateway, worker, Over, Listed
<1>2. ASSUME NEW o \in Subscribers \ {s} PROVE Told(o)'
  <2>1. Over => (Waits(o)' <=> Waits(o))
    BY <1>1 DEF Waits
  <2>2. EndQueued(o)' <=> EndQueued(o)
    BY <1>1 DEF EndQueued, End
  <2>3. Over' <=> Over
    BY <1>1 DEF Over
  <2> QED
    BY <1>0, <1>1, <2>1, <2>2, <2>3 DEF Told
<1>3. CASE Join(s)
  <2>1. sub'[s] = IF Listed THEN "joined" ELSE "late"
    BY <1>0, <1>3 DEF Join, Subscribe
  <2>2. Told(s)'
    BY <1>1, <2>1 DEF Told, Over, Listed
  <2> QED
    BY <1>0, <1>1, <1>2, <2>2
<1>4. CASE Disconnect(s)
  <2>1. sub'[s] = "gone"
    BY <1>0, <1>4 DEF Disconnect
  <2>2. Told(s)'
    BY <2>1 DEF Told
  <2> QED
    BY <1>0, <1>1, <1>2, <2>2
<1>5. CASE Read(s)
  <2>1. sub[s] = "joined" /\ buffer[s] # <<>> /\ buffer'[s] = Tail(buffer[s]) /\ registered' = registered
    BY <1>0, <1>5 DEF Read, gateway
  <2>2. CASE Head(buffer[s]) = End
    <3>1. sub'[s] = "ended" /\ last'[s] = last[s]
      BY <1>0, <1>5, <2>2 DEF Read
    <3>2. Over /\ last[s] = seq - 1
      BY <2>1, <2>2, NoneIsLast
    <3>3. Told(s)'
      BY <1>1, <3>1, <3>2 DEF Told, Over
    <3> QED
      BY <1>0, <1>1, <1>2, <3>3
  <2>3. CASE Head(buffer[s]) # End
    <3>1. sub'[s] = "joined"
      BY <1>0, <1>5, <2>1, <2>3 DEF Read
    <3>2. EndQueued(s) => EndQueued(s)'
      <4> SUFFICES ASSUME EndQueued(s) PROVE EndQueued(s)'
        OBVIOUS
      <4>1. /\ buffer[s] \in Seq(Int) /\ Len(buffer[s]) \in Nat /\ buffer[s][1] # End
            /\ buffer[s][Len(buffer[s])] = End
        BY <1>0, <2>1, <2>3 DEF EndQueued
      <4>2. Len(buffer[s]) > 1
        BY <2>1, <4>1
      <4>3. PICK t \in Seq(Int) : t = Tail(buffer[s]) /\ Len(t) = Len(buffer[s]) - 1
                                  /\ \A i \in 1..Len(t) : t[i] = buffer[s][i + 1]
        <5>1. Tail(buffer[s]) \in Seq(Int) /\ Len(Tail(buffer[s])) = Len(buffer[s]) - 1
              /\ \A i \in 1..Len(Tail(buffer[s])) : Tail(buffer[s])[i] = buffer[s][i + 1]
          BY <2>1, <4>1, HeadTailProperties
        <5> QED
          BY <5>1, Zenon
      <4>4. Len(t) \in 1..Len(t) /\ Len(t) + 1 = Len(buffer[s])
        BY <4>1, <4>2, <4>3
      <4>5. t[Len(t)] = End /\ t # <<>>
        <5>1. t[Len(t)] = buffer[s][Len(t) + 1]
          BY <4>3, <4>4
        <5>2. t # <<>>
          BY <4>4
        <5> QED
          BY <4>1, <4>4, <5>1, <5>2
      <4> QED
        BY <2>1, <4>3, <4>5 DEF EndQueued, End
    <3>3. Waits(s)' <=> Waits(s)
      BY <1>1, <2>1 DEF Waits
    <3>4. Told(s)'
      BY <1>0, <1>1, <2>1, <3>1, <3>2, <3>3 DEF Told, Over
    <3> QED
      BY <1>0, <1>1, <1>2, <3>4
  <2> QED
    BY <2>2, <2>3
<1> QED
  BY <1>3, <1>4, <1>5

\* What the worker does leaves them told: it yields nothing once it is over.
LEMMA WorkerTells ==
  ASSUME StreamsInv, ToldInv, Task \/ CancelRun \/ Wait \/ WaitForRun \/ UNCHANGED vars
  PROVE  (ingress' = "idle" => item' = -1) /\ \A s \in Subscribers : Told(s)'
<1>1. UNCHANGED <<gateway, buffer, sub, last>>
  BY DEF Task, Dispatch, TaskStarts, TaskHasNoAdapter, Draft, Yield, StoreEnding, StreamEndsOpen, StreamRaises,
         FailRun, GeneratorReturns, CloseStream, StreamAnswered, CancelRun, Wait, WaitForRun, vars, client
<1>2. ASSUME Over PROVE seq' = seq
  <2>1. task \in Sent
    BY <1>2, OverTakenAll
  <2>2. task # "yielding"
    BY <2>1 DEF Sent
  <2> QED
    BY <2>2 DEF Task, Dispatch, TaskStarts, TaskHasNoAdapter, Draft, Yield, StoreEnding, StreamEndsOpen, StreamRaises,
         FailRun, GeneratorReturns, CloseStream, StreamAnswered, CancelRun, Wait, WaitForRun, vars, worker
<1>3. ASSUME NEW s \in Subscribers PROVE Told(s)'
  <2>1. (Waits(s)' <=> Waits(s)) /\ (EndQueued(s)' <=> EndQueued(s)) /\ (Over' <=> Over)
    BY <1>1 DEF gateway, Waits, EndQueued, Over, End
  <2> QED
    BY <1>1, <1>2, <2>1 DEF ToldInv, Told, gateway
<1> QED
  BY <1>1, <1>3 DEF ToldInv, gateway

\* A stream that ends has told its client everything, and no client of a
\* stream that is over is left without its end, whoever joined in the middle
\* of the loop over the queues; the abandoned queue that can hold up this loop
\* is a matter of StreamIsClosed.
THEOREM EndsAreFinal == Spec => []EndIsFinal
<1>1. Init => ToldInv
  BY DEF Init, ToldInv, RowSettled, Told, Over
<1>2. ASSUME StreamsInv, ToldInv, [Next]_vars
      PROVE  ToldInv'
  <2>1. (ingress' = "idle" => item' = -1) /\ \A s \in Subscribers : Told(s)'
    BY <1>2, IngressTells, ClientsTold, WorkerTells DEF Next
  <2> QED
    BY <1>2, <2>1, RowStep DEF ToldInv
<1>3. StreamsInv /\ ToldInv => EndIsFinal
  <2> SUFFICES ASSUME StreamsInv, ToldInv, NEW s \in Subscribers, sub[s] = "ended"
               PROVE  run \in Settled \/ (service = "worker" /\ ending = "none")
    BY DEF EndIsFinal, ToldInv, Told
  <2>1. task \in Sent
    BY OverTakenAll DEF ToldInv, Told
  <2> QED
    BY <2>1 DEF ToldInv, RowSettled, Sent
<1> QED
  BY <1>1, <1>2, <1>3, StreamsStart, StreamsStep, PTL DEF Spec
=============================================================================
