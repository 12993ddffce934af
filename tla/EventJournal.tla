---------------------------- MODULE EventJournal ----------------------------
(***************************************************************************)
(* adapters/memory/events.py for one run: append, replay and live          *)
(* subscriptions through bounded queues.  append and the set-up and        *)
(* clean-up of a subscription hold the journal's lock and never suspend;   *)
(* a subscriber gives up control at each event it yields and while its     *)
(* queue is empty.  An event is its sequence number.                       *)
(***************************************************************************)
EXTENDS Integers, Sequences

CONSTANTS
  Subscriber,   \* calls of subscribe()
  queue_size,   \* InMemoryEventJournal(queue_size)
  Cursor,       \* after_sequence values the callers pass
  MaxEvents     \* bound: appended events

ASSUME JournalAssumption ==
  /\ queue_size \in Nat \ {0}
  /\ Cursor \subseteq Int /\ \A n \in Cursor : n >= -1
  /\ MaxEvents \in Nat

Close == -1   \* the None that ends a subscription

VARIABLES
  ending,       \* for every appended event, whether its type is in _TERMINAL
  subscribed,   \* subscribers whose queue is in _subscribers
  phase,        \* where each subscribe() generator is
  cursor,       \* its after_sequence
  initial,      \* the replayed events it has yet to yield
  queue,        \* its asyncio.Queue
  delivered     \* the events it yielded

vars == <<ending, subscribed, phase, cursor, initial, queue, delivered>>

Init ==
  /\ ending = <<>>
  /\ subscribed = {}
  /\ phase = [s \in Subscriber |-> "new"]
  /\ cursor = [s \in Subscriber |-> -1]
  /\ initial = [s \in Subscriber |-> <<>>]
  /\ queue = [s \in Subscriber |-> <<>>]
  /\ delivered = [s \in Subscriber |-> <<>>]

\* The sequence numbers after n, and whether event number n ends the run.
After(n) == [i \in 1..(Len(ending) - n - 1) |-> n + i]
Ends(n)  == ending[n + 1]

\* _close_queue: on a full queue the oldest event makes room for the None.
Closed(q) == IF Len(q) < queue_size THEN Append(q, Close) ELSE Append(Tail(q), Close)

Full(s) == Len(queue[s]) = queue_size

\* Mutant: a full queue is left alone.
OfferedUnclosed(s, event, last) ==
  LET put == IF Full(s) THEN queue[s] ELSE Append(queue[s], event)
  IN  IF last /\ ~Full(s) THEN Closed(put) ELSE put

\* A subscriber's queue after append: the event if there is room, else it is
\* closed as overflowed; the final event closes every queue, once more.
Offered(s, event, last) ==
  LET put == IF Full(s) THEN Closed(queue[s]) ELSE Append(queue[s], event)
  IN  IF last THEN Closed(put) ELSE put

\* Mutant: a subscriber that overflowed stays registered.
AppendKeepsSlow(last) ==
  /\ Len(ending) < MaxEvents
  /\ ending' = Append(ending, last)
  /\ queue' = [s \in Subscriber |->
                 IF s \in subscribed THEN Offered(s, Len(ending), last) ELSE queue[s]]
  /\ subscribed' = IF last THEN {} ELSE subscribed
  /\ UNCHANGED <<phase, cursor, initial, delivered>>

AppendEvent(last) ==
  /\ Len(ending) < MaxEvents
  /\ ending' = Append(ending, last)
  /\ queue' = [s \in Subscriber |->
                 IF s \in subscribed THEN Offered(s, Len(ending), last) ELSE queue[s]]
  /\ subscribed' = IF last THEN {} ELSE {s \in subscribed : ~Full(s)}
  /\ UNCHANGED <<phase, cursor, initial, delivered>>

\* The first __anext__: replay what is there, register for the rest unless
\* the replayed part already ends the run.  A cursor is the number of an
\* event the caller has seen, or -1.
Subscribe(s, after) ==
  LET over == \E i \in DOMAIN After(after) : Ends(After(after)[i]) IN
  /\ phase[s] = "new"
  /\ after < Len(ending)
  /\ cursor' = [cursor EXCEPT ![s] = after]
  /\ initial' = [initial EXCEPT ![s] = After(after)]
  /\ phase' = [phase EXCEPT ![s] = IF over THEN "replayOnly" ELSE "replay"]
  /\ subscribed' = IF over THEN subscribed ELSE subscribed \cup {s}
  /\ UNCHANGED <<ending, queue, delivered>>

YieldReplayed(s) ==
  /\ phase[s] \in {"replay", "replayOnly"} /\ initial[s] # <<>>
  /\ delivered' = [delivered EXCEPT ![s] = Append(@, Head(initial[s]))]
  /\ initial' = [initial EXCEPT ![s] = Tail(@)]
  /\ UNCHANGED <<ending, subscribed, phase, cursor, queue>>

YieldLive(s) ==
  /\ phase[s] = "replay" /\ initial[s] = <<>>
  /\ queue[s] # <<>> /\ Head(queue[s]) # Close
  /\ delivered' = [delivered EXCEPT ![s] = Append(@, Head(queue[s]))]
  /\ queue' = [queue EXCEPT ![s] = Tail(@)]
  /\ UNCHANGED <<ending, subscribed, phase, cursor, initial>>

\* The generator returns: after a replay that ends the run, or on None.
Finish(s) ==
  /\ initial[s] = <<>>
  /\ \/ phase[s] = "replayOnly"
     \/ phase[s] = "replay" /\ queue[s] # <<>> /\ Head(queue[s]) = Close
  /\ phase' = [phase EXCEPT ![s] = "ended"]
  /\ subscribed' = subscribed \ {s}
  /\ UNCHANGED <<ending, cursor, initial, queue, delivered>>

\* The client goes away: the finally block deregisters the queue.
Disconnect(s) ==
  /\ phase[s] \in {"replay", "replayOnly"}
  /\ phase' = [phase EXCEPT ![s] = "left"]
  /\ subscribed' = subscribed \ {s}
  /\ UNCHANGED <<ending, cursor, initial, queue, delivered>>

Reads(s) == YieldReplayed(s) \/ YieldLive(s) \/ Finish(s)

Next ==
  \/ \E last \in BOOLEAN : AppendEvent(last)
  \/ \E s \in Subscriber : Reads(s) \/ Disconnect(s) \/ \E after \in Cursor : Subscribe(s, after)

Spec == Init /\ [][Next]_vars

\* A subscriber that stays keeps reading; nobody has to append or subscribe.
Fairness == \A s \in Subscriber : WF_vars(Reads(s))

FairSpec == Spec /\ Fairness

-----------------------------------------------------------------------------
(* Properties *)

\* What a subscriber has received, is about to replay and finds in its queue.
InOrder(s) == delivered[s] \o initial[s] \o queue[s]

\* The hand-over from replay to live delivery neither repeats nor reorders an
\* event, whatever is appended while a subscriber replays; and a subscriber
\* still registered has missed nothing: all that was appended past its cursor
\* is delivered or on its way.  One that is too slow for its queue loses
\* events, but only together with its registration.
HandOverExact ==
  \A s \in Subscriber :
    /\ \A i \in DOMAIN InOrder(s) : InOrder(s)[i] # Close =>
         /\ cursor[s] < InOrder(s)[i]
         /\ \A j \in 1..(i - 1) : InOrder(s)[j] # Close => InOrder(s)[j] < InOrder(s)[i]
    /\ s \in subscribed => InOrder(s) = After(cursor[s])

\* A stream that is read ends once the run has: after replay, live, or cut
\* short by a full queue.
StreamEnds ==
  \A s \in Subscriber :
    (phase[s] = "replay" /\ \E n \in DOMAIN ending : ending[n] /\ n - 1 > cursor[s])
      ~> phase[s] \in {"ended", "left"}
=============================================================================
