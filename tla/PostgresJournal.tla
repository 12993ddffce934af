--------------------------- MODULE PostgresJournal ---------------------------
(***************************************************************************)
(* PostgresEventJournal for one run: append numbers an event inside a      *)
(* transaction that holds an advisory lock for the run, subscribe polls    *)
(* replay() with a cursor.  Rows of different runs are independent.  The   *)
(* statements of a transaction are separate steps; its row is visible, and *)
(* its lock free, from the commit on.                                      *)
(***************************************************************************)
EXTENDS ExecutionDomain, Integers, Sequences, SequencesExt

CONSTANTS
    Appenders,      \* gateways and workers that append events of the run
    Subscribers,    \* streams that follow the run
    MaxRows,        \* bound: events in the journal
    NoOne           \* holder of a free lock

VARIABLES
    rows,       \* type of the committed event of every sequence number
    holder,     \* holder of pg_advisory_xact_lock for the run
    append,     \* state of each append(): step, event type, number, attempt
    sub         \* state of each subscribe(): step, cursor, events to yield

vars == <<rows, holder, append, sub>>

-----------------------------------------------------------------------------
Idle == [step |-> "idle", type |-> "none", number |-> -1, attempt |-> 0]
Away == [step |-> "away", cursor |-> -1, batch |-> <<>>, final |-> FALSE]

\* Events of a run: subscribe() returns after an ending one.
Types == {"run.completed", "run.interrupted", "state.updates"}

\* Sequence numbers start at 0, sequences at 1.
Last0 == Len(rows) - 1
TypeAt(n) == rows[n + 1]

Init ==
    /\ rows = <<>>
    /\ holder = NoOne
    /\ append = [a \in Appenders |-> Idle]
    /\ sub = [s \in Subscribers |-> Away]

-----------------------------------------------------------------------------
(* append                                                                  *)

AppendCalled(a, type) ==
    /\ append[a].step = "idle"
    /\ Len(rows) < MaxRows
    /\ append' = [append EXCEPT ![a] = [Idle EXCEPT !.step = "begin", !.type = type]]
    /\ UNCHANGED <<rows, holder, sub>>

\* Mutant: nothing serialises the transactions of a run.
AppendUnlocked(a) ==
    /\ append[a].step = "begin"
    /\ append' = [append EXCEPT ![a].step = "locked"]
    /\ UNCHANGED <<rows, holder, sub>>

\* pg_advisory_xact_lock waits for the transaction that holds it.
AppendLocks(a) ==
    /\ append[a].step = "begin"
    /\ holder = NoOne
    /\ holder' = a
    /\ append' = [append EXCEPT ![a].step = "locked"]
    /\ UNCHANGED <<rows, sub>>

\* SELECT max(sequence), and the number after it.
AppendReads(a) ==
    /\ append[a].step = "locked"
    /\ append' = [append EXCEPT ![a].step = "insert", ![a].number = Last0 + 1]
    /\ UNCHANGED <<rows, holder, sub>>

\* The lock goes with the transaction.
Unlock(a) == holder' = IF holder = a THEN NoOne ELSE holder

\* The insert and the commit, or the unique key (run_id, sequence) refuses a
\* number that is taken: three attempts, the third one raises.
AppendInserts(a) ==
    /\ append[a].step = "insert"
    /\ IF append[a].number > Last0
       THEN /\ rows' = Append(rows, append[a].type)
            /\ append' = [append EXCEPT ![a] = Idle]
       ELSE /\ append' = [append EXCEPT ![a].step = IF append[a].attempt = 2 THEN "raised" ELSE "begin",
                                        ![a].attempt = @ + 1]
            /\ UNCHANGED rows
    /\ Unlock(a)
    /\ UNCHANGED sub

\* The connection is lost: the transaction is rolled back and append raises.
AppendAborts(a) ==
    /\ append[a].step \in {"locked", "insert"}
    /\ append' = [append EXCEPT ![a] = Idle]
    /\ Unlock(a)
    /\ UNCHANGED <<rows, sub>>

-----------------------------------------------------------------------------
(* subscribe                                                               *)

Subscribe(s, after) ==
    /\ sub[s].step = "away"
    /\ sub' = [sub EXCEPT ![s] = [Away EXCEPT !.step = "poll", !.cursor = after]]
    /\ UNCHANGED <<rows, holder, append>>

\* replay(): the committed events after the cursor, in order.
Replay(cursor) == [i \in 1 .. (Last0 - cursor) |-> cursor + i]

\* Mutant: the first event of a batch decides whether it is the final one.
PollFirst(s) ==
    /\ sub[s].step = "poll"
    /\ Replay(sub[s].cursor) # <<>>
    /\ LET events == Replay(sub[s].cursor) IN
       sub' = [sub EXCEPT ![s].step = "yield", ![s].batch = events,
                          ![s].final = TypeAt(Head(events)) \in EndEvent]
    /\ UNCHANGED <<rows, holder, append>>

\* An empty answer is followed by a sleep and another poll.
Poll(s) ==
    /\ sub[s].step = "poll"
    /\ Replay(sub[s].cursor) # <<>>
    /\ LET events == Replay(sub[s].cursor) IN
       sub' = [sub EXCEPT ![s].step = "yield", ![s].batch = events,
                          ![s].final = TypeAt(Last(events)) \in EndEvent]
    /\ UNCHANGED <<rows, holder, append>>

YieldEvent(s) ==
    /\ sub[s].step = "yield"
    /\ sub[s].batch # <<>>
    /\ sub' = [sub EXCEPT ![s].cursor = Head(sub[s].batch), ![s].batch = Tail(@)]
    /\ UNCHANGED <<rows, holder, append>>

BatchDone(s) ==
    /\ sub[s].step = "yield"
    /\ sub[s].batch = <<>>
    /\ sub' = [sub EXCEPT ![s].step = IF sub[s].final THEN "ended" ELSE "poll"]
    /\ UNCHANGED <<rows, holder, append>>

\* The client of the stream goes away.
Disconnect(s) ==
    /\ sub[s].step \in {"poll", "yield"}
    /\ sub' = [sub EXCEPT ![s].step = "gone"]
    /\ UNCHANGED <<rows, holder, append>>

-----------------------------------------------------------------------------
AppendStep(a) == AppendLocks(a) \/ AppendReads(a) \/ AppendInserts(a)
SubscriberStep(s) == Poll(s) \/ YieldEvent(s) \/ BatchDone(s)

Next ==
    \/ \E a \in Appenders :
          \/ \E type \in Types : AppendCalled(a, type)
          \/ AppendStep(a) \/ AppendAborts(a)
    \/ \E s \in Subscribers :
          \/ \E after \in -1 .. Last0 : Subscribe(s, after)
          \/ SubscriberStep(s) \/ Disconnect(s)

\* Transactions go on and a connected client reads on.
Fairness ==
    /\ \A a \in Appenders : WF_vars(AppendStep(a))
    /\ \A s \in Subscribers : WF_vars(SubscriberStep(s))

Spec == Init /\ [][Next]_vars /\ Fairness

-----------------------------------------------------------------------------
RunEnded == rows # <<>> /\ Last(rows) \in EndEvent

\* No append is refused, however many processes append events of the run:
\* the lock, not the three attempts, makes the sequence unique per run.
NoAppendRefused == \A a \in Appenders : append[a].attempt = 0

\* A subscriber that lags behind an ending event is brought to the end of its
\* stream, unless later events follow that one (a resumed run, a second
\* ending) or its client leaves.
SubscriptionEnds == \A s \in Subscribers :
    (sub[s].step = "poll" /\ sub[s].cursor < Last0 /\ RunEnded)
      ~> \/ sub[s].step \in {"ended", "gone"}
         \/ ~RunEnded
         \/ sub[s].step = "yield" /\ Last0 > sub[s].cursor + Len(sub[s].batch)
=============================================================================
