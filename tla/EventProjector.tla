---------------------------- MODULE EventProjector ----------------------------
(***************************************************************************)
(* LifecycleProjector with a CompositeProjectionSink, for the events of    *)
(* one run (inbox entries and sequence numbers of different runs are       *)
(* independent).  A consumer hands over the events of the run's journal    *)
(* one at a time; it may repeat or skip events, and the projector, whose   *)
(* tables are in memory, may be restarted.  A sink may fail to write.      *)
(* Event types are members of RuntimeEventType, as drafts carry them: the  *)
(* comparisons by identity do not match the strings that a journal row has.*)
(***************************************************************************)
EXTENDS Integers, Sequences

CONSTANTS
    Sinks,          \* number of sinks of the composite
    MaxRestarts     \* bound: restarts of the projector

VARIABLES
    journal,    \* event types of the run, sequence number 0 first
    inbox,      \* _inbox: sequence numbers of the events recorded
    expected,   \* _last_sequence + 1
    projection, \* _projections of the run
    sink,       \* what every sink holds
    writing,    \* next sink that handle() writes to, 0 outside handle()
    missed,     \* sinks that did not get the latest projection
    restarts

vars == <<journal, inbox, expected, projection, sink, writing, missed, restarts>>

-----------------------------------------------------------------------------
Pending == [status |-> "pending", sequence |-> -1]

\* Journals of runs: one that completes, one that fails, one that is cancelled
\* while it runs, one that is interrupted and resumed.
Journals == {
    <<"run.queued", "run.started", "state.updates", "run.completed">>,
    <<"run.queued", "run.started", "run.failed">>,
    <<"run.queued", "run.started", "run.cancelled", "run.cancelled">>,
    <<"run.queued", "run.started", "run.interrupted", "run.queued", "state.updates">>}

Init ==
    /\ journal \in Journals
    /\ inbox = {}
    /\ expected = 0
    /\ projection = Pending
    /\ sink = [i \in 1 .. Sinks |-> Pending]
    /\ writing = 0
    /\ missed = {}
    /\ restarts = 0

\* The status after an event; interrupts and resumes leave it as it is.
Projected(status, type) ==
    CASE type = "run.started"   -> "running"
      [] type = "run.completed" -> "success"
      [] type = "run.cancelled" -> "cancelled"
      [] type = "run.failed"    -> "error"
      [] type = "run.timeout"   -> "timeout"
      [] OTHER                  -> status

-----------------------------------------------------------------------------
\* Mutant: an event ahead of the expected one is recorded as well.
InOrderOrAhead(n) == n >= expected

\* Any other number raises ValueError, which leaves everything as it was.
InOrder(n) == n = expected

\* handle(): a recorded event is ignored; a new one is recorded before the
\* sinks are written.
Handle(n) ==
    /\ writing = 0
    /\ n \notin inbox
    /\ InOrder(n)
    /\ inbox' = inbox \union {n}
    /\ expected' = n + 1
    /\ projection' = [status |-> Projected(projection.status, journal[n + 1]), sequence |-> n]
    /\ writing' = 1
    /\ missed' = 1 .. Sinks
    /\ UNCHANGED <<journal, sink, restarts>>

\* The composite writes its sinks one after the other.
SinkWrites ==
    /\ writing # 0
    /\ sink' = [sink EXCEPT ![writing] = projection]
    /\ missed' = missed \ {writing}
    /\ writing' = IF writing = Sinks THEN 0 ELSE writing + 1
    /\ UNCHANGED <<journal, inbox, expected, projection, restarts>>

\* A failing sink raises out of handle(): it and those behind it go without.
SinkFails ==
    /\ writing # 0
    /\ writing' = 0
    /\ UNCHANGED <<journal, inbox, expected, projection, sink, missed, restarts>>

\* The process is restarted: its tables are empty, the sinks keep theirs.
Restart ==
    /\ restarts < MaxRestarts
    /\ restarts' = restarts + 1
    /\ inbox' = {}
    /\ expected' = 0
    /\ projection' = Pending
    /\ writing' = 0
    /\ missed' = 1 .. Sinks
    /\ UNCHANGED <<journal, sink>>

Next ==
    \/ \E n \in 0 .. (Len(journal) - 1) : Handle(n)
    \/ SinkWrites \/ SinkFails \/ Restart

Spec == Init /\ [][Next]_vars

-----------------------------------------------------------------------------
\* The events that say what has become of the run.
Telling == {"run.started", "run.completed", "run.cancelled", "run.failed", "run.timeout"}

\* A status tells the journal up to event n: it is the one of the last event
\* that says anything, "pending" where none does.
Tells(status, n) ==
    \/ status = "pending" /\ \A i \in 1 .. (n + 1) : journal[i] \notin Telling
    \/ \E i \in 1 .. (n + 1) :
          /\ journal[i] \in Telling /\ status = Projected("pending", journal[i])
          /\ \A j \in (i + 1) .. (n + 1) : journal[j] \notin Telling

\* What a sink shows is what the journal says up to the event it shows,
\* whatever is repeated, skipped, failed or restarted, and a sink that missed
\* no write since the last restart shows the latest event the projector has.
SinksTellJournal ==
    /\ \A i \in 1 .. Sinks :
          /\ Tells(sink[i].status, sink[i].sequence)
          /\ i \notin missed => sink[i] = projection
    /\ inbox = 0 .. projection.sequence

=============================================================================
