------------------------------ MODULE MCEvents ------------------------------
(***************************************************************************)
(* The journals and what reads them: the journal in memory, the one in     *)
(* Postgres, the lifecycle projector and the event batcher.  They share no *)
(* state: a behaviour exercises one of them, named by part, and the others *)
(* stay in an initial state.                                               *)
(***************************************************************************)
EXTENDS EventJournal

CONSTANTS
  Appenders, Streams, MaxRows,
  Sinks, MaxRestarts,
  Callers, Sizes, BatchEvents, BatchBytes, MaxAdds,
  NoOne

\* The holder of a free lock is nobody.
ASSUME EventsAssumption == NoOne \notin Appenders \cup Callers

\* A composite has sinks; EventBatchConfig refuses limits below one.
ASSUME LimitsAssumption ==
  /\ Sinks \in Nat \ {0}
  /\ Sizes \subseteq Nat /\ BatchEvents \in Nat \ {0} /\ BatchBytes \in Nat \ {0}

VARIABLES
  part,
  rows, locked, append, sub,
  journal, inbox, expected, projection, sink, writing, missed, restarts,
  events, bytes, holder, call, written, lost, adds

\* Subscriptions from the start, as A2A makes them, and with later cursors.
WithCursor == {-1, 0, 2}

Postgres == INSTANCE PostgresJournal WITH Subscribers <- Streams, holder <- locked
Projector == INSTANCE EventProjector
Batcher == INSTANCE EventBatcher WITH MaxEvents <- BatchEvents, MaxBytes <- BatchBytes

postgresVars == <<rows, locked, append, sub>>
projectorVars == <<journal, inbox, expected, projection, sink, writing, missed, restarts>>
batcherVars == <<events, bytes, holder, call, written, lost, adds>>
allVars == <<part, vars, postgresVars, projectorVars, batcherVars>>

PartInit ==
  /\ part \in {"memory", "postgres", "projector", "batcher"}
  /\ Init /\ Postgres!Init /\ Projector!Init /\ Batcher!Init
  /\ part # "projector" => journal = <<"run.queued", "run.started", "run.failed">>

PartNext ==
  \/ part = "memory" /\ Next /\ UNCHANGED <<part, postgresVars, projectorVars, batcherVars>>
  \/ part = "postgres" /\ Postgres!Next /\ UNCHANGED <<part, vars, projectorVars, batcherVars>>
  \/ part = "projector" /\ Projector!Next /\ UNCHANGED <<part, vars, postgresVars, batcherVars>>
  \/ part = "batcher" /\ Batcher!Next /\ UNCHANGED <<part, vars, postgresVars, projectorVars>>

PartSpec ==
  /\ PartInit
  /\ [][PartNext]_allVars
  /\ part = "memory" => Fairness
  /\ part = "postgres" => Postgres!Fairness

-----------------------------------------------------------------------------
(* The properties of the parts *)

\* The append of the Postgres journal never runs into its own unique key.
NoAppendRefused == Postgres!NoAppendRefused

\* A subscription of the Postgres journal that lags behind the run's end is
\* brought to it.
SubscriptionEnds == part = "postgres" => Postgres!SubscriptionEnds

\* Every projection sink shows what the journal says up to its last event.
SinksTellJournal == Projector!SinksTellJournal

\* The batcher loses nothing but the batches its writer failed to write.
BatchesComplete == Batcher!BatchesComplete
=============================================================================
