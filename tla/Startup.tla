------------------------------- MODULE Startup -------------------------------
(***************************************************************************)
(* Gateways and workers starting over one database: the platform tables    *)
(* under a transaction lock that the loser does not wait for, the tables   *)
(* of LangGraph under a session lock that it does wait for, and the        *)
(* registration of a worker, during which the gateway calls the worker     *)
(* back to migrate the application.  The startup handler of a gateway      *)
(* reads app.state.migration_done before it assigns it: only a gateway     *)
(* whose embedder has set it gets past that line with a database.          *)
(***************************************************************************)
EXTENDS Integers

CONSTANTS
    Gateways, Workers,
    NoOne,          \* holder of a free lock
    MaxAttempts     \* _register_with_gateway makes 10

ASSUME StartupAssumption == NoOne \notin Gateways \union Workers /\ MaxAttempts \in Nat

VARIABLES
    database,       \* gateways that have UR_DATABASE_URL
    flagged,        \* those whose application already has migration_done = False
    configured,     \* those of them that have UR_APPLICATION_ENTRYPOINTS
    target,         \* UR_GATEWAY_REGISTER_URL of a worker, NoOne where it is not set
    stage,          \* how far a process has come
    schema,         \* the platform tables exist
    platformLock,   \* holder of the advisory lock of category "platform"
    setupLock,      \* holder of the advisory lock of category "framework-state"
    attempt,        \* the attempt a worker is waiting for
    request,        \* the registration requests of a worker, by attempt
    row,            \* status in application_migrations, "none" without a row
    migrations      \* number of Migrate calls made

environment == <<database, flagged, configured, target>>
vars == <<environment, stage, schema, platformLock, setupLock, attempt, request, row, migrations>>

Processes == Gateways \union Workers
Requests  == Workers \X (1 .. MaxAttempts)

-----------------------------------------------------------------------------
Init ==
    /\ database \in SUBSET Gateways
    /\ flagged \in SUBSET database
    /\ configured \in SUBSET flagged
    /\ target \in [Workers -> Gateways \union {NoOne}]
    /\ stage = [p \in Processes |-> IF p \in Gateways THEN "down" ELSE "starting"]
    /\ schema = FALSE
    /\ platformLock = NoOne
    /\ setupLock = NoOne
    /\ attempt = [w \in Workers |-> 0]
    /\ request = [q \in Requests |-> "none"]
    /\ row = "none"
    /\ migrations = 0

Goes(p, s) == stage' = [stage EXCEPT ![p] = s]

-----------------------------------------------------------------------------
(* The startup handler of a gateway.                                       *)

\* A gateway of the local profile keeps everything in memory.
StartWithoutDatabase(g) ==
    /\ stage[g] = "down"
    /\ g \notin database
    /\ Goes(g, "serving")
    /\ UNCHANGED <<environment, schema, platformLock, setupLock, attempt, request, row, migrations>>

\* Reading the missing attribute raises out of the startup handler.
StartUnflagged(g) ==
    /\ stage[g] = "down"
    /\ g \in database \ flagged
    /\ Goes(g, "failed")
    /\ UNCHANGED <<environment, schema, platformLock, setupLock, attempt, request, row, migrations>>

\* pg_try_advisory_xact_lock: a gateway that finds it taken goes on at once.
MigratePlatform(g) ==
    /\ stage[g] = "down"
    /\ g \in flagged
    /\ IF platformLock = NoOne
       THEN platformLock' = g /\ Goes(g, "migrating")
       ELSE Goes(g, "starting") /\ UNCHANGED platformLock
    /\ UNCHANGED <<environment, schema, setupLock, attempt, request, row, migrations>>

MigratePlatformCommits(g) ==
    /\ stage[g] = "migrating"
    /\ schema' = TRUE
    /\ platformLock' = NoOne
    /\ Goes(g, "starting")
    /\ UNCHANGED <<environment, setupLock, attempt, request, row, migrations>>

\* _auto_register_application returns at once without entrypoints.
ServesNoGraph(g) ==
    /\ stage[g] = "starting"
    /\ g \notin configured
    /\ Goes(g, "serving")
    /\ UNCHANGED <<environment, schema, platformLock, setupLock, attempt, request, row, migrations>>

\* _auto_register_application creates the assistants; without the tables the
\* insert raises out of the startup handler.
RegisterAssistants(g) ==
    /\ stage[g] = "registering"
    /\ g \in Gateways
    /\ Goes(g, IF schema THEN "serving" ELSE "failed")
    /\ UNCHANGED <<environment, schema, platformLock, setupLock, attempt, request, row, migrations>>

-----------------------------------------------------------------------------
(* managed_langgraph_persistence, in gateways and workers alike.           *)

\* pg_advisory_lock waits for its holder.
SetupBegins(p) ==
    /\ stage[p] = "starting"
    /\ p \in configured \union Workers
    /\ setupLock = NoOne
    /\ setupLock' = p
    /\ Goes(p, "setup")
    /\ UNCHANGED <<environment, schema, platformLock, attempt, request, row, migrations>>

\* Mutant: a failing setup leaves the session lock held.
SetupEndsLocked(p) ==
    /\ stage[p] = "setup"
    /\ \/ Goes(p, "registering") /\ setupLock' = NoOne
       \/ Goes(p, "failed") /\ UNCHANGED setupLock
    /\ UNCHANGED <<environment, schema, platformLock, attempt, request, row, migrations>>

\* setup() of saver and store, which may raise; the lock is released either way.
SetupEnds(p) ==
    /\ stage[p] = "setup"
    /\ Goes(p, "registering") \/ Goes(p, "failed")
    /\ setupLock' = NoOne
    /\ UNCHANGED <<environment, schema, platformLock, attempt, request, row, migrations>>

-----------------------------------------------------------------------------
(* _register_with_gateway in the worker.                                   *)

\* A worker without the address, or the one inside services/all, never registers.
ServesUnregistered(w) ==
    /\ stage[w] = "registering"
    /\ target[w] = NoOne
    /\ Goes(w, "serving")
    /\ UNCHANGED <<environment, schema, platformLock, setupLock, attempt, request, row, migrations>>

Awaited(w) == IF attempt[w] = 0 THEN "failed" ELSE request[<<w, attempt[w]>>]

\* An attempt begins when the one before has failed.
Post(w) ==
    /\ stage[w] = "registering"
    /\ target[w] # NoOne
    /\ Awaited(w) = "failed"
    /\ attempt[w] < MaxAttempts
    /\ attempt' = [attempt EXCEPT ![w] = @ + 1]
    /\ request' = [request EXCEPT ![<<w, attempt[w] + 1>>] =
                     IF stage[target[w]] = "serving" THEN "sent" ELSE "failed"]
    /\ UNCHANGED <<environment, stage, schema, platformLock, setupLock, row, migrations>>

\* The client gives up after 10 s; the gateway does not notice.
PostTimesOut(w) ==
    /\ stage[w] = "registering"
    /\ Awaited(w) \in {"sent", "inserting", "calling", "storing"}
    /\ attempt[w] < MaxAttempts
    /\ attempt' = [attempt EXCEPT ![w] = @ + 1]
    /\ request' = [request EXCEPT ![<<w, attempt[w] + 1>>] = "sent"]
    /\ UNCHANGED <<environment, stage, schema, platformLock, setupLock, row, migrations>>

Registered(w) ==
    /\ stage[w] = "registering"
    /\ Awaited(w) = "ok"
    /\ Goes(w, "serving")
    /\ UNCHANGED <<environment, schema, platformLock, setupLock, attempt, request, row, migrations>>

\* "worker registration failed" leaves _serve and ends the process.
RegistrationFails(w) ==
    /\ stage[w] = "registering"
    /\ attempt[w] = MaxAttempts
    /\ Awaited(w) \notin {"none", "ok"}
    /\ Goes(w, "failed")
    /\ UNCHANGED <<environment, schema, platformLock, setupLock, attempt, request, row, migrations>>

-----------------------------------------------------------------------------
(* register_worker in the gateway, one request.                            *)

Becomes(q, s) == request' = [request EXCEPT ![q] = s]

RegisterWorker(q) ==
    /\ request[q] = "sent"
    /\ Becomes(q, IF target[q[1]] \notin database THEN "ok"
                  ELSE IF row = "none" THEN "inserting"
                  ELSE "failed")    \* row.status of a Core result raises
    /\ UNCHANGED <<environment, stage, schema, platformLock, setupLock, attempt, row, migrations>>

\* Mutant: without the unique constraint both requests insert a row.
InsertRowAgain(q) ==
    /\ request[q] = "inserting"
    /\ Becomes(q, "calling") /\ row' = "migrating"
    /\ UNCHANGED <<environment, stage, schema, platformLock, setupLock, attempt, migrations>>

\* The unique constraint refuses the row of a request that read too early.
InsertRow(q) ==
    /\ request[q] = "inserting"
    /\ IF row = "none"
       THEN Becomes(q, "calling") /\ row' = "migrating"
       ELSE Becomes(q, "failed") /\ UNCHANGED row
    /\ UNCHANGED <<environment, stage, schema, platformLock, setupLock, attempt, migrations>>

\* The worker's Migrate succeeds or fails, or the call times out after 60 s:
\* the gateway has a result either way.
Migrate(q) ==
    /\ request[q] = "calling"
    /\ migrations' = migrations + 1
    /\ Becomes(q, "storing")
    /\ UNCHANGED <<environment, stage, schema, platformLock, setupLock, attempt, row>>

\* Storing the result raises, whatever it is: the row read through a
\* connection has no status to set.
StoreMigration(q) ==
    /\ request[q] = "storing"
    /\ Becomes(q, "failed")
    /\ UNCHANGED <<environment, stage, schema, platformLock, setupLock, attempt, row, migrations>>

-----------------------------------------------------------------------------
Step(p) == SetupBegins(p) \/ SetupEnds(p)
GatewayStep(g) ==
    \/ StartWithoutDatabase(g) \/ StartUnflagged(g) \/ MigratePlatform(g)
    \/ MigratePlatformCommits(g) \/ ServesNoGraph(g) \/ RegisterAssistants(g)
WorkerStep(w) == ServesUnregistered(w) \/ Post(w) \/ Registered(w) \/ RegistrationFails(w)
RequestStep(q) == RegisterWorker(q) \/ InsertRow(q) \/ Migrate(q) \/ StoreMigration(q)

Next ==
    \/ \E p \in Processes : Step(p)
    \/ \E g \in Gateways : GatewayStep(g)
    \/ \E w \in Workers : WorkerStep(w) \/ PostTimesOut(w)
    \/ \E q \in Requests : RequestStep(q)

\* Every process keeps running; a lock that is free again and again is taken.
Fairness ==
    /\ \A p \in Processes : SF_vars(SetupBegins(p)) /\ WF_vars(SetupEnds(p))
    /\ \A g \in Gateways : WF_vars(GatewayStep(g))
    /\ \A w \in Workers : WF_vars(WorkerStep(w))
    /\ \A q \in Requests : WF_vars(RequestStep(q))

Spec == Init /\ [][Next]_vars /\ Fairness

-----------------------------------------------------------------------------
\* However many workers register at however many gateways, with retries of
\* requests that are still being served, the application is migrated once.
MigratedOnce == migrations <= 1

\* Every process comes up or fails: nobody waits for ever for a lock, for a
\* gateway that never answers or for a migration that is never recorded.
StartupSettles == <>(\A p \in Processes : stage[p] \in {"serving", "failed"})
=============================================================================
