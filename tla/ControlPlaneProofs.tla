-------------------------- MODULE ControlPlaneProofs --------------------------
(***************************************************************************)
(* Proofs about what gateways and workers keep in the database besides     *)
(* runs and events: the migration at start-up, the configuration           *)
(* revisions, the assistants and the threads.                              *)
(***************************************************************************)
EXTENDS MCControlPlane, PagingProofs

-----------------------------------------------------------------------------
(* Startup *)

InMigration == {"calling", "storing"}

\* The row of the application is inserted by one request, which alone goes
\* on to call Migrate, once.
MigrationInv ==
  /\ migrations \in Nat
  /\ \A q \in Requests : request[q] \in InMigration => row # "none"
  /\ row = "none" => migrations = 0
  /\ \A q, r \in Requests : request[q] \in InMigration /\ request[r] \in InMigration => q = r
  /\ \A q \in Requests : request[q] = "calling" => migrations = 0
  /\ migrations <= 1
  /\ DOMAIN request = Requests

\* A step that puts no request into a migration keeps the invariant.
LEMMA NobodyBegins ==
  ASSUME MigrationInv, row' = row, migrations' = migrations, DOMAIN request' = Requests,
         \A q \in Requests : request'[q] = request[q] \/ request'[q] \notin InMigration
  PROVE  MigrationInv'
BY DEF MigrationInv, InMigration, Requests

\* Processes that start, workers that register and requests that the
\* gateway serves keep the invariant.
LEMMA MigrationStep == MigrationInv /\ [Next]_vars => MigrationInv'
<1> SUFFICES ASSUME MigrationInv, [Next]_vars PROVE MigrationInv'
  OBVIOUS
<1>0. DOMAIN request = Requests
  BY DEF MigrationInv
<1>1. ASSUME request' = request, row' = row, migrations' = migrations PROVE MigrationInv'
  BY <1>0, <1>1, NobodyBegins
<1>2. ASSUME NEW p \in Processes, Step(p) PROVE MigrationInv'
  BY <1>1, <1>2 DEF Step, SetupBegins, SetupEnds
<1>3. ASSUME NEW g \in Gateways, GatewayStep(g) PROVE MigrationInv'
  BY <1>1, <1>3 DEF GatewayStep, StartWithoutDatabase, StartUnflagged, MigratePlatform,
                    MigratePlatformCommits, ServesNoGraph, RegisterAssistants
<1>4. ASSUME NEW w \in Workers, ServesUnregistered(w) \/ Registered(w) \/ RegistrationFails(w)
      PROVE  MigrationInv'
  BY <1>1, <1>4 DEF ServesUnregistered, Registered, RegistrationFails
<1>5. ASSUME NEW w \in Workers, Post(w) \/ PostTimesOut(w) PROVE MigrationInv'
  <2> DEFINE q == <<w, attempt[w] + 1>>
  <2>1. PICK s \in {"sent", "failed"} :
          request' = [request EXCEPT ![q] = s] /\ row' = row /\ migrations' = migrations
    BY <1>5 DEF Post, PostTimesOut
  <2> HIDE DEF q
  <2>2. /\ DOMAIN request' = Requests
        /\ \A r \in Requests : request'[r] = request[r] \/ request'[r] \notin InMigration
    BY <2>1, <1>0 DEF InMigration
  <2> QED
    BY <2>1, <2>2, NobodyBegins
<1>6. ASSUME NEW q \in Requests, RegisterWorker(q) \/ StoreMigration(q) PROVE MigrationInv'
  <2>1. PICK s \in {"ok", "inserting", "failed"} :
          request' = [request EXCEPT ![q] = s] /\ row' = row /\ migrations' = migrations
    BY <1>6 DEF RegisterWorker, StoreMigration, Becomes
  <2>2. /\ DOMAIN request' = Requests
        /\ \A r \in Requests : request'[r] = request[r] \/ request'[r] \notin InMigration
    BY <2>1, <1>0 DEF InMigration
  <2> QED
    BY <2>1, <2>2, NobodyBegins
<1>7. ASSUME NEW q \in Requests, InsertRow(q) PROVE MigrationInv'
  <2>1. CASE row = "none"
    <3>1. /\ request' = [request EXCEPT ![q] = "calling"]
          /\ row' = "migrating" /\ migrations' = migrations
      BY <1>7, <2>1 DEF InsertRow, Becomes
    <3>2. \A r \in Requests : request[r] \notin InMigration /\ migrations = 0
      BY <2>1 DEF MigrationInv
    <3>3. \A r \in Requests : request'[r] = IF r = q THEN "calling" ELSE request[r]
      BY <3>1, <1>0
    <3>4. DOMAIN request' = Requests
      BY <3>1, <1>0
    <3> QED
      BY <3>1, <3>2, <3>3, <3>4 DEF MigrationInv, InMigration, Requests
  <2>2. CASE row # "none"
    <3>1. request' = [request EXCEPT ![q] = "failed"] /\ row' = row /\ migrations' = migrations
      BY <1>7, <2>2 DEF InsertRow, Becomes
    <3>2. /\ DOMAIN request' = Requests
          /\ \A r \in Requests : request'[r] = request[r] \/ request'[r] \notin InMigration
      BY <3>1, <1>0 DEF InMigration
    <3> QED
      BY <3>1, <3>2, NobodyBegins
  <2> QED
    BY <2>1, <2>2
<1>8. ASSUME NEW q \in Requests, Migrate(q) PROVE MigrationInv'
  <2>1. /\ request' = [request EXCEPT ![q] = "storing"] /\ request[q] = "calling"
        /\ row' = row /\ migrations' = migrations + 1
    BY <1>8 DEF Migrate, Becomes
  <2>2. migrations = 0 /\ row # "none" /\ \A r \in Requests : request[r] \in InMigration => r = q
    BY <2>1 DEF MigrationInv, InMigration
  <2>3. \A r \in Requests : request'[r] = IF r = q THEN "storing" ELSE request[r]
    BY <2>1, <1>0
  <2>4. DOMAIN request' = Requests
    BY <2>1, <1>0
  <2> QED
    BY <2>1, <2>2, <2>3, <2>4 DEF MigrationInv, InMigration, Requests
<1>9. ASSUME UNCHANGED vars PROVE MigrationInv'
  BY <1>1, <1>9 DEF vars
<1> QED
  BY <1>2, <1>3, <1>4, <1>5, <1>6, <1>7, <1>8, <1>9 DEF Next, WorkerStep, RequestStep

\* However many workers register at however many gateways, with any number
\* of retries of requests that are still being served, Migrate is called
\* once: the unique constraint on the row lets one request past.
THEOREM MigratedAtMostOnce == Spec => []MigratedOnce
<1>1. Init => MigrationInv
  BY DEF Init, MigrationInv, InMigration
<1>2. MigrationInv => MigratedOnce
  BY DEF MigrationInv, MigratedOnce
<1> QED
  BY <1>1, <1>2, MigrationStep, PTL DEF Spec

StageName   == {"down", "migrating", "starting", "setup", "registering", "serving", "failed"}
InGateway   == {"sent", "inserting", "calling", "storing"}
RequestName == InGateway \cup {"none", "ok", "failed"}

\* Whoever waits at start-up waits for something that is on its way.  The lock
\* on the LangGraph tables is held by the one process that sets them up, the
\* lock on the platform tables by the one gateway that migrates; a request that
\* is not answered is with a gateway that serves, and a worker always waits for
\* a request that it has made.
NobodyWaitsInVain ==
  /\ setupLock = NoOne \/ setupLock \in Processes
  /\ \A p \in Processes : stage[p] = "setup" <=> setupLock = p
  /\ platformLock = NoOne \/ platformLock \in Gateways
  /\ \A g \in Gateways : stage[g] = "migrating" <=> platformLock = g
  /\ \A w \in Workers : \A n \in 1..MaxAttempts : request[<<w, n>>] \in InGateway =>
       target[w] # NoOne /\ stage[target[w]] = "serving"
  /\ \A w \in Workers : Awaited(w) # "none"

StartupType ==
  /\ target \in [Workers -> Gateways \cup {NoOne}]
  /\ stage \in [Processes -> StageName]
  /\ attempt \in [Workers -> 0..MaxAttempts]
  /\ request \in [Requests -> RequestName]

\* Where a process may come to in a step that takes no lock, makes no request
\* and leaves none: not out of "serving".
LEMMA StageMoves ==
  ASSUME StartupType, NobodyWaitsInVain, NEW p \in Processes, NEW s \in StageName,
         Goes(p, s), stage[p] \notin {"setup", "serving", "migrating"}, s \notin {"setup", "migrating"},
         UNCHANGED <<target, setupLock, platformLock, attempt, request>>
  PROVE  StartupType' /\ NobodyWaitsInVain'
<1>1. StartupType'
  BY DEF StartupType, Goes
<1>2. \A q \in Processes : stage'[q] = IF q = p THEN s ELSE stage[q]
  BY DEF StartupType, Goes
<1>3. \A q \in Processes : (stage'[q] = "setup") = (stage[q] = "setup")
  BY <1>2
<1>4. \A q \in Processes : (stage'[q] = "migrating") = (stage[q] = "migrating")
  BY <1>2
<1>5. \A w \in Workers : target[w] # NoOne /\ stage[target[w]] = "serving" => stage'[target[w]] = "serving"
  BY <1>2 DEF StartupType, Processes
<1>6. \A w \in Workers : Awaited(w)' = Awaited(w)
  BY DEF Awaited
<1> QED
  BY <1>1, <1>3, <1>4, <1>5, <1>6 DEF NobodyWaitsInVain, Processes

\* A request that moves on in its gateway, or is answered.
LEMMA RequestMoves ==
  ASSUME StartupType, NobodyWaitsInVain, NEW q \in Requests, NEW s \in RequestName,
         request[q] \in InGateway, s # "none", Becomes(q, s),
         UNCHANGED <<target, stage, setupLock, platformLock, attempt>>
  PROVE  StartupType' /\ NobodyWaitsInVain'
<1>1. StartupType'
  BY DEF StartupType, Becomes
<1>2. \A r \in Requests : request'[r] = IF r = q THEN s ELSE request[r]
  BY DEF StartupType, Becomes
<1>3. \A w \in Workers : \A n \in 1..MaxAttempts : <<w, n>> \in Requests
  BY DEF Requests
<1>4. \A w \in Workers : attempt[w] # 0 => attempt[w] \in 1..MaxAttempts
  BY StartupAssumption DEF StartupType
<1>5. \A w \in Workers : Awaited(w)' # "none"
  BY <1>2, <1>3, <1>4 DEF Awaited, NobodyWaitsInVain
<1>6. \A w \in Workers : \A n \in 1..MaxAttempts : request'[<<w, n>>] \in InGateway =>
        request[<<w, n>>] \in InGateway
  BY <1>2, <1>3
<1> QED
  BY <1>1, <1>5, <1>6 DEF NobodyWaitsInVain

\* A new attempt, made at a gateway that serves or refused at once.
LEMMA AttemptMade ==
  ASSUME StartupType, NobodyWaitsInVain, NEW w \in Workers, NEW s \in {"sent", "failed"},
         attempt[w] < MaxAttempts,
         s = "sent" => target[w] # NoOne /\ stage[target[w]] = "serving",
         attempt' = [attempt EXCEPT ![w] = @ + 1],
         request' = [request EXCEPT ![<<w, attempt[w] + 1>>] = s],
         UNCHANGED <<target, stage, setupLock, platformLock>>
  PROVE  StartupType' /\ NobodyWaitsInVain'
<1>0. attempt[w] \in 0..MaxAttempts /\ attempt[w] + 1 \in 1..MaxAttempts
  BY StartupAssumption DEF StartupType
<1>1. <<w, attempt[w] + 1>> \in Requests /\ \A v \in Workers : \A n \in 1..MaxAttempts : <<v, n>> \in Requests
  BY <1>0 DEF Requests
<1>2. \A r \in Requests : request'[r] = IF r = <<w, attempt[w] + 1>> THEN s ELSE request[r]
  BY <1>1 DEF StartupType
<1>3. \A v \in Workers : attempt'[v] = IF v = w THEN attempt[w] + 1 ELSE attempt[v]
  BY DEF StartupType
<1>4. StartupType'
  <2>1. request' \in [Requests -> RequestName]
    BY <1>1 DEF StartupType, RequestName, InGateway
  <2>2. attempt' \in [Workers -> 0..MaxAttempts]
    BY <1>0 DEF StartupType
  <2> QED
    BY <2>1, <2>2 DEF StartupType
<1>5. \A v \in Workers : attempt[v] # 0 => attempt[v] \in 1..MaxAttempts
  BY StartupAssumption DEF StartupType
<1>6. ASSUME NEW v \in Workers PROVE Awaited(v)' # "none"
  <2>1. CASE v = w
    <3>1. attempt'[v] = attempt[w] + 1 /\ attempt'[v] # 0
      BY <1>0, <1>3, <2>1
    <3>2. request'[<<v, attempt'[v]>>] = s
      BY <1>1, <1>2, <2>1, <3>1
    <3> QED
      BY <3>1, <3>2 DEF Awaited
  <2>2. CASE v # w
    BY <1>1, <1>2, <1>3, <1>5, <2>2 DEF Awaited, NobodyWaitsInVain
  <2> QED
    BY <2>1, <2>2
<1>7. ASSUME NEW v \in Workers, NEW n \in 1..MaxAttempts, request'[<<v, n>>] \in InGateway
      PROVE  target[v] # NoOne /\ stage[target[v]] = "serving"
  <2>1. CASE <<v, n>> = <<w, attempt[w] + 1>>
    BY <1>1, <1>2, <1>7, <2>1 DEF InGateway
  <2>2. CASE <<v, n>> # <<w, attempt[w] + 1>>
    BY <1>1, <1>2, <1>7, <2>2 DEF NobodyWaitsInVain
  <2> QED
    BY <2>1, <2>2
<1> QED
  BY <1>4, <1>6, <1>7 DEF NobodyWaitsInVain

\* A process that takes or gives back the lock on the LangGraph tables.
LEMMA SetupStep ==
  ASSUME StartupType, NobodyWaitsInVain, NEW p \in Processes, Step(p)
  PROVE  StartupType' /\ NobodyWaitsInVain'
<1>1. PICK s \in {"setup", "registering", "failed"} :
        /\ Goes(p, s) /\ stage[p] \in {"starting", "setup"}
        /\ s = "setup" => setupLock = NoOne /\ setupLock' = p
        /\ s # "setup" => setupLock = p /\ setupLock' = NoOne
  BY DEF Step, SetupBegins, SetupEnds, NobodyWaitsInVain
<1>2. UNCHANGED <<target, platformLock, attempt, request>>
  BY DEF Step, SetupBegins, SetupEnds, environment
<1>3. StartupType'
  BY <1>1, <1>2 DEF StartupType, Goes, StageName
<1>4. \A q \in Processes : stage'[q] = IF q = p THEN s ELSE stage[q]
  BY <1>1 DEF StartupType, Goes
<1>5. \A q \in Processes : stage'[q] = "setup" <=> setupLock' = q
  BY <1>1, <1>4, StartupAssumption DEF NobodyWaitsInVain, Processes
<1>6. \A g \in Gateways : stage'[g] = "migrating" <=> platformLock = g
  BY <1>1, <1>4 DEF NobodyWaitsInVain, Processes
<1>7. \A w \in Workers : target[w] # NoOne /\ stage[target[w]] = "serving" => stage'[target[w]] = "serving"
  BY <1>1, <1>4 DEF StartupType, Processes
<1>8. \A w \in Workers : Awaited(w)' = Awaited(w)
  BY <1>2 DEF Awaited
<1> QED
  BY <1>1, <1>2, <1>3, <1>5, <1>6, <1>7, <1>8 DEF NobodyWaitsInVain

\* A gateway that takes or gives back the lock on the platform tables.
LEMMA PlatformStep ==
  ASSUME StartupType, NobodyWaitsInVain, NEW g \in Gateways,
         (MigratePlatform(g) /\ platformLock = NoOne) \/ MigratePlatformCommits(g)
  PROVE  StartupType' /\ NobodyWaitsInVain'
<1>0. g \in Processes
  BY DEF Processes
<1>1. PICK s \in {"migrating", "starting"} :
        /\ Goes(g, s) /\ stage[g] \in {"down", "migrating"}
        /\ s = "migrating" => platformLock = NoOne /\ platformLock' = g
        /\ s # "migrating" => platformLock = g /\ platformLock' = NoOne
  BY DEF MigratePlatform, MigratePlatformCommits, NobodyWaitsInVain
<1>2. UNCHANGED <<target, setupLock, attempt, request>>
  BY DEF MigratePlatform, MigratePlatformCommits, environment
<1>3. StartupType'
  BY <1>1, <1>2 DEF StartupType, Goes, StageName
<1>4. \A q \in Processes : stage'[q] = IF q = g THEN s ELSE stage[q]
  BY <1>1 DEF StartupType, Goes
<1>5. \A q \in Processes : stage'[q] = "setup" <=> setupLock = q
  BY <1>0, <1>1, <1>4 DEF NobodyWaitsInVain
<1>6. \A h \in Gateways : stage'[h] = "migrating" <=> platformLock' = h
  BY <1>1, <1>4, StartupAssumption DEF NobodyWaitsInVain, Processes
<1>7. \A w \in Workers : target[w] # NoOne /\ stage[target[w]] = "serving" => stage'[target[w]] = "serving"
  BY <1>1, <1>4 DEF StartupType, Processes
<1>8. \A w \in Workers : Awaited(w)' = Awaited(w)
  BY <1>2 DEF Awaited
<1> QED
  BY <1>1, <1>2, <1>3, <1>5, <1>6, <1>7, <1>8 DEF NobodyWaitsInVain

\* No step at start-up makes anybody wait in vain.
LEMMA StartupStep ==
  ASSUME StartupType, NobodyWaitsInVain, [Next]_vars
  PROVE  StartupType' /\ NobodyWaitsInVain'
<1>1. \A g \in Gateways : g \in Processes
  BY DEF Processes
<1>2. \A w \in Workers : w \in Processes
  BY DEF Processes
<1>3. ASSUME NEW g \in Gateways, GatewayStep(g)
      PROVE  StartupType' /\ NobodyWaitsInVain'
  <2>1. CASE (MigratePlatform(g) /\ platformLock = NoOne) \/ MigratePlatformCommits(g)
    BY <2>1, PlatformStep
  <2>2. CASE StartWithoutDatabase(g) \/ StartUnflagged(g) \/ ServesNoGraph(g) \/ RegisterAssistants(g)
    <3>1. PICK s \in {"serving", "failed"} : Goes(g, s) /\ stage[g] \in {"down", "starting", "registering"}
      BY <2>2 DEF StartWithoutDatabase, StartUnflagged, ServesNoGraph, RegisterAssistants
    <3>2. UNCHANGED <<target, setupLock, platformLock, attempt, request>>
      BY <2>2 DEF StartWithoutDatabase, StartUnflagged, ServesNoGraph, RegisterAssistants, environment
    <3> QED
      BY <1>1, <3>1, <3>2, StageMoves DEF StageName
  <2>3. CASE MigratePlatform(g) /\ platformLock # NoOne
    <3>1. Goes(g, "starting") /\ stage[g] = "down"
      BY <2>3 DEF MigratePlatform
    <3>2. UNCHANGED <<target, setupLock, platformLock, attempt, request>>
      BY <2>3 DEF MigratePlatform, environment
    <3> QED
      BY <1>1, <3>1, <3>2, StageMoves DEF StageName
  <2> QED
    BY <1>3, <2>1, <2>2, <2>3 DEF GatewayStep
<1>4. ASSUME NEW w \in Workers, ServesUnregistered(w) \/ Registered(w) \/ RegistrationFails(w)
      PROVE  StartupType' /\ NobodyWaitsInVain'
  <2>1. PICK s \in {"serving", "failed"} : Goes(w, s) /\ stage[w] = "registering"
    BY <1>4 DEF ServesUnregistered, Registered, RegistrationFails
  <2>2. UNCHANGED <<target, setupLock, platformLock, attempt, request>>
    BY <1>4 DEF ServesUnregistered, Registered, RegistrationFails, environment
  <2> QED
    BY <1>2, <2>1, <2>2, StageMoves DEF StageName
<1>5. ASSUME NEW w \in Workers, Post(w)
      PROVE  StartupType' /\ NobodyWaitsInVain'
  <2> DEFINE s == IF stage[target[w]] = "serving" THEN "sent" ELSE "failed"
  <2>1. /\ attempt[w] < MaxAttempts /\ target[w] # NoOne
        /\ attempt' = [attempt EXCEPT ![w] = @ + 1]
        /\ request' = [request EXCEPT ![<<w, attempt[w] + 1>>] = s]
        /\ UNCHANGED <<target, stage, setupLock, platformLock>>
    BY <1>5 DEF Post, environment
  <2>2. s \in {"sent", "failed"} /\ (s = "sent" => stage[target[w]] = "serving")
    OBVIOUS
  <2> HIDE DEF s
  <2> QED
    BY <2>1, <2>2, AttemptMade
<1>6. ASSUME NEW w \in Workers, PostTimesOut(w)
      PROVE  StartupType' /\ NobodyWaitsInVain'
  <2>1. /\ attempt[w] < MaxAttempts /\ Awaited(w) \in InGateway
        /\ attempt' = [attempt EXCEPT ![w] = @ + 1]
        /\ request' = [request EXCEPT ![<<w, attempt[w] + 1>>] = "sent"]
        /\ UNCHANGED <<target, stage, setupLock, platformLock>>
    BY <1>6 DEF PostTimesOut, environment, InGateway
  <2>2. attempt[w] \in 1..MaxAttempts /\ request[<<w, attempt[w]>>] \in InGateway
    BY <2>1, StartupAssumption DEF Awaited, InGateway, StartupType
  <2>3. target[w] # NoOne /\ stage[target[w]] = "serving"
    BY <2>2 DEF NobodyWaitsInVain
  <2> QED
    BY <2>1, <2>3, AttemptMade
<1>7. ASSUME NEW q \in Requests, RequestStep(q)
      PROVE  StartupType' /\ NobodyWaitsInVain'
  <2>1. PICK s \in {"ok", "inserting", "failed", "calling", "storing"} :
          Becomes(q, s) /\ request[q] \in InGateway
    BY <1>7 DEF RequestStep, RegisterWorker, InsertRow, Migrate, StoreMigration, InGateway
  <2>2. UNCHANGED <<target, stage, setupLock, platformLock, attempt>>
    BY <1>7 DEF RequestStep, RegisterWorker, InsertRow, Migrate, StoreMigration, environment
  <2> QED
    BY <2>1, <2>2, RequestMoves DEF RequestName, InGateway
<1>8. ASSUME UNCHANGED vars PROVE StartupType' /\ NobodyWaitsInVain'
  BY <1>8 DEF vars, environment, StartupType, NobodyWaitsInVain, Awaited
<1> QED
  BY <1>3, <1>4, <1>5, <1>6, <1>7, <1>8, SetupStep DEF Next, WorkerStep

\* However many gateways and workers start over one database, fail or try
\* again, a lock is never left behind, one process at a time sets up the
\* LangGraph tables, and whatever a worker waits for is in the hands of a
\* gateway that serves.
THEOREM StartUpNeverStuck == Spec => []NobodyWaitsInVain
<1>1. Init => StartupType /\ NobodyWaitsInVain
  <2> SUFFICES ASSUME Init PROVE StartupType /\ NobodyWaitsInVain
    OBVIOUS
  <2>1. StartupType
    BY StartupAssumption DEF Init, StartupType, StageName, RequestName
  <2>2. \A p \in Processes : stage[p] \in {"down", "starting"} /\ p # NoOne
    BY StartupAssumption DEF Init, Processes
  <2>3. \A w \in Workers : Awaited(w) = "failed"
    BY DEF Init, Awaited
  <2>4. \A w \in Workers : \A n \in 1..MaxAttempts : request[<<w, n>>] = "none"
    BY DEF Init, Requests
  <2>5. setupLock = NoOne /\ platformLock = NoOne
    BY DEF Init
  <2> QED
    BY <2>1, <2>2, <2>3, <2>4, <2>5 DEF NobodyWaitsInVain, InGateway, Processes
<1> QED
  BY <1>1, StartupStep, PTL DEF Spec

-----------------------------------------------------------------------------
(* ConfigRevisions *)

Activating(c) == configCall[c].op = "activate"

\* In memory the numbers have no gap and no request is under way between
\* two calls.
MemoryOrder ==
  configStore = "memory" =>
    /\ \E k \in Nat : DOMAIN hash = 1..k
    /\ \A c \in Callers : configCall[c].op = "idle"
    /\ ~unseen

RevisionFields == {"op", "number", "config", "snapshot", "scanned"}

RevisionRecords == \A c \in Callers : DOMAIN configCall[c] = RevisionFields

\* The first revision is 1, and every snapshot with rows has it.
FirstIsOne ==
  /\ DOMAIN hash # {} => 1 \in DOMAIN hash
  /\ \A c \in Callers : configCall[c].op = "create" => configCall[c].number = 1 \/ 1 \in DOMAIN hash
  /\ \A c \in Callers : Activating(c) =>
       configCall[c].snapshot = {} \/ 1 \in configCall[c].snapshot

\* Rows are locked by one transaction at a time, an activation without its
\* locks sees every revision there is, and one that has them has locked the
\* row it will replace.
LocksHeld ==
  /\ \A c \in Callers : ~Activating(c) => configCall[c].scanned = {}
  /\ \A c \in Callers : Activating(c) =>
       /\ configCall[c].number \in Nat \ {0}
       /\ configCall[c].scanned \subseteq configCall[c].snapshot
       /\ configCall[c].snapshot \subseteq DOMAIN hash
  /\ \A c, d \in Callers : c # d => configCall[c].scanned \cap configCall[d].scanned = {}
  /\ ~unseen => \A c \in Callers : Activating(c) =>
       IF Revisions!Exposed(c) THEN configCall[c].snapshot = DOMAIN hash
                               ELSE activeRows \subseteq configCall[c].scanned

ActiveTrue ==
  /\ activeRows \subseteq DOMAIN hash
  /\ latest \in Nat
  /\ ~unseen => activeRows = IF latest = 0 THEN {} ELSE {latest}

RevisionsInv ==
  /\ unseen \in BOOLEAN /\ DOMAIN configCall = Callers /\ RevisionRecords
  /\ MemoryOrder
  /\ FirstIsOne
  /\ LocksHeld
  /\ ActiveTrue

\* The instance counts as this module does, and an interval as expected.
LEMMA NumberOfRevisions ==
  ASSUME NEW k \in Nat
  PROVE  Revisions!Cardinality(1..k) = k
<1>1. Revisions!Cardinality(1..k) = Cardinality(1..k)
  BY DEF Revisions!Cardinality, Cardinality
<1>2. Cardinality(1..k) = k
  BY FS_Interval
<1> QED
  BY <1>1, <1>2

\* An empty store of revisions.
LEMMA RevisionsStart == Revisions!Init => RevisionsInv
<1> SUFFICES ASSUME Revisions!Init PROVE RevisionsInv
  OBVIOUS
<1>1. /\ hash = <<>> /\ activeRows = {} /\ latest = 0 /\ unseen = FALSE
      /\ configCall = [c \in Callers |-> Revisions!Idle]
      /\ DOMAIN Revisions!Idle = RevisionFields /\ Revisions!Idle.op = "idle" /\ Revisions!Idle.scanned = {}
  BY DEF Revisions!Init, Revisions!Idle, RevisionFields
<1>2. DOMAIN hash = 1..0 /\ 0 \in Nat
  BY <1>1
<1>3. \A c \in Callers : configCall[c].op = "idle" /\ configCall[c].scanned = {}
  BY <1>1
<1>4. MemoryOrder
  BY <1>1, <1>2, <1>3 DEF MemoryOrder
<1>5. FirstIsOne /\ LocksHeld
  BY <1>2, <1>3 DEF FirstIsOne, LocksHeld, Activating
<1> QED
  BY <1>1, <1>4, <1>5 DEF RevisionsInv, ActiveTrue, RevisionRecords

\* Creating a revision in memory adds the next number.
LEMMA CreatedInMemory ==
  ASSUME RevisionsInv, NEW f, Revisions!CreateInMemory(f)
  PROVE  \E k \in Nat :
           /\ DOMAIN hash = 1..k /\ hash' = [m \in 1..(k + 1) |-> IF m = k + 1 THEN f ELSE hash[m]]
           /\ activeRows' = IF k = 0 THEN {1} ELSE activeRows
           /\ latest' = IF k = 0 THEN 1 ELSE latest
           /\ configStore' = configStore /\ configCall' = configCall /\ unseen' = unseen
<1>1. configStore = "memory"
  BY DEF Revisions!CreateInMemory
<1>2. PICK k \in Nat : DOMAIN hash = 1..k
  BY <1>1 DEF RevisionsInv, MemoryOrder
<1>3. Revisions!Revisions = 1..k /\ Revisions!Cardinality(Revisions!Revisions) = k
  BY <1>2, NumberOfRevisions DEF Revisions!Revisions
<1>4. Revisions!Revisions = {} <=> k = 0
  BY <1>3
<1>5. /\ hash' = [m \in 1..(k + 1) |-> IF m = k + 1 THEN f ELSE hash[m]]
      /\ activeRows' = IF Revisions!Revisions = {} THEN {k + 1} ELSE activeRows
      /\ latest' = IF Revisions!Revisions = {} THEN k + 1 ELSE latest
      /\ configStore' = configStore /\ configCall' = configCall /\ unseen' = unseen
  BY <1>3 DEF Revisions!CreateInMemory
<1>6. /\ activeRows' = IF k = 0 THEN {1} ELSE activeRows
      /\ latest' = IF k = 0 THEN 1 ELSE latest
  <2>1. CASE k = 0
    <3>1. activeRows' = {k + 1} /\ latest' = k + 1 /\ k + 1 = 1
      BY <2>1, <1>4, <1>5
    <3> QED
      BY <2>1, <3>1
  <2>2. CASE k # 0
    <3>1. activeRows' = activeRows /\ latest' = latest
      BY <2>2, <1>4, <1>5
    <3> QED
      BY <2>2, <3>1
  <2> QED
    BY <2>1, <2>2
<1> QED
  BY <1>2, <1>5, <1>6, Zenon

\* A transaction that ends, or reads a number, without changing a row.
LEMMA CallReplaced ==
  ASSUME RevisionsInv, NEW c \in Callers, NEW new,
         DOMAIN new = RevisionFields, new.op \in {"idle", "create"}, new.scanned = {},
         new.op = "create" => new.number = 1 \/ 1 \in DOMAIN hash,
         configStore # "memory", configStore' = configStore,
         configCall' = [configCall EXCEPT ![c] = new],
         UNCHANGED <<hash, activeRows, latest, unseen>>
  PROVE  RevisionsInv'
<1>0. unseen \in BOOLEAN /\ DOMAIN configCall = Callers /\ RevisionRecords /\ FirstIsOne /\ LocksHeld /\ ActiveTrue
  BY DEF RevisionsInv
<1>1. \A d \in Callers : configCall'[d] = IF d = c THEN new ELSE configCall[d]
  BY <1>0
<1>2. ~Activating(c)' /\ \A d \in Callers : d # c => (Activating(d)' <=> Activating(d))
  BY <1>1 DEF Activating
<1>3. \A d \in Callers : d # c => (Revisions!Exposed(d)' <=> Revisions!Exposed(d))
  BY <1>1 DEF Revisions!Exposed
<1>4. MemoryOrder'
  BY DEF MemoryOrder
<1>5. FirstIsOne'
  BY <1>0, <1>1, <1>2 DEF FirstIsOne
<1>6. LocksHeld'
  BY <1>0, <1>1, <1>2, <1>3 DEF LocksHeld
<1> QED
  BY <1>0, <1>1, <1>4, <1>5, <1>6 DEF RevisionsInv, ActiveTrue, RevisionRecords

\* A revision that is stored is seen by the activations that do not have
\* their locks, or it is counted as unseen.
LEMMA RevisionStored ==
  ASSUME RevisionsInv, NEW c \in Callers, Revisions!CreateCommit(c)
  PROVE  RevisionsInv'
<1>0. /\ unseen \in BOOLEAN /\ DOMAIN configCall = Callers /\ RevisionRecords
      /\ MemoryOrder /\ FirstIsOne /\ LocksHeld /\ ActiveTrue
  BY DEF RevisionsInv
<1>1. /\ configStore' = configStore /\ configCall[c].op = "create"
      /\ configCall' = [configCall EXCEPT ![c] = Revisions!Idle]
      /\ activeRows' = activeRows /\ latest' = latest
      /\ unseen' = (unseen \/ (hash' # hash /\ \E d \in Callers : Revisions!Exposed(d)))
  BY DEF Revisions!CreateCommit
<1>2. DOMAIN Revisions!Idle = RevisionFields /\ Revisions!Idle.op = "idle" /\ Revisions!Idle.scanned = {}
  BY DEF Revisions!Idle, RevisionFields
<1>3. hash' = hash \/ DOMAIN hash' = DOMAIN hash \cup {configCall[c].number}
  BY DEF Revisions!CreateCommit, Revisions!Revisions
<1>4. \A d \in Callers : configCall'[d] = IF d = c THEN Revisions!Idle ELSE configCall[d]
  BY <1>0, <1>1
<1>5. ~Activating(c)' /\ \A d \in Callers : d # c => (Activating(d)' <=> Activating(d))
  BY <1>2, <1>4 DEF Activating
<1>6. \A d \in Callers : d # c => (Revisions!Exposed(d)' <=> Revisions!Exposed(d))
  BY <1>4 DEF Revisions!Exposed
<1>7. MemoryOrder'
  BY <1>0, <1>1 DEF MemoryOrder
<1>8. FirstIsOne'
  <2>1. DOMAIN hash \subseteq DOMAIN hash' /\ (DOMAIN hash' # {} => 1 \in DOMAIN hash')
    BY <1>0, <1>1, <1>3 DEF FirstIsOne
  <2> QED
    BY <2>1, <1>0, <1>2, <1>4, <1>5 DEF FirstIsOne
<1>9. LocksHeld'
  <2>1. \A d \in Callers : ~Activating(d)' => configCall'[d].scanned = {}
    BY <1>0, <1>2, <1>4, <1>5 DEF LocksHeld
  <2>2. \A d \in Callers : Activating(d)' =>
          /\ configCall'[d].number \in Nat \ {0}
          /\ configCall'[d].scanned \subseteq configCall'[d].snapshot
          /\ configCall'[d].snapshot \subseteq DOMAIN hash'
    BY <1>0, <1>3, <1>4, <1>5 DEF LocksHeld
  <2>3. \A d, e \in Callers : d # e => configCall'[d].scanned \cap configCall'[e].scanned = {}
    BY <1>0, <1>2, <1>4 DEF LocksHeld
  <2>4. ASSUME ~unseen', NEW d \in Callers, Activating(d)'
        PROVE  IF Revisions!Exposed(d)' THEN configCall'[d].snapshot = DOMAIN hash'
                                        ELSE activeRows' \subseteq configCall'[d].scanned
    BY <2>4, <1>0, <1>1, <1>4, <1>5, <1>6 DEF LocksHeld
  <2> QED
    BY <2>1, <2>2, <2>3, <2>4 DEF LocksHeld
<1>10. ActiveTrue'
  BY <1>0, <1>1, <1>3 DEF ActiveTrue
<1> QED
  BY <1>0, <1>1, <1>2, <1>4, <1>7, <1>8, <1>9, <1>10 DEF RevisionsInv, RevisionRecords

\* The first UPDATE of an activation: its snapshot, and the rows it locks.
LEMMA ActivationScans ==
  ASSUME RevisionsInv, NEW c \in Callers, NEW new,
         configStore # "memory", configStore' = configStore,
         UNCHANGED <<hash, activeRows, latest, unseen>>,
         configCall' = [configCall EXCEPT ![c] = new],
         DOMAIN new = RevisionFields, new.op = "activate", new.number \in Nat \ {0},
         new.scanned \subseteq new.snapshot, new.snapshot \subseteq DOMAIN hash,
         ~unseen => new.snapshot = DOMAIN hash, new.snapshot = {} \/ 1 \in new.snapshot,
         \A d \in Callers : d # c => new.scanned \cap configCall[d].scanned = {}
  PROVE  RevisionsInv'
<1>0. unseen \in BOOLEAN /\ DOMAIN configCall = Callers /\ RevisionRecords /\ FirstIsOne /\ LocksHeld /\ ActiveTrue
  BY DEF RevisionsInv
<1>1. \A d \in Callers : configCall'[d] = IF d = c THEN new ELSE configCall[d]
  BY <1>0
<1>2. Activating(c)' /\ \A d \in Callers : d # c => (Activating(d)' <=> Activating(d))
  BY <1>1 DEF Activating
<1>3. \A d \in Callers : d # c => (Revisions!Exposed(d)' <=> Revisions!Exposed(d))
  BY <1>1 DEF Revisions!Exposed
<1>4. MemoryOrder'
  BY DEF MemoryOrder
<1>5. FirstIsOne'
  BY <1>0, <1>1, <1>2 DEF FirstIsOne
<1>6. LocksHeld'
  <2>1. \A d, e \in Callers : d # e => configCall'[d].scanned \cap configCall'[e].scanned = {}
    BY <1>0, <1>1 DEF LocksHeld
  <2>2. ASSUME ~unseen, ~Revisions!Exposed(c)' PROVE activeRows \subseteq new.scanned
    <3>1. new.scanned = new.snapshot
      BY <2>2, <1>1 DEF Revisions!Exposed
    <3> QED
      BY <2>2, <3>1, <1>0 DEF ActiveTrue
  <2>3. ASSUME ~unseen', NEW d \in Callers, Activating(d)'
        PROVE  IF Revisions!Exposed(d)' THEN configCall'[d].snapshot = DOMAIN hash'
                                        ELSE activeRows' \subseteq configCall'[d].scanned
    <3>1. CASE d = c
      BY <2>2, <2>3, <3>1, <1>1
    <3>2. CASE d # c
      BY <2>3, <3>2, <1>0, <1>1, <1>2, <1>3 DEF LocksHeld
    <3> QED
      BY <3>1, <3>2
  <2>4. \A d \in Callers : ~Activating(d)' => configCall'[d].scanned = {}
    BY <1>0, <1>1, <1>2 DEF LocksHeld
  <2>5. \A d \in Callers : Activating(d)' =>
          /\ configCall'[d].number \in Nat \ {0}
          /\ configCall'[d].scanned \subseteq configCall'[d].snapshot
          /\ configCall'[d].snapshot \subseteq DOMAIN hash'
    BY <1>0, <1>1, <1>2 DEF LocksHeld
  <2> QED
    BY <2>1, <2>3, <2>4, <2>5 DEF LocksHeld
<1> QED
  BY <1>0, <1>1, <1>4, <1>5, <1>6 DEF RevisionsInv, ActiveTrue, RevisionRecords

\* An activation that has its locks shares row 1 with every other one that
\* has them: it is alone, and replaces the one row that is active.
LEMMA ActivationCommits ==
  ASSUME RevisionsInv, NEW c \in Callers, Revisions!ActivateCommit(c)
  PROVE  RevisionsInv'
<1> DEFINE n == configCall[c].number
<1>0. /\ unseen \in BOOLEAN /\ DOMAIN configCall = Callers /\ RevisionRecords
      /\ MemoryOrder /\ FirstIsOne /\ LocksHeld /\ ActiveTrue
  BY DEF RevisionsInv
<1>1. /\ configStore' = configStore /\ Activating(c)
      /\ configCall[c].scanned = configCall[c].snapshot
      /\ configCall' = [configCall EXCEPT ![c] = Revisions!Idle]
      /\ hash' = hash /\ unseen' = unseen
      /\ IF n \in DOMAIN hash
         THEN activeRows' = (activeRows \ configCall[c].scanned) \cup {n} /\ latest' = n
         ELSE activeRows' = activeRows /\ latest' = latest
  BY DEF Revisions!ActivateCommit, Revisions!Revisions, Activating
<1>2. DOMAIN Revisions!Idle = RevisionFields /\ Revisions!Idle.op = "idle" /\ Revisions!Idle.scanned = {}
  BY DEF Revisions!Idle, RevisionFields
<1>3. n \in Nat \ {0}
  BY <1>0, <1>1 DEF LocksHeld
<1> HIDE DEF n
<1>4. \A d \in Callers : configCall'[d] = IF d = c THEN Revisions!Idle ELSE configCall[d]
  BY <1>0, <1>1
<1>5. ~Activating(c)' /\ \A d \in Callers : d # c => (Activating(d)' <=> Activating(d))
  BY <1>2, <1>4 DEF Activating
<1>6. \A d \in Callers : d # c => (Revisions!Exposed(d)' <=> Revisions!Exposed(d))
  BY <1>4 DEF Revisions!Exposed
<1>7. MemoryOrder' /\ FirstIsOne'
  BY <1>0, <1>1, <1>2, <1>4, <1>5 DEF MemoryOrder, FirstIsOne, Activating
<1>8. ASSUME ~unseen, n \in DOMAIN hash
      PROVE  1 \in configCall[c].scanned /\ activeRows \subseteq configCall[c].scanned
  <2>1. configCall[c].snapshot # {}
    BY <1>0, <1>1, <1>8 DEF LocksHeld, Activating, Revisions!Exposed
  <2>2. ~Revisions!Exposed(c)
    BY <1>1, <2>1 DEF Revisions!Exposed
  <2> QED
    BY <1>0, <1>1, <1>8, <2>1, <2>2 DEF LocksHeld, FirstIsOne
<1>9. LocksHeld'
  <2>1. \A d \in Callers : ~Activating(d)' => configCall'[d].scanned = {}
    BY <1>0, <1>2, <1>4, <1>5 DEF LocksHeld
  <2>2. \A d \in Callers : Activating(d)' =>
          /\ configCall'[d].number \in Nat \ {0}
          /\ configCall'[d].scanned \subseteq configCall'[d].snapshot
          /\ configCall'[d].snapshot \subseteq DOMAIN hash'
    BY <1>0, <1>1, <1>4, <1>5 DEF LocksHeld
  <2>3. \A d, e \in Callers : d # e => configCall'[d].scanned \cap configCall'[e].scanned = {}
    BY <1>0, <1>2, <1>4 DEF LocksHeld
  <2>4. ASSUME ~unseen', NEW d \in Callers, Activating(d)'
        PROVE  IF Revisions!Exposed(d)' THEN configCall'[d].snapshot = DOMAIN hash'
                                        ELSE activeRows' \subseteq configCall'[d].scanned
    <3>1. /\ d # c /\ Activating(d) /\ configCall'[d] = configCall[d]
          /\ Revisions!Exposed(d)' <=> Revisions!Exposed(d)
      BY <2>4, <1>4, <1>5, <1>6
    <3>2. CASE Revisions!Exposed(d) \/ n \notin DOMAIN hash
      BY <2>4, <3>1, <3>2, <1>0, <1>1 DEF LocksHeld
    <3>3. CASE ~Revisions!Exposed(d) /\ n \in DOMAIN hash
      <4>1. configCall[d].scanned = configCall[d].snapshot /\ configCall[d].snapshot # {}
        BY <3>1, <3>3 DEF Revisions!Exposed, Activating
      <4>2. 1 \in configCall[d].scanned
        BY <3>1, <4>1, <1>0 DEF FirstIsOne
      <4>3. 1 \in configCall[c].scanned
        BY <2>4, <3>3, <1>1, <1>8
      <4> QED
        BY <3>1, <4>2, <4>3, <1>0 DEF LocksHeld
    <3> QED
      BY <3>2, <3>3
  <2> QED
    BY <2>1, <2>2, <2>3, <2>4 DEF LocksHeld
<1>10. ActiveTrue'
  <2>1. CASE n \in DOMAIN hash
    BY <2>1, <1>0, <1>1, <1>3, <1>8 DEF ActiveTrue
  <2>2. CASE n \notin DOMAIN hash
    BY <2>2, <1>0, <1>1 DEF ActiveTrue
  <2> QED
    BY <2>1, <2>2
<1> QED
  BY <1>0, <1>1, <1>2, <1>4, <1>7, <1>9, <1>10 DEF RevisionsInv, RevisionRecords

\* Creating and activating revisions keeps what the store promises.
LEMMA RevisionsStep == RevisionsInv /\ [Revisions!Next]_(Revisions!vars) => RevisionsInv'
<1> SUFFICES ASSUME RevisionsInv, [Revisions!Next]_(Revisions!vars) PROVE RevisionsInv'
  OBVIOUS
<1>0. /\ unseen \in BOOLEAN /\ DOMAIN configCall = Callers /\ RevisionRecords
      /\ MemoryOrder /\ FirstIsOne /\ LocksHeld /\ ActiveTrue
  BY DEF RevisionsInv
<1>1. ASSUME NEW c \in Callers, NEW f, Revisions!CreateRead(c, f) PROVE RevisionsInv'
  <2> DEFINE n == Revisions!Max(Revisions!Revisions \cup {0}) + 1
             new == [Revisions!Idle EXCEPT !.op = "create", !.number = n, !.config = {f}]
  <2>1. /\ configStore # "memory" /\ configStore' = configStore
        /\ configCall' = [configCall EXCEPT ![c] = new]
        /\ UNCHANGED <<hash, activeRows, latest, unseen>>
    BY <1>1 DEF Revisions!CreateRead
  <2>2. DOMAIN new = RevisionFields /\ new.op = "create" /\ new.scanned = {} /\ new.number = n
    BY DEF Revisions!Idle, RevisionFields
  <2>3. n = 1 \/ 1 \in DOMAIN hash
    <3>1. CASE DOMAIN hash = {}
      <4>1. Revisions!Revisions \cup {0} = {0}
        BY <3>1 DEF Revisions!Revisions
      <4>2. Revisions!Max({0}) = 0
        BY DEF Revisions!Max
      <4> QED
        BY <4>1, <4>2
    <3>2. CASE DOMAIN hash # {}
      BY <3>2, <1>0 DEF FirstIsOne
    <3> QED
      BY <3>1, <3>2
  <2> HIDE DEF new
  <2> QED
    BY <2>1, <2>2, <2>3, CallReplaced
<1>2. ASSUME NEW f, Revisions!CreateInMemory(f) PROVE RevisionsInv'
  <2>1. configStore = "memory"
    BY <1>2 DEF Revisions!CreateInMemory
  <2>2. PICK k \in Nat :
           /\ DOMAIN hash = 1..k /\ hash' = [m \in 1..(k + 1) |-> IF m = k + 1 THEN f ELSE hash[m]]
           /\ activeRows' = IF k = 0 THEN {1} ELSE activeRows
           /\ latest' = IF k = 0 THEN 1 ELSE latest
           /\ configStore' = configStore /\ configCall' = configCall /\ unseen' = unseen
    BY <1>2, CreatedInMemory
  <2>3. DOMAIN hash' = 1..(k + 1) /\ k + 1 \in Nat /\ 1 \in 1..(k + 1)
    BY <2>2
  <2>4. MemoryOrder'
    BY <2>2, <2>3, <1>0 DEF MemoryOrder
  <2>5. \A d \in Callers : configCall'[d].op = "idle" /\ configCall'[d].scanned = {}
    BY <2>1, <2>2, <1>0 DEF MemoryOrder, LocksHeld, Activating
  <2>6. FirstIsOne' /\ LocksHeld'
    BY <2>3, <2>5 DEF FirstIsOne, LocksHeld, Activating
  <2>7. ActiveTrue'
    <3>1. CASE k = 0
      BY <2>2, <2>3, <3>1 DEF ActiveTrue
    <3>2. CASE k # 0
      BY <2>2, <2>3, <3>2, <1>0 DEF ActiveTrue
    <3> QED
      BY <3>1, <3>2
  <2> QED
    BY <2>2, <2>4, <2>6, <2>7, <1>0 DEF RevisionsInv, RevisionRecords
<1>3. ASSUME NEW c \in Callers, NEW n \in 1..MaxRevisions, Revisions!ActivateBegin(c, n)
      PROVE  RevisionsInv'
  <2> DEFINE new == [Revisions!Idle EXCEPT !.op = "activate", !.number = n, !.snapshot = DOMAIN hash]
  <2>1. /\ configStore # "memory" /\ configStore' = configStore
        /\ configCall' = [configCall EXCEPT ![c] = new]
        /\ UNCHANGED <<hash, activeRows, latest, unseen>>
    BY <1>3 DEF Revisions!ActivateBegin, Revisions!Revisions
  <2>2. /\ DOMAIN new = RevisionFields /\ new.op = "activate" /\ new.scanned = {} /\ new.snapshot = DOMAIN hash
        /\ new.number = n /\ n \in Nat \ {0}
    BY DEF Revisions!Idle, RevisionFields
  <2>3. DOMAIN hash = {} \/ 1 \in DOMAIN hash
    BY <1>0 DEF FirstIsOne
  <2> HIDE DEF new
  <2> QED
    BY <2>1, <2>2, <2>3, ActivationScans
<1>4. ASSUME NEW c \in Callers, Revisions!ActivateScan(c) PROVE RevisionsInv'
  <2> DEFINE old == configCall[c]
  <2>1. PICK r \in old.snapshot \ old.scanned :
          /\ Revisions!Unlocked(c, r)
          /\ configCall' = [configCall EXCEPT ![c].scanned = @ \cup {r}]
    BY <1>4 DEF Revisions!ActivateScan
  <2>2. /\ old.op = "activate" /\ configStore' = configStore
        /\ UNCHANGED <<hash, activeRows, latest, unseen>>
    BY <1>4 DEF Revisions!ActivateScan
  <2>3. configStore # "memory"
    BY <2>2, <1>0 DEF MemoryOrder
  <2> DEFINE new == [old EXCEPT !.scanned = @ \cup {r}]
  <2>4. configCall' = [configCall EXCEPT ![c] = new]
    BY <2>1
  <2>5. /\ DOMAIN new = RevisionFields /\ new.op = old.op /\ new.number = old.number /\ new.snapshot = old.snapshot
        /\ new.scanned = old.scanned \cup {r}
    BY <1>0, <2>1 DEF RevisionRecords, RevisionFields
  <2>6. /\ old.number \in Nat \ {0} /\ old.scanned \subseteq old.snapshot /\ old.snapshot \subseteq DOMAIN hash
        /\ old.snapshot = {} \/ 1 \in old.snapshot
    BY <2>2, <1>0 DEF LocksHeld, FirstIsOne, Activating
  <2>7. ~unseen => old.snapshot = DOMAIN hash
    BY <2>1, <2>2, <1>0 DEF LocksHeld, Activating, Revisions!Exposed
  <2>8. \A d \in Callers : d # c => (old.scanned \cup {r}) \cap configCall[d].scanned = {}
    BY <2>1, <1>0 DEF LocksHeld, Revisions!Unlocked
  <2>9. /\ new.op = "activate" /\ new.number \in Nat \ {0}
        /\ new.scanned \subseteq new.snapshot /\ new.snapshot \subseteq DOMAIN hash
        /\ ~unseen => new.snapshot = DOMAIN hash
        /\ new.snapshot = {} \/ 1 \in new.snapshot
        /\ \A d \in Callers : d # c => new.scanned \cap configCall[d].scanned = {}
    BY <2>1, <2>2, <2>5, <2>6, <2>7, <2>8
  <2>10. DOMAIN new = RevisionFields
    BY <2>5
  <2>11. configStore' = configStore /\ UNCHANGED <<hash, activeRows, latest, unseen>>
    BY <2>2
  <2> HIDE DEF new
  <2> QED
    BY <2>3, <2>4, <2>9, <2>10, <2>11, ActivationScans
<1>5. ASSUME NEW c \in Callers, Revisions!ActivateRaises(c) PROVE RevisionsInv'
  <2>1. /\ configCall[c].op = "activate" /\ configStore' = configStore
        /\ configCall' = [configCall EXCEPT ![c] = Revisions!Idle]
        /\ UNCHANGED <<hash, activeRows, latest, unseen>>
    BY <1>5 DEF Revisions!ActivateRaises
  <2>2. DOMAIN Revisions!Idle = RevisionFields /\ Revisions!Idle.op = "idle" /\ Revisions!Idle.scanned = {}
    BY DEF Revisions!Idle, RevisionFields
  <2>3. configStore # "memory"
    BY <2>1, <1>0 DEF MemoryOrder
  <2> QED
    BY <2>1, <2>2, <2>3, CallReplaced
<1>6. ASSUME NEW n \in 1..MaxRevisions, Revisions!ActivateInMemory(n) PROVE RevisionsInv'
  <2>1. /\ configStore = "memory" /\ configStore' = configStore /\ configCall' = configCall
        /\ hash' = hash /\ unseen' = unseen
        /\ IF n \in DOMAIN hash THEN activeRows' = {n} /\ latest' = n
                                ELSE activeRows' = activeRows /\ latest' = latest
    BY <1>6 DEF Revisions!ActivateInMemory, Revisions!Revisions
  <2>2. MemoryOrder' /\ FirstIsOne'
    BY <2>1, <1>0 DEF MemoryOrder, FirstIsOne, Activating
  <2>3. \A d \in Callers : ~Activating(d)
    BY <2>1, <1>0 DEF MemoryOrder, Activating
  <2>4. LocksHeld'
    BY <2>1, <2>3, <1>0 DEF LocksHeld, Activating
  <2>5. ActiveTrue'
    BY <2>1, <1>0 DEF ActiveTrue
  <2> QED
    BY <2>1, <2>2, <2>4, <2>5, <1>0 DEF RevisionsInv, RevisionRecords
<1>7. ASSUME UNCHANGED Revisions!vars PROVE RevisionsInv'
  <2>1. /\ configStore' = configStore /\ configCall' = configCall /\ hash' = hash /\ unseen' = unseen
        /\ activeRows' = activeRows /\ latest' = latest
    BY <1>7 DEF Revisions!vars
  <2>2. MemoryOrder' /\ FirstIsOne' /\ LocksHeld' /\ ActiveTrue'
    BY <2>1, <1>0 DEF MemoryOrder, FirstIsOne, LocksHeld, ActiveTrue, Activating, Revisions!Exposed
  <2> QED
    BY <2>1, <2>2, <1>0 DEF RevisionsInv, RevisionRecords
<1> QED
  BY <1>1, <1>2, <1>3, <1>4, <1>5, <1>6, <1>7, RevisionStored, ActivationCommits
     DEF Revisions!Next, Revisions!PutConfig, Revisions!ActivateConfig

\* The configuration that get_active serves is the one the latest activation
\* named, and no other row is active, for any number of gateways that create
\* and activate revisions, unless a revision was stored between the snapshot
\* of an activation and its locks: whoever has its locks has row 1, which
\* keeps every other activation out until it commits.
THEOREM LatestIsActive == Revisions!Spec => []ActiveIsLatest
<1>1. RevisionsInv => ActiveIsLatest
  <2> SUFFICES ASSUME RevisionsInv, ~unseen
               PROVE  Revisions!GetActive = latest /\ activeRows \subseteq {latest}
    BY DEF ActiveIsLatest, Revisions!ActiveIsLatest
  <2>1. latest \in Nat /\ activeRows = IF latest = 0 THEN {} ELSE {latest}
    BY DEF RevisionsInv, ActiveTrue
  <2>2. activeRows \cup {0} = {latest, 0}
    BY <2>1
  <2>3. Revisions!GetActive = CHOOSE x \in {latest, 0} : \A y \in {latest, 0} : x >= y
    BY <2>2 DEF Revisions!GetActive, Revisions!Max
  <2>4. \A x \in {latest, 0} : (\A y \in {latest, 0} : x >= y) <=> x = latest
    BY <2>1
  <2>5. Revisions!GetActive = latest
    BY <2>3, <2>4
  <2> QED
    BY <2>1, <2>5
<1> QED
  BY <1>1, RevisionsStart, RevisionsStep, PTL DEF Revisions!Spec

\* A stored configuration revision keeps its number and its content, whoever
\* creates the next one: two requests that read the same highest number are
\* told apart by the unique constraint, and the in-memory list only grows.
THEOREM RevisionsNeverChange == Revisions!Spec => RevisionsImmutable
<1> DEFINE Kept == \A n \in DOMAIN hash : n \in DOMAIN hash' /\ hash'[n] = hash[n]
<1>1. RevisionsInv /\ [Revisions!Next]_(Revisions!vars) => Kept
  <2> SUFFICES ASSUME RevisionsInv, [Revisions!Next]_(Revisions!vars) PROVE Kept
    OBVIOUS
  <2>1. CASE hash' = hash
    BY <2>1
  <2>2. ASSUME NEW c \in Callers, Revisions!CreateCommit(c) PROVE Kept
    <3>1. PICK f : hash' = IF Revisions!Insertable(configCall[c].number, f)
                           THEN [n \in DOMAIN hash \cup {configCall[c].number} |->
                                   IF n = configCall[c].number THEN f ELSE hash[n]]
                           ELSE hash
      BY <2>2 DEF Revisions!CreateCommit, Revisions!Revisions
    <3>2. Revisions!Insertable(configCall[c].number, f) => configCall[c].number \notin DOMAIN hash
      BY DEF Revisions!Insertable, Revisions!Revisions
    <3> QED
      BY <3>1, <3>2
  <2>3. ASSUME NEW f, Revisions!CreateInMemory(f) PROVE Kept
    <3>1. PICK k \in Nat :
            DOMAIN hash = 1..k /\ hash' = [m \in 1..(k + 1) |-> IF m = k + 1 THEN f ELSE hash[m]]
      BY <2>3, CreatedInMemory
    <3> QED
      BY <3>1
  <2> QED
    BY <2>1, <2>2, <2>3
       DEF Revisions!Next, Revisions!PutConfig, Revisions!ActivateConfig, Revisions!CreateRead,
           Revisions!ActivateBegin, Revisions!ActivateScan, Revisions!ActivateCommit,
           Revisions!ActivateRaises, Revisions!ActivateInMemory, Revisions!vars
<1>2. Kept => [\A n \in Revisions!Revisions : n \in DOMAIN hash' /\ hash'[n] = hash[n]]_(Revisions!vars)
  BY DEF Revisions!Revisions
<1> HIDE DEF Kept
<1>3. RevisionsInv /\ [Revisions!Next]_(Revisions!vars)
        => [\A n \in Revisions!Revisions : n \in DOMAIN hash' /\ hash'[n] = hash[n]]_(Revisions!vars)
  BY <1>1, <1>2
<1> QED
  BY <1>3, RevisionsStart, RevisionsStep, PTL DEF Revisions!Spec, RevisionsImmutable, Revisions!RevisionsImmutable

-----------------------------------------------------------------------------
(* Assistants *)

\* What is stored for an assistant that was never deleted: with Postgres the
\* first version and one for every accepted update, in memory the last one.
VersionsTrue(store, a, vs, n) ==
  IF a = 0 THEN vs = {} /\ n = 0
  ELSE IF store = "postgres" THEN vs = 1..(1 + n) /\ a \in vs
  ELSE vs = {a} /\ a = 1 + n

\* What a request under way has read is still true of such an assistant.
CallOk(x, a, vs, n) ==
  /\ x.op \in {"patch", "get", "update", "set_latest"} => a # 0
  /\ x.op = "create" /\ x.row # 0 => a # 0
  /\ x.op = "update" => x.version \in 2..(2 + n)
  /\ x.op = "set_latest" => x.version \in vs

OutcomeOk(o, n) == o # "missing" /\ (o = "conflict" => n > 0)

AssistantsInv ==
  /\ DOMAIN assistantCall = Callers /\ DOMAIN outcome = Callers
  /\ deleted \in BOOLEAN /\ accepted \in Nat
  /\ assistantStore \in {"postgres", "memory"}
  /\ assistantStore = "memory" => \A c \in Callers : assistantCall[c].op = "idle"
  /\ ~deleted =>
       /\ VersionsTrue(assistantStore, active, versions, accepted)
       /\ \A c \in Callers : CallOk(assistantCall[c], active, versions, accepted)
       /\ \A c \in Callers : OutcomeOk(outcome[c], accepted)

\* What a step of one caller must respect.
LEMMA OneRequest ==
  ASSUME AssistantsInv, NEW c \in Callers, NEW x, NEW o,
         DOMAIN assistantCall' = Callers, DOMAIN outcome' = Callers,
         \A d \in Callers : assistantCall'[d] = IF d = c THEN x ELSE assistantCall[d],
         \A d \in Callers : outcome'[d] = IF d = c THEN o ELSE outcome[d],
         assistantStore' = assistantStore, deleted' \in BOOLEAN, deleted => deleted',
         accepted' \in Nat, accepted <= accepted',
         assistantStore = "memory" => x.op = "idle",
         ~deleted' =>
           /\ active # 0 => active' # 0
           /\ assistantStore = "postgres" => versions \subseteq versions'
           /\ VersionsTrue(assistantStore, active', versions', accepted')
           /\ CallOk(x, active', versions', accepted')
           /\ OutcomeOk(o, accepted')
  PROVE  AssistantsInv'
<1>1. ASSUME ~deleted', NEW d \in Callers PROVE CallOk(assistantCall'[d], active', versions', accepted')
  <2>1. CASE d = c
    BY <2>1, <1>1
  <2>2. CASE d # c /\ assistantStore = "memory"
    <3>1. assistantCall'[d].op = "idle"
      BY <2>2 DEF AssistantsInv
    <3> QED
      BY <3>1 DEF CallOk
  <2>3. CASE d # c /\ assistantStore = "postgres"
    <3>1. /\ CallOk(assistantCall[d], active, versions, accepted)
          /\ assistantCall'[d] = assistantCall[d] /\ accepted \in Nat
      BY <2>3, <1>1 DEF AssistantsInv
    <3>2. /\ active # 0 => active' # 0
          /\ versions \subseteq versions'
      BY <2>3, <1>1
    <3> QED
      BY <3>1, <3>2 DEF CallOk
  <2> QED
    BY <2>1, <2>2, <2>3 DEF AssistantsInv
<1>2. ASSUME ~deleted', NEW d \in Callers PROVE OutcomeOk(outcome'[d], accepted')
  <2>1. ~deleted /\ OutcomeOk(outcome[d], accepted) /\ accepted \in Nat
    BY <1>2 DEF AssistantsInv
  <2> QED
    BY <2>1, <1>2 DEF OutcomeOk
<1>3. assistantStore' = "memory" => \A d \in Callers : assistantCall'[d].op = "idle"
  BY DEF AssistantsInv
<1>4. /\ DOMAIN assistantCall' = Callers /\ DOMAIN outcome' = Callers
      /\ deleted' \in BOOLEAN /\ accepted' \in Nat /\ assistantStore' \in {"postgres", "memory"}
  BY DEF AssistantsInv
<1>5. ~deleted' => VersionsTrue(assistantStore', active', versions', accepted')
  OBVIOUS
<1> QED
  BY <1>1, <1>2, <1>3, <1>4, <1>5 DEF AssistantsInv

\* The same where nothing stored changes.
LEMMA OneReads ==
  ASSUME AssistantsInv, NEW c \in Callers, NEW x, NEW o,
         UNCHANGED <<assistantStore, active, versions, accepted, deleted>>,
         assistantCall' = [assistantCall EXCEPT ![c] = x],
         outcome' = [outcome EXCEPT ![c] = o] \/ (outcome' = outcome /\ o = outcome[c]),
         assistantStore = "memory" => x.op = "idle",
         ~deleted => CallOk(x, active, versions, accepted) /\ OutcomeOk(o, accepted)
  PROVE  AssistantsInv'
<1>0. /\ DOMAIN assistantCall = Callers /\ DOMAIN outcome = Callers /\ deleted \in BOOLEAN
      /\ accepted \in Nat
      /\ ~deleted => VersionsTrue(assistantStore, active, versions, accepted)
  BY DEF AssistantsInv
<1>1. /\ DOMAIN assistantCall' = Callers /\ DOMAIN outcome' = Callers
      /\ \A d \in Callers : assistantCall'[d] = IF d = c THEN x ELSE assistantCall[d]
      /\ \A d \in Callers : outcome'[d] = IF d = c THEN o ELSE outcome[d]
  BY <1>0
<1>2. accepted <= accepted'
  BY <1>0
<1> QED
  BY <1>0, <1>1, <1>2, OneRequest

\* No assistant yet.
LEMMA AssistantsStart == Assistants!Init => AssistantsInv
<1> SUFFICES ASSUME Assistants!Init PROVE AssistantsInv
  OBVIOUS
<1>1. /\ active = 0 /\ versions = {} /\ accepted = 0 /\ deleted = FALSE
      /\ assistantCall = [c \in Callers |-> Assistants!Idle]
      /\ outcome = [c \in Callers |-> "none"]
      /\ Assistants!Idle.op = "idle"
      /\ assistantStore \in {"postgres", "memory"}
  BY DEF Assistants!Init, Assistants!Idle, Assistants!Doing
<1>2. \A c \in Callers : assistantCall[c].op = "idle" /\ outcome[c] = "none"
  BY <1>1
<1>3. \A c \in Callers : CallOk(assistantCall[c], active, versions, accepted)
  BY <1>2 DEF CallOk
<1>4. \A c \in Callers : OutcomeOk(outcome[c], accepted)
  BY <1>2 DEF OutcomeOk
<1> QED
  BY <1>1, <1>2, <1>3, <1>4 DEF AssistantsInv, VersionsTrue

\* The fields of what a request has read.
LEMMA Fields ==
  ASSUME NEW op, NEW r, NEW v, NEW s
  PROVE  /\ Assistants!Doing(op, r, v, s).op = op
         /\ Assistants!Doing(op, r, v, s).row = r
         /\ Assistants!Doing(op, r, v, s).version = v
         /\ Assistants!Idle.op = "idle"
BY DEF Assistants!Doing, Assistants!Idle

\* MAX(version) + 1 of a gapless set of versions.
LEMMA NextFollows ==
  ASSUME NEW n \in Nat, versions = 1..(1 + n)
  PROVE  Assistants!NextVersion = 2 + n
<1> DEFINE S == versions \cup {0}
<1>1. S = 0..(1 + n)
  OBVIOUS
<1>2. \A x \in S : (\A y \in S : x >= y) <=> x = 1 + n
  BY <1>1
<1>3. 1 + n \in S
  BY <1>1
<1>4. Assistants!NextVersion = (CHOOSE x \in S : \A y \in S : x >= y) + 1
  BY DEF Assistants!NextVersion, Assistants!Max
<1> HIDE DEF S
<1>5. (CHOOSE x \in S : \A y \in S : x >= y) = 1 + n
  BY <1>2, <1>3
<1>6. (1 + n) + 1 = 2 + n
  OBVIOUS
<1> QED
  BY <1>4, <1>5, <1>6, Zenon

\* Every request for an assistant keeps its versions and outcomes true.
LEMMA AssistantsStep == AssistantsInv /\ [Assistants!Next]_(Assistants!vars) => AssistantsInv'
<1> SUFFICES ASSUME AssistantsInv, [Assistants!Next]_(Assistants!vars) PROVE AssistantsInv'
  OBVIOUS
<1>0. /\ DOMAIN assistantCall = Callers /\ DOMAIN outcome = Callers
      /\ deleted \in BOOLEAN /\ accepted \in Nat
      /\ assistantStore \in {"postgres", "memory"}
      /\ assistantStore = "memory" => \A c \in Callers : assistantCall[c].op = "idle"
  BY DEF AssistantsInv
<1>V. ~deleted => VersionsTrue(assistantStore, active, versions, accepted)
  BY DEF AssistantsInv
<1>C. \A c \in Callers : ~deleted => CallOk(assistantCall[c], active, versions, accepted)
  BY DEF AssistantsInv
<1>O. \A c \in Callers : ~deleted => OutcomeOk(outcome[c], accepted)
  BY DEF AssistantsInv
<1>N. accepted <= accepted
  BY <1>0
<1>1. ASSUME NEW c \in Callers, Assistants!CreateExisting(c) PROVE AssistantsInv'
  <2> DEFINE x == Assistants!Idle
  <2>1. /\ UNCHANGED <<assistantStore, active, versions, accepted, deleted>>
        /\ assistantCall' = [assistantCall EXCEPT ![c] = x]
        /\ outcome' = [outcome EXCEPT ![c] = "ok"]
    BY <1>1 DEF Assistants!CreateExisting, Assistants!Finish
  <2>2. x.op = "idle"
    BY Fields
  <2> HIDE DEF x
  <2>3. CallOk(x, active, versions, accepted) /\ OutcomeOk("ok", accepted)
    BY <2>2 DEF CallOk, OutcomeOk
  <2> QED
    BY <2>1, <2>2, <2>3, OneReads
<1>2. ASSUME NEW c \in Callers, Assistants!CreateRead(c) PROVE AssistantsInv'
  <2> DEFINE x == Assistants!Doing("create", active, 0, {})
  <2>1. /\ UNCHANGED <<assistantStore, active, versions, accepted, deleted>>
        /\ assistantStore = "postgres"
        /\ assistantCall' = [assistantCall EXCEPT ![c] = x]
        /\ outcome' = [outcome EXCEPT ![c] = "none"]
    BY <1>2 DEF Assistants!CreateRead, Assistants!Begin
  <2>2. x.op = "create" /\ x.row = active
    BY Fields
  <2> HIDE DEF x
  <2>3. CallOk(x, active, versions, accepted) /\ OutcomeOk("none", accepted)
    BY <2>2 DEF CallOk, OutcomeOk
  <2> QED
    BY <2>1, <2>3, OneReads
<1>3. ASSUME NEW c \in Callers, Assistants!PatchRead(c) PROVE AssistantsInv'
  <2> DEFINE x == Assistants!Doing("patch", 0, 0, {})
  <2>1. /\ UNCHANGED <<assistantStore, active, versions, accepted, deleted>>
        /\ assistantStore = "postgres"
        /\ assistantCall' = [assistantCall EXCEPT ![c] = x]
        /\ outcome' = [outcome EXCEPT ![c] = "none"]
        /\ active # 0
    BY <1>3 DEF Assistants!PatchRead, Assistants!Begin, Assistants!Found, Assistants!Versions, Assistants!RowExists
  <2>2. x.op = "patch"
    BY Fields
  <2> HIDE DEF x
  <2>3. CallOk(x, active, versions, accepted) /\ OutcomeOk("none", accepted)
    BY <2>1, <2>2 DEF CallOk, OutcomeOk
  <2> QED
    BY <2>1, <2>3, OneReads
<1>4. ASSUME NEW c \in Callers, Assistants!DeleteRead(c) PROVE AssistantsInv'
  <2> DEFINE x == Assistants!Doing("delete", 0, 0, versions)
  <2>1. /\ UNCHANGED <<assistantStore, active, versions, accepted, deleted>>
        /\ assistantStore = "postgres"
        /\ assistantCall' = [assistantCall EXCEPT ![c] = x]
        /\ outcome' = [outcome EXCEPT ![c] = "none"]
    BY <1>4 DEF Assistants!DeleteRead, Assistants!Begin
  <2>2. x.op = "delete"
    BY Fields
  <2> HIDE DEF x
  <2>3. CallOk(x, active, versions, accepted) /\ OutcomeOk("none", accepted)
    BY <2>2 DEF CallOk, OutcomeOk
  <2> QED
    BY <2>1, <2>3, OneReads
<1>5. ASSUME NEW c \in Callers, Assistants!SearchRead(c) PROVE AssistantsInv'
  <2> DEFINE x == Assistants!Doing("get", 0, 0, {})
  <2>1. /\ UNCHANGED <<assistantStore, active, versions, accepted, deleted>>
        /\ assistantStore = "postgres"
        /\ assistantCall' = [assistantCall EXCEPT ![c] = x]
        /\ outcome' = [outcome EXCEPT ![c] = "none"]
        /\ active # 0
    BY <1>5 DEF Assistants!SearchRead, Assistants!Begin, Assistants!RowExists
  <2>2. x.op = "get"
    BY Fields
  <2> HIDE DEF x
  <2>3. CallOk(x, active, versions, accepted) /\ OutcomeOk("none", accepted)
    BY <2>1, <2>2 DEF CallOk, OutcomeOk
  <2> QED
    BY <2>1, <2>3, OneReads
<1>6. ASSUME NEW c \in Callers, NEW v \in versions, Assistants!SetLatestRead(c, v) PROVE AssistantsInv'
  <2> DEFINE x == Assistants!Doing("set_latest", active, v, {})
  <2>1. /\ UNCHANGED <<assistantStore, active, versions, accepted, deleted>>
        /\ assistantStore = "postgres"
        /\ assistantCall' = [assistantCall EXCEPT ![c] = x]
        /\ outcome' = [outcome EXCEPT ![c] = "none"]
        /\ active # 0
    BY <1>6 DEF Assistants!SetLatestRead, Assistants!Begin, Assistants!Versions, Assistants!RowExists
  <2>2. x.op = "set_latest" /\ x.version = v
    BY Fields
  <2> HIDE DEF x
  <2>3. CallOk(x, active, versions, accepted) /\ OutcomeOk("none", accepted)
    BY <2>1, <2>2 DEF CallOk, OutcomeOk
  <2> QED
    BY <2>1, <2>3, OneReads
<1>7. ASSUME NEW c \in Callers, Assistants!UpdateRead(c) PROVE AssistantsInv'
  <2> DEFINE x == Assistants!Doing("update", active, Assistants!NextVersion, {})
  <2>1. /\ UNCHANGED <<assistantStore, active, versions, accepted, deleted, outcome>>
        /\ assistantCall' = [assistantCall EXCEPT ![c] = x]
        /\ assistantCall[c].op = "patch" /\ active # 0
    BY <1>7 DEF Assistants!UpdateRead, Assistants!RowExists
  <2>2. assistantStore = "postgres"
    BY <2>1, <1>0
  <2>3. x.op = "update" /\ x.version = Assistants!NextVersion
    BY Fields
  <2> HIDE DEF x
  <2>4. ~deleted => x.version = 2 + accepted
    BY <2>1, <2>2, <2>3, <1>0, <1>V, NextFollows DEF VersionsTrue
  <2>5. ~deleted => CallOk(x, active, versions, accepted)
    BY <2>1, <2>3, <2>4, <1>0 DEF CallOk
  <2> QED
    BY <2>1, <2>2, <2>5, <1>O, OneReads
<1>8. ASSUME NEW c \in Callers, Assistants!Answer(c) PROVE AssistantsInv'
  <2> DEFINE x == Assistants!Idle
             o == IF Assistants!Found THEN "ok" ELSE "missing"
  <2>1. /\ UNCHANGED <<assistantStore, active, versions, accepted, deleted>>
        /\ assistantCall' = [assistantCall EXCEPT ![c] = x]
        /\ outcome' = [outcome EXCEPT ![c] = o]
        /\ assistantCall[c].op = "get"
    BY <1>8 DEF Assistants!Answer, Assistants!Finish
  <2>2. x.op = "idle"
    BY Fields
  <2>3. ~deleted => active # 0
    BY <2>1, <1>C DEF CallOk
  <2>4. ~deleted => active \in versions
    BY <2>3, <1>V DEF VersionsTrue
  <2>5. ~deleted => o = "ok"
    BY <2>3, <2>4 DEF Assistants!Found, Assistants!Versions, Assistants!RowExists
  <2> HIDE DEF x, o
  <2>6. ~deleted => CallOk(x, active, versions, accepted) /\ OutcomeOk(o, accepted)
    BY <2>2, <2>5 DEF CallOk, OutcomeOk
  <2> QED
    BY <2>1, <2>2, <2>6, OneReads
<1>9. ASSUME NEW c \in Callers, Assistants!UpdateMissing(c) PROVE AssistantsInv'
  <2> DEFINE x == Assistants!Idle
  <2>1. /\ UNCHANGED <<assistantStore, active, versions, accepted, deleted>>
        /\ assistantCall' = [assistantCall EXCEPT ![c] = x]
        /\ outcome' = [outcome EXCEPT ![c] = "missing"]
        /\ assistantCall[c].op = "patch" /\ active = 0
    BY <1>9 DEF Assistants!UpdateMissing, Assistants!Finish, Assistants!RowExists
  <2>2. x.op = "idle"
    BY Fields
  <2> HIDE DEF x
  <2>3. deleted
    BY <2>1, <1>0, <1>C DEF CallOk
  <2> QED
    BY <2>1, <2>2, <2>3, OneReads
<1>10. ASSUME NEW c \in Callers, Assistants!UpdateRefused(c) PROVE AssistantsInv'
  <2> DEFINE x == Assistants!Idle
  <2>1. /\ UNCHANGED <<assistantStore, active, versions, accepted, deleted>>
        /\ assistantCall' = [assistantCall EXCEPT ![c] = x]
        /\ outcome' = [outcome EXCEPT ![c] = "conflict"]
        /\ assistantCall[c].op = "update"
        /\ assistantCall[c].version \in versions \/ active = 0
    BY <1>10 DEF Assistants!UpdateRefused, Assistants!Finish, Assistants!RowExists
  <2>2. x.op = "idle"
    BY Fields
  <2> HIDE DEF x
  <2>3. ~deleted => accepted > 0
    <3> SUFFICES ASSUME ~deleted PROVE accepted > 0
      OBVIOUS
    <3>1. active # 0 /\ assistantCall[c].version \in 2..(2 + accepted)
      BY <2>1, <1>C DEF CallOk
    <3>2. versions = 1..(1 + accepted)
      BY <3>1, <2>1, <1>0, <1>V DEF VersionsTrue
    <3> QED
      BY <3>1, <3>2, <2>1, <1>0
  <2>4. ~deleted => CallOk(x, active, versions, accepted) /\ OutcomeOk("conflict", accepted)
    BY <2>2, <2>3 DEF CallOk, OutcomeOk
  <2> QED
    BY <2>1, <2>2, <2>4, OneReads
<1>11. ASSUME NEW c \in Callers, Assistants!CreateCommit(c) PROVE AssistantsInv'
  <2> DEFINE x == Assistants!Doing("get", 0, 0, {})
             o == outcome[c]
  <2>1. /\ UNCHANGED <<assistantStore, accepted, deleted, outcome>>
        /\ assistantCall' = [assistantCall EXCEPT ![c] = x]
        /\ assistantCall[c].op = "create"
        /\ IF assistantCall[c].row = 0 /\ active = 0 /\ 1 \notin versions
           THEN active' = 1 /\ versions' = versions \cup {1}
           ELSE active' = active /\ versions' = versions
    BY <1>11 DEF Assistants!CreateCommit, Assistants!Answering, Assistants!RowExists
  <2>2. assistantStore = "postgres"
    BY <2>1, <1>0
  <2>3. x.op = "get"
    BY Fields
  <2> HIDE DEF x
  <2>4. ~deleted => VersionsTrue(assistantStore, active', versions', accepted) /\ active' # 0
    <3> SUFFICES ASSUME ~deleted
                 PROVE  VersionsTrue(assistantStore, active', versions', accepted) /\ active' # 0
      OBVIOUS
    <3>1. CASE active = 0
      <4>1. versions = {} /\ accepted = 0
        BY <3>1, <1>V DEF VersionsTrue
      <4>2. assistantCall[c].row = 0
        BY <3>1, <2>1, <1>C DEF CallOk
      <4>3. active' = 1 /\ versions' = {1}
        BY <3>1, <4>1, <4>2, <2>1
      <4>4. 1..(1 + 0) = {1}
        OBVIOUS
      <4> QED
        BY <4>1, <4>3, <4>4, <2>2 DEF VersionsTrue
    <3>2. CASE active # 0
      BY <3>2, <2>1, <1>V
    <3> QED
      BY <3>1, <3>2
  <2>5. versions \subseteq versions' /\ (active # 0 => active' # 0)
    BY <2>1
  <2>6. ~deleted => CallOk(x, active', versions', accepted) /\ OutcomeOk(o, accepted)
    BY <2>3, <2>4, <1>O DEF CallOk
  <2>7. /\ DOMAIN assistantCall' = Callers /\ DOMAIN outcome' = Callers
        /\ \A d \in Callers : assistantCall'[d] = IF d = c THEN x ELSE assistantCall[d]
        /\ \A d \in Callers : outcome'[d] = IF d = c THEN o ELSE outcome[d]
    BY <2>1, <1>0
  <2> HIDE DEF o
  <2> QED
    BY <2>1, <2>2, <2>4, <2>5, <2>6, <2>7, <1>0, <1>N, OneRequest
<1>12. ASSUME NEW c \in Callers, Assistants!UpdateCommit(c) PROVE AssistantsInv'
  <2> DEFINE x == Assistants!Doing("get", 0, 0, {})
             o == outcome[c]
             v == assistantCall[c].version
  <2>1. /\ UNCHANGED <<assistantStore, deleted, outcome>>
        /\ assistantCall' = [assistantCall EXCEPT ![c] = x]
        /\ assistantCall[c].op = "update" /\ v \notin versions /\ active # 0
        /\ versions' = versions \cup {v} /\ active' = v /\ accepted' = accepted + 1
    BY <1>12 DEF Assistants!UpdateCommit, Assistants!Answering, Assistants!RowExists
  <2>2. assistantStore = "postgres"
    BY <2>1, <1>0
  <2>3. x.op = "get"
    BY Fields
  <2>7. /\ DOMAIN assistantCall' = Callers /\ DOMAIN outcome' = Callers
        /\ \A d \in Callers : assistantCall'[d] = IF d = c THEN x ELSE assistantCall[d]
        /\ \A d \in Callers : outcome'[d] = IF d = c THEN o ELSE outcome[d]
    BY <2>1, <1>0
  <2>8. ~deleted => OutcomeOk(o, accepted)
    BY <1>O
  <2>9. ~deleted => v \in 2..(2 + accepted)
    BY <2>1, <1>C DEF CallOk
  <2> HIDE DEF x, o, v
  <2>4. ~deleted => VersionsTrue(assistantStore, active', versions', accepted') /\ active' # 0
    <3> SUFFICES ASSUME ~deleted
                 PROVE  VersionsTrue(assistantStore, active', versions', accepted') /\ active' # 0
      OBVIOUS
    <3>1. versions = 1..(1 + accepted)
      BY <2>1, <2>2, <1>V DEF VersionsTrue
    <3>2. v = 2 + accepted
      BY <3>1, <2>1, <2>9, <1>0
    <3>3. versions' = 1..(1 + accepted')
      BY <3>1, <3>2, <2>1, <1>0
    <3>4. v # 0 /\ v \in versions'
      BY <3>2, <2>1, <1>0
    <3> QED
      BY <3>3, <3>4, <2>1, <2>2 DEF VersionsTrue
  <2>5. versions \subseteq versions'
    BY <2>1
  <2>6. ~deleted => CallOk(x, active', versions', accepted') /\ OutcomeOk(o, accepted')
    BY <2>1, <2>3, <2>4, <2>8, <1>0 DEF CallOk, OutcomeOk
  <2>10. accepted' \in Nat /\ accepted <= accepted'
    BY <2>1, <1>0
  <2> QED
    BY <2>1, <2>2, <2>4, <2>5, <2>6, <2>7, <2>10, <1>0, OneRequest
<1>13. ASSUME NEW c \in Callers, Assistants!SetLatestCommit(c) PROVE AssistantsInv'
  <2> DEFINE sent == assistantCall[c].version # assistantCall[c].row
             v == assistantCall[c].version
  <2>1. /\ UNCHANGED <<assistantStore, versions, accepted, deleted>>
        /\ assistantCall[c].op = "set_latest"
    BY <1>13 DEF Assistants!SetLatestCommit
  <2>2. assistantStore = "postgres"
    BY <2>1, <1>0
  <2>3. ~deleted => active # 0 /\ v \in versions
    BY <2>1, <1>C DEF CallOk
  <2>4. CASE sent /\ active = 0
    <3> DEFINE x == Assistants!Idle
    <3>1. /\ active' = active /\ assistantCall' = [assistantCall EXCEPT ![c] = x]
          /\ outcome' = [outcome EXCEPT ![c] = "conflict"]
      BY <1>13, <2>4 DEF Assistants!SetLatestCommit, Assistants!Finish, Assistants!RowExists
    <3>2. deleted
      BY <2>3, <2>4, <1>0
    <3> HIDE DEF x
    <3> QED
      BY <2>1, <2>2, <3>1, <3>2, OneReads
  <2>5. CASE ~(sent /\ active = 0)
    <3> DEFINE x == Assistants!Doing("get", 0, 0, {})
               o == outcome[c]
    <3>1. /\ active' = IF sent THEN v ELSE active
          /\ assistantCall' = [assistantCall EXCEPT ![c] = x]
          /\ outcome' = outcome
      BY <1>13, <2>5 DEF Assistants!SetLatestCommit, Assistants!Answering, Assistants!RowExists
    <3>2. x.op = "get"
      BY Fields
    <3>3. /\ DOMAIN assistantCall' = Callers /\ DOMAIN outcome' = Callers
          /\ \A d \in Callers : assistantCall'[d] = IF d = c THEN x ELSE assistantCall[d]
          /\ \A d \in Callers : outcome'[d] = IF d = c THEN o ELSE outcome[d]
      BY <3>1, <1>0
    <3>4. ~deleted => OutcomeOk(o, accepted)
      BY <1>O
    <3> HIDE DEF x, o, v, sent
    <3>5. ~deleted => VersionsTrue(assistantStore, active', versions', accepted') /\ active' # 0
      <4> SUFFICES ASSUME ~deleted
                   PROVE  VersionsTrue(assistantStore, active', versions', accepted') /\ active' # 0
        OBVIOUS
      <4>1. versions = 1..(1 + accepted) /\ active \in versions /\ v \in versions
        BY <2>2, <2>3, <1>V DEF VersionsTrue
      <4>2. active' \in versions
        BY <4>1, <3>1
      <4>3. active' # 0
        BY <4>1, <4>2, <1>0
      <4> QED
        BY <4>1, <4>2, <4>3, <2>1, <2>2 DEF VersionsTrue
    <3>6. ~deleted => CallOk(x, active', versions', accepted') /\ OutcomeOk(o, accepted')
      BY <2>1, <3>2, <3>4, <3>5 DEF CallOk
    <3> QED
      BY <2>1, <2>2, <3>3, <3>5, <3>6, <1>0, <1>N, OneRequest
  <2> QED
    BY <2>4, <2>5
<1>14. ASSUME NEW c \in Callers, Assistants!DeleteCommit(c) PROVE AssistantsInv'
  <2> DEFINE x == Assistants!Idle
  <2>1. /\ UNCHANGED <<assistantStore, accepted>> /\ deleted' = TRUE
        /\ assistantCall' = [assistantCall EXCEPT ![c] = x]
        /\ outcome' = [outcome EXCEPT ![c] = "ok"]
    BY <1>14 DEF Assistants!DeleteCommit, Assistants!Finish
  <2>2. x.op = "idle"
    BY Fields
  <2> HIDE DEF x
  <2>3. /\ DOMAIN assistantCall' = Callers /\ DOMAIN outcome' = Callers
        /\ \A d \in Callers : assistantCall'[d] = IF d = c THEN x ELSE assistantCall[d]
        /\ \A d \in Callers : outcome'[d] = IF d = c THEN "ok" ELSE outcome[d]
    BY <2>1, <1>0
  <2> QED
    BY <2>1, <2>2, <2>3, <1>0, <1>N, OneRequest
<1>15. ASSUME NEW c \in Callers, NEW o,
              Assistants!InMemory(c), Assistants!Ends(c, o),
              deleted' \in BOOLEAN, deleted => deleted', accepted' \in Nat, accepted <= accepted',
              ~deleted' => /\ active # 0 => active' # 0
                           /\ VersionsTrue(assistantStore, active', versions', accepted')
                           /\ OutcomeOk(o, accepted')
       PROVE  AssistantsInv'
  <2> DEFINE x == assistantCall[c]
  <2>1. /\ assistantStore = "memory" /\ UNCHANGED <<assistantStore, assistantCall>>
        /\ outcome' = [outcome EXCEPT ![c] = o]
    BY <1>15 DEF Assistants!InMemory, Assistants!Ends
  <2>2. x.op = "idle"
    BY <2>1, <1>0
  <2>3. /\ DOMAIN assistantCall' = Callers /\ DOMAIN outcome' = Callers
        /\ \A d \in Callers : assistantCall'[d] = IF d = c THEN x ELSE assistantCall[d]
        /\ \A d \in Callers : outcome'[d] = IF d = c THEN o ELSE outcome[d]
    BY <2>1, <1>0
  <2> HIDE DEF x
  <2>4. CallOk(x, active', versions', accepted')
    BY <2>2 DEF CallOk
  <2> QED
    BY <2>1, <2>2, <2>3, <2>4, <1>15, OneRequest
<1>16. ASSUME NEW c \in Callers, Assistants!CreateInMemory(c) PROVE AssistantsInv'
  <2> DEFINE o == IF active # 0 THEN "exists" ELSE "ok"
  <2>1. /\ Assistants!InMemory(c) /\ Assistants!Ends(c, o)
        /\ active' = IF active # 0 THEN active ELSE 1
        /\ versions' = IF active # 0 THEN versions ELSE {1}
        /\ UNCHANGED <<accepted, deleted>>
    BY <1>16 DEF Assistants!CreateInMemory, Assistants!RowExists
  <2>2. assistantStore = "memory"
    BY <2>1 DEF Assistants!InMemory
  <2>3. OutcomeOk(o, accepted')
    BY DEF OutcomeOk
  <2> HIDE DEF o
  <2>4. ~deleted' => VersionsTrue(assistantStore, active', versions', accepted')
    BY <2>1, <2>2, <1>V DEF VersionsTrue
  <2> QED
    BY <2>1, <2>3, <2>4, <1>0, <1>N, <1>15
<1>17. ASSUME NEW c \in Callers, Assistants!PatchInMemory(c) PROVE AssistantsInv'
  <2>1. /\ Assistants!InMemory(c) /\ Assistants!Ends(c, "ok") /\ active # 0
        /\ active' = active + 1 /\ versions' = {active + 1} /\ accepted' = accepted + 1
        /\ UNCHANGED deleted
    BY <1>17 DEF Assistants!PatchInMemory, Assistants!RowExists
  <2>2. assistantStore = "memory"
    BY <2>1 DEF Assistants!InMemory
  <2>3. OutcomeOk("ok", accepted')
    BY DEF OutcomeOk
  <2>4. ~deleted' => VersionsTrue(assistantStore, active', versions', accepted') /\ active' # 0
    BY <2>1, <2>2, <1>0, <1>V DEF VersionsTrue
  <2>5. accepted' \in Nat /\ accepted <= accepted'
    BY <2>1, <1>0
  <2> QED
    BY <2>1, <2>3, <2>4, <2>5, <1>0, <1>15
<1>18. ASSUME NEW c \in Callers, Assistants!DeleteInMemory(c) PROVE AssistantsInv'
  <2>1. Assistants!InMemory(c) /\ Assistants!Ends(c, "ok") /\ deleted' = TRUE /\ accepted' = accepted
    BY <1>18 DEF Assistants!DeleteInMemory
  <2> QED
    BY <2>1, <1>0, <1>N, <1>15
<1>19. ASSUME NEW c \in Callers, NEW v, Assistants!SetLatestInMemory(c, v) PROVE AssistantsInv'
  <2> DEFINE o == IF v = 1 THEN "ok" ELSE "unversioned"
  <2>1. Assistants!InMemory(c) /\ Assistants!Ends(c, o) /\ UNCHANGED <<active, versions, accepted, deleted>>
    BY <1>19 DEF Assistants!SetLatestInMemory
  <2>2. OutcomeOk(o, accepted')
    BY DEF OutcomeOk
  <2> HIDE DEF o
  <2> QED
    BY <2>1, <2>2, <1>0, <1>N, <1>V, <1>15
<1>20. ASSUME NEW c \in Callers, Assistants!ReadInMemory(c) PROVE AssistantsInv'
  <2> DEFINE o == IF Assistants!Found THEN "ok" ELSE "missing"
  <2>1. /\ Assistants!InMemory(c) /\ Assistants!Ends(c, o) /\ UNCHANGED <<active, versions, accepted, deleted>>
        /\ active # 0
    BY <1>20 DEF Assistants!ReadInMemory, Assistants!RowExists
  <2>2. assistantStore = "memory"
    BY <2>1 DEF Assistants!InMemory
  <2>3. ~deleted => active \in versions
    BY <2>1, <2>2, <1>V DEF VersionsTrue
  <2>4. ~deleted => o = "ok"
    BY <2>1, <2>3 DEF Assistants!Found, Assistants!Versions, Assistants!RowExists
  <2> HIDE DEF o
  <2>5. ~deleted => OutcomeOk(o, accepted')
    BY <2>4 DEF OutcomeOk
  <2> QED
    BY <2>1, <2>5, <1>0, <1>N, <1>V, <1>15
<1>21. ASSUME UNCHANGED Assistants!vars PROVE AssistantsInv'
  BY <1>21 DEF Assistants!vars, AssistantsInv, VersionsTrue, CallOk, OutcomeOk
<1> QED
  BY <1>1, <1>2, <1>3, <1>4, <1>5, <1>6, <1>7, <1>8, <1>9, <1>10, <1>11, <1>12, <1>13, <1>14,
     <1>16, <1>17, <1>18, <1>19, <1>20, <1>21
     DEF Assistants!Next, Assistants!Step, Assistants!SearchAssistants

\* Requests for an assistant fail only for a race with a delete or, if they
\* write, with an accepted update, for any number of requests at a time.
THEOREM FailsOnlyByRace == Assistants!Spec => []FailsOnlyIfRaced
<1>1. AssistantsInv => FailsOnlyIfRaced
  BY DEF AssistantsInv, OutcomeOk, FailsOnlyIfRaced, Assistants!FailsOnlyIfRaced
<1> QED
  BY <1>1, AssistantsStart, AssistantsStep, PTL DEF Assistants!Spec

\* The page of one version at an offset, where the versions are an interval.
LEMMA PageOfOne ==
  ASSUME NEW a \in Nat, NEW b \in Nat, 1 <= a, a <= b, Assistants!Versions = a..b, NEW n \in Nat
  PROVE  Assistants!AssistantVersions(1, n) = IF n <= b - a THEN <<b - n>> ELSE <<>>
<1>0. \A S : Assistants!Cardinality(S) = Cardinality(S)
  BY DEF Assistants!Cardinality, Cardinality
<1>1. Assistants!Cardinality(a..b) = b - a + 1
  BY <1>0, FS_Interval
<1>2. \A v \in a..b : {w \in a..b : w > v} = (v + 1)..b
  OBVIOUS
<1>3. ASSUME NEW v \in a..b PROVE Assistants!Cardinality({w \in a..b : w > v}) = b - v
  <2>1. {w \in a..b : w > v} = (v + 1)..b
    BY <1>2
  <2>2. Cardinality((v + 1)..b) = IF v + 1 > b THEN 0 ELSE b - (v + 1) + 1
    BY FS_Interval
  <2>3. Assistants!Cardinality({w \in a..b : w > v}) = Cardinality((v + 1)..b)
    BY <1>0, <2>1
  <2>4. (IF v + 1 > b THEN 0 ELSE b - (v + 1) + 1) = b - v
    OBVIOUS
  <2> QED
    BY <2>2, <2>3, <2>4, Zenon
<1> DEFINE m == Assistants!Min({1, Assistants!Cardinality(Assistants!Versions) - n})
<1>4. m = CHOOSE x \in {1, b - a + 1 - n} : \A y \in {1, b - a + 1 - n} : x <= y
  BY <1>1 DEF Assistants!Min
<1>5. Assistants!AssistantVersions(1, n) = [i \in 1..m |-> Assistants!Ranked(n + i - 1)]
  BY DEF Assistants!AssistantVersions
<1> HIDE DEF m
<1>6. CASE n <= b - a
  <2>1. \A x \in {1, b - a + 1 - n} : (\A y \in {1, b - a + 1 - n} : x <= y) <=> x = 1
    BY <1>6
  <2>2. m = 1
    BY <1>4, <2>1
  <2>3. b - n \in a..b /\ \A v \in a..b : b - v = n <=> v = b - n
    BY <1>6
  <2>4. Assistants!Ranked(n) = b - n
    <3>1. Assistants!Ranked(n) = CHOOSE v \in a..b : Assistants!Cardinality({w \in a..b : w > v}) = n
      BY DEF Assistants!Ranked
    <3>2. \A v \in a..b : Assistants!Cardinality({w \in a..b : w > v}) = n <=> v = b - n
      BY <1>3, <2>3
    <3> QED
      BY <2>3, <3>1, <3>2
  <2>5. [i \in 1..1 |-> Assistants!Ranked(n + i - 1)] = <<b - n>>
    <3>1. \A i \in 1..1 : i = 1 /\ n + i - 1 = n
      OBVIOUS
    <3>2. [i \in 1..1 |-> Assistants!Ranked(n + i - 1)] = [i \in 1..1 |-> b - n]
      BY <2>4, <3>1
    <3> QED
      BY <3>2
  <2> QED
    BY <1>5, <1>6, <2>2, <2>5
<1>7. CASE ~(n <= b - a)
  <2>1. b - a + 1 - n \in Int /\ b - a + 1 - n <= 0
    BY <1>7
  <2>2. \A x \in {1, b - a + 1 - n} : (\A y \in {1, b - a + 1 - n} : x <= y) <=> x = b - a + 1 - n
    BY <2>1
  <2>3. m = b - a + 1 - n
    BY <1>4, <2>2
  <2>4. 1..m = {}
    BY <2>1, <2>3
  <2>5. [i \in 1..m |-> Assistants!Ranked(n + i - 1)] = <<>>
    BY <2>4
  <2> QED
    BY <1>5, <1>7, <2>5
<1> QED
  BY <1>6, <1>7

\* While no delete interferes no accepted update is lost: paging through the
\* versions of an assistant shows one for every accepted update and the
\* first, the latest first, and the active one is among them; in memory the
\* one of the last update.
THEOREM NoVersionLost == Assistants!Spec => []UpdatesKeepVersions
<1>1. AssistantsInv => UpdatesKeepVersions
  <2> SUFFICES ASSUME AssistantsInv, active # 0, ~deleted
               PROVE  /\ Assistants!Found
                      /\ \A n \in 0..(1 + accepted) :
                           Assistants!AssistantVersions(1, n) =
                             IF n <= (IF assistantStore = "postgres" THEN accepted ELSE 0)
                             THEN <<1 + accepted - n>> ELSE <<>>
    BY DEF UpdatesKeepVersions, Assistants!UpdatesKeepVersions, Assistants!RowExists
  <2>1. accepted \in Nat /\ Assistants!Versions = versions
        /\ VersionsTrue(assistantStore, active, versions, accepted)
    BY DEF AssistantsInv, Assistants!Versions, Assistants!RowExists
  <2>2. Assistants!Found
    BY <2>1 DEF VersionsTrue, Assistants!Found
  <2>3. ASSUME NEW n \in 0..(1 + accepted)
        PROVE  Assistants!AssistantVersions(1, n) =
                 IF n <= (IF assistantStore = "postgres" THEN accepted ELSE 0)
                 THEN <<1 + accepted - n>> ELSE <<>>
    <3>0. n \in Nat /\ 1 + accepted \in Nat
      BY <2>1
    <3>1. CASE assistantStore = "postgres"
      <4>1. Assistants!Versions = 1..(1 + accepted)
        BY <2>1, <3>1 DEF VersionsTrue
      <4>2. Assistants!AssistantVersions(1, n) =
              IF n <= (1 + accepted) - 1 THEN <<1 + accepted - n>> ELSE <<>>
        <5> PICK b \in Nat : b = 1 + accepted
          BY <3>0
        <5>1. b \in Nat /\ n \in Nat /\ 1 \in Nat /\ 1 <= 1 /\ 1 <= b
          BY <2>1, <3>0
        <5>2. Assistants!Versions = 1..b
          BY <4>1
        <5>3. Assistants!AssistantVersions(1, n) = IF n <= b - 1 THEN <<b - n>> ELSE <<>>
          BY <5>1, <5>2, PageOfOne
        <5> QED
          BY <2>1, <3>0, <5>3
      <4>3. n <= (1 + accepted) - 1 <=> n <= accepted
        BY <2>1
      <4> QED
        BY <3>1, <4>2, <4>3
    <3>2. CASE assistantStore # "postgres"
      <4>1. Assistants!Versions = {1 + accepted}
        BY <2>1, <3>2 DEF VersionsTrue
      <4>2. (1 + accepted)..(1 + accepted) = {1 + accepted}
        BY <2>1
      <4>3. Assistants!AssistantVersions(1, n) =
              IF n <= (1 + accepted) - (1 + accepted) THEN <<1 + accepted - n>> ELSE <<>>
        <5> PICK b \in Nat : b = 1 + accepted
          BY <3>0
        <5>1. b \in Nat /\ n \in Nat /\ 1 <= b /\ b <= b
          BY <2>1, <3>0
        <5>2. Assistants!Versions = b..b
          BY <4>1, <4>2
        <5>3. Assistants!AssistantVersions(1, n) = IF n <= b - b THEN <<b - n>> ELSE <<>>
          BY <5>1, <5>2, PageOfOne
        <5> QED
          BY <2>1, <3>0, <5>3
      <4>4. (1 + accepted) - (1 + accepted) = 0
        BY <2>1
      <4> QED
        BY <3>2, <4>3, <4>4
    <3> QED
      BY <3>1, <3>2
  <2> QED
    BY <2>2, <2>3
<1> QED
  BY <1>1, AssistantsStart, AssistantsStep, PTL DEF Assistants!Spec

-----------------------------------------------------------------------------
(* Thread routes *)

CallFields == {"op", "thread", "key", "status", "meta", "rest", "stale"}

\* The shape of the tables and of the calls.
TypeOfRoutes ==
  /\ rows \in Seq(Threads)
  /\ DOMAIN status = Threads /\ DOMAIN meta = Threads
  /\ DOMAIN patched = Threads /\ DOMAIN marked = Threads
  /\ DOMAIN threadCall = ThreadCallers
  /\ \A c \in ThreadCallers : DOMAIN threadCall[c] = CallFields /\ threadCall[c].stale \in BOOLEAN
  /\ overlapped \in BOOLEAN

\* What is stored about a thread has every entry set and the last status.
RowTrue(t) == patched[t] \subseteq meta[t] /\ status[t] = marked[t]

RowsTrue == ~overlapped => \A t \in Threads : RowTrue(t)

\* What a request is about to write over the row of thread t.
CopyTrue(r) ==
  /\ patched[r.thread] \subseteq r.meta
  /\ r.op = "patch" => r.status = marked[r.thread]

\* A request that is about to write holds the entries that it sets, and all
\* that the row should have unless the row was written since it was read.
ReadTrue(r) == r.op \in {"patch", "mark"} =>
  /\ r.thread \in Threads
  /\ r.key \subseteq r.meta
  /\ ~r.stale /\ ~overlapped => CopyTrue(r)

\* In memory a request has the repository for itself and sees no change.
MemoryTrue == threadStore = "memory" =>
  /\ ~overlapped
  /\ \A c \in ThreadCallers : threadCall[c].op # "idle" =>
       ~threadCall[c].stale /\ \A d \in ThreadCallers \ {c} : threadCall[d].op = "idle"

RoutesInv ==
  /\ TypeOfRoutes
  /\ RowsTrue
  /\ \A c \in ThreadCallers : ReadTrue(threadCall[c])
  /\ MemoryTrue

\* No thread yet.
LEMMA RoutesStart == Routes!Init => RoutesInv
<1> SUFFICES ASSUME Routes!Init PROVE RoutesInv
  OBVIOUS
<1>1. \A c \in ThreadCallers :
        /\ DOMAIN threadCall[c] = CallFields /\ threadCall[c].stale = FALSE
        /\ threadCall[c].op = "idle"
  BY DEF Routes!Init, Routes!Idle, Routes!Doing, CallFields
<1>2. TypeOfRoutes
  <2>1. overlapped \in BOOLEAN /\ \A c \in ThreadCallers : threadCall[c].stale \in BOOLEAN
    BY <1>1 DEF Routes!Init
  <2>2. rows \in Seq(Threads) /\ DOMAIN threadCall = ThreadCallers
    BY DEF Routes!Init
  <2>3. /\ DOMAIN status = Threads /\ DOMAIN meta = Threads
        /\ DOMAIN patched = Threads /\ DOMAIN marked = Threads
    BY DEF Routes!Init
  <2> QED
    BY <1>1, <2>1, <2>2, <2>3, Zenon DEF TypeOfRoutes
<1>3. RowsTrue /\ overlapped = FALSE
  BY DEF Routes!Init, RowsTrue, RowTrue
<1>4. \A c \in ThreadCallers : ReadTrue(threadCall[c])
  BY <1>1 DEF ReadTrue
<1> QED
  BY <1>1, <1>2, <1>3, <1>4 DEF RoutesInv, MemoryTrue

\* A caller that goes on with s while the tables stay as they are.
LEMMA RouteCallSet ==
  ASSUME RoutesInv, NEW c \in ThreadCallers, NEW s,
         DOMAIN s = CallFields, s.stale = FALSE,
         threadCall' = [threadCall EXCEPT ![c] = s],
         threadStore' = threadStore, Routes!table' = Routes!table,
         s.op # "idle" => Routes!Turn(c),
         ReadTrue(s)
  PROVE  RoutesInv'
<1>1. \A d \in ThreadCallers : threadCall'[d] = IF d = c THEN s ELSE threadCall[d]
  BY DEF RoutesInv, TypeOfRoutes
<1>2. DOMAIN threadCall' = ThreadCallers
  BY DEF RoutesInv, TypeOfRoutes
<1>3. /\ rows' = rows /\ status' = status /\ meta' = meta /\ patched' = patched
      /\ marked' = marked /\ overlapped' = overlapped
  BY DEF Routes!table
<1>4. TypeOfRoutes'
  BY <1>1, <1>2, <1>3 DEF RoutesInv, TypeOfRoutes
<1>5. RowsTrue'
  BY <1>3 DEF RoutesInv, RowsTrue, RowTrue
<1>6. \A d \in ThreadCallers : ReadTrue(threadCall[d])'
  <2> SUFFICES ASSUME NEW d \in ThreadCallers PROVE ReadTrue(threadCall[d])'
    OBVIOUS
  <2> DEFINE r == threadCall'[d]
  <2>1. ReadTrue(r)
    BY <1>1 DEF RoutesInv
  <2> QED
    BY <2>1, <1>3 DEF ReadTrue, CopyTrue
<1>7. MemoryTrue'
  <2> SUFFICES ASSUME threadStore = "memory" PROVE MemoryTrue'
    BY DEF MemoryTrue
  <2>1. ~overlapped'
    BY <1>3 DEF RoutesInv, MemoryTrue
  <2>2. CASE s.op = "idle"
    BY <2>1, <2>2, <1>1 DEF RoutesInv, MemoryTrue
  <2>3. CASE s.op # "idle"
    BY <2>1, <2>3, <1>1 DEF RoutesInv, MemoryTrue, Routes!Turn
  <2> QED
    BY <2>2, <2>3
<1> QED
  BY <1>4, <1>5, <1>6, <1>7 DEF RoutesInv

\* A caller that changes what is stored about thread t and goes on with s,
\* which writes nothing more: the others that have read t are out of date.
LEMMA RouteDisturbs ==
  ASSUME RoutesInv, NEW c \in ThreadCallers, NEW t \in Threads, NEW s,
         Routes!Disturbs(c, t, s), DOMAIN s = CallFields, s.stale \in BOOLEAN,
         s.op \notin {"patch", "mark"},
         s.op # "idle" => threadCall[c].op # "idle" /\ s.stale = threadCall[c].stale,
         s.op = "idle" => threadCall[c].op # "idle" \/ Routes!Turn(c),
         threadStore' = threadStore, rows' \in Seq(Threads),
         DOMAIN status' = Threads, DOMAIN meta' = Threads,
         DOMAIN patched' = Threads, DOMAIN marked' = Threads,
         overlapped' \in BOOLEAN, overlapped => overlapped',
         threadStore = "memory" => ~overlapped',
         \A u \in Threads \ {t} : /\ status'[u] = status[u] /\ meta'[u] = meta[u]
                                  /\ patched'[u] = patched[u] /\ marked'[u] = marked[u],
         ~overlapped' => RowTrue(t)'
  PROVE  RoutesInv'
<1>1. DOMAIN threadCall' = ThreadCallers /\ threadCall'[c] = s
  BY DEF Routes!Disturbs
<1>2. ASSUME NEW d \in ThreadCallers, d # c
      PROVE  /\ DOMAIN threadCall'[d] = CallFields
             /\ threadCall'[d].op = threadCall[d].op
             /\ threadCall'[d].thread = threadCall[d].thread
             /\ threadCall'[d].key = threadCall[d].key
             /\ threadCall'[d].status = threadCall[d].status
             /\ threadCall'[d].meta = threadCall[d].meta
             /\ threadCall'[d].stale = (threadCall[d].stale \/ threadCall[d].thread = t)
  <2>1. threadCall'[d] = [threadCall[d] EXCEPT !.stale = @ \/ threadCall[d].thread = t]
    BY <1>2 DEF Routes!Disturbs
  <2>2. DOMAIN threadCall[d] = CallFields
    BY DEF RoutesInv, TypeOfRoutes
  <2> QED
    BY <2>1, <2>2 DEF CallFields
<1>3. TypeOfRoutes'
  <2>1. \A d \in ThreadCallers : DOMAIN threadCall'[d] = CallFields /\ threadCall'[d].stale \in BOOLEAN
    BY <1>1, <1>2
  <2> QED
    BY <1>1, <2>1 DEF TypeOfRoutes
<1>4. RowsTrue'
  BY DEF RoutesInv, RowsTrue, RowTrue
<1>5. \A d \in ThreadCallers : ReadTrue(threadCall[d])'
  <2> SUFFICES ASSUME NEW d \in ThreadCallers, d # c, threadCall[d].op \in {"patch", "mark"}
               PROVE  ReadTrue(threadCall[d])'
    BY <1>1, <1>2 DEF ReadTrue
  <2>1. ReadTrue(threadCall[d])
    BY DEF RoutesInv
  <2>2. threadCall[d].thread \in Threads /\ threadCall[d].key \subseteq threadCall[d].meta
    BY <2>1 DEF ReadTrue
  <2>3. ASSUME ~threadCall'[d].stale, ~overlapped' PROVE CopyTrue(threadCall[d])'
    <3>1. ~threadCall[d].stale /\ threadCall[d].thread # t
      BY <1>2, <2>3
    <3>2. CopyTrue(threadCall[d])
      BY <2>1, <2>3, <3>1 DEF ReadTrue
    <3> QED
      BY <1>2, <2>2, <3>1, <3>2 DEF CopyTrue
  <2> QED
    BY <1>2, <2>2, <2>3 DEF ReadTrue
<1>6. MemoryTrue'
  <2> SUFFICES ASSUME threadStore = "memory" PROVE MemoryTrue'
    BY DEF MemoryTrue
  <2>1. \A d \in ThreadCallers \ {c} : threadCall[d].op = "idle"
    BY DEF RoutesInv, MemoryTrue, Routes!Turn
  <2>2. \A d \in ThreadCallers \ {c} : threadCall'[d].op = "idle"
    BY <1>2, <2>1
  <2>3. s.op # "idle" => ~s.stale
    BY DEF RoutesInv, MemoryTrue
  <2> QED
    BY <1>1, <2>2, <2>3 DEF MemoryTrue
<1> QED
  BY <1>3, <1>4, <1>5, <1>6 DEF RoutesInv

\* Taking a row out leaves rows of threads.
LEMMA RowRemoved ==
  ASSUME rows \in Seq(Threads), NEW i \in DOMAIN rows
  PROVE  Routes!RemoveAt(rows, i) \in Seq(Threads)
<1>1. i \in 1..Len(rows) /\ Len(rows) \in Nat
  OBVIOUS
<1>2. SubSeq(rows, 1, i - 1) \in Seq(Threads)
  <2>1. \A j \in 1..(i - 1) : rows[j] \in Threads
    BY <1>1
  <2>2. i - 1 \in Int /\ 1 \in Int
    BY <1>1
  <2> QED
    BY <2>1, <2>2, SubSeqProperties
<1>3. SubSeq(rows, i + 1, Len(rows)) \in Seq(Threads)
  <2>1. \A j \in (i + 1)..Len(rows) : rows[j] \in Threads
    BY <1>1
  <2>2. i + 1 \in Int /\ Len(rows) \in Int
    BY <1>1
  <2> QED
    BY <2>1, <2>2, SubSeqProperties
<1> QED
  BY <1>2, <1>3 DEF Routes!RemoveAt

\* A thread created anew has no entry set and is idle.
LEMMA ThreadCreated ==
  ASSUME RoutesInv, NEW c \in ThreadCallers, NEW t \in Threads, NEW entries,
         Routes!Create(t, entries), Routes!Disturbs(c, t, Routes!Idle),
         threadCall[c].op # "idle" \/ Routes!Turn(c),
         threadStore' = threadStore, overlapped' = overlapped
  PROVE  RoutesInv'
<1> DEFINE s == Routes!Idle
<1>1. DOMAIN s = CallFields /\ s.stale = FALSE /\ s.op = "idle"
  BY DEF Routes!Idle, Routes!Doing, CallFields
<1> HIDE DEF s
<1>2. Routes!Disturbs(c, t, s)
  BY DEF s
<1>3. rows' \in Seq(Threads)
  BY DEF Routes!Create, RoutesInv, TypeOfRoutes
<1>4. /\ DOMAIN status' = Threads /\ DOMAIN meta' = Threads
      /\ DOMAIN patched' = Threads /\ DOMAIN marked' = Threads
      /\ \A u \in Threads \ {t} : /\ status'[u] = status[u] /\ meta'[u] = meta[u]
                                  /\ patched'[u] = patched[u] /\ marked'[u] = marked[u]
  BY DEF Routes!Create, RoutesInv, TypeOfRoutes
<1>5. RowTrue(t)'
  BY DEF Routes!Create, RowTrue, RoutesInv, TypeOfRoutes
<1>6. overlapped' \in BOOLEAN /\ (overlapped => overlapped') /\ (threadStore = "memory" => ~overlapped')
  BY DEF RoutesInv, TypeOfRoutes, MemoryTrue
<1> QED
  BY <1>1, <1>2, <1>3, <1>4, <1>5, <1>6, RouteDisturbs

\* A deleted row leaves what was stored with it to nobody.
LEMMA ThreadDeleted ==
  ASSUME RoutesInv, NEW c \in ThreadCallers, NEW t \in Threads, NEW s,
         Routes!Delete(t), Routes!Disturbs(c, t, s),
         DOMAIN s = CallFields, s.stale \in BOOLEAN, s.op \notin {"patch", "mark"},
         s.op # "idle" => threadCall[c].op # "idle" /\ s.stale = threadCall[c].stale,
         s.op = "idle" => threadCall[c].op # "idle" \/ Routes!Turn(c),
         threadStore' = threadStore
  PROVE  RoutesInv'
<1>1. rows' \in Seq(Threads)
  <2>1. PICK i \in DOMAIN rows : rows' = Routes!RemoveAt(rows, i)
    BY DEF Routes!Delete
  <2> QED
    BY <2>1, RowRemoved DEF RoutesInv, TypeOfRoutes
<1>2. /\ status' = status /\ meta' = meta /\ patched' = patched /\ marked' = marked
      /\ overlapped' = overlapped
  BY DEF Routes!Delete
<1>3. /\ DOMAIN status' = Threads /\ DOMAIN meta' = Threads
      /\ DOMAIN patched' = Threads /\ DOMAIN marked' = Threads
      /\ overlapped' \in BOOLEAN /\ (overlapped => overlapped') /\ (threadStore = "memory" => ~overlapped')
      /\ \A u \in Threads \ {t} : /\ status'[u] = status[u] /\ meta'[u] = meta[u]
                                  /\ patched'[u] = patched[u] /\ marked'[u] = marked[u]
  BY <1>2 DEF RoutesInv, TypeOfRoutes, MemoryTrue
<1>4. ~overlapped' => RowTrue(t)'
  BY <1>2 DEF RoutesInv, RowsTrue, RowTrue
<1> QED
  BY <1>1, <1>3, <1>4, RouteDisturbs

\* An update from a row that is not out of date writes all that the row should
\* have; from one that is, it is an overlap.
LEMMA RowUpdated ==
  ASSUME RoutesInv, NEW c \in ThreadCallers, Routes!Update(c)
  PROVE  RoutesInv'
<1> DEFINE s == Routes!Idle
<1>1. /\ threadCall[c].op \in {"patch", "mark"} /\ ReadTrue(threadCall[c])
      /\ threadCall[c].thread \in Threads
  BY DEF Routes!Update, RoutesInv, ReadTrue
<1> PICK t \in Threads : t = threadCall[c].thread
  BY <1>1
<1>2. t \in Threads /\ threadCall[c].key \subseteq threadCall[c].meta
  BY <1>1 DEF ReadTrue
<1>3. DOMAIN s = CallFields /\ s.stale = FALSE /\ s.op = "idle"
  BY DEF Routes!Idle, Routes!Doing, CallFields
<1>4. threadStore' = threadStore
  BY DEF Routes!Update
<1>5. CASE t \in Routes!Stored
  <2>1. /\ status' = [status EXCEPT ![t] = threadCall[c].status]
        /\ meta' = [meta EXCEPT ![t] = threadCall[c].meta]
        /\ patched' = [patched EXCEPT ![t] = @ \union threadCall[c].key]
        /\ overlapped' = (overlapped \/ threadCall[c].stale)
        /\ Routes!Disturbs(c, t, s)
        /\ rows' = rows
    BY <1>5 DEF Routes!Update
  <2>2. marked' = IF threadCall[c].op = "mark" THEN [marked EXCEPT ![t] = threadCall[c].status] ELSE marked
    BY <1>5 DEF Routes!Update
  <2> HIDE DEF s
  <2>3. /\ DOMAIN status' = Threads /\ DOMAIN meta' = Threads
        /\ DOMAIN patched' = Threads /\ DOMAIN marked' = Threads /\ rows' \in Seq(Threads)
    BY <2>1, <2>2 DEF RoutesInv, TypeOfRoutes
  <2>4. \A u \in Threads \ {t} : /\ status'[u] = status[u] /\ meta'[u] = meta[u]
                                 /\ patched'[u] = patched[u] /\ marked'[u] = marked[u]
    BY <2>1, <2>2 DEF RoutesInv, TypeOfRoutes
  <2>5. overlapped' \in BOOLEAN /\ (overlapped => overlapped')
    BY <2>1 DEF RoutesInv, TypeOfRoutes
  <2>6. threadStore = "memory" => ~overlapped'
    BY <1>1, <2>1 DEF RoutesInv, MemoryTrue
  <2>7. ASSUME ~overlapped' PROVE RowTrue(t)'
    <3>1. ~overlapped /\ ~threadCall[c].stale
      BY <2>1, <2>7
    <3>2. CopyTrue(threadCall[c])
      BY <1>1, <3>1 DEF ReadTrue
    <3>3. /\ status'[t] = threadCall[c].status /\ meta'[t] = threadCall[c].meta
          /\ patched'[t] = patched[t] \union threadCall[c].key
      BY <1>2, <2>1 DEF RoutesInv, TypeOfRoutes
    <3>4. patched'[t] \subseteq meta'[t]
      BY <1>2, <3>2, <3>3 DEF CopyTrue
    <3>5. CASE threadCall[c].op = "mark"
      <4>1. marked'[t] = threadCall[c].status
        BY <1>2, <2>2, <3>5 DEF RoutesInv, TypeOfRoutes
      <4> QED
        BY <3>3, <3>4, <4>1 DEF RowTrue
    <3>6. CASE threadCall[c].op = "patch"
      <4>1. marked'[t] = marked[t]
        BY <2>2, <3>6
      <4> QED
        BY <3>2, <3>3, <3>4, <3>6, <4>1 DEF RowTrue, CopyTrue
    <3> QED
      BY <1>1, <3>5, <3>6
  <2> QED
    BY <1>1, <1>2, <1>3, <1>4, <2>1, <2>3, <2>4, <2>5, <2>6, <2>7, RouteDisturbs
<1>6. CASE t \notin Routes!Stored
  <2>1. threadCall' = [threadCall EXCEPT ![c] = s] /\ Routes!table' = Routes!table
    BY <1>6 DEF Routes!Update
  <2>2. ReadTrue(s)
    BY <1>3 DEF ReadTrue
  <2> HIDE DEF s
  <2> QED
    BY <1>3, <1>4, <2>1, <2>2, RouteCallSet
<1> QED
  BY <1>5, <1>6

\* POST /threads/prune deletes its next thread or gives up.
LEMMA PruneStep ==
  ASSUME RoutesInv, NEW c \in ThreadCallers, Routes!PruneNext(c)
  PROVE  RoutesInv'
<1> DEFINE t == Head(threadCall[c].rest)
           rest == Tail(threadCall[c].rest)
           s == IF rest = <<>> THEN Routes!Idle ELSE [threadCall[c] EXCEPT !.rest = rest]
           i == Routes!Idle
<1>1. threadCall[c].op = "prune" /\ threadStore' = threadStore
  BY DEF Routes!PruneNext
<1>2. DOMAIN i = CallFields /\ i.stale = FALSE /\ i.op = "idle"
  BY DEF Routes!Idle, Routes!Doing, CallFields
<1>3. DOMAIN threadCall[c] = CallFields /\ threadCall[c].stale \in BOOLEAN
  BY DEF RoutesInv, TypeOfRoutes
<1>4. CASE t \in Routes!Stored
  <2>1. Routes!Delete(t) /\ Routes!Disturbs(c, t, s)
    BY <1>4 DEF Routes!PruneNext
  <2>2. t \in Threads
    BY <1>4 DEF Routes!Stored, Routes!ToSet, RoutesInv, TypeOfRoutes
  <2> DEFINE k == [threadCall[c] EXCEPT !.rest = rest]
  <2>3. DOMAIN k = CallFields /\ k.stale = threadCall[c].stale /\ k.op = "prune"
    BY <1>1, <1>3 DEF CallFields
  <2>4. s = i \/ s = k
    OBVIOUS
  <2> HIDE DEF t, rest, s, i, k
  <2>5. /\ DOMAIN s = CallFields /\ s.stale \in BOOLEAN /\ s.op \notin {"patch", "mark"}
        /\ (s.op # "idle" => s.stale = threadCall[c].stale)
    BY <1>2, <1>3, <2>3, <2>4
  <2> QED
    BY <1>1, <2>1, <2>2, <2>5, ThreadDeleted
<1>5. CASE t \notin Routes!Stored
  <2>1. threadCall' = [threadCall EXCEPT ![c] = i] /\ Routes!table' = Routes!table
    BY <1>5 DEF Routes!PruneNext
  <2>2. ReadTrue(i)
    BY <1>2 DEF ReadTrue
  <2> HIDE DEF t, rest, s, i
  <2> QED
    BY <1>1, <1>2, <2>1, <2>2, RouteCallSet
<1> QED
  BY <1>4, <1>5

\* The requests: those that only read keep a copy of the row as it is.
LEMMA RouteRequestStep ==
  ASSUME RoutesInv, NEW c \in ThreadCallers, Routes!Request(c)
  PROVE  RoutesInv'
<1> DEFINE i == Routes!Idle
<1>0. DOMAIN i = CallFields /\ i.stale = FALSE /\ i.op = "idle"
  BY DEF Routes!Idle, Routes!Doing, CallFields
<1> HIDE DEF i
<1>1. ASSUME NEW t \in Threads, Routes!CreateThread(c, t) PROVE RoutesInv'
  BY <1>1, ThreadCreated DEF Routes!CreateThread, Routes!Begins
<1>2. ASSUME NEW t \in Threads, Routes!DeleteThread(c, t) PROVE RoutesInv'
  <2>1. Routes!Delete(t) /\ Routes!Disturbs(c, t, i) /\ Routes!Turn(c) /\ threadStore' = threadStore
    BY <1>2 DEF Routes!DeleteThread, Routes!Begins, i
  <2> QED
    BY <1>0, <2>1, ThreadDeleted
<1>3. ASSUME NEW s, DOMAIN s = CallFields, s.stale = FALSE, ReadTrue(s), Routes!Begins(c),
             threadCall' = [threadCall EXCEPT ![c] = s], threadStore' = threadStore,
             Routes!table' = Routes!table
      PROVE  RoutesInv'
  BY <1>3, RouteCallSet DEF Routes!Begins
<1>4. ASSUME NEW t \in Threads, Routes!CopyRead(c, t) PROVE RoutesInv'
  <2> DEFINE s == Routes!Doing("copy", NoOne, {}, "idle", meta[t], <<>>)
  <2>1. DOMAIN s = CallFields /\ s.stale = FALSE /\ s.op = "copy"
    BY DEF Routes!Doing, CallFields
  <2>2. ReadTrue(s)
    BY <2>1 DEF ReadTrue
  <2>3. /\ Routes!Begins(c) /\ threadCall' = [threadCall EXCEPT ![c] = s]
        /\ threadStore' = threadStore /\ Routes!table' = Routes!table
    BY <1>4 DEF Routes!CopyRead
  <2> HIDE DEF s
  <2> QED
    BY <1>3, <2>1, <2>2, <2>3
<1>5. ASSUME NEW ids, Routes!PruneThreads(c, ids) PROVE RoutesInv'
  <2> DEFINE s == Routes!Doing("prune", NoOne, {}, "idle", {}, ids)
  <2>1. DOMAIN s = CallFields /\ s.stale = FALSE /\ s.op = "prune"
    BY DEF Routes!Doing, CallFields
  <2>2. ReadTrue(s)
    BY <2>1 DEF ReadTrue
  <2>3. /\ Routes!Begins(c) /\ threadCall' = [threadCall EXCEPT ![c] = s]
        /\ threadStore' = threadStore /\ Routes!table' = Routes!table
    BY <1>5 DEF Routes!PruneThreads
  <2> HIDE DEF s
  <2> QED
    BY <1>3, <2>1, <2>2, <2>3
<1>6. ASSUME NEW t \in Threads, NEW k \in Keys, Routes!PatchRead(c, t, k) PROVE RoutesInv'
  <2> DEFINE s == Routes!Doing("patch", t, {k}, status[t], meta[t] \union {k}, <<>>)
  <2>1. /\ DOMAIN s = CallFields /\ s.stale = FALSE /\ s.op = "patch" /\ s.thread = t
        /\ s.key = {k} /\ s.status = status[t] /\ s.meta = meta[t] \union {k}
    BY DEF Routes!Doing, CallFields
  <2>2. ~overlapped => RowTrue(t)
    BY DEF RoutesInv, RowsTrue
  <2>3. /\ Routes!Begins(c) /\ threadCall' = [threadCall EXCEPT ![c] = s]
        /\ threadStore' = threadStore /\ Routes!table' = Routes!table
    BY <1>6 DEF Routes!PatchRead
  <2> HIDE DEF s
  <2>4. ReadTrue(s)
    BY <2>1, <2>2 DEF ReadTrue, CopyTrue, RowTrue
  <2> QED
    BY <1>3, <2>1, <2>3, <2>4
<1>7. ASSUME NEW t \in Threads, NEW st, Routes!MarkRead(c, t, st) PROVE RoutesInv'
  <2> DEFINE s == Routes!Doing("mark", t, {}, st, meta[t], <<>>)
  <2>1. /\ DOMAIN s = CallFields /\ s.stale = FALSE /\ s.op = "mark" /\ s.thread = t
        /\ s.key = {} /\ s.meta = meta[t]
    BY DEF Routes!Doing, CallFields
  <2>2. ~overlapped => RowTrue(t)
    BY DEF RoutesInv, RowsTrue
  <2>3. /\ Routes!Begins(c) /\ threadCall' = [threadCall EXCEPT ![c] = s]
        /\ threadStore' = threadStore /\ Routes!table' = Routes!table
    BY <1>7 DEF Routes!MarkRead
  <2> HIDE DEF s
  <2>4. ReadTrue(s)
    BY <2>1, <2>2 DEF ReadTrue, CopyTrue, RowTrue
  <2> QED
    BY <1>3, <2>1, <2>3, <2>4
<1> QED
  BY <1>1, <1>2, <1>4, <1>5, <1>6, <1>7 DEF Routes!Request

\* Every request for a thread, and every run of one, keeps the rows true.
LEMMA RoutesStep == RoutesInv /\ [Routes!Next]_(Routes!vars) => RoutesInv'
<1> SUFFICES ASSUME RoutesInv, [Routes!Next]_(Routes!vars) PROVE RoutesInv'
  OBVIOUS
<1>1. ASSUME threadCall' = threadCall, threadStore' = threadStore, Routes!table' = Routes!table
      PROVE  RoutesInv'
  <2>1. /\ rows' = rows /\ status' = status /\ meta' = meta /\ patched' = patched
        /\ marked' = marked /\ overlapped' = overlapped
    BY <1>1 DEF Routes!table
  <2> QED
    BY <1>1, <2>1 DEF RoutesInv, TypeOfRoutes, RowsTrue, RowTrue, ReadTrue, CopyTrue, MemoryTrue
<1>2. ASSUME NEW t \in Threads, Routes!RunCreated(t) PROVE RoutesInv'
  BY <1>1, <1>2 DEF Routes!RunCreated
<1>3. ASSUME NEW i \in DOMAIN runs, Routes!RunEnds(i) \/ Routes!DeleteRun(i) PROVE RoutesInv'
  BY <1>1, <1>3 DEF Routes!RunEnds, Routes!DeleteRun
<1>4. ASSUME NEW c \in ThreadCallers, NEW t \in Threads, Routes!CopyThread(c, t) PROVE RoutesInv'
  <2>1. threadCall[c].op # "idle"
    BY <1>4 DEF Routes!CopyThread
  <2> QED
    BY <1>4, <2>1, ThreadCreated DEF Routes!CopyThread
<1>5. CASE UNCHANGED Routes!vars
  BY <1>1, <1>5 DEF Routes!vars, Routes!table
<1> QED
  BY <1>2, <1>3, <1>4, <1>5, RouteRequestStep, PruneStep, RowUpdated DEF Routes!Next

\* An entry set by a PATCH and the status written last by the service stay in
\* the row of a thread unless an update was made from a row that was out of
\* date, which never happens over the in-memory repository.
THEOREM UpdatesAreKept == Routes!Spec => []UpdatesKept
<1>1. RoutesInv => UpdatesKept
  <2> SUFFICES ASSUME RoutesInv, threadStore = "memory" \/ ~overlapped, NEW t \in Routes!Stored
               PROVE  patched[t] \subseteq meta[t] /\ status[t] = marked[t]
    BY DEF UpdatesKept, Routes!UpdatesKept
  <2>1. t \in Threads
    BY DEF Routes!Stored, Routes!ToSet, RoutesInv, TypeOfRoutes
  <2>2. ~overlapped
    BY DEF RoutesInv, MemoryTrue
  <2> QED
    BY <2>1, <2>2 DEF RoutesInv, RowsTrue, RowTrue
<1> QED
  BY <1>1, RoutesStart, RoutesStep, PTL DEF Routes!Spec

-----------------------------------------------------------------------------
(* The lists of the thread routes *)

\* The routes use these operators.
LEMMA SameOperators ==
  /\ \A s, places : Routes!Only(s, places) = Only(s, places)
  /\ \A s, limit, offset : Routes!Slice(s, limit, offset) = Slice(s, limit, offset)
  /\ \A pages, s : Routes!Concatenate(pages, s) = Concatenate(pages, s)
<1>1. ASSUME NEW S PROVE Routes!Cardinality(S) = Cardinality(S)
  BY DEF Routes!Cardinality, Cardinality
<1>2. ASSUME NEW s, NEW places PROVE Routes!Only(s, places) = Only(s, places)
  BY DEF Routes!Only, Routes!Nth, Routes!Cardinality, Only, Nth, Cardinality
<1>3. ASSUME NEW s, NEW limit, NEW offset PROVE Routes!Slice(s, limit, offset) = Slice(s, limit, offset)
  BY DEF Routes!Slice, Slice
<1>4. ASSUME NEW s, NEW pages PROVE Routes!Concatenate(pages, s) = Concatenate(pages, s)
  BY DEF Routes!Concatenate, Concatenate
<1> QED BY <1>2, <1>3, <1>4

StoredRun == [thread : Threads, status : {"pending", "success"}]

\* The rows of runs, and that a thread has one active run at most.
RunsInv ==
  /\ runs \in Seq(StoredRun)
  /\ \A i, j \in DOMAIN runs :
       runs[i].thread = runs[j].thread /\ runs[i].status = "pending" /\ runs[j].status = "pending" => i = j

\* Creating, ending and deleting runs keeps that.
LEMMA RunsStep == RoutesInv /\ RunsInv /\ [Routes!Next]_(Routes!vars) => RunsInv'
<1> SUFFICES ASSUME RoutesInv, RunsInv, [Routes!Next]_(Routes!vars) PROVE RunsInv'
  OBVIOUS
<1>1. runs \in Seq(StoredRun) /\ Len(runs) \in Nat /\ DOMAIN runs = 1..Len(runs)
      /\ \A i \in 1..Len(runs) : runs[i] \in StoredRun
  BY LenProperties, ElementOfSeq DEF RunsInv
<1>2. ASSUME UNCHANGED runs PROVE RunsInv'
  BY <1>2 DEF RunsInv
<1>3. ASSUME NEW t \in Threads, Routes!RunCreated(t) PROVE RunsInv'
  <2> DEFINE new == [thread |-> t, status |-> "pending"]
  <2>1. new \in StoredRun /\ <<new>> \in Seq(StoredRun) /\ runs' = <<new>> \o runs
    BY <1>3 DEF StoredRun, Routes!RunCreated
  <2>2. \A i \in 1..Len(runs) : runs[i].thread = t => runs[i].status # "pending"
    BY <1>1, <1>3 DEF Routes!RunCreated, Routes!Active
  <2>3. /\ runs' \in Seq(StoredRun) /\ Len(runs') = Len(runs) + 1
        /\ \A i \in 1..(Len(runs) + 1) : runs'[i] = IF i = 1 THEN new ELSE runs[i - 1]
    <3> HIDE DEF new
    <3> QED BY <1>1, <2>1
  <2>4. DOMAIN runs' = 1..(Len(runs) + 1)
    BY <2>3, LenProperties
  <2>5. ASSUME NEW i \in 1..(Len(runs) + 1), NEW j \in 1..(Len(runs) + 1), i < j,
               runs'[i].thread = runs'[j].thread, runs'[i].status = "pending", runs'[j].status = "pending"
        PROVE  FALSE
    <3>1. j - 1 \in 1..Len(runs) /\ runs'[j] = runs[j - 1]
      BY <1>1, <2>3, <2>5
    <3>2. CASE i = 1
      BY <2>2, <2>3, <2>5, <3>1, <3>2
    <3>3. CASE i # 1
      <4>1. i - 1 \in 1..Len(runs) /\ runs'[i] = runs[i - 1] /\ i - 1 # j - 1
        BY <1>1, <2>3, <2>5, <3>3
      <4> QED BY <1>1, <2>5, <3>1, <4>1 DEF RunsInv
    <3> QED BY <3>2, <3>3
  <2>6. \A i, j \in 1..(Len(runs) + 1) :
          runs'[i].thread = runs'[j].thread /\ runs'[i].status = "pending" /\ runs'[j].status = "pending" => i = j
    BY <1>1, <2>5
  <2> HIDE DEF new
  <2> QED BY <2>3, <2>4, <2>6 DEF RunsInv
<1>4. ASSUME NEW i \in DOMAIN runs, Routes!RunEnds(i) PROVE RunsInv'
  <2>1. runs' = [runs EXCEPT ![i].status = "success"]
    BY <1>4 DEF Routes!RunEnds
  <2>2. runs[i] \in StoredRun /\ [runs[i] EXCEPT !.status = "success"] \in StoredRun
    BY <1>1 DEF StoredRun
  <2>3. runs' \in Seq(StoredRun) /\ DOMAIN runs' = DOMAIN runs
    BY <1>1, <2>1, <2>2
  <2>4. \A j \in DOMAIN runs : /\ runs'[j].status = "pending" => j # i
                               /\ j # i => runs'[j] = runs[j]
    BY <1>1, <2>1, <2>2 DEF StoredRun
  <2> QED BY <2>3, <2>4 DEF RunsInv
<1>5. ASSUME NEW i \in DOMAIN runs, Routes!DeleteRun(i) PROVE RunsInv'
  <2>1. runs' = SubSeq(runs, 1, i - 1) \o SubSeq(runs, i + 1, Len(runs))
    BY <1>5 DEF Routes!DeleteRun, Routes!RemoveAt
  <2>2. i \in 1..Len(runs)
    BY <1>1
  <2>3. /\ SubSeq(runs, 1, i - 1) \in Seq(StoredRun) /\ Len(SubSeq(runs, 1, i - 1)) = i - 1
        /\ \A j \in 1..(i - 1) : SubSeq(runs, 1, i - 1)[j] = runs[j]
    BY <1>1, <2>2
  <2>4. /\ SubSeq(runs, i + 1, Len(runs)) \in Seq(StoredRun) /\ Len(SubSeq(runs, i + 1, Len(runs))) = Len(runs) - i
        /\ \A j \in 1..(Len(runs) - i) : SubSeq(runs, i + 1, Len(runs))[j] = runs[i + j]
    BY <1>1, <2>2
  <2>5. /\ runs' \in Seq(StoredRun) /\ Len(runs') = Len(runs) - 1
        /\ \A j \in 1..(Len(runs) - 1) : runs'[j] = runs[IF j < i THEN j ELSE j + 1]
    <3>1. PICK p \in Seq(StoredRun) : p = SubSeq(runs, 1, i - 1)
      BY <2>3
    <3>2. PICK q \in Seq(StoredRun) : q = SubSeq(runs, i + 1, Len(runs))
      BY <2>4
    <3>3. /\ p \o q \in Seq(StoredRun) /\ Len(p \o q) = Len(p) + Len(q)
          /\ \A j \in 1..(Len(p) + Len(q)) : (p \o q)[j] = IF j <= Len(p) THEN p[j] ELSE q[j - Len(p)]
      OBVIOUS
    <3>4. Len(p) = i - 1 /\ Len(q) = Len(runs) - i /\ runs' = p \o q
      BY <2>1, <2>3, <2>4, <3>1, <3>2
    <3>5. ASSUME NEW j \in 1..(Len(runs) - 1)
          PROVE  runs'[j] = runs[IF j < i THEN j ELSE j + 1]
      <4>1. CASE j < i
        BY <1>1, <2>2, <2>3, <3>1, <3>3, <3>4, <4>1
      <4>2. CASE ~(j < i)
        <5>1. j \in 1..(Len(p) + Len(q)) /\ ~(j <= Len(p))
          BY <1>1, <2>2, <3>4, <4>2
        <5>2. runs'[j] = q[j - Len(p)]
          BY <3>3, <3>4, <5>1
        <5>3. j - Len(p) \in 1..(Len(runs) - i) /\ i + (j - Len(p)) = j + 1
          BY <1>1, <2>2, <3>4, <4>2
        <5> QED BY <2>4, <3>2, <4>2, <5>2, <5>3
      <4> QED BY <4>1, <4>2
    <3>6. Len(p) + Len(q) = Len(runs) - 1
      BY <1>1, <2>2, <3>4
    <3>7. runs' \in Seq(StoredRun) /\ Len(runs') = Len(runs) - 1
      BY <3>3, <3>4, <3>6
    <3> QED BY <3>5, <3>7
  <2>6. DOMAIN runs' = 1..(Len(runs) - 1)
    BY <2>5, LenProperties
  <2> DEFINE old(j) == IF j < i THEN j ELSE j + 1
  <2>7. \A j \in 1..(Len(runs) - 1) : old(j) \in 1..Len(runs) /\ runs'[j] = runs[old(j)]
    BY <1>1, <2>2, <2>5
  <2>8. \A j, k \in 1..(Len(runs) - 1) : old(j) = old(k) => j = k
    BY <1>1, <2>2
  <2> HIDE DEF old
  <2> QED BY <1>1, <2>5, <2>6, <2>7, <2>8 DEF RunsInv
<1>6. ASSUME NEW c \in ThreadCallers, Routes!Request(c) PROVE UNCHANGED runs
  BY <1>6 DEF Routes!Request, Routes!CreateThread, Routes!CopyRead, Routes!DeleteThread,
     Routes!PatchRead, Routes!MarkRead, Routes!PruneThreads
<1>7. ASSUME NEW c \in ThreadCallers, Routes!PruneNext(c) \/ Routes!Update(c) \/ \E t \in Threads : Routes!CopyThread(c, t)
      PROVE  UNCHANGED runs
  BY <1>7 DEF Routes!PruneNext, Routes!Update, Routes!CopyThread
<1>8. CASE UNCHANGED Routes!vars
  BY <1>2, <1>8 DEF Routes!vars
<1> QED BY <1>2, <1>3, <1>4, <1>5, <1>6, <1>7, <1>8 DEF Routes!Next

\* The threads that pass the two parts of a filter, and the rows that pass
\* the first.
WithStatus(st) == {t \in Threads : Routes!HasStatus(t, st)}
WithEntry(k) == {t \in Threads : Routes!HasEntry(t, k)}
ByStatus(st) == Only(rows, Places(rows, WithStatus(st)))

\* A filter by status and one by metadata make the matches of a search.
LEMMA MatchesAreFiltered ==
  ASSUME rows \in Seq(Threads), NEW f
  PROVE  /\ ByStatus(f[1]) \in Seq(Threads) /\ Len(ByStatus(f[1])) <= Len(rows)
         /\ Routes!Matches(f) = Only(ByStatus(f[1]), Places(ByStatus(f[1]), WithEntry(f[2])))
         /\ Routes!Matches(f) \in Seq(Threads) /\ Len(Routes!Matches(f)) <= Len(rows)
<1> DEFINE byStatus == ByStatus(f[1])
           both == {i \in Places(rows, WithStatus(f[1])) : rows[i] \in WithEntry(f[2])}
<1>1. DOMAIN rows = 1..Len(rows) /\ \A i \in DOMAIN rows : rows[i] \in Threads
  BY LenProperties, ElementOfSeq
<1>2. Places(rows, WithStatus(f[1])) \in SUBSET DOMAIN rows /\ both \in SUBSET DOMAIN rows
  BY DEF Places
<1>3. byStatus \in Seq(Threads) /\ Len(byStatus) <= Len(rows)
  BY <1>2, OnlyType DEF ByStatus
<1>4. both = {i \in DOMAIN rows : Routes!HasStatus(rows[i], f[1]) /\ Routes!HasEntry(rows[i], f[2])}
  BY <1>1 DEF Places, WithStatus, WithEntry
<1>5. Routes!Matches(f) = Only(rows, both)
  BY <1>4, SameOperators DEF Routes!Matches
<1>6. WithEntry(f[2]) \in SUBSET Threads
  BY DEF WithEntry
<1>7. Only(byStatus, Places(byStatus, WithEntry(f[2]))) = Only(rows, both)
  <2>1. PICK P \in SUBSET DOMAIN rows : P = Places(rows, WithStatus(f[1]))
    BY <1>2
  <2>2. PICK E \in SUBSET Threads : E = WithEntry(f[2])
    BY <1>6
  <2>3. byStatus = Only(rows, P) /\ both = {i \in P : rows[i] \in E}
    BY <2>1, <2>2 DEF ByStatus
  <2> HIDE DEF byStatus, both
  <2>4. Only(Only(rows, P), Places(Only(rows, P), E)) = Only(rows, both)
    BY <2>3, OnlyTwice
  <2> QED BY <2>2, <2>3, <2>4
<1>8. Only(rows, both) \in Seq(Threads) /\ Len(Only(rows, both)) <= Len(rows)
  BY <1>2, OnlyType
<1> QED BY <1>3, <1>5, <1>7, <1>8

\* What a search answers, in these terms.
LEMMA SearchIs ==
  ASSUME rows \in Seq(Threads), NEW f, NEW limit \in Nat, NEW offset \in Nat
  PROVE  Routes!SearchThreads(f[1], f[2], limit, offset) =
           LET page == Slice(ByStatus(f[1]), limit, offset)
           IN  IF threadStore = "memory" THEN Slice(Routes!Matches(f), limit, offset)
               ELSE Only(page, Places(page, WithEntry(f[2])))
<1> DEFINE byStatus == ByStatus(f[1])
           page == Slice(byStatus, limit, offset)
<1>1. DOMAIN rows = 1..Len(rows) /\ \A i \in DOMAIN rows : rows[i] \in Threads
  BY LenProperties, ElementOfSeq
<1>2. byStatus = Only(rows, {i \in DOMAIN rows : Routes!HasStatus(rows[i], f[1])})
  <2>1. Places(rows, WithStatus(f[1])) = {i \in DOMAIN rows : Routes!HasStatus(rows[i], f[1])}
    BY <1>1 DEF Places, WithStatus
  <2> QED BY <2>1 DEF ByStatus
<1>3. byStatus \in Seq(Threads) /\ Routes!Matches(f) = Only(byStatus, Places(byStatus, WithEntry(f[2])))
  BY MatchesAreFiltered
<1>4. page \in Seq(Threads)
  BY <1>3, SliceType
<1>5. ASSUME NEW q \in Seq(Threads)
      PROVE  Places(q, WithEntry(f[2])) = {i \in DOMAIN q : Routes!HasEntry(q[i], f[2])}
  <2>1. \A i \in DOMAIN q : q[i] \in Threads
    OBVIOUS
  <2> QED BY <2>1 DEF Places, WithEntry
<1>6. Routes!Matches(f) = Only(byStatus, {i \in DOMAIN byStatus : Routes!HasEntry(byStatus[i], f[2])})
  BY <1>3, <1>5
<1>7. Only(page, Places(page, WithEntry(f[2]))) = Only(page, {i \in DOMAIN page : Routes!HasEntry(page[i], f[2])})
  BY <1>4, <1>5
<1>8. Routes!SearchThreads(f[1], f[2], limit, offset) =
        IF threadStore = "memory"
        THEN Slice(Only(byStatus, {i \in DOMAIN byStatus : Routes!HasEntry(byStatus[i], f[2])}), limit, offset)
        ELSE Only(page, {i \in DOMAIN page : Routes!HasEntry(page[i], f[2])})
  BY <1>2, SameOperators DEF Routes!SearchThreads
<1> HIDE DEF byStatus, page
<1>9. Routes!SearchThreads(f[1], f[2], limit, offset) =
        IF threadStore = "memory" THEN Slice(Routes!Matches(f), limit, offset)
        ELSE Only(page, Places(page, WithEntry(f[2])))
  BY <1>6, <1>7, <1>8
<1> QED BY <1>9 DEF byStatus, page

\* Pages of threads.
LEMMA ThreadPages ==
  ASSUME rows \in Seq(Threads), NEW f, NEW limit \in Nat \ {0}
  PROVE  Concatenate([p \in 1..Len(rows) |-> Routes!SearchThreads(f[1], f[2], limit, (p - 1) * limit)],
                     Routes!Matches(f))
<1> DEFINE n == Len(rows)
           byStatus == ByStatus(f[1])
           page(p) == Slice(byStatus, limit, (p - 1) * limit)
           found(p) == Routes!SearchThreads(f[1], f[2], limit, (p - 1) * limit)
<1>1. n \in Nat
  BY LenProperties
<1>2. /\ byStatus \in Seq(Threads) /\ Len(byStatus) <= n
      /\ Routes!Matches(f) = Only(byStatus, Places(byStatus, WithEntry(f[2])))
      /\ Routes!Matches(f) \in Seq(Threads) /\ Len(Routes!Matches(f)) <= n
  BY MatchesAreFiltered
<1>3. ASSUME NEW p \in 1..n
      PROVE  found(p) = IF threadStore = "memory" THEN Slice(Routes!Matches(f), limit, (p - 1) * limit)
                        ELSE Only(page(p), Places(page(p), WithEntry(f[2])))
  <2>1. (p - 1) * limit \in Nat /\ limit \in Nat
    BY PageBounds
  <2> QED BY <2>1, SearchIs
<1>4. CASE threadStore = "memory"
  <2>1. [p \in 1..n |-> found(p)] = [p \in 1..n |-> Slice(Routes!Matches(f), limit, (p - 1) * limit)]
    <3> HIDE DEF found, page
    <3> QED BY <1>3, <1>4
  <2> HIDE DEF found
  <2>2. Concatenate([p \in 1..n |-> found(p)], Routes!Matches(f))
    BY <1>1, <1>2, <2>1, SlicesConcatenate
  <2> QED BY <2>2 DEF found
<1>5. CASE threadStore # "memory"
  <2>1. [p \in 1..n |-> found(p)] = [p \in 1..n |-> Only(page(p), Places(page(p), WithEntry(f[2])))]
    <3> HIDE DEF found, page
    <3> QED BY <1>3, <1>5
  <2>2. WithEntry(f[2]) \in SUBSET Threads
    BY DEF WithEntry
  <2> HIDE DEF found, byStatus
  <2>3. Concatenate([p \in 1..n |-> found(p)], Only(byStatus, Places(byStatus, WithEntry(f[2]))))
    BY <1>1, <1>2, <2>1, <2>2, FilteredSlicesConcatenate
  <2>4. Concatenate([p \in 1..n |-> found(p)], Routes!Matches(f))
    BY <1>2, <2>3
  <2> QED BY <2>4 DEF found
<1> QED BY <1>4, <1>5

\* A page as long as the table holds every match; count() asks for one.
LEMMA ThreadCount ==
  ASSUME rows \in Seq(Threads), NEW f, NEW limit \in Nat, Len(rows) <= limit
  PROVE  Len(Routes!SearchThreads(f[1], f[2], limit, 0)) = Len(Routes!Matches(f))
<1> DEFINE byStatus == ByStatus(f[1])
<1>1. Len(rows) \in Nat
  BY LenProperties
<1>2. /\ byStatus \in Seq(Threads) /\ Len(byStatus) <= Len(rows)
      /\ Routes!Matches(f) = Only(byStatus, Places(byStatus, WithEntry(f[2])))
      /\ Routes!Matches(f) \in Seq(Threads) /\ Len(Routes!Matches(f)) <= Len(rows)
  BY MatchesAreFiltered
<1>3. Routes!SearchThreads(f[1], f[2], limit, 0) =
        IF threadStore = "memory" THEN Slice(Routes!Matches(f), limit, 0)
        ELSE Only(Slice(byStatus, limit, 0), Places(Slice(byStatus, limit, 0), WithEntry(f[2])))
  BY SearchIs
<1> HIDE DEF byStatus
<1>4. Len(byStatus) \in Nat /\ Len(Routes!Matches(f)) \in Nat
  BY <1>2, LenProperties
<1>5. Slice(byStatus, limit, 0) = byStatus /\ Slice(Routes!Matches(f), limit, 0) = Routes!Matches(f)
  BY <1>1, <1>2, <1>4, LargePage
<1> QED BY <1>2, <1>3, <1>5

\* Pages of the runs of a thread, and its latest and active ones.
LEMMA RunPages ==
  ASSUME RunsInv, NEW t \in Routes!Stored
  PROVE  /\ \A limit \in Nat \ {0} :
              Concatenate([p \in 1..Len(runs) |-> Routes!ListThreadRuns(t, limit, (p - 1) * limit)],
                          Routes!RunsOf(t, NoOne))
         /\ Routes!RunsOf(t, NoOne) # <<>> =>
              \E i \in DOMAIN runs : /\ runs[i].thread = t /\ runs[i] = Routes!LatestThreadRun(t)
                                     /\ \A j \in 1..(i - 1) : runs[j].thread # t
<1> DEFINE P == {i \in DOMAIN runs : runs[i].thread = t}
           list == Only(runs, P)
<1>1. runs \in Seq(StoredRun) /\ DOMAIN runs = 1..Len(runs) /\ Len(runs) \in Nat
  BY LenProperties DEF RunsInv
<1>2. Routes!RunsOf(t, NoOne) = list
  BY SameOperators DEF Routes!RunsOf
<1>3. P \in SUBSET DOMAIN runs /\ P \in SUBSET (1..Len(runs)) /\ P \in SUBSET Nat
  BY <1>1
<1>4. list \in Seq(StoredRun) /\ Len(list) <= Len(runs) /\ Len(list) = Cardinality(P)
  <2> HIDE DEF P
  <2> QED BY <1>1, <1>3, OnlyType
<1>5. ASSUME NEW limit \in Nat \ {0}
      PROVE  Concatenate([p \in 1..Len(runs) |-> Routes!ListThreadRuns(t, limit, (p - 1) * limit)], list)
  <2>1. [p \in 1..Len(runs) |-> Routes!ListThreadRuns(t, limit, (p - 1) * limit)] =
        [p \in 1..Len(runs) |-> Slice(list, limit, (p - 1) * limit)]
    <3> HIDE DEF list
    <3> QED BY <1>2, SameOperators DEF Routes!ListThreadRuns, Routes!ListForThread
  <2> HIDE DEF list
  <2> QED BY <1>1, <1>4, <2>1, SlicesConcatenate
<1>6. ASSUME list # <<>>
      PROVE  \E i \in DOMAIN runs : /\ runs[i].thread = t /\ runs[i] = Routes!LatestThreadRun(t)
                                    /\ \A j \in 1..(i - 1) : runs[j].thread # t
  <2>1a. PICK m \in Nat : \E h : Lists(h, m, P)
    <3> HIDE DEF P
    <3> QED BY <1>1, <1>3, ListExists
  <2>1. PICK h : Lists(h, m, P)
    BY <2>1a
  <2>2. list = [k \in 1..m |-> runs[h[k]]]
    <3> HIDE DEF P
    <3> QED BY <1>3, <2>1, OnlyIs
  <2>3. 1 \in 1..m
    <3> SUFFICES ASSUME m = 0 PROVE FALSE
      OBVIOUS
    <3> QED BY <1>6, <2>2
  <2>4. Head(list) = runs[h[1]]
    BY <2>2, <2>3
  <2>5. h[1] \in P /\ Routes!LatestThreadRun(t) = runs[h[1]]
    <3>1. h[1] \in P
      BY <2>1, <2>3 DEF Lists
    <3> HIDE DEF list
    <3> QED BY <1>2, <1>6, <2>4, <3>1 DEF Routes!LatestThreadRun, Routes!LatestForThread
  <2>6. ASSUME NEW j \in 1..(h[1] - 1), runs[j].thread = t PROVE FALSE
    <3>1. h[1] \in 1..Len(runs)
      BY <1>3, <2>5
    <3>2. j \in P
      BY <1>1, <2>6, <3>1
    <3>3. PICK k \in 1..m : h[k] = j
      BY <2>1, <3>2 DEF Lists
    <3>4. k = 1 \/ h[1] < h[k]
      BY <2>1, <2>3, <3>3 DEF Lists
    <3> QED BY <2>6, <3>1, <3>3, <3>4
  <2> QED BY <2>5, <2>6
<1> QED BY <1>2, <1>5, <1>6

\* create_run refuses a second active run, so the list of them has one row
\* at most.
LEMMA OneActive ==
  ASSUME RunsInv, NEW t \in Threads
  PROVE  Len(Routes!ActiveForThread(t)) <= 1
<1> DEFINE P == {i \in DOMAIN runs : runs[i].thread = t /\ runs[i].status \in Routes!Active}
<1>1. /\ runs \in Seq(StoredRun) /\ DOMAIN runs = 1..Len(runs) /\ Len(runs) \in Nat
      /\ \A i \in DOMAIN runs : runs[i] \in StoredRun
  BY LenProperties, ElementOfSeq DEF RunsInv
<1>2. \A i \in P : runs[i].status = "pending" /\ runs[i].thread = t
  BY <1>1 DEF Routes!Active, StoredRun
<1>3. \A i, j \in P : i = j
  BY <1>2 DEF RunsInv
<1>4. P \in SUBSET DOMAIN runs
  OBVIOUS
<1>5. Routes!ActiveForThread(t) = Only(runs, P)
  BY SameOperators DEF Routes!ActiveForThread
<1> HIDE DEF P
<1>6. Len(Only(runs, P)) = Cardinality(P)
  BY <1>1, <1>4, OnlyType
<1>7. CASE P = {}
  BY <1>5, <1>6, <1>7, FS_EmptySet
<1>8. CASE P # {}
  <2>1. PICK i \in P : P = {i}
    BY <1>3, <1>8
  <2>2. Cardinality({i}) = 1
    BY FS_Singleton
  <2> QED BY <1>5, <1>6, <2>1, <2>2
<1> QED BY <1>7, <1>8

\* A client that asks for page after page gets every matching thread, and
\* every run of a thread, once and the latest first, over either repository
\* and for any page sizes; the count is right for tables that a page of
\* count() can hold, and a thread has at most one active run.
THEOREM PagesAlwaysCover == Routes!Spec => []PagesCover
<1>1. Routes!Init => RunsInv
  BY DEF Routes!Init, RunsInv
<1>2. RoutesInv /\ RunsInv => PagesCover
  <2> SUFFICES ASSUME RoutesInv, RunsInv PROVE PagesCover
    OBVIOUS
  <2>1. rows \in Seq(Threads)
    BY DEF RoutesInv, TypeOfRoutes
  <2>2. Limits \subseteq Nat \ {0}
    BY PagingAssumption
  <2>3. ASSUME NEW f, NEW limit \in Limits
        PROVE  Routes!Concatenate([p \in 1..Len(rows) |-> Routes!SearchThreads(f[1], f[2], limit, (p - 1) * limit)],
                                  Routes!Matches(f))
    BY <2>1, <2>2, ThreadPages, SameOperators
  <2>4. ASSUME NEW f, Len(rows) <= 100000
        PROVE  Routes!CountThreads(f[1], f[2]) = Len(Routes!Matches(f))
    <3>1. 100000 \in Nat
      BY SMT
    <3> QED BY <2>1, <2>4, <3>1, ThreadCount, SMT DEF Routes!CountThreads
  <2>5. ASSUME NEW t \in Routes!Stored, NEW limit \in Limits
        PROVE  Routes!Concatenate([p \in 1..Len(runs) |-> Routes!ListThreadRuns(t, limit, (p - 1) * limit)],
                                  Routes!RunsOf(t, NoOne))
    BY <2>2, RunPages, SameOperators
  <2>6. ASSUME NEW t \in Routes!Stored, Routes!RunsOf(t, NoOne) # <<>>
        PROVE  \E i \in DOMAIN runs : /\ runs[i].thread = t /\ runs[i] = Routes!LatestThreadRun(t)
                                      /\ \A j \in 1..(i - 1) : runs[j].thread # t
    BY <2>6, RunPages
  <2> QED BY <2>3, <2>4, <2>5, <2>6, OneActive DEF PagesCover, Routes!PagesCover
<1> QED BY <1>1, <1>2, RoutesStart, RoutesStep, RunsStep, PTL DEF Routes!Spec
=============================================================================
