---------------------------- MODULE ThreadRoutes ----------------------------
(***************************************************************************)
(* The thread routes of the gateway over its two repositories: create,     *)
(* copy, patch, delete, prune, search, count and the list of runs.  With   *)
(* Postgres every repository call is a transaction of its own and calls of *)
(* several replicas run in between; in memory a request that only touches  *)
(* the repositories never suspends.  The execution service and the worker  *)
(* write the status of a thread in the same way: read it, update the whole *)
(* row.  created_at tells the rows of a table apart.                       *)
(***************************************************************************)
EXTENDS ExecutionDomain, Paging, SequencesExt

CONSTANTS
    Threads, Keys,  \* threads, and metadata entries that clients set
    Callers,        \* requests served at the same time
    MaxCalls,       \* bound: requests that change threads
    MaxRuns,        \* bound: runs created
    Limits,         \* page sizes that clients ask for
    None            \* absent filter or thread

VARIABLES
    repository, \* "postgres" or "memory"
    rows,       \* stored threads, by created_at, the latest first
    status,     \* status and metadata of the stored threads
    meta,
    runs,       \* stored runs of the threads, the latest first
    call,       \* what each caller is doing, with what it has read
    calls,      \* requests so far
    patched,    \* ghost: entries set by PATCHes answered so far
    marked,     \* ghost: the status written last by the service
    overlapped  \* ghost: a row was written from a read that was out of date

vars == <<repository, rows, status, meta, runs, call, calls, patched, marked, overlapped>>
table == <<rows, status, meta, patched, marked, overlapped>>

-----------------------------------------------------------------------------
\* A request: what it does, the thread it has read, the entries it sets, the
\* status and metadata it holds, the threads it still has to delete, and
\* whether what it has read is out of date.
Doing(op, t, key, s, m, rest) ==
    [op |-> op, thread |-> t, key |-> key, status |-> s, meta |-> m, rest |-> rest, stale |-> FALSE]

Idle == Doing("idle", None, {}, "idle", {}, <<>>)

Init ==
    /\ repository \in {"postgres", "memory"}
    /\ rows = <<>>
    /\ status = [t \in Threads |-> "idle"]
    /\ meta = [t \in Threads |-> {}]
    /\ runs = <<>>
    /\ call = [c \in Callers |-> Idle]
    /\ calls = 0
    /\ patched = [t \in Threads |-> {}]
    /\ marked = [t \in Threads |-> "idle"]
    /\ overlapped = FALSE

Stored == ToSet(rows)

\* In memory a request runs to its end before the next one.
Turn(c) == repository = "memory" => \A d \in Callers \ {c} : call[d].op = "idle"

Begins(c) == call[c].op = "idle" /\ calls < MaxCalls /\ Turn(c) /\ calls' = calls + 1

\* The others that have read thread t now hold an old copy of its row; caller
\* c is left in state s.
Disturbs(c, t, s) ==
    call' = [d \in Callers |-> IF d = c THEN s ELSE [call[d] EXCEPT !.stale = @ \/ call[d].thread = t]]

-----------------------------------------------------------------------------
(* POST /threads, POST /threads/{id}/copy                                  *)

\* create_thread: a second thread of the same id is refused by either
\* repository.
Create(t, entries) ==
    /\ t \notin Stored
    /\ rows' = <<t>> \o rows
    /\ status' = [status EXCEPT ![t] = "idle"]
    /\ meta' = [meta EXCEPT ![t] = entries]
    /\ patched' = [patched EXCEPT ![t] = {}]
    /\ marked' = [marked EXCEPT ![t] = "idle"]

CreateThread(c, t) ==
    /\ Begins(c)
    /\ Create(t, {})
    /\ Disturbs(c, t, Idle)
    /\ UNCHANGED <<repository, runs, overlapped>>

\* The metadata is read here and stored, under a new id, by the next step.
CopyRead(c, t) ==
    /\ Begins(c)
    /\ t \in Stored
    /\ call' = [call EXCEPT ![c] = Doing("copy", None, {}, "idle", meta[t], <<>>)]
    /\ UNCHANGED <<repository, runs, table>>

CopyThread(c, t) ==
    /\ call[c].op = "copy"
    /\ Create(t, call[c].meta)
    /\ Disturbs(c, t, Idle)
    /\ UNCHANGED <<repository, runs, calls, overlapped>>

-----------------------------------------------------------------------------
(* DELETE /threads/{id}, POST /threads/prune                               *)

\* Either repository raises RESOURCE_NOT_FOUND for a missing row.
Delete(t) ==
    /\ \E i \in DOMAIN rows : rows[i] = t /\ rows' = RemoveAt(rows, i)
    /\ UNCHANGED <<status, meta, patched, marked, overlapped>>

DeleteThread(c, t) ==
    /\ Begins(c)
    /\ t \in Stored
    /\ Delete(t)
    /\ Disturbs(c, t, Idle)
    /\ UNCHANGED <<repository, runs>>

PruneThreads(c, ids) ==
    /\ Begins(c)
    /\ call' = [call EXCEPT ![c] = Doing("prune", None, {}, "idle", {}, ids)]
    /\ UNCHANGED <<repository, runs, table>>

\* One delete after the other; the first missing thread ends the request.
PruneNext(c) ==
    /\ call[c].op = "prune"
    /\ LET t == Head(call[c].rest)
           rest == Tail(call[c].rest)
       IN  IF t \in Stored
           THEN /\ Delete(t)
                /\ Disturbs(c, t, IF rest = <<>> THEN Idle ELSE [call[c] EXCEPT !.rest = rest])
           ELSE call' = [call EXCEPT ![c] = Idle] /\ UNCHANGED table
    /\ UNCHANGED <<repository, runs, calls>>

-----------------------------------------------------------------------------
(* threads.get and threads.update, by PATCH and by the execution service   *)

\* update_thread reads the thread and merges the metadata of the payload.
PatchRead(c, t, k) ==
    /\ Begins(c)
    /\ t \in Stored
    /\ call' = [call EXCEPT ![c] = Doing("patch", t, {k}, status[t], meta[t] \union {k}, <<>>)]
    /\ UNCHANGED <<repository, runs, table>>

\* mark_busy, mark_idle and mark_interrupted of the service and the worker.
MarkRead(c, t, s) ==
    /\ Begins(c)
    /\ t \in Stored
    /\ call' = [call EXCEPT ![c] = Doing("mark", t, {}, s, meta[t], <<>>)]
    /\ UNCHANGED <<repository, runs, table>>

\* Mutant: the metadata of the request replaces what is stored.
UpdateReplaces(c) ==
    /\ call[c].op \in {"patch", "mark"}
    /\ LET t == call[c].thread IN
       IF t \in Stored
       THEN /\ status' = [status EXCEPT ![t] = call[c].status]
            /\ meta' = [meta EXCEPT ![t] = call[c].key]
            /\ patched' = [patched EXCEPT ![t] = @ \union call[c].key]
            /\ marked' = IF call[c].op = "mark" THEN [marked EXCEPT ![t] = call[c].status] ELSE marked
            /\ overlapped' = (overlapped \/ call[c].stale)
            /\ Disturbs(c, t, Idle)
            /\ UNCHANGED rows
       ELSE call' = [call EXCEPT ![c] = Idle] /\ UNCHANGED table
    /\ UNCHANGED <<repository, runs, calls>>

\* update(): status and metadata of the row as the caller has them.
Update(c) ==
    /\ call[c].op \in {"patch", "mark"}
    /\ LET t == call[c].thread IN
       IF t \in Stored
       THEN /\ status' = [status EXCEPT ![t] = call[c].status]
            /\ meta' = [meta EXCEPT ![t] = call[c].meta]
            /\ patched' = [patched EXCEPT ![t] = @ \union call[c].key]
            /\ marked' = IF call[c].op = "mark" THEN [marked EXCEPT ![t] = call[c].status] ELSE marked
            /\ overlapped' = (overlapped \/ call[c].stale)
            /\ Disturbs(c, t, Idle)
            /\ UNCHANGED rows
       ELSE call' = [call EXCEPT ![c] = Idle] /\ UNCHANGED table
    /\ UNCHANGED <<repository, runs, calls>>

-----------------------------------------------------------------------------
(* The runs of the threads, as far as the routes below list them.          *)

RunCreated(t) ==
    /\ Len(runs) < MaxRuns
    /\ t \in Stored
    /\ \A i \in DOMAIN runs : runs[i].thread = t => runs[i].status \notin Active
    /\ runs' = <<[thread |-> t, status |-> "pending"]>> \o runs
    /\ UNCHANGED <<repository, table, call, calls>>

RunEnds(i) ==
    /\ runs[i].status = "pending"
    /\ runs' = [runs EXCEPT ![i].status = "success"]
    /\ UNCHANGED <<repository, table, call, calls>>

\* delete_thread_run: the row goes, whatever its status.
DeleteRun(i) ==
    /\ runs' = RemoveAt(runs, i)
    /\ UNCHANGED <<repository, table, call, calls>>

-----------------------------------------------------------------------------
(* POST /threads/search, POST /threads/count, GET /threads/{id}/runs       *)

HasStatus(t, st) == st = None \/ status[t] = st
HasEntry(t, k) == k = None \/ k \in meta[t]

\* The in-memory repository filters and then slices; the query of Postgres
\* slices what the status leaves, and the metadata filter comes last.
SearchThreads(st, k, limit, offset) ==
    LET byStatus == Only(rows, {i \in DOMAIN rows : HasStatus(rows[i], st)})
        byEntry(s) == Only(s, {i \in DOMAIN s : HasEntry(s[i], k)})
    IN  IF repository = "memory"
        THEN Slice(byEntry(byStatus), limit, offset)
        ELSE byEntry(Slice(byStatus, limit, offset))

\* count() is the length of one large page.
CountThreads(st, k) == Len(SearchThreads(st, k, 100000, 0))

RunsOf(t, st) == Only(runs, {i \in DOMAIN runs : runs[i].thread = t /\ (st = None \/ runs[i].status = st)})

ListForThread(t, st, limit, offset) == Slice(RunsOf(t, st), limit, offset)

LatestForThread(t) == IF RunsOf(t, None) = <<>> THEN None ELSE Head(RunsOf(t, None))

\* GET /threads/{id}/runs asks for the thread first; None is RESOURCE_NOT_FOUND,
\* which is also what the routes on a thread's latest run answer without one.
ListThreadRuns(t, limit, offset) ==
    IF t \in Stored THEN ListForThread(t, None, limit, offset) ELSE None

LatestThreadRun(t) == IF t \in Stored THEN LatestForThread(t) ELSE None

ActiveForThread(t) == Only(runs, {i \in DOMAIN runs : runs[i].thread = t /\ runs[i].status \in Active})

-----------------------------------------------------------------------------
Request(c) ==
    \/ \E t \in Threads : CreateThread(c, t) \/ CopyRead(c, t) \/ DeleteThread(c, t)
    \/ \E t \in Threads, k \in Keys : PatchRead(c, t, k)
    \/ \E t \in Threads, s \in {"busy", "idle", "interrupted"} : MarkRead(c, t, s)
    \/ \E t, u \in Threads : PruneThreads(c, <<t, u>>)

Next ==
    \/ \E c \in Callers : Request(c) \/ PruneNext(c) \/ Update(c) \/ \E t \in Threads : CopyThread(c, t)
    \/ \E t \in Threads : RunCreated(t)
    \/ \E i \in DOMAIN runs : RunEnds(i) \/ DeleteRun(i)

Spec == Init /\ [][Next]_vars

-----------------------------------------------------------------------------
\* An entry that a PATCH has set stays set, and the status of a thread is the
\* one the service wrote last, unless the read of an update was out of date
\* when it was written, which happens over Postgres alone.
UpdatesKept == repository = "memory" \/ ~overlapped =>
    \A t \in Stored : patched[t] \subseteq meta[t] /\ status[t] = marked[t]

Filters == (ThreadStatus \union {None}) \X (Keys \union {None})

\* What a search looks for, the latest first.
Matches(f) == Only(rows, {i \in DOMAIN rows : HasStatus(rows[i], f[1]) /\ HasEntry(rows[i], f[2])})

\* A client that asks for page after page, as far as there are rows, gets
\* every match once and the latest first, from either repository: the filter
\* that Postgres applies after the slice leaves short pages, never gaps.  The
\* count is right as long as one page of count() can hold the table.
PagesCover ==
    /\ \A f \in Filters, limit \in Limits :
          Concatenate([p \in 1 .. Len(rows) |-> SearchThreads(f[1], f[2], limit, (p - 1) * limit)], Matches(f))
    /\ \A f \in Filters : Len(rows) <= 100000 => CountThreads(f[1], f[2]) = Len(Matches(f))
    /\ \A t \in Stored, limit \in Limits :
          Concatenate([p \in 1 .. Len(runs) |-> ListThreadRuns(t, limit, (p - 1) * limit)], RunsOf(t, None))
    /\ \A t \in Stored : RunsOf(t, None) # <<>> =>
          \E i \in DOMAIN runs : /\ runs[i].thread = t /\ runs[i] = LatestThreadRun(t)
                                 /\ \A j \in 1 .. (i - 1) : runs[j].thread # t
    /\ \A t \in Threads : Len(ActiveForThread(t)) <= 1
=============================================================================
