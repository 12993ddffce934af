----------------------------- MODULE Assistants -----------------------------
(***************************************************************************)
(* The assistant routes of the gateway over either repository.             *)
(* PostgresAssistantRepository keeps one row per assistant with its active *)
(* version and one row per version, and several gateway replicas share the *)
(* tables.  Every call is a read followed by a transaction that commits or *)
(* is rolled back as a whole, and a last get(); other calls run in         *)
(* between.  InMemoryAssistantRepository keeps the current version only,   *)
(* and no call on it suspends.  Different assistants are independent: the  *)
(* module has one.  A request that finds nothing to work on changes        *)
(* nothing and is left out.                                                *)
(***************************************************************************)
EXTENDS Integers, FiniteSetsExt

CONSTANTS
    Callers,    \* requests served at the same time, by any replica
    MaxCalls    \* bound: requests served in a behaviour

VARIABLES
    repository, \* the repository of the profile: "postgres" or "memory"
    active,     \* active_version of the row, 0 when there is no row
    versions,   \* versions stored for the assistant
    call,       \* what each caller is doing, with what it has read
    outcome,    \* how the caller's last request ended
    calls,      \* number of requests so far
    accepted,   \* number of updates committed
    deleted     \* a delete was committed

vars == <<repository, active, versions, call, outcome, calls, accepted, deleted>>

-----------------------------------------------------------------------------
Doing(op, row, version, scanned) == [op |-> op, row |-> row, version |-> version, scanned |-> scanned]
Idle == Doing("idle", 0, 0, {})

Init ==
    /\ repository \in {"postgres", "memory"}
    /\ active = 0
    /\ versions = {}
    /\ call = [c \in Callers |-> Idle]
    /\ outcome = [c \in Callers |-> "none"]
    /\ calls = 0
    /\ accepted = 0
    /\ deleted = FALSE

\* session.get(AssistantRow): the row as this transaction sees it.
RowExists == active # 0

\* What versions() lists: the join of the row and its versions.
Versions == IF RowExists THEN versions ELSE {}

\* The version with k later ones.
Ranked(k) == CHOOSE v \in Versions : Cardinality({w \in Versions : w > v}) = k

\* POST /assistants/{id}/versions: a page of them, the latest first.
AssistantVersions(limit, offset) ==
    [i \in 1 .. Min({limit, Cardinality(Versions) - offset}) |-> Ranked(offset + i - 1)]

\* get(): the row and the version it points to, or RESOURCE_NOT_FOUND.
Found == active \in Versions

Begin(c, op) ==
    /\ repository = "postgres"
    /\ call[c].op = "idle"
    /\ calls < MaxCalls
    /\ calls' = calls + 1
    /\ call' = [call EXCEPT ![c] = op]
    /\ UNCHANGED <<repository, active, versions, accepted, deleted>>

Finish(c, result) ==
    /\ call' = [call EXCEPT ![c] = Idle]
    /\ outcome' = [outcome EXCEPT ![c] = result]

\* The request goes on to the get() it answers with.
Answering(c) == call' = [call EXCEPT ![c] = Doing("get", 0, 0, {})]

-----------------------------------------------------------------------------
(* POST /assistants and the registration of the configured graphs.         *)

\* if_exists = "do_nothing" answers with the assistant it finds.
CreateExisting(c) ==
    /\ call[c].op = "idle"
    /\ calls < MaxCalls
    /\ Found
    /\ calls' = calls + 1
    /\ Finish(c, "ok")
    /\ UNCHANGED <<repository, active, versions, accepted, deleted>>

CreateRead(c) ==
    /\ Begin(c, Doing("create", active, 0, {}))
    /\ outcome' = [outcome EXCEPT ![c] = "none"]

\* Mutant: the IntegrityError is not caught.
CreateCommitUnhandled(c) ==
    /\ call[c].op = "create"
    /\ IF call[c].row = 0 /\ ~RowExists /\ 1 \notin versions
       THEN /\ active' = 1 /\ versions' = versions \union {1}
            /\ Answering(c) /\ UNCHANGED outcome
       ELSE /\ UNCHANGED <<active, versions>>
            /\ IF call[c].row = 0 THEN Finish(c, "conflict") ELSE Answering(c) /\ UNCHANGED outcome
    /\ UNCHANGED <<repository, calls, accepted, deleted>>

\* Row and first version are inserted together; an IntegrityError on either
\* rolls both back and is caught.
CreateCommit(c) ==
    /\ call[c].op = "create"
    /\ IF call[c].row = 0 /\ ~RowExists /\ 1 \notin versions
       THEN active' = 1 /\ versions' = versions \union {1}
       ELSE UNCHANGED <<active, versions>>
    /\ Answering(c)
    /\ UNCHANGED <<repository, outcome, calls, accepted, deleted>>

\* The get() that ends create, update, set_latest and, per row, all().
Answer(c) ==
    /\ call[c].op = "get"
    /\ Finish(c, IF Found THEN "ok" ELSE "missing")
    /\ UNCHANGED <<repository, active, versions, calls, accepted, deleted>>

-----------------------------------------------------------------------------
(* PATCH /assistants/{id}: the current assistant is read for the fields    *)
(* that the payload leaves out, then update() opens its transaction.       *)

PatchRead(c) ==
    /\ Found
    /\ Begin(c, Doing("patch", 0, 0, {}))
    /\ outcome' = [outcome EXCEPT ![c] = "none"]

UpdateMissing(c) ==
    /\ call[c].op = "patch"
    /\ ~RowExists
    /\ Finish(c, "missing")
    /\ UNCHANGED <<repository, active, versions, calls, accepted, deleted>>

\* SELECT MAX(version) + 1
NextVersion == Max(versions \union {0}) + 1

UpdateRead(c) ==
    /\ call[c].op = "patch"
    /\ RowExists
    /\ call' = [call EXCEPT ![c] = Doing("update", active, NextVersion, {})]
    /\ UNCHANGED <<repository, active, versions, outcome, calls, accepted, deleted>>

\* The key "id:version" refuses a version that another update committed, and
\* an UPDATE that matches no row raises StaleDataError: both roll back.
UpdateRefused(c) ==
    /\ call[c].op = "update"
    /\ call[c].version \in versions \/ ~RowExists
    /\ Finish(c, "conflict")
    /\ UNCHANGED <<repository, active, versions, calls, accepted, deleted>>

\* Mutant: without the unique key the second update takes the version of the first.
UpdateCommitUnchecked(c) ==
    /\ call[c].op = "update"
    /\ RowExists
    /\ versions' = versions \union {call[c].version}
    /\ active' = call[c].version
    /\ accepted' = accepted + 1
    /\ Answering(c)
    /\ UNCHANGED <<repository, outcome, calls, deleted>>

UpdateCommit(c) ==
    /\ call[c].op = "update"
    /\ call[c].version \notin versions
    /\ RowExists
    /\ versions' = versions \union {call[c].version}
    /\ active' = call[c].version
    /\ accepted' = accepted + 1
    /\ Answering(c)
    /\ UNCHANGED <<repository, outcome, calls, deleted>>

-----------------------------------------------------------------------------
(* POST /assistants/{id}/latest                                            *)

SetLatestRead(c, v) ==
    /\ v \in Versions
    /\ Begin(c, Doing("set_latest", active, v, {}))
    /\ outcome' = [outcome EXCEPT ![c] = "none"]

\* No UPDATE is sent when the row read already has that version.
SetLatestCommit(c) ==
    /\ call[c].op = "set_latest"
    /\ LET sent == call[c].version # call[c].row
       IN  IF sent /\ ~RowExists
           THEN Finish(c, "conflict") /\ UNCHANGED active
           ELSE /\ active' = IF sent THEN call[c].version ELSE active
                /\ Answering(c)
                /\ UNCHANGED outcome
    /\ UNCHANGED <<repository, versions, calls, accepted, deleted>>

-----------------------------------------------------------------------------
(* DELETE /assistants/{id}: the versions seen by the first statement go,   *)
(* then whatever row there is when the transaction is flushed.             *)

DeleteRead(c) ==
    /\ RowExists
    /\ Begin(c, Doing("delete", 0, 0, versions))
    /\ outcome' = [outcome EXCEPT ![c] = "none"]

DeleteCommit(c) ==
    /\ call[c].op = "delete"
    /\ versions' = versions \ call[c].scanned
    /\ active' = 0
    /\ deleted' = TRUE
    /\ Finish(c, "ok")
    /\ UNCHANGED <<repository, calls, accepted>>

-----------------------------------------------------------------------------
(* The in-memory repository: its lock is never contended, a call is atomic. *)

InMemory(c) ==
    /\ repository = "memory"
    /\ calls < MaxCalls
    /\ calls' = calls + 1
    /\ UNCHANGED <<repository, call>>

Ends(c, result) == outcome' = [outcome EXCEPT ![c] = result]

CreateInMemory(c) ==
    /\ InMemory(c)
    /\ Ends(c, IF RowExists THEN "exists" ELSE "ok")
    /\ active' = IF RowExists THEN active ELSE 1
    /\ versions' = IF RowExists THEN versions ELSE {1}
    /\ UNCHANGED <<accepted, deleted>>

\* The new assistant replaces the old one.
PatchInMemory(c) ==
    /\ InMemory(c)
    /\ RowExists
    /\ active' = active + 1
    /\ versions' = {active + 1}
    /\ accepted' = accepted + 1
    /\ Ends(c, "ok")
    /\ UNCHANGED deleted

\* Version 1 is the only one it knows, and asking for it changes nothing.
SetLatestInMemory(c, v) ==
    /\ InMemory(c)
    /\ RowExists
    /\ Ends(c, IF v = 1 THEN "ok" ELSE "unversioned")
    /\ UNCHANGED <<active, versions, accepted, deleted>>

DeleteInMemory(c) ==
    /\ InMemory(c)
    /\ RowExists
    /\ active' = 0
    /\ versions' = {}
    /\ deleted' = TRUE
    /\ Ends(c, "ok")
    /\ UNCHANGED accepted

\* all() returns the items it has under the lock.
ReadInMemory(c) ==
    /\ InMemory(c)
    /\ RowExists
    /\ Ends(c, IF Found THEN "ok" ELSE "missing")
    /\ UNCHANGED <<active, versions, accepted, deleted>>

-----------------------------------------------------------------------------
(* The searches list the ids and then get() every one of them.             *)

SearchRead(c) ==
    /\ RowExists
    /\ Begin(c, Doing("get", 0, 0, {}))
    /\ outcome' = [outcome EXCEPT ![c] = "none"]

\* POST /assistants/search
SearchAssistants(c) == SearchRead(c) \/ ReadInMemory(c)

-----------------------------------------------------------------------------
Step(c) ==
    \/ CreateCommit(c) \/ Answer(c)
    \/ UpdateMissing(c) \/ UpdateRead(c) \/ UpdateRefused(c) \/ UpdateCommit(c)
    \/ SetLatestCommit(c) \/ DeleteCommit(c)

Next == \E c \in Callers :
    \/ Step(c)
    \/ CreateExisting(c) \/ CreateRead(c) \/ PatchRead(c) \/ DeleteRead(c)
    \/ CreateInMemory(c) \/ PatchInMemory(c) \/ DeleteInMemory(c)
    \/ SearchAssistants(c)
    \/ \E v \in versions : SetLatestRead(c, v) \/ SetLatestInMemory(c, v)

Spec == Init /\ [][Next]_vars

-----------------------------------------------------------------------------
\* While no delete interferes, concurrent creations, updates and roll-backs
\* keep the versions gapless with one for every accepted update, so that no
\* accepted update is lost, and the active version is one of them.  In memory
\* the version that is kept is the one of the last update.
UpdatesKeepVersions ==
    RowExists /\ ~deleted =>
        /\ Found
        /\ \A n \in 0 .. (1 + accepted) :
              AssistantVersions(1, n) =
                  IF n <= (IF repository = "postgres" THEN accepted ELSE 0) THEN <<1 + accepted - n>> ELSE <<>>

\* A request fails only for the races that end in an IntegrityError or a
\* StaleDataError: replicas that create the same assistant, search it or read
\* it back never see it missing unless it was deleted, and creation never
\* ends in a conflict ("idempotently across concurrently starting Gateways").
FailsOnlyIfRaced == \A c \in Callers :
    /\ outcome[c] = "missing" => deleted
    /\ outcome[c] = "conflict" => deleted \/ accepted > 0
=============================================================================
