--------------------------- MODULE ConfigRevisions ---------------------------
(***************************************************************************)
(* The configuration routes of the gateway over its two repositories: the  *)
(* rows of PostgresApplicationConfigRepository, where transactions of      *)
(* several replicas interleave statement by statement, and the list of     *)
(* InMemoryApplicationConfigRepository, whose lock makes calls atomic.     *)
(* One application; its configurations are told apart by their hash.       *)
(***************************************************************************)
EXTENDS Integers, FiniteSetsExt, Functions

CONSTANTS
    Callers,        \* requests served at the same time
    Configs,        \* configurations (hashes) that clients submit
    MaxRevisions,   \* bound: revisions created
    MaxActivations  \* bound: activations asked for

VARIABLES
    repository,     \* "postgres" or "memory"
    hash,           \* hash of every stored revision, by revision number
    activeRows,     \* revisions whose row says active
    call,           \* what each caller's open transaction has read or locked
    asked,          \* activations asked for
    latest,         \* revision named by the latest activation, 0 before
    unseen          \* a revision was stored behind an activation's snapshot

vars == <<repository, hash, activeRows, call, asked, latest, unseen>>

-----------------------------------------------------------------------------
Idle == [op |-> "idle", number |-> 0, config |-> {}, snapshot |-> {}, scanned |-> {}]
Revisions == DOMAIN hash

Init ==
    /\ repository \in {"postgres", "memory"}
    /\ hash = <<>>
    /\ activeRows = {}
    /\ call = [c \in Callers |-> Idle]
    /\ asked = 0
    /\ latest = 0
    /\ unseen = FALSE

\* get_active: the highest active revision, 0 for RESOURCE_NOT_FOUND.
GetActive == Max(activeRows \union {0})

-----------------------------------------------------------------------------
(* PUT .../config with a valid configuration                               *)

\* SELECT MAX(revision_number) + 1
CreateRead(c, f) ==
    /\ repository = "postgres"
    /\ call[c].op = "idle"
    /\ Max(Revisions \union {0}) < MaxRevisions
    /\ call' = [call EXCEPT ![c] =
                  [Idle EXCEPT !.op = "create", !.number = Max(Revisions \union {0}) + 1, !.config = {f}]]
    /\ UNCHANGED <<repository, hash, activeRows, asked, latest, unseen>>

\* Mutant: without the constraint on numbers readers find the revision inserted last.
InsertableByHash(n, f) == f \notin Range(hash)

\* Both unique constraints of the table.
Insertable(n, f) == n \notin Revisions /\ f \notin Range(hash)

\* An activation that does not hold its locks: its first UPDATE still waits
\* for rows, or its snapshot had none.
Exposed(c) ==
    call[c].op = "activate" /\ (call[c].snapshot = {} \/ call[c].scanned # call[c].snapshot)

CreateCommit(c) ==
    /\ call[c].op = "create"
    /\ \E f \in call[c].config :
          hash' = IF Insertable(call[c].number, f)
                  THEN [n \in Revisions \union {call[c].number} |-> IF n = call[c].number THEN f ELSE hash[n]]
                  ELSE hash                          \* IntegrityError, rolled back
    /\ unseen' = (unseen \/ (hash' # hash /\ \E d \in Callers : Exposed(d)))
    /\ call' = [call EXCEPT ![c] = Idle]
    /\ UNCHANGED <<repository, activeRows, asked, latest>>

\* The list grows by one; the first revision is active from the start.
CreateInMemory(f) ==
    /\ repository = "memory"
    /\ Max(Revisions \union {0}) < MaxRevisions
    /\ LET n == Cardinality(Revisions) + 1
       IN  /\ hash' = [m \in 1 .. n |-> IF m = n THEN f ELSE hash[m]]
           /\ activeRows' = IF Revisions = {} THEN {n} ELSE activeRows
           /\ latest' = IF Revisions = {} THEN n ELSE latest
    /\ UNCHANGED <<repository, call, asked, unseen>>

\* create_config_revision; a configuration that fails validation changes nothing.
PutConfig(c, f) == CreateRead(c, f) \/ CreateInMemory(f)

-----------------------------------------------------------------------------
(* POST .../config/{revision}/activate                                     *)

\* Mutant: the rows are left unlocked between the two statements.
UnlockedAlways(c, r) == TRUE

\* A row that an UPDATE has touched is locked until its transaction ends.
Unlocked(c, r) == \A d \in Callers \ {c} : r \notin call[d].scanned

\* UPDATE ... SET active = false fixes the rows it will touch before it waits
\* for any of them (READ COMMITTED, the engine's default).
ActivateBegin(c, n) ==
    /\ repository = "postgres"
    /\ call[c].op = "idle"
    /\ asked < MaxActivations
    /\ asked' = asked + 1
    /\ call' = [call EXCEPT ![c] = [Idle EXCEPT !.op = "activate", !.number = n, !.snapshot = Revisions]]
    /\ UNCHANGED <<repository, hash, activeRows, latest, unseen>>

\* It touches a row, not visible to others before the commit, once no other
\* transaction has it.
ActivateScan(c) ==
    /\ call[c].op = "activate"
    /\ \E r \in call[c].snapshot \ call[c].scanned :
          Unlocked(c, r) /\ call' = [call EXCEPT ![c].scanned = @ \union {r}]
    /\ UNCHANGED <<repository, hash, activeRows, asked, latest, unseen>>

\* UPDATE ... SET active = true RETURNING, which sees the rows of now and may
\* wait for its row as well, and the commit; or the rollback of both
\* statements when the revision does not exist.
ActivateCommit(c) ==
    /\ call[c].op = "activate"
    /\ call[c].scanned = call[c].snapshot
    /\ LET n == call[c].number IN
       IF n \in Revisions
       THEN Unlocked(c, n) /\ activeRows' = (activeRows \ call[c].scanned) \union {n} /\ latest' = n
       ELSE UNCHANGED <<activeRows, latest>>
    /\ call' = [call EXCEPT ![c] = Idle]
    /\ UNCHANGED <<repository, hash, asked, unseen>>

\* A statement raises and session.begin() rolls back: two activations wait
\* for each other's rows and Postgres fails one, or the connection is lost.
ActivateRaises(c) ==
    /\ call[c].op = "activate"
    /\ call' = [call EXCEPT ![c] = Idle]
    /\ UNCHANGED <<repository, hash, activeRows, asked, latest, unseen>>

ActivateInMemory(n) ==
    /\ repository = "memory"
    /\ asked < MaxActivations
    /\ asked' = asked + 1
    /\ IF n \in Revisions
       THEN activeRows' = {n} /\ latest' = n
       ELSE UNCHANGED <<activeRows, latest>>
    /\ UNCHANGED <<repository, hash, call, unseen>>

\* activate_config
ActivateConfig(c, n) == ActivateBegin(c, n) \/ ActivateInMemory(n)

-----------------------------------------------------------------------------
Next == \E c \in Callers :
    \/ \E f \in Configs : PutConfig(c, f)
    \/ \E n \in 1 .. MaxRevisions : ActivateConfig(c, n)
    \/ CreateCommit(c) \/ ActivateScan(c) \/ ActivateCommit(c) \/ ActivateRaises(c)

Spec == Init /\ [][Next]_vars

-----------------------------------------------------------------------------
\* Whatever activations interleave, and with creations as well once they hold
\* their rows, the configuration that get_active serves is the one the latest
\* activation named, and no other row is active.  The exception is a revision
\* that was stored after the snapshot of an activation's first UPDATE and
\* before that UPDATE had its locks (it waited for another activation, or the
\* table was empty and there was nothing to lock): if it is made active
\* meanwhile, nothing makes it inactive.
ActiveIsLatest ==
    ~unseen => GetActive = latest /\ activeRows \subseteq {latest}

\* A stored revision keeps its number and its configuration ("immutable
\* application revision"), whoever creates the next one.
RevisionsImmutable ==
    [][\A n \in Revisions : n \in DOMAIN hash' /\ hash'[n] = hash[n]]_vars
=============================================================================
