--------------------------- MODULE MCControlPlane ---------------------------
(***************************************************************************)
(* What gateways and workers keep in the database besides runs and events: *)
(* the schemas and the registration at start-up, the assistants, the       *)
(* configuration revisions and the threads.  The tables are independent: a *)
(* behaviour exercises one of the parts, named by part, and the others     *)
(* stay in an initial state.                                               *)
(***************************************************************************)
EXTENDS Startup

CONSTANTS
  Callers, MaxCalls,
  Configs, MaxRevisions, MaxActivations,
  ThreadCallers, Threads, Keys, MaxRuns, Limits

\* Pages have room for something.
ASSUME PagingAssumption == Limits \subseteq Nat \ {0}

VARIABLES
  part,
  assistantStore, active, versions, assistantCall, outcome, assistantCalls, accepted, deleted,
  configStore, hash, activeRows, configCall, asked, latest, unseen,
  threadStore, rows, status, meta, runs, threadCall, threadCalls, patched, marked, overlapped

Assistants == INSTANCE Assistants WITH repository <- assistantStore, call <- assistantCall, calls <- assistantCalls
Revisions == INSTANCE ConfigRevisions WITH repository <- configStore, call <- configCall
Routes == INSTANCE ThreadRoutes WITH
  repository <- threadStore, call <- threadCall, calls <- threadCalls, None <- NoOne,
  Callers <- ThreadCallers

assistantVars == <<assistantStore, active, versions, assistantCall, outcome, assistantCalls, accepted, deleted>>
configVars == <<configStore, hash, activeRows, configCall, asked, latest, unseen>>
threadVars == <<threadStore, rows, status, meta, runs, threadCall, threadCalls, patched, marked, overlapped>>
allVars == <<part, vars, assistantVars, configVars, threadVars>>

PartInit ==
  /\ part \in {"startup", "assistants", "revisions", "threads"}
  /\ Init /\ Assistants!Init /\ Revisions!Init /\ Routes!Init
  /\ part # "startup" => database = {} /\ target \in [Workers -> {CHOOSE g \in Gateways : TRUE}]
  /\ part # "assistants" => assistantStore = "memory"
  /\ part # "revisions" => configStore = "memory"
  /\ part # "threads" => threadStore = "memory"

PartNext ==
  \/ part = "startup" /\ Next /\ UNCHANGED <<part, assistantVars, configVars, threadVars>>
  \/ part = "assistants" /\ Assistants!Next /\ UNCHANGED <<part, vars, configVars, threadVars>>
  \/ part = "revisions" /\ Revisions!Next /\ UNCHANGED <<part, vars, assistantVars, threadVars>>
  \/ part = "threads" /\ Routes!Next /\ UNCHANGED <<part, vars, assistantVars, configVars>>

PartSpec ==
  /\ PartInit
  /\ [][PartNext]_allVars
  /\ part = "startup" => Fairness

-----------------------------------------------------------------------------
(* The properties of the parts *)

\* Every process that starts comes up or fails.
StartUpSettles == part = "startup" => StartupSettles

\* No accepted update of an assistant loses its version.
UpdatesKeepVersions == Assistants!UpdatesKeepVersions

\* Requests for an assistant fail only for the races named there.
FailsOnlyIfRaced == Assistants!FailsOnlyIfRaced

\* The configuration served is the one activated last.
ActiveIsLatest == Revisions!ActiveIsLatest

\* A stored configuration revision never changes.
RevisionsImmutable == Revisions!RevisionsImmutable

\* Patches and status changes of a thread survive each other unless one was
\* made from a row that is out of date.
UpdatesKept == Routes!UpdatesKept

\* Paging through threads and runs shows every match once.
PagesCover == Routes!PagesCover
=============================================================================
