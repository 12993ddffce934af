---------------------------- MODULE RunLifecycle ----------------------------
(***************************************************************************)
(* What the runtime promises about runs, whatever executes them: a run is  *)
(* created on a thread that no active run holds, is started once, ends     *)
(* once, and what has ended stays as it ended.  The deployment profiles    *)
(* are compared with this specification through the run repository.        *)
(***************************************************************************)
EXTENDS ExecutionDomain

CONSTANTS Run, NoThread, RunThread

VARIABLE runs   \* run status; "absent" before creation, "deleted" afterwards

Init == runs = [r \in Run |-> "absent"]

ThreadFree(r) ==
  RunThread[r] # NoThread =>
    \A other \in Run : RunThread[other] = RunThread[r] => runs[other] \notin Active

Becomes(r, status) == runs' = [runs EXCEPT ![r] = status]

\* Accepted, or refused by the queue after it was recorded.
Create(r) ==
  /\ runs[r] = "absent" /\ ThreadFree(r)
  /\ Becomes(r, "pending") \/ Becomes(r, "error")

Begin(r) == runs[r] = "pending" /\ Becomes(r, "running")

End(r) ==
  /\ runs[r] = "running"
  /\ \E status \in {"success", "error", "interrupted"} : Becomes(r, status)

Cancel(r) == runs[r] \in Active /\ Becomes(r, "cancelled")

Delete(r) == runs[r] \in RunStatus /\ Becomes(r, "deleted")

Next == \E r \in Run : Create(r) \/ Begin(r) \/ End(r) \/ Cancel(r) \/ Delete(r)

Spec == Init /\ [][Next]_runs
=============================================================================
