--------------------------- MODULE ExecutionDomain ---------------------------
(***************************************************************************)
(* The status machines of domain/execution: what a Run and a Thread may    *)
(* be, which changes Run._change refuses, and the lifecycle event that     *)
(* announces each outcome.  Every other module of the project takes its    *)
(* statuses from here.                                                     *)
(***************************************************************************)

\* RunStatus and the members that Run._change treats as terminal.
RunStatus == {"pending", "running", "interrupted",
              "success", "error", "timeout", "cancelled"}
Terminal  == {"success", "error", "timeout", "cancelled"}

\* The statuses the run repositories count as occupying a thread.
Active == {"pending", "running", "interrupted"}

ThreadStatus == {"idle", "busy", "interrupted", "error"}

\* Run._change(status) raises ValueError exactly when this is false.
\* mark_running, complete, fail and cancel all go through it.
CanChange(from, to) == from \in Terminal => to = from

\* The lifecycle events that end an execution, and the ones before them.
EndEvent  == {"run.completed", "run.cancelled", "run.failed",
              "run.timeout", "run.interrupted"}
EventType == EndEvent \cup {"run.queued", "run.started",
                            "state.values", "interrupt.created"}

\* The status an ending event gives its run (everything that is neither
\* completed, cancelled nor interrupted takes the fail() branch).
StatusOf(event) ==
  CASE event = "run.completed"   -> "success"
    [] event = "run.cancelled"   -> "cancelled"
    [] event = "run.interrupted" -> "interrupted"
    [] OTHER                     -> "error"

\* Whether the consumer of the stream can store that status: an interrupt
\* builds the Run directly and so bypasses Run._change.
CanStore(status, event) ==
  event = "run.interrupted" \/ CanChange(status, StatusOf(event))
=============================================================================
