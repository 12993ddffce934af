\* Starts, cancels, interrupts, resumes, deletes, failing graphs and a shutdown; r4 goes to the outbox.
CONSTANTS
  r1 = r1
  r2 = r2
  r3 = r3
  r4 = r4
  t1 = t1
  t2 = t2
  NoThread = NoThread
  Run = {r1, r2, r3, r4}
  Thread = {t1, t2}
  RunThread <- ThreadOf
  Adapted = {r1, r2, r3}
  ViaOutbox = {r4}
  Priority = {50}
  GraphOutcome = {"run.completed", "run.interrupted", "run.failed"}
  Disposable = {t2}
  Shutdowns = TRUE
  MaxPublish = 4
  MaxEvents = 3
SPECIFICATION Spec
INVARIANTS TypeOK OneActiveRunPerThread RunningRunIsExecuting PendingRunHasCommand LeasedCommandIsExecuting JournalTellsStatus BusyThreadHasActiveRun
PROPERTY ImplementsLifecycle
CHECK_DEADLOCK FALSE
