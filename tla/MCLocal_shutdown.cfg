\* The runtime is shut down.
CONSTANTS
  r1 = r1
  r2 = r2
  r3 = r3
  r4 = r4
  t1 = t1
  t2 = t2
  NoThread = NoThread
  Run = {r1, r4}
  Thread = {t1, t2}
  RunThread <- ThreadOf
  Adapted = {r1, r4}
  ViaOutbox = {}
  Priority = {50}
  GraphOutcome = {"run.completed", "run.interrupted"}
  Disposable = {}
  Shutdowns = TRUE
  MaxPublish = 3
  MaxEvents = 3
SPECIFICATION FairSpec
PROPERTY ShutdownTerminates
CHECK_DEADLOCK FALSE
