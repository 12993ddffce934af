\* A run is interrupted and resumed.
CONSTANTS
  r1 = r1
  r2 = r2
  r3 = r3
  r4 = r4
  t1 = t1
  t2 = t2
  NoThread = NoThread
  Run = {r1, r2}
  Thread = {t1, t2}
  RunThread <- ThreadOf
  Adapted = {r1, r2}
  ViaOutbox = {}
  Priority = {50}
  GraphOutcome = {"run.completed", "run.interrupted"}
  Disposable = {}
  Shutdowns = FALSE
  MaxPublish = 3
  MaxEvents = 3
SPECIFICATION FairSpec
PROPERTY ResumeContinuesRun
CHECK_DEADLOCK FALSE
