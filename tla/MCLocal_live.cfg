\* Two priorities; graphs may fail and the assistant of r4 has no adapter; no delete, no shutdown.
CONSTANTS
  r1 = r1
  r2 = r2
  r3 = r3
  r4 = r4
  t1 = t1
  t2 = t2
  NoThread = NoThread
  Run = {r1, r2, r4}
  Thread = {t1, t2}
  RunThread <- ThreadOf
  Adapted = {r1, r2}
  ViaOutbox = {}
  Priority = {10, 100}
  GraphOutcome = {"run.completed", "run.interrupted", "run.failed"}
  Disposable = {}
  Shutdowns = FALSE
  MaxPublish = 4
  MaxEvents = 3
SPECIFICATION FairSpec
PROPERTIES EveryRunSettles EveryLeaseAcknowledged
CHECK_DEADLOCK FALSE
