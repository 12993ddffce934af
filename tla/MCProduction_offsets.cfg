\* Two runs in one partition, no fault.
CONSTANTS
  r1 = r1
  r2 = r2
  r3 = r3
  t1 = t1
  p1 = p1
  p2 = p2
  NoThread = NoThread
  Run = {r1, r3}
  Thread = {t1}
  RunThread <- ThreadOf
  Adapted = {r1, r3}
  Partition = {p1}
  PartitionOf <- ByRun
  GraphOutcome = {"run.completed"}
  max_conc = 2
  MaxFaults = 0
SPECIFICATION Spec
INVARIANT CommittedAfterTransition
CHECK_DEADLOCK FALSE
