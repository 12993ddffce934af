\* Two runs on a thread; two executions at a time; one fault.
CONSTANTS
  r1 = r1
  r2 = r2
  r3 = r3
  t1 = t1
  p1 = p1
  p2 = p2
  NoThread = NoThread
  Run = {r1, r2}
  Thread = {t1}
  RunThread <- ThreadOf
  Adapted = {r1, r2}
  Partition = {p1, p2}
  PartitionOf <- ByRun
  GraphOutcome = {"run.completed", "run.interrupted"}
  max_conc = 2
  MaxFaults = 1
SPECIFICATION FairSpec
INVARIANTS OneActiveRunPerThread OneExecutionOnePermit BusyThreadIsAttended
PROPERTIES EndedUnlessRaced EveryRunSettles
CHECK_DEADLOCK FALSE
