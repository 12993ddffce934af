\* Two gateways and two workers with two attempts to register; three requests
\* at a time on an assistant and on the configurations, four in all and two
\* revisions; two requests at a time on two threads with two runs.
CONSTANTS
  Gateways = {g1, g2}
  Workers = {w1, w2}
  MaxAttempts = 2
  NoOne = NoOne
  Callers = {c1, c2, c3}
  MaxCalls = 4
  Configs = {f1, f2}
  MaxRevisions = 2
  MaxActivations = 3
  ThreadCallers = {c1, c2}
  Threads = {t1, t2}
  Keys = {k1}
  MaxRuns = 2
  Limits = {1, 2}
SPECIFICATION PartSpec
INVARIANTS MigratedOnce UpdatesKeepVersions FailsOnlyIfRaced ActiveIsLatest UpdatesKept PagesCover
PROPERTIES StartUpSettles RevisionsImmutable
CHECK_DEADLOCK FALSE
