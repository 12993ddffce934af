\* Four callers over two slots, three calls over two slots of a gRPC worker
\* with two of them for the same run, and a command of every priority.
CONSTANTS
  Caller = {c1, c2, c3, c4}
  maximum = 2
  Call = {k1, k2, k3}
  Run = {ra, rb}
  RunOf <- SharedRun
  NoCall = NoCall
  configured = 3
  environment = 2
  ceiling = 64
  Interactive = {i1}
  Normal = {n1}
  Batch = {b1}
SPECIFICATION PartSpec
INVARIANTS DrainedStaysEmpty SlotsMatchPermits DrainedAdmitsQueuedOnly DeliveriesBounded
PROPERTIES WaiterIsServed DrainReturns NobodyStarves
CHECK_DEADLOCK FALSE
