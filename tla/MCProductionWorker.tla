------------------------- MODULE MCProductionWorker -------------------------
(***************************************************************************)
(* Instances of ProductionWorker: r1 and r2 compete for t1, r3 is          *)
(* stateless and its assistant may have no adapter in the worker.          *)
(***************************************************************************)
EXTENDS ProductionWorker

CONSTANTS r1, r2, r3, t1, p1, p2

ThreadOf == [r \in Run |-> IF r = r3 THEN NoThread ELSE t1]
ByRun    == [r \in Run |-> IF r = r1 /\ p2 \in Partition THEN p2 ELSE p1]
=============================================================================
