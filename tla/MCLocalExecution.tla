-------------------------- MODULE MCLocalExecution --------------------------
(***************************************************************************)
(* Instances of LocalExecution: r1 and r2 compete for t1, r3 runs on the   *)
(* thread t2 that clients delete, r4 is stateless.                         *)
(***************************************************************************)
EXTENDS LocalExecution

CONSTANTS r1, r2, r3, r4, t1, t2

ThreadOf == [r \in Run |-> CASE r = r3 -> t2 [] r = r4 -> NoThread [] OTHER -> t1]
=============================================================================
