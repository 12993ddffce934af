-------------------------- MODULE ExecutionCapacity --------------------------
(***************************************************************************)
(* adapters/memory/capacity.py: a bounded number of execution slots with a *)
(* draining state.  The condition's lock is never held across a            *)
(* suspension, so the waits on the semaphore, inside the body of the slot  *)
(* and inside wait_for are the only places where callers interleave.       *)
(***************************************************************************)
EXTENDS AsyncSemaphore

CONSTANTS
  Caller,    \* tasks that enter slot(), again and again
  maximum    \* ExecutionCapacity(maximum)

ASSUME CapacityAssumption == maximum \in Nat \ {0}

VARIABLES
  inside,    \* callers in the body of a slot
  active,    \* _active
  draining,  \* _draining
  drainer    \* the task that calls drain()

vars == <<semaphore, inside, active, draining, drainer>>

Waiting == {waiters[i] : i \in DOMAIN waiters}

Init ==
  /\ SemaphoreInit(maximum)
  /\ inside = {} /\ active = 0 /\ draining = FALSE /\ drainer = "away"

\* A caller outside slot() may call it; it raises at once while draining.
MayEnter(c) == c \notin inside \cup granted \cup Waiting /\ ~draining

SlotEntered(c) == inside' = inside \cup {c} /\ active' = active + 1

\* A free permit: neither check of the draining flag suspends.
Enter(c) ==
  /\ MayEnter(c) /\ AcquireNow
  /\ SlotEntered(c)
  /\ UNCHANGED <<draining, drainer>>

Queue(c) ==
  /\ MayEnter(c) /\ AcquireWait(c)
  /\ UNCHANGED <<inside, active, draining, drainer>>

\* Mutant: the flag is not looked at again after the wait.
EnterAfterWaitUnchecked(c) ==
  /\ AcquireResumes(c)
  /\ SlotEntered(c)
  /\ UNCHANGED <<draining, drainer>>

\* The second check, after the wait.
EnterAfterWait(c) ==
  /\ ~draining /\ AcquireResumes(c)
  /\ SlotEntered(c)
  /\ UNCHANGED <<draining, drainer>>

\* Mutant: the refused caller keeps its permit.
RefusedKeepsPermit(c) ==
  /\ draining /\ AcquireResumes(c)
  /\ UNCHANGED <<inside, active, draining, drainer>>

RefusedAfterWait(c) ==
  /\ draining /\ AcquireResumesAndReleases(c)
  /\ UNCHANGED <<inside, active, draining, drainer>>

CancelledWaiting(c) ==
  /\ AcquireCancelled(c)
  /\ UNCHANGED <<inside, active, draining, drainer>>

\* Mutant: nobody is notified.
LeaveUnnoticed(c) ==
  /\ c \in inside
  /\ inside' = inside \ {c} /\ active' = active - 1
  /\ Release
  /\ UNCHANGED <<draining, drainer>>

\* The finally block of slot(): by return, exception or cancellation.
Leave(c) ==
  /\ c \in inside
  /\ inside' = inside \ {c} /\ active' = active - 1
  /\ drainer' = IF drainer = "waiting" THEN "notified" ELSE drainer
  /\ Release
  /\ UNCHANGED draining

\* start_draining() alone also notifies; drain() goes on to wait.
StartDraining ==
  /\ ~draining
  /\ draining' = TRUE
  /\ UNCHANGED <<semaphore, inside, active, drainer>>

DrainCalled ==
  /\ drainer = "away"
  /\ draining' = TRUE
  /\ drainer' = IF active = 0 THEN "returned" ELSE "waiting"
  /\ UNCHANGED <<semaphore, inside, active>>

DrainWoken ==
  /\ drainer = "notified"
  /\ drainer' = IF active = 0 THEN "returned" ELSE "waiting"
  /\ UNCHANGED <<semaphore, inside, active, draining>>

Next ==
  \/ \E c \in Caller :
       \/ Enter(c) \/ Queue(c) \/ EnterAfterWait(c) \/ RefusedAfterWait(c)
       \/ CancelledWaiting(c) \/ Leave(c)
  \/ StartDraining \/ DrainCalled \/ DrainWoken

Spec == Init /\ [][Next]_vars

\* Woken tasks run, and the body of a slot ends.
Fairness ==
  /\ \A c \in Caller : /\ WF_vars(EnterAfterWait(c) \/ RefusedAfterWait(c))
                       /\ WF_vars(Leave(c))
  /\ WF_vars(DrainWoken)

FairSpec == Spec /\ Fairness

-----------------------------------------------------------------------------
(* Properties *)

\* Once drain() has returned nobody is in a slot, not even a caller that was
\* queued on the semaphore when draining began.
DrainedStaysEmpty == drainer = "returned" => inside = {}

\* Everyone queued on the semaphore leaves the queue, with a slot or refused.
WaiterIsServed == \A c \in Caller : c \in Waiting ~> c \notin Waiting

\* drain() returns once the bodies of the slots end.
DrainReturns == drainer # "away" ~> drainer = "returned"
=============================================================================
