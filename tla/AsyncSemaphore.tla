--------------------------- MODULE AsyncSemaphore ---------------------------
(***************************************************************************)
(* asyncio.Semaphore as the runtime's capacity classes use it (CPython     *)
(* 3.12).  release() hands the permit to the first waiter's future, so a   *)
(* woken waiter owns its permit before it runs again and nobody can barge  *)
(* in.  Not code of this repository.                                       *)
(***************************************************************************)
EXTENDS Integers, Sequences, FiniteSets

VARIABLES
  value,     \* permits that nobody owns
  waiters,   \* callers whose future is pending, first come first served
  granted    \* callers whose future was resolved and who have not run since

semaphore == <<value, waiters, granted>>

SemaphoreInit(maximum) == value = maximum /\ waiters = <<>> /\ granted = {}

\* locked(): a resolved future leaves the deque only when its owner runs.
Locked == value = 0 \/ waiters # <<>> \/ granted # {}

\* acquire() without a suspension.
AcquireNow == ~Locked /\ value' = value - 1 /\ UNCHANGED <<waiters, granted>>

\* acquire() that has to wait.
AcquireWait(c) == Locked /\ waiters' = Append(waiters, c) /\ UNCHANGED <<value, granted>>

\* release(): the permit goes to the first pending future, if there is one.
Release ==
  IF waiters = <<>>
  THEN value' = value + 1 /\ UNCHANGED <<waiters, granted>>
  ELSE /\ granted' = granted \cup {Head(waiters)}
       /\ waiters' = Tail(waiters)
       /\ UNCHANGED value

\* The loop at the end of every acquire() that waited: new waiters may have
\* queued behind it while permits were free, wake as many as there are.
WakeLoop(permits, pending, resolved) ==
  LET woken == IF permits < Len(pending) THEN permits ELSE Len(pending) IN
  /\ value' = permits - woken
  /\ waiters' = SubSeq(pending, woken + 1, Len(pending))
  /\ granted' = resolved \cup {pending[i] : i \in 1..woken}

\* A granted caller runs again and acquire() returns.
AcquireResumes(c) == c \in granted /\ WakeLoop(value, waiters, granted \ {c})

\* The same caller gives its permit back before it next suspends.
AcquireResumesAndReleases(c) == c \in granted /\ WakeLoop(value + 1, waiters, granted \ {c})

Without(i) == [j \in 1..(Len(waiters) - 1) |-> IF j < i THEN waiters[j] ELSE waiters[j + 1]]

\* A CancelledError reaches acquire(): a permit already granted is given
\* back, a pending future leaves the deque.
AcquireCancelled(c) ==
  \/ c \in granted /\ WakeLoop(value + 1, waiters, granted \ {c})
  \/ \E i \in 1..Len(waiters) : waiters[i] = c /\ WakeLoop(value, Without(i), granted)
=============================================================================
