\* Two clients, three events, queues of two places and one event in flight:
\* a client may join between any two events, or in the middle of the loop
\* over the queues, and fall behind.
CONSTANTS
  Subscribers = {s1, s2}
  MaxEvents = 3
  QueueSize = 2
  Window = 1
SPECIFICATION Spec
INVARIANTS NothingSkipped ThreadFreed
PROPERTIES StreamIsClosed WaitIsAnswered
CHECK_DEADLOCK FALSE
