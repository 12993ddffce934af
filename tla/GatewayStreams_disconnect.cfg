\* A client that goes away while the run still has events for its queue.
CONSTANTS
  Subscribers = {s1}
  MaxEvents = 4
  QueueSize = 1
  Window = 1
SPECIFICATION Spec
PROPERTY DisconnectLeavesRun
CHECK_DEADLOCK FALSE
