\* Two subscribers over queues of two places and four events; two processes
\* that append four events to the Postgres journal and one stream; two sinks
\* and a restart of the projector; two callers of a batcher that takes two
\* events or three bytes.
CONSTANTS
  Subscriber = {s1, s2}
  queue_size = 2
  Cursor <- WithCursor
  MaxEvents = 4
  Appenders = {a1, a2}
  Streams = {p1}
  MaxRows = 4
  Sinks = 2
  MaxRestarts = 1
  Callers = {c1, c2}
  Sizes = {1, 2}
  BatchEvents = 2
  BatchBytes = 3
  MaxAdds = 4
  NoOne = NoOne
SPECIFICATION PartSpec
INVARIANTS HandOverExact NoAppendRefused SinksTellJournal BatchesComplete
PROPERTIES StreamEnds SubscriptionEnds
CHECK_DEADLOCK FALSE
