\* two publishers, a subscriber with a buffer and one without
CONSTANTS
  Publishers = {p1, p2}
  s1 = s1
  Subscribers = {s1, s2}
  BufferOf <- MCBufferOf
  Attempts = 2
  MaxEvents = 3
  NoOne = NoOne
SPECIFICATION FairSpec
INVARIANTS BroadcastInv
PROPERTIES PublishBlocksOnly CancelledReturns
\* a worker that stops reading blocks Publish, and with it its own unsubscribe
CHECK_DEADLOCK FALSE
