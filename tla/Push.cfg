\* Of the hub: two connections, buffers of one, two messages: the second finds
\* a slow client.
SPECIFICATION PushSpec
CONSTANTS
  Clients = {c1, c2}
  QueueSize = 1
  SendSize = 1
  MaxMessages = 2
  MaxSockets = 3
  MaxTimers = 2
  Run = r
  MaxNotes = 2
INVARIANTS
  NeverPanics
  NoGap
  ClientRetries
PROPERTIES
  Delivered
  NoLeak
  DetailSettles
  ListSettles
  NoFlicker
\* The browsers may all have gone, and a part stops at its bounds.
CHECK_DEADLOCK FALSE
