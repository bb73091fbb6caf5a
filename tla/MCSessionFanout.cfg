SPECIFICATION Spec
CONSTANTS
  Subscribers = {c1}
  BufferMax = 3
  QueueMax = 2
  MaxMessages = 5
  MaxStreams = 2
CHECK_DEADLOCK FALSE
INVARIANTS
  TransientsGoFirst
PROPERTIES
  FeedSpec
  CriticalReaches
