CONSTANTS
  Client = {c1, c2}
  Page = {c1}
  MaxChannels = 2
  MaxJoins = 2
  MaxWrites = 1
  MaxBatches = 1
  MaxFailures = 1
  QueueSize = 1
SPECIFICATION FairSpec
INVARIANTS NoGap Attended UpToDate
PROPERTY CatchesUp
CHECK_DEADLOCK FALSE
