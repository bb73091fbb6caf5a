SPECIFICATION Spec
CONSTANTS
  MaxRows = 2
  MaxAttempts = 1
  k1 = k1
  k2 = k2
  image = image
  video = video
  w1 = w1
  w2 = w2
  s1 = s1
  Key = {k1, k2}
  NoKey = NoKey
  Lane = {video}
  LaneOf <- OnVideo
  Worker = {w1, w2}
  NoWorker = NoWorker
  Session = {}
  Host <- InBridge
  VideoLane = {video}
  Resumable = {video}
  Configs <- ZeroOrOne
  Unlabelled = {k2}
  Faults = {"crash"}
  MaxOutages = 2
SYMMETRY Symmetric
INVARIANTS
  NoTwinWork
  NoLostRow
PROPERTIES
  WithinCapacity
