SPECIFICATION DesktopSpec
CONSTANTS
  MaxRows = 1
  MaxAttempts = 1
  k1 = k1
  k2 = k2
  video = video
  w1 = w1
  w2 = w2
  s1 = s1
  c1 = c1
  Key = {k1}
  NoKey = NoKey
  Lane = {video}
  LaneOf <- OnVideo
  Worker = {w1, w2}
  NoWorker = NoWorker
  Session = {s1}
  Host <- InBridge
  VideoLane = {video}
  Resumable = {}
  Configs <- OneEach
  Unlabelled = {}
  Faults = {"crash", "stop", "loop", "bridge"}
  MaxOutages = 1
  Client = {c1}
INVARIANTS
  AlwaysAttended
PROPERTIES
  ServedUnlessDead
  StoppingEnds
