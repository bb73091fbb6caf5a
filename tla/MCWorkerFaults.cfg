SPECIFICATION Spec
CONSTANTS
  MaxRows = 1
  MaxAttempts = 2
  k1 = k1
  k2 = k2
  image = image
  video = video
  w1 = w1
  w2 = w2
  s1 = s1
  Key = {k1}
  NoKey = NoKey
  Lane = {video}
  LaneOf <- OnVideo
  Worker = {w1, w2}
  NoWorker = NoWorker
  Session = {s1}
  Host <- InBridge
  VideoLane = {video}
  Resumable = {video}
  Configs <- OneEach
  Unlabelled = {}
  Faults = {"crash", "stop", "slow", "loop"}
  MaxOutages = 2
SYMMETRY Symmetric
CHECK_DEADLOCK FALSE
INVARIANTS
  NeverOvercharged
