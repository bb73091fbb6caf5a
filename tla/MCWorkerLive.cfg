SPECIFICATION FairSpec
CONSTANTS
  MaxRows = 2
  MaxAttempts = 2
  k1 = k1
  k2 = k2
  image = image
  video = video
  w1 = w1
  w2 = w2
  s1 = s1
  Key = {k1, k2}
  NoKey = NoKey
  Lane = {image}
  LaneOf <- OnImage
  Worker = {w1}
  NoWorker = NoWorker
  Session = {s1}
  Host <- InWorker
  VideoLane = {}
  Resumable = {}
  Configs <- OneEach
  Unlabelled = {}
  Faults = {"crash"}
  MaxOutages = 1
PROPERTIES
  Served
  CancellingEnds
