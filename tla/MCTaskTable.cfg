SPECIFICATION Spec
CONSTANTS
  MaxRows = 3
  MaxAttempts = 2
  video = video
  Key = {k1, k2, k3}
  NoKey = NoKey
  Lane = {video}
  LaneOf <- MCLaneOf
  Session = {s1, s2}
SYMMETRY Symmetric
INVARIANTS
  TypeOK
  OneActivePerKey
  StartedAfterDependency
  CascadeAttribution
PROPERTIES
  DeathReachesAllBelow
  CancellingOnlyCancels
  LifecycleSpec
