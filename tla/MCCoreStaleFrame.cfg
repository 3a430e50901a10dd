SPECIFICATION Spec
CONSTANTS
  Streams = {s1}
  Pushers = {p1}
  Intervals = {0}
  MaxFrames = 2
  MaxRegistrations = 1
  MaxReconfigures = 1
CHECK_DEADLOCK FALSE
INVARIANTS
  LatestReflectsConfig
