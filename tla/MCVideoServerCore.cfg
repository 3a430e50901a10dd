SPECIFICATION Spec
CONSTANTS
  Streams = {s1}
  Pushers = {p1, p2}
  Intervals = {0, 2, 3}
  MaxFrames = 5
  MaxRegistrations = 2
  MaxReconfigures = 2
SYMMETRY Symmetry
CHECK_DEADLOCK FALSE
INVARIANTS
  TypeOK
  FramesAccounted
PROPERTIES
  ThrottleHonoured
  ThrottledForCause
