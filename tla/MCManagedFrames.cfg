SPECIFICATION Spec
CONSTANTS
  Streams = {s1}
  Sources = {s1}
  Handles = {h1}
  Steppers = {t1, t2}
  ApiThreads = {a1, a2}
  ApiWorker = a1
  Modes = {"manual"}
  MaxUnits = 2
  LaterKinds = {"delta"}
  EncoderDelay = 1
  PumpResults = {TRUE}
  MaxFrames = 2
  MaxObjects = 2
  MaxGroups = 2
  MaxStarts = 1
  MaxReconfigures = 1
SYMMETRY Symmetry
CHECK_DEADLOCK FALSE
INVARIANTS
  TypeOK
  NoOrphanedPipeline
  FramesAccounted
  SnapshotMatchesEncoder
PROPERTIES
  EncodedInOrder
  UnitsDeliveredInOrder
