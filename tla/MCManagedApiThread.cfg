SPECIFICATION Spec
CONSTANTS
  Streams = {s1}
  Sources = {s1}
  Handles = {h1}
  Steppers = {t1}
  ApiThreads = {a1}
  ApiWorker = a1
  Modes = {"thread"}
  MaxUnits = 2
  LaterKinds = {"delta"}
  EncoderDelay = 0
  PumpResults = {TRUE}
  MaxFrames = 1
  MaxObjects = 1
  MaxGroups = 1
  MaxStarts = 1
  MaxReconfigures = 0
CHECK_DEADLOCK FALSE
INVARIANTS
  ApiThreadRuns
