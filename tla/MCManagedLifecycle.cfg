SPECIFICATION FairSpec
CONSTANTS
  Streams = {s1, s2}
  Sources = {s1}
  Handles = {h1, h2}
  Steppers = {t1}
  ApiThreads = {a1}
  ApiWorker = a1
  Modes = {"thread", "unplaceable"}
  MaxUnits = 1
  LaterKinds = {"key", "delta"}
  EncoderDelay = 0
  PumpResults = {TRUE, FALSE}
  MaxFrames = 1
  MaxObjects = 2
  MaxGroups = 2
  MaxStarts = 1
  MaxReconfigures = 0
CHECK_DEADLOCK FALSE
INVARIANTS
  DestructionSafe
PROPERTIES
  ImplementsLeases
  StopCompletes
  DestructionCompletes
