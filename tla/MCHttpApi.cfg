SPECIFICATION FairSpec
CONSTANTS
  Settings <- MCSettings
  Clients = {"c1"}
  Paths = {"output", "config"}
  Requests <- MCRequests
  Palettes = {0, 1, 2}
  MaxTime = 2
  MaxChanges = 3
CHECK_DEADLOCK FALSE
INVARIANTS
  HttpTypeOK
  WindowsHold
  PutWhole
PROPERTIES
  StopReturns
