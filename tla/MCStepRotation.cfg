SPECIFICATION Spec
CONSTANTS
  Streams = {s1, s2, s3}
  Budget = 1
  Breakable = {s1}
  MaxChanges = 3
INVARIANTS
  RotationTypeOK
  BudgetForReadyStreams
PROPERTIES
  ReadyServedUnlessBroken
