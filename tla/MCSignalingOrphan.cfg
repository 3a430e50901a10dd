SPECIFICATION Spec
CONSTANTS
  Streams = {s1}
  Limits = {1, 2}
  MaxPending = 1
  MaxOffers = 1
  MaxRegistrations = 1
CHECK_DEADLOCK FALSE
INVARIANTS
  NoSessionOutlivesStream
