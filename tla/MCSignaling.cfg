SPECIFICATION Spec
CONSTANTS
  Streams = {s1}
  Limits = {1, 2}
  MaxPending = 1
  MaxOffers = 3
  MaxRegistrations = 3
CHECK_DEADLOCK FALSE
INVARIANTS
  TypeOK
  TeardownEndsSessions
PROPERTIES
  ActiveRecipientsKept
  ImplementsPlaces
