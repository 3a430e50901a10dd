SPECIFICATION PathSpec
CONSTANTS
  MaxUnits = 3
  MaxPushed = 6
  Configs <- PathConfigs
  Linked = {"libopenh264", "libx264", "vaapi"}
  Second = 10
  MaxDelay = 1
  MaxTime = 12
CHECK_DEADLOCK FALSE
INVARIANTS
  PathTypeOK
  NewestKeyframeKept
  StaleDroppedFirst
  UnitsAccounted
  BatchStartsSafe
  OverflowLoopAgrees
  DecimationExact
  TimesAdvance
  FailureTold
PROPERTIES
  ImplementsChannel
  NothingLostQuietly
