SPECIFICATION Spec
CONSTANTS
  Kinds = {"config", "idr", "full", "delta", "av1_config", "av1_key", "av1_full",
           "av1_delta"}
  MaxUnits = 4
  MaxTracks = 2
CHECK_DEADLOCK FALSE
INVARIANTS
  TypeOK
  StartsDecodable
  AfterTheEnd
  DisconnectCountedOnce
