--------------------------- MODULE MCEncodedPath ---------------------------
(***************************************************************************)
(* EncodedPath for TLC: a managed H.264 pipeline that may choose OpenH264  *)
(* or VA-API, an AV1 pipeline, a decimating pipeline of 3 frames in 10     *)
(* units of time (the interval 3 is rounded down from 3 1/3), and one that *)
(* can never start.                                                        *)
(***************************************************************************)
EXTENDS EncodedPath

PathConfig(codec, encoder_, fps_) ==
  [codec |-> codec, encoder |-> encoder_, fps |-> fps_, wellFormed |-> TRUE]

PathConfigs ==
  {PathConfig("H264", "automatic", 0), PathConfig("AV1", "automatic", 0),
   PathConfig("H264", "libx264", 3), PathConfig("AV1", "libx264", 3)}
=============================================================================
