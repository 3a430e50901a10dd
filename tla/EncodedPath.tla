------------------------------ MODULE EncodedPath ------------------------------
(***************************************************************************)
(* A pipeline and what its sink feeds: the two ways this library binds     *)
(* them.                                                                   *)
(*                                                                         *)
(*   "managed"  ensure_pipeline (managed_video_server.cpp): the sink       *)
(*              pushes into the stream's handoff and always accepts; the   *)
(*              pipeline never decimates.  Encoder, drain and clear run    *)
(*              under the stream's mutex.                                  *)
(*   "server"   make_raw_video_pipeline_for_server: the sink is the        *)
(*              server's push_access_unit, which refuses the units of a    *)
(*              stream it does not know.  There is no handoff.             *)
(***************************************************************************)
EXTENDS EncodedHandoff, RawPipeline

VARIABLE use      \* how the pipeline is bound

handoffVars == vars
pathVars == <<handoffVars, pipelineVars, use>>

\* make_effective_pipeline_config takes output_fps out of a managed pipeline.
ConfigsOf(u) == IF u = "managed" THEN {c \in Configs : c.fps = 0} ELSE Configs

PathInit ==
  /\ use \in {"managed", "server"}
  /\ Init
  /\ PipelineInit /\ config \in ConfigsOf(use)

-----------------------------------------------------------------------------
\* Calls that reach no sink.  A frame enters only while its unit still fits the
\* bound MaxPushed.  A managed pipeline that failed is never started again.
PipelineAlone ==
  /\ \/ (use = "managed" => ~pipeline.failed) /\ Start
     \/ /\ pushed + Len(encoder.held) < MaxPushed
        /\ \E ts \in Times : PushFrameBegins(ts)
     \/ PushFrameEnds
     \/ Stop
     \/ FrameSkipped
  /\ UNCHANGED <<handoffVars, use>>

\* ensure_pipeline: the old pipeline was stopped, the new one is not yet started.
Replace ==
  /\ \E c \in ConfigsOf(use) : Rebuild(c)
  /\ UNCHANGED <<handoffVars, use>>

\* The managed sink copies the unit into the handoff.
HandoffSink ==
  /\ use = "managed"
  /\ \/ \E kind \in {"key", "delta"} : UnitTaken /\ PushFrame(kind)
     \/ ConfigTaken /\ PushConfig
  /\ UNCHANGED use

\* The server takes the unit.
ServerSink == use = "server" /\ UnitTaken /\ UNCHANGED <<handoffVars, use>>

\* The managed sink never refuses; an encoder can fail in either binding.
PathFails ==
  /\ \/ CallFails("encoder")
     \/ use = "server" /\ CallFails("sink")
  /\ UNCHANGED <<handoffVars, use>>

\* The API step drains, stop() clears: not while a call holds the stream's mutex.
OwnerSide ==
  /\ use = "managed" /\ call = "none"
  /\ Drain \/ Clear
  /\ UNCHANGED <<pipelineVars, use>>

PathNext ==
  \/ PipelineAlone
  \/ Replace
  \/ HandoffSink
  \/ ServerSink
  \/ PathFails
  \/ OwnerSide

PathSpec == PathInit /\ [][PathNext]_pathVars

-----------------------------------------------------------------------------
\* Types of both components and the binding they agree on.  The backlog never
\* outgrows its capacity, however pushes, drains and clears interleave.
PathTypeOK ==
  /\ TypeOK /\ PipelineTypeOK
  /\ BacklogBounded
  /\ use \in {"managed", "server"} /\ config \in ConfigsOf(use)
=============================================================================
