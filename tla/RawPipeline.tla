------------------------------ MODULE RawPipeline ------------------------------
(***************************************************************************)
(* One raw video pipeline: class RawToH264Pipeline and its libav back end  *)
(* (raw_to_h264_pipeline.cpp).  start, push_frame and stop hold the        *)
(* pipeline's mutex from beginning to end, so the calls follow one         *)
(* another; the steps inside a call are the answers of libavcodec and of   *)
(* the sink, which is called with the mutex held.                          *)
(*                                                                         *)
(* A frame is its time stamp, and inside the encoder the time stamp of its *)
(* unit: a place on the grid of the encoder's time base.  A push that is   *)
(* refused, does not fit the input format or is decimated changes nothing. *)
(***************************************************************************)
EXTENDS Integers, Sequences

CONSTANTS
  Configs,        \* the configurations pipelines are built with
  Linked,         \* the encoders of the linked libavcodec build
  Second,         \* units of a time stamp in a second (1000000000 in the code)
  MaxDelay,       \* the most frames an encoder holds back
  MaxTime         \* bound: the largest time stamp of a frame

Hardware == {"vaapi", "nvenc"}
Encoders == Hardware \cup {"libopenh264", "libx264", "libaom-av1"}

\* RawVideoPipelineConfig: fps is output_fps, 0 without one; wellFormed stands
\* for the tests of validate_config on sizes, formats and ranges.
Config ==
  [codec : {"H264", "AV1"}, encoder : Encoders \cup {"automatic"}, fps : Nat,
   wellFormed : BOOLEAN]

ASSUME PipelineAssumption ==
  /\ Configs \subseteq Config
  /\ Linked \subseteq Encoders
  /\ Second \in Nat \ {0} /\ MaxDelay \in Nat /\ MaxTime \in Nat
  /\ \A c \in Configs : c.fps <= Second

VARIABLES
  config,     \* config_
  pipeline,   \* [running, failed, failure, next]: running_, failed_,
              \* failure_error_, next_allowed_timestamp_ns_
  encoder,    \* the back end: [open, active, fed, held]; active is the encoder
              \* its runtime info names, fed is next_frame_index_ > 0
  call,       \* which call holds the mutex: "none", "push_frame" or "stop"
  admitted,   \* ghost: the frame last admitted since start(), or None
  recent,     \* ghost: the times of the last two units since start()
  ending      \* ghost: what ended the last run: "none", "sink", "encoder", "flush"

pipelineVars == <<config, pipeline, encoder, call, admitted, recent, ending>>

None == -1

NewPipeline == [running |-> FALSE, failed |-> FALSE, failure |-> "EncoderFailure",
                next |-> 0]
ClosedEncoder == [open |-> FALSE, active |-> "none", fed |-> FALSE, held |-> <<>>]

PipelineInit ==
  /\ config \in Configs
  /\ pipeline = NewPipeline
  /\ encoder = ClosedEncoder
  /\ call = "none"
  /\ admitted = None /\ recent = <<>> /\ ending = "none"

-----------------------------------------------------------------------------
(* Operators of the configuration.                                         *)

\* validate_config: AV1 has no software H.264 encoder and the other way round.
ValidConfig(c) ==
  /\ c.wellFormed
  /\ c.codec = "AV1" => c.encoder \notin {"libx264", "libopenh264"}
  /\ c.codec = "H264" => c.encoder # "libaom-av1"

\* The encoder open() chooses when the probes succeed for those in `usable`.
SelectedEncoder(c, usable) ==
  IF c.encoder # "automatic" THEN c.encoder
  ELSE IF "vaapi" \in usable THEN "vaapi"
  ELSE IF c.codec = "H264" THEN "libopenh264"
  ELSE IF "nvenc" \in usable THEN "nvenc" ELSE "none"

\* fps_filter_interval_ns_: llround(second / fps), 0 without output_fps.
Interval(c) == IF c.fps = 0 THEN 0 ELSE (2 * Second + c.fps) \div (2 * c.fps)
Decimating == Interval(config) > 0

\* Mutant: a time base of one second, the frame rate left out.
UnitTimeInSeconds(c, ts) == (2 * ts + Second) \div (2 * Second)
\* rescale_timestamp_ns_to_pts: the nearest point of the grid of 1/fps.
UnitTime(c, ts) == (2 * ts * c.fps + Second) \div (2 * Second)

\* Mutant: a frame that comes exactly when the next is allowed is dropped.
ShouldDropAtBoundary(ts) ==
  Decimating /\ pipeline.next # 0 /\ ts <= pipeline.next
\* should_drop_frame_locked: 0 stands for "nothing admitted yet".
ShouldDrop(ts) ==
  Decimating /\ pipeline.next # 0 /\ ts < pipeline.next

\* What push_frame answers before it looks at the frame; "NoError" goes on.
PushRefusal ==
  IF pipeline.running THEN "NoError"
  ELSE IF pipeline.failed THEN pipeline.failure ELSE "NotStarted"

-----------------------------------------------------------------------------
(* start(): nothing happens while running or with an invalid configuration. *)

Startable == call = "none" /\ ~pipeline.running /\ ValidConfig(config)

\* open() closes what was open, then fails at one of its many exits; behind the
\* selection the runtime info already names the encoder that did not open.
StartFails(usable) ==
  /\ Startable
  /\ LET chosen == SelectedEncoder(config, usable) IN
     \E active \in {"none"} \cup ({chosen} \cap Linked) :
       encoder' = [ClosedEncoder EXCEPT !.active = active]
  /\ UNCHANGED <<config, pipeline, call, admitted, recent, ending>>

\* Mutant: the decimation clock and the failure of the last run are kept.
StartKeepsState(usable) ==
  /\ Startable
  /\ SelectedEncoder(config, usable) \in Linked
  /\ encoder' = [ClosedEncoder EXCEPT
                   !.open = TRUE, !.active = SelectedEncoder(config, usable)]
  /\ pipeline' = [pipeline EXCEPT !.running = TRUE, !.failed = FALSE]
  /\ admitted' = None /\ recent' = <<>> /\ ending' = "none"
  /\ UNCHANGED <<config, call>>
StartOpens(usable) ==
  /\ Startable
  /\ SelectedEncoder(config, usable) \in Linked
  /\ encoder' = [ClosedEncoder EXCEPT
                   !.open = TRUE, !.active = SelectedEncoder(config, usable)]
  /\ pipeline' = [NewPipeline EXCEPT !.running = TRUE]
  /\ admitted' = None /\ recent' = <<>> /\ ending' = "none"
  /\ UNCHANGED <<config, call>>

-----------------------------------------------------------------------------
(* push_frame()                                                            *)

\* Without decimation nothing depends on the time stamp.
Times == IF Decimating THEN 0..MaxTime ELSE {0}

\* The frame passes the decimation and is given to the encoder.
PushFrameBegins(ts) ==
  /\ call = "none"
  /\ PushRefusal = "NoError"
  /\ ~ShouldDrop(ts)
  /\ pipeline' = [pipeline EXCEPT !.next = IF Decimating THEN ts + Interval(config)
                                           ELSE 0]
  /\ encoder' = [encoder EXCEPT !.fed = TRUE, !.held = Append(@, UnitTime(config, ts))]
  /\ call' = "push_frame"
  /\ admitted' = IF Decimating THEN ts ELSE None
  /\ UNCHANGED <<config, recent, ending>>

\* drain_encoder has nothing left to receive: the encoder holds back the rest.
PushFrameEnds ==
  /\ call = "push_frame" /\ Len(encoder.held) <= MaxDelay
  /\ call' = "none"
  /\ UNCHANGED <<config, pipeline, encoder, admitted, recent, ending>>

-----------------------------------------------------------------------------
(* stop(), also called by the destructor.                                  *)

\* The flush is empty when no frame was ever given to the encoder.
StopAtOnce ==
  /\ call = "none" /\ encoder.open /\ ~encoder.fed
  /\ encoder' = ClosedEncoder
  /\ pipeline' = [pipeline EXCEPT !.running = FALSE]
  /\ UNCHANGED <<config, call, admitted, recent, ending>>

StopFlushes ==
  /\ call = "none" /\ encoder.open /\ encoder.fed
  /\ call' = "stop"
  /\ UNCHANGED <<config, pipeline, encoder, admitted, recent, ending>>

\* Mutant: stop() closes the encoder as soon as the first unit is out.
FlushedAfterFirst == Len(encoder.held) <= 1
\* receive_packet says end of file: every frame has left the encoder.
Flushed == encoder.held = <<>>

StopEnds ==
  /\ call = "stop" /\ Flushed
  /\ encoder' = ClosedEncoder
  /\ pipeline' = [pipeline EXCEPT !.running = FALSE]
  /\ call' = "none"
  /\ UNCHANGED <<config, admitted, recent, ending>>

-----------------------------------------------------------------------------
(* Inside push_frame and stop: drain_encoder.                              *)

Remember(time) ==
  recent' = IF ~Decimating THEN <<>>
            ELSE IF Len(recent) < 2 THEN Append(recent, time)
            ELSE <<recent[2], time>>

\* emit_access_unit: the sink takes the unit of the oldest frame.
UnitTaken ==
  /\ call # "none" /\ encoder.held # <<>>
  /\ encoder' = [encoder EXCEPT !.held = Tail(@)]
  /\ Remember(Head(encoder.held))
  /\ UNCHANGED <<config, pipeline, call, admitted, ending>>

\* A packet with nothing but SPS and PPS is a unit of its own.
ConfigTaken == call # "none" /\ encoder.fed /\ UNCHANGED pipelineVars

\* OpenH264 is opened with allow_skip_frames: a frame may give no unit.
FrameSkipped ==
  /\ call # "none" /\ encoder.held # <<>> /\ encoder.active = "libopenh264"
  /\ encoder' = [encoder EXCEPT !.held = Tail(@)]
  /\ UNCHANGED <<config, pipeline, call, admitted, recent, ending>>

\* push_frame tells a refused unit from a failed encoder; stop() does not and
\* leaves failure_error_ as start() set it.
FailureKind(cause) ==
  IF call = "stop" THEN pipeline.failure
  ELSE IF cause = "sink" THEN "SinkRejected" ELSE "EncoderFailure"

\* fail_pipeline_locked, and stop()'s own close behind it.
CallFails(cause) ==
  /\ call # "none"
  /\ cause = "sink" => encoder.held # <<>>
  /\ pipeline' = [pipeline EXCEPT !.running = FALSE, !.failed = TRUE,
                                  !.failure = FailureKind(cause)]
  /\ encoder' = ClosedEncoder
  /\ ending' = IF call = "stop" THEN "flush" ELSE cause
  /\ call' = "none"
  /\ UNCHANGED <<config, admitted, recent>>

-----------------------------------------------------------------------------
\* The owner destroys the pipeline behind stop() and builds another one.
Rebuild(c) ==
  /\ call = "none" /\ ~encoder.open
  /\ config' = c
  /\ pipeline' = NewPipeline
  /\ encoder' = ClosedEncoder
  /\ admitted' = None /\ recent' = <<>> /\ ending' = "none"
  /\ UNCHANGED call

Start == \E usable \in SUBSET (Hardware \cap Linked) : StartFails(usable) \/ StartOpens(usable)
PushFrameCall == (\E ts \in Times : PushFrameBegins(ts)) \/ PushFrameEnds
Stop == StopAtOnce \/ StopFlushes \/ StopEnds
Fail == \E cause \in {"sink", "encoder"} : CallFails(cause)

PipelineNext ==
  \/ Start
  \/ PushFrameCall
  \/ Stop
  \/ UnitTaken
  \/ FrameSkipped
  \/ Fail
  \/ \E c \in Configs : Rebuild(c)

PipelineSpec == PipelineInit /\ [][PipelineNext]_pipelineVars

-----------------------------------------------------------------------------
(* Properties.                                                             *)

PipelineTypeOK ==
  /\ config \in Configs
  /\ pipeline \in [running : BOOLEAN, failed : BOOLEAN,
                   failure : {"EncoderFailure", "SinkRejected"}, next : Nat]
  /\ encoder \in [open : BOOLEAN, active : Encoders \cup {"none"}, fed : BOOLEAN,
                  held : Seq(Nat)]
  /\ call \in {"none", "push_frame", "stop"}
  /\ admitted \in Nat \cup {None}
  /\ recent \in Seq(Nat) /\ Len(recent) <= 2
  /\ ending \in {"none", "sink", "encoder", "flush"}

\* A frame is dropped exactly when it comes within one interval of the last
\* frame that was admitted since start(), whatever happened in earlier runs of
\* the same pipeline and however far the time stamps have jumped in between
\* (should_drop_frame_locked).
DecimationExact ==
  pipeline.running => \A ts \in Times :
    ShouldDrop(ts) <=> /\ Decimating /\ admitted # None
                       /\ ts < admitted + Interval(config)

\* On the grid of the time base the units of a decimated stream go forward:
\* the interval is rounded, so two frames may fall on one point, never three
\* (rescale_timestamp_ns_to_pts against fps_filter_interval_ns_).
TimesAdvance ==
  LET times == recent \o encoder.held IN
  Decimating =>
    /\ \A i \in 1..(Len(times) - 1) : times[i] <= times[i + 1]
    /\ \A i \in 1..(Len(times) - 2) : times[i] < times[i + 2]

\* "Flushes and releases pipeline resources" (raw_video_pipeline.h:113): an
\* encoder is closed with frames inside only when the pipeline fails.
NothingLostQuietly ==
  [][encoder.open /\ ~encoder'.open /\ encoder.held # <<>> => pipeline'.failed]_pipelineVars

\* Until the next start() a pipeline that failed refuses every frame and names
\* the cause: the sink if it refused a unit during a push_frame, else the encoder.
FailureTold ==
  /\ pipeline.failed <=> ending # "none"
  /\ pipeline.failed =>
       /\ ~pipeline.running /\ ~encoder.open
       /\ PushRefusal = IF ending = "sink" THEN "SinkRejected" ELSE "EncoderFailure"
=============================================================================
