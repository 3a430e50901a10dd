----------------------------- MODULE WebRtcSession -----------------------------
(***************************************************************************)
(* One viewer: WebRtcStreamSession with a sender for each codec and its    *)
(* track sink (webrtc_stream.cpp).  Three parties run at once:             *)
(*                                                                         *)
(*   the API thread   hands the session one encoded unit after another     *)
(*   libdatachannel   calls back: a track, a change of the peer's state    *)
(*   the owner        stops the session                                    *)
(*                                                                         *)
(* The session, the senders and the sink have a mutex each, taken in this  *)
(* order; the H.264 sender sends with none of them held, the AV1 sender    *)
(* with its own.  Every action is one critical section or one send.        *)
(* transition_to_inactive_locked takes the inner mutexes in turn, but all  *)
(* under the session's: it is one action.                                  *)
(*                                                                         *)
(* Of a unit its sequence number and its kind are kept: "config" is SPS    *)
(* and PPS, "idr" a keyframe without them, "full" one with them, "delta"   *)
(* a picture that refers to others; the kinds of AV1 begin with "av1", and *)
(* "av1_full" is a keyframe that is marked as configuration as well.       *)
(* A unit is one packet.                                                   *)
(***************************************************************************)
EXTENDS Integers, Sequences

H264Kinds == {"config", "idr", "full", "delta"}
Av1Kinds == {"av1_config", "av1_key", "av1_full", "av1_delta"}
Av1Keys == {"av1_key", "av1_full"}

CONSTANTS
  Kinds,       \* the kinds of units that are pushed
  MaxUnits,    \* bound: units handed to the session
  MaxTracks    \* bound: video tracks in the offer

ASSUME SessionAssumption ==
  /\ Kinds \subseteq H264Kinds \cup Av1Kinds
  /\ MaxUnits \in Nat /\ MaxTracks \in Nat

VARIABLES
  session,   \* active_, sending_active_, callbacks_enabled_, disconnect_count_,
             \* and whether stop() has begun
  sink,      \* AttachableRtcTrackSink: is a track bound?
  track,     \* the last track: "none", "new", "open" or "closed"; tracks so far
  sender,    \* H264EncodedVideoSender
  av1,       \* Av1EncodedVideoSender
  unit,      \* the API thread inside on_encoded_access_unit
  clock,     \* sequence number of the newest unit
  callback,  \* onTrack in progress
  stopping,  \* stop in progress
  viewer,    \* ghost: what the viewer's decoder of each codec has got so far
  late       \* ghost: packets sent after the session went inactive

vars == <<session, sink, track, sender, av1, unit, clock, callback, stopping,
          viewer, late>>

NoUnit == [seq |-> 0, kind |-> "none"]
HasConfig(u) == u.kind \in {"config", "full"}
HasIdr(u) == u.kind \in {"idr", "full"}

IdleUnit == [pc |-> "idle", unit |-> NoUnit, items |-> <<>>, startup |-> FALSE]

Init ==
  /\ session = [active |-> TRUE, sending |-> FALSE, callbacks |-> TRUE,
                disconnects |-> 0]
  /\ sink = "unbound"
  /\ track = [state |-> "none", count |-> 0]
  /\ sender = [active |-> TRUE, last |-> 0, config |-> NoUnit, idr |-> NoUnit,
               started |-> FALSE, decodable |-> FALSE, delivering |-> FALSE]
  /\ av1 = [active |-> TRUE, last |-> 0, key |-> NoUnit, started |-> FALSE]
  /\ unit = IdleUnit /\ clock = 0
  /\ callback = "idle" /\ stopping = "no"
  /\ viewer = [H264 |-> "blank", AV1 |-> "blank"] /\ late = 0

Sendable == sink = "bound" /\ track.state = "open"

-----------------------------------------------------------------------------
(* The life of the session.                                                *)

\* The AV1 sender holds its mutex while it sends: who deactivates it waits.
Av1Sending == unit.pc = "av1_send"
SendersEnd ==
  /\ ~Av1Sending
  /\ sender' = [sender EXCEPT !.active = FALSE, !.delivering = FALSE]
  /\ av1' = [av1 EXCEPT !.active = FALSE]

\* Mutant: a second transition is not recognised.
TransitionAgain(reason) ==
  /\ session' = [session EXCEPT !.active = FALSE, !.sending = FALSE,
                                !.disconnects = @ + 1,
                                !.callbacks = @ /\ reason # "stop"]
  /\ SendersEnd
  /\ sink' = "unbound"
\* transition_to_inactive_locked; stop() disables the callbacks as well.
Transition(reason) ==
  /\ session' = [session EXCEPT !.active = FALSE, !.sending = FALSE,
                   !.disconnects = IF session.active THEN @ + 1 ELSE @,
                   !.callbacks = @ /\ reason # "stop"]
  /\ IF session.active THEN SendersEnd ELSE UNCHANGED <<sender, av1>>
  /\ sink' = IF session.active THEN "unbound" ELSE sink

\* onStateChange: disconnected, failed and closed come one after another.
PeerDown ==
  /\ session.callbacks
  /\ Transition("peer")
  /\ UNCHANGED <<track, unit, clock, callback, stopping, viewer, late>>

StopBegin ==
  /\ stopping = "no"
  /\ stopping' = "unbind"
  /\ Transition("stop")
  /\ UNCHANGED <<track, unit, clock, callback, viewer, late>>

StopUnbind ==
  /\ stopping = "unbind"
  /\ stopping' = "close"
  /\ sink' = "unbound"
  /\ UNCHANGED <<session, track, sender, av1, unit, clock, callback, viewer, late>>

Closed == [track EXCEPT !.state = IF @ = "none" THEN @ ELSE "closed"]

\* peer_connection->close() closes its tracks.
StopClose ==
  /\ stopping = "close"
  /\ stopping' = "done"
  /\ track' = Closed
  /\ UNCHANGED <<session, sink, sender, av1, unit, clock, callback, viewer, late>>

-----------------------------------------------------------------------------
(* The track.  libdatachannel calls onTrack for the video sections of the  *)
(* one offer, before any track can open.                                   *)

TrackCallback ==
  /\ callback = "idle" /\ session.callbacks
  /\ track.count < MaxTracks /\ track.state \in {"none", "new"}
  /\ stopping # "done"
  /\ callback' = "bind"
  /\ UNCHANGED <<session, sink, track, sender, av1, unit, clock, stopping, viewer, late>>

TrackBind ==
  /\ callback = "bind"
  /\ callback' = "settle"
  /\ sink' = "bound"
  /\ track' = [state |-> IF stopping = "done" THEN "closed" ELSE "new",
               count |-> track.count + 1]
  /\ UNCHANGED <<session, sender, av1, unit, clock, stopping, viewer, late>>

\* Mutant: a session that went inactive meanwhile is not noticed.
TrackSettleUnchecked ==
  /\ callback = "settle"
  /\ callback' = "idle"
  /\ session' = [session EXCEPT !.sending = @ \/ session.active]
  /\ UNCHANGED <<sink, track, sender, av1, unit, clock, stopping, viewer, late>>
TrackSettle ==
  /\ callback = "settle"
  /\ callback' = "idle"
  /\ IF session.active
     THEN session' = [session EXCEPT !.sending = TRUE] /\ UNCHANGED sink
     ELSE sink' = "unbound" /\ UNCHANGED session
  /\ UNCHANGED <<track, sender, av1, unit, clock, stopping, viewer, late>>

\* The senders ask the sink whether it is open each time: what was closed may be
\* open again.
TrackOpens ==
  /\ track.state \in {"new", "closed"} /\ callback = "idle" /\ stopping # "done"
  /\ track' = [track EXCEPT !.state = "open"]
  /\ UNCHANGED <<session, sink, sender, av1, unit, clock, callback, stopping, viewer, late>>

TrackCloses ==
  /\ track.state = "open"
  /\ track' = Closed
  /\ UNCHANGED <<session, sink, sender, av1, unit, clock, callback, stopping, viewer, late>>

-----------------------------------------------------------------------------
(* An encoded unit.                                                        *)

\* WebRtcStreamSession::on_encoded_access_unit: the next unit, or the latest
\* one once more.
UnitArrives(kind, again) ==
  /\ unit.pc = "idle" /\ session.active
  /\ \/ /\ ~again /\ clock < MaxUnits
        /\ clock' = clock + 1
        /\ unit' = [IdleUnit EXCEPT !.pc = "admit",
                                    !.unit = [seq |-> clock + 1, kind |-> kind]]
     \/ /\ again /\ clock > 0
        /\ clock = IF kind \in Av1Kinds THEN av1.last ELSE sender.last
        /\ unit' = [IdleUnit EXCEPT !.pc = "admit",
                                    !.unit = [seq |-> clock, kind |-> kind]]
        /\ UNCHANGED clock
  /\ UNCHANGED <<session, sink, track, sender, av1, callback, stopping, viewer, late>>

Return == unit' = IdleUnit

\* CodecDispatchVideoSender gives the unit to the sender of its codec.
H264Admits == unit.pc = "admit" /\ unit.unit.kind \in H264Kinds

\* The session has gone inactive: the sender only notes it.
UnitRefused ==
  /\ H264Admits /\ ~sender.active
  /\ sender' = [sender EXCEPT !.delivering = FALSE]
  /\ Return
  /\ UNCHANGED <<session, sink, track, av1, clock, callback, stopping, viewer, late>>

UnitDuplicate ==
  /\ H264Admits /\ sender.active /\ sender.last = unit.unit.seq
  /\ Return
  /\ UNCHANGED <<session, sink, track, sender, av1, clock, callback, stopping, viewer, late>>

\* What the sender remembers of the unit.
Noted(u) ==
  [sender EXCEPT !.last = u.seq,
                 !.config = IF HasConfig(u) THEN u ELSE @,
                 !.idr = IF HasIdr(u) THEN u ELSE @]

StartupRequired(n) ==
  Sendable /\ ~n.started /\ n.config # NoUnit /\ n.idr # NoUnit

ShouldSend(n, u) ==
  /\ Sendable
  /\ \/ StartupRequired(n) \/ n.decodable
     \/ n.config # NoUnit /\ n.idr # NoUnit /\ HasIdr(u)

Item(u) == IF u = NoUnit THEN <<>> ELSE <<u>>

\* What goes out with unit u: configuration and keyframe first, and the
\* configuration in front of a keyframe that has none.
Items(n, u) ==
  IF StartupRequired(n)
  THEN Item(n.config) \o Item(n.idr)
         \o IF n.idr.seq # u.seq /\ (n.decodable \/ u.kind = "delta") THEN <<u>> ELSE <<>>
  ELSE IF n.config # NoUnit /\ u.kind = "idr" THEN <<n.config, u>>
  ELSE IF n.decodable THEN <<u>> ELSE <<>>

\* Mutant: the viewer is taken for started before its packets are out.
UnitAdmittedMarking ==
  LET u == unit.unit
      n == Noted(u)
      begins == StartupRequired(n)
  IN
  /\ H264Admits /\ sender.active /\ sender.last # u.seq
  /\ sender' = [n EXCEPT !.started = @ \/ begins, !.decodable = @ \/ begins]
  /\ IF ShouldSend(n, u) /\ Items(n, u) # <<>>
     THEN unit' = [unit EXCEPT !.pc = "recheck", !.items = Items(n, u),
                     !.startup = begins \/ u.kind = "idr"]
     ELSE Return
  /\ UNCHANGED <<session, sink, track, av1, clock, callback, stopping, viewer, late>>
UnitAdmitted ==
  LET u == unit.unit
      n == Noted(u)
  IN
  /\ H264Admits /\ sender.active /\ sender.last # u.seq
  /\ sender' = n
  /\ IF ShouldSend(n, u) /\ Items(n, u) # <<>>
     THEN unit' = [unit EXCEPT !.pc = "recheck", !.items = Items(n, u),
                     !.startup = StartupRequired(n) \/ u.kind = "idr"]
     ELSE Return
  /\ UNCHANGED <<session, sink, track, av1, clock, callback, stopping, viewer, late>>

\* exists() and is_open() before the first packet and before each of them.
UnitRecheck ==
  /\ unit.pc = "recheck"
  /\ unit' = [unit EXCEPT !.pc = IF Sendable THEN "copy" ELSE "mark"]
  /\ UNCHANGED <<session, sink, track, sender, av1, clock, callback, stopping, viewer, late>>

\* Mutant: the loop goes on behind the last packet.
NextItemAlways(rest) == [unit EXCEPT !.items = rest, !.pc = "recheck"]
NextItem(rest) ==
  [unit EXCEPT !.items = rest, !.pc = IF rest = <<>> THEN "finish" ELSE "recheck"]

\* AttachableRtcTrackSink::send: the track is copied under the sink's mutex; a
\* packet without a track is dropped, and counted as sent.
UnitCopy ==
  /\ unit.pc = "copy"
  /\ unit' = IF sink = "bound" THEN [unit EXCEPT !.pc = "transmit"]
             ELSE NextItem(Tail(unit.items))
  /\ UNCHANGED <<session, sink, track, sender, av1, clock, callback, stopping, viewer, late>>

\* What a decoder makes of the packets: it needs configuration, then a keyframe.
\* A keyframe of AV1 brings its own.
Decoded(u) ==
  LET h264 == viewer.H264
      aom == viewer.AV1
  IN
  CASE u.kind = "full" -> [viewer EXCEPT !.H264 = IF @ = "broken" THEN @ ELSE "decoding"]
    [] u.kind = "config" -> [viewer EXCEPT !.H264 = IF @ = "blank" THEN "configured" ELSE @]
    [] u.kind = "idr" -> [viewer EXCEPT
         !.H264 = IF h264 \in {"configured", "decoding"} THEN "decoding" ELSE "broken"]
    [] u.kind = "delta" -> [viewer EXCEPT !.H264 = IF h264 = "decoding" THEN @ ELSE "broken"]
    [] u.kind \in Av1Keys -> [viewer EXCEPT !.AV1 = IF aom = "broken" THEN @ ELSE "decoding"]
    [] u.kind = "av1_delta" -> [viewer EXCEPT !.AV1 = IF aom = "decoding" THEN @ ELSE "broken"]
    [] u.kind = "av1_config" -> viewer

\* "track-closed-during-send" and "track-send-failed": the send may throw though
\* the track is open, and the next unit finds it open still.
UnitTransmit ==
  /\ unit.pc = "transmit"
  /\ \/ /\ track.state = "open"
        /\ viewer' = Decoded(Head(unit.items))
        /\ late' = IF session.active THEN late ELSE late + 1
        /\ unit' = NextItem(Tail(unit.items))
     \/ /\ unit' = [unit EXCEPT !.pc = "mark"]
        /\ UNCHANGED <<viewer, late>>
  /\ UNCHANGED <<session, sink, track, sender, av1, clock, callback, stopping>>

\* mark_track_not_sendable.
UnitNotSendable ==
  /\ unit.pc = "mark"
  /\ sender' = [sender EXCEPT !.delivering = FALSE]
  /\ Return
  /\ UNCHANGED <<session, sink, track, av1, clock, callback, stopping, viewer, late>>

\* All packets are out; whether the session is still active is not asked.
UnitFinish ==
  /\ unit.pc = "finish"
  /\ sender' = [sender EXCEPT !.started = @ \/ unit.startup,
                              !.decodable = @ \/ unit.startup, !.delivering = TRUE]
  /\ Return
  /\ UNCHANGED <<session, sink, track, av1, clock, callback, stopping, viewer, late>>

-----------------------------------------------------------------------------
(* A unit of AV1: Av1EncodedVideoSender::on_encoded_access_unit.           *)

Av1Admits == unit.pc = "admit" /\ unit.unit.kind \in Av1Kinds
Av1Unchanged == UNCHANGED <<session, sink, track, sender, clock, callback, stopping>>

Av1Refused ==
  /\ Av1Admits /\ (~av1.active \/ av1.last = unit.unit.seq)
  /\ Return
  /\ Av1Unchanged /\ UNCHANGED <<av1, viewer, late>>

Av1Noted(u) ==
  [av1 EXCEPT !.last = u.seq, !.key = IF u.kind \in Av1Keys THEN u ELSE @]

Av1Ready(n) == Sendable /\ (n.started \/ n.key # NoUnit)

\* The cached keyframe first; a unit marked as configuration is not sent for itself.
Av1Items(n, u) ==
  (IF n.started THEN <<>> ELSE Item(n.key))
    \o (IF (n.started \/ n.key # u) /\ u.kind \notin {"av1_config", "av1_full"}
        THEN <<u>> ELSE <<>>)

Av1Admitted ==
  LET u == unit.unit
      n == Av1Noted(u)
  IN
  /\ Av1Admits /\ av1.active /\ av1.last # u.seq
  /\ av1' = n
  /\ IF Av1Ready(n)
     THEN unit' = [unit EXCEPT !.pc = "av1_send", !.items = Av1Items(n, u)]
     ELSE Return
  /\ Av1Unchanged /\ UNCHANGED <<viewer, late>>

\* A closed track throws, and an open one may: the unit is given up and nothing
\* is noted.
Av1Transmit ==
  /\ Av1Sending /\ unit.items # <<>>
  /\ \/ /\ Sendable
        /\ viewer' = Decoded(Head(unit.items))
        /\ late' = IF session.active THEN late ELSE late + 1
        /\ unit' = [unit EXCEPT !.items = Tail(@)]
     \/ Return /\ UNCHANGED <<viewer, late>>
  /\ Av1Unchanged /\ UNCHANGED av1

Av1Finish ==
  /\ Av1Sending /\ unit.items = <<>>
  /\ av1' = [av1 EXCEPT !.started = TRUE]
  /\ Return
  /\ Av1Unchanged /\ UNCHANGED <<viewer, late>>

-----------------------------------------------------------------------------
UnitStep ==
  \/ UnitRefused \/ UnitDuplicate \/ UnitAdmitted \/ UnitRecheck \/ UnitCopy
  \/ UnitTransmit \/ UnitNotSendable \/ UnitFinish
  \/ Av1Refused \/ Av1Admitted \/ Av1Transmit \/ Av1Finish

Next ==
  \/ PeerDown \/ StopBegin \/ StopUnbind \/ StopClose
  \/ TrackCallback \/ TrackBind \/ TrackSettle \/ TrackOpens \/ TrackCloses
  \/ \E kind \in Kinds, again \in BOOLEAN : UnitArrives(kind, again)
  \/ UnitStep

Spec == Init /\ [][Next]_vars

-----------------------------------------------------------------------------
(* Properties.                                                             *)

Unit == [seq : 0..MaxUnits, kind : Kinds \cup {"none"}]

TypeOK ==
  /\ session \in [active : BOOLEAN, sending : BOOLEAN, callbacks : BOOLEAN,
                  disconnects : Nat]
  /\ sink \in {"bound", "unbound"}
  /\ track \in [state : {"none", "new", "open", "closed"}, count : 0..MaxTracks]
  /\ sender \in [active : BOOLEAN, last : 0..MaxUnits, config : Unit, idr : Unit,
                 started : BOOLEAN, decodable : BOOLEAN, delivering : BOOLEAN]
  /\ unit \in [pc : {"idle", "admit", "recheck", "copy", "transmit", "mark", "finish",
                     "av1_send"},
               unit : Unit, items : Seq(Unit), startup : BOOLEAN]
  /\ unit.pc \in {"recheck", "copy", "transmit"} => unit.items # <<>>
  /\ clock \in 0..MaxUnits
  /\ callback \in {"idle", "bind", "settle"}
  /\ stopping \in {"no", "unbind", "close", "done"}
  /\ av1 \in [active : BOOLEAN, last : 0..MaxUnits, key : Unit, started : BOOLEAN]
  /\ viewer \in [{"H264", "AV1"} -> {"blank", "configured", "decoding", "broken"}]
  /\ late \in Nat

\* What a viewer gets of a codec begins with configuration and a keyframe, and no
\* picture comes before them, though any packet can fail with the track closed or
\* still open, the next unit goes on from there, a closed track may open again, and
\* the codec of the stream can change ("waiting-for-h264-codec-config",
\* "waiting-for-decoded-startup-idr", "waiting-for-av1-keyframe").
StartsDecodable == \A codec \in {"H264", "AV1"} : viewer[codec] # "broken"

\* "the old session stops sending after disconnect, failure, close, or explicit
\* replacement" (session_lifecycle.md): an inactive session sends at most the packet
\* for which the API thread already held the track, and whatever onTrack and stop do
\* at the same time it keeps no track and no active sender.
AfterTheEnd ==
  /\ late <= 1
  /\ ~session.active =>
       /\ ~sender.active /\ ~av1.active /\ ~session.sending
       /\ callback # "settle" => sink = "unbound"

\* The peer reports its end in several states, and stop() comes on top: a
\* session counts one disconnect, and only with it becomes inactive.
DisconnectCountedOnce == session.disconnects = IF session.active THEN 0 ELSE 1
=============================================================================
