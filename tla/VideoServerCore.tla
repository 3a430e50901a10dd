---------------------------- MODULE VideoServerCore ----------------------------
(***************************************************************************)
(* The registry of streams and the direct raw-frame path of                *)
(* video_server_core.cpp.  The core has one mutex; push_frame takes it     *)
(* three times (validate, count and throttle, publish), and the caller's   *)
(* snapshot of the output configuration is used without it in between.     *)
(* Every action is one critical section.                                   *)
(*                                                                         *)
(* A frame is its time stamp; time stamps grow with the calls of           *)
(* push_frame.  Of an output configuration only the frame interval is      *)
(* kept, 0 for the cadence of the source.  A removal or a reconfiguration  *)
(* that finds no stream changes nothing and is left out.                   *)
(***************************************************************************)
EXTENDS Integers, FiniteSets

CONSTANTS
  Streams,            \* stream ids
  Pushers,            \* threads that call push_frame
  Intervals,          \* frame intervals somebody configures; 0 is no throttle
  MaxFrames,          \* bound: calls of push_frame
  MaxRegistrations,   \* bound: registrations
  MaxReconfigures     \* bound: configuration changes

ASSUME CoreAssumption ==
  /\ IsFiniteSet(Pushers)
  /\ Intervals \subseteq Nat
  /\ MaxFrames \in Nat /\ MaxRegistrations \in Nat /\ MaxReconfigures \in Nat

None == 0

VARIABLES
  stream,    \* streams_: the StreamState of each stream id; life None is absent
  pusher,    \* each thread inside push_frame, with its snapshot
  clock,     \* time stamp of the newest frame
  made,      \* [lives, configs]: registrations and configuration changes so far
  ghost      \* per stream: [rejected, foreign, admitted, stray, since]

vars == <<stream, pusher, clock, made, ghost>>

Absent ==
  [life |-> None, gen |-> 0, interval |-> 0, next |-> 0, latest |-> None,
   latestGen |-> 0, received |-> 0, transformed |-> 0, dropped |-> 0]

\* What the counters do not say: frames refused before they were counted as
\* received; frames that were counted for an earlier registration of the id;
\* the newest frame admitted under the configuration in force; whether a call
\* with another snapshot has written the throttle since that was set; and the
\* clock when it was set.
NoGhost ==
  [rejected |-> 0, foreign |-> 0, admitted |-> None, stray |-> FALSE, since |-> clock]
Refreshed(g) == [g EXCEPT !.admitted = None, !.stray = FALSE, !.since = clock]

\* `from` and `life` are ghosts: the registrations that the frame was checked
\* against and counted for.
Idle == [pc |-> "idle", stream |-> None, ts |-> 0, gen |-> 0, interval |-> 0,
         from |-> None, life |-> None]

Present(s) == stream[s].life # None

Init ==
  /\ stream = [s \in Streams |-> Absent]
  /\ pusher = [p \in Pushers |-> Idle]
  /\ clock = 0
  /\ made = [lives |-> 0, configs |-> 0]
  /\ ghost = [s \in Streams |-> NoGhost]

-----------------------------------------------------------------------------
RegisterStream(s) ==
  /\ ~Present(s) /\ made.lives < MaxRegistrations
  /\ made' = [made EXCEPT !.lives = @ + 1]
  /\ stream' = [stream EXCEPT ![s] = [Absent EXCEPT !.life = made.lives + 1]]
  /\ ghost' = [ghost EXCEPT ![s] = NoGhost]
  /\ UNCHANGED <<pusher, clock>>

RemoveStream(s) ==
  /\ Present(s)
  /\ stream' = [stream EXCEPT ![s] = Absent]
  /\ UNCHANGED <<pusher, clock, made, ghost>>

\* Mutant: the throttle of the old configuration stays in force.
ReconfiguredKeepingThrottle(c, interval) ==
  [c EXCEPT !.gen = @ + 1, !.interval = interval, !.latest = None, !.latestGen = 0]
Reconfigured(c, interval) ==
  [c EXCEPT !.gen = @ + 1, !.interval = interval, !.next = 0, !.latest = None,
            !.latestGen = 0]

\* set_stream_output_config: from the application or from an HTTP PUT.
SetOutputConfig(s, interval) ==
  /\ Present(s) /\ made.configs < MaxReconfigures
  /\ made' = [made EXCEPT !.configs = @ + 1]
  /\ stream' = [stream EXCEPT ![s] = Reconfigured(stream[s], interval)]
  /\ ghost' = [ghost EXCEPT ![s] = Refreshed(ghost[s])]
  /\ UNCHANGED <<pusher, clock>>

-----------------------------------------------------------------------------
(* push_frame.                                                             *)

\* The snapshots are copied and the frame is checked against them; a frame
\* without a stream, that does not fit or that has no statistics goes on to be
\* counted as dropped, on whatever has the id then.
PushValidate(p, s, fits) ==
  /\ pusher[p].pc = "idle" /\ clock < MaxFrames
  /\ clock' = clock + 1
  /\ pusher' = [pusher EXCEPT ![p] =
       [pc |-> IF fits /\ Present(s) THEN "count" ELSE "reject", stream |-> s,
        ts |-> clock + 1, gen |-> stream[s].gen, interval |-> stream[s].interval,
        from |-> stream[s].life, life |-> None]]
  /\ UNCHANGED <<stream, made, ghost>>

Dropped(c) == [c EXCEPT !.dropped = @ + 1]

\* note_frame_dropped for a frame that was refused.
PushReject(p) ==
  LET s == pusher[p].stream IN
  /\ pusher[p].pc = "reject"
  /\ IF Present(s)
     THEN /\ stream' = [stream EXCEPT ![s] = Dropped(stream[s])]
          /\ ghost' = [ghost EXCEPT ![s].rejected = @ + 1]
     ELSE UNCHANGED <<stream, ghost>>
  /\ pusher' = [pusher EXCEPT ![p] = Idle]
  /\ UNCHANGED <<clock, made>>

\* Mutants: the frame itself is the next one allowed; the interval is subtracted.
NextAllowedNow(f) == f.ts
NextAllowedBefore(f) == f.ts - f.interval
NextAllowed(f) == f.ts + f.interval

Throttled(c, f) == f.interval > 0 /\ c.next > 0 /\ f.ts < c.next

\* Is the snapshot that the frame goes by the configuration in force?
Current(f, c) == f.from = c.life /\ f.gen = c.gen

Received(c) == [c EXCEPT !.received = @ + 1]
Admitted(c, f) ==
  [Received(c) EXCEPT !.next = IF f.interval > 0 THEN NextAllowed(f) ELSE @]
Remembered(g, c, f) ==
  [g EXCEPT !.admitted = IF Current(f, c) THEN f.ts ELSE @,
            !.stray = @ \/ (~Current(f, c) /\ f.interval > 0)]

\* The stream went away: push_frame returns.
PushVanished(p) ==
  /\ pusher[p].pc = "count" /\ ~Present(pusher[p].stream)
  /\ pusher' = [pusher EXCEPT ![p] = Idle]
  /\ UNCHANGED <<stream, clock, made, ghost>>

PushThrottled(p) ==
  LET s == pusher[p].stream IN
  /\ pusher[p].pc = "count" /\ Present(s) /\ Throttled(stream[s], pusher[p])
  /\ stream' = [stream EXCEPT ![s] = Dropped(Received(stream[s]))]
  /\ pusher' = [pusher EXCEPT ![p] = Idle]
  /\ UNCHANGED <<clock, made, ghost>>

PushAdmitted(p) ==
  LET s == pusher[p].stream IN
  /\ pusher[p].pc = "count" /\ Present(s) /\ ~Throttled(stream[s], pusher[p])
  /\ stream' = [stream EXCEPT ![s] = Admitted(stream[s], pusher[p])]
  /\ pusher' = [pusher EXCEPT ![p] =
       [pusher[p] EXCEPT !.pc = "transform", !.life = stream[s].life]]
  /\ ghost' = [ghost EXCEPT ![s] = Remembered(ghost[s], stream[s], pusher[p])]
  /\ UNCHANGED <<clock, made>>

\* Has the frame been counted for a registration that is gone?
Foreign(p) == pusher[p].life # stream[pusher[p].stream].life

\* The pusher is done; a frame of an earlier registration is remembered.
PushReturns(p) ==
  /\ pusher' = [pusher EXCEPT ![p] = Idle]
  /\ ghost' = IF Present(pusher[p].stream) /\ Foreign(p)
              THEN [ghost EXCEPT ![pusher[p].stream].foreign = @ + 1] ELSE ghost
  /\ UNCHANGED <<clock, made>>

\* Mutant: a frame that cannot be transformed is forgotten.
PushTransformFailsUncounted(p) ==
  pusher[p].pc = "transform" /\ PushReturns(p) /\ UNCHANGED stream
PushTransformFails(p) ==
  LET s == pusher[p].stream IN
  /\ pusher[p].pc = "transform"
  /\ stream' = IF Present(s) THEN [stream EXCEPT ![s] = Dropped(stream[s])]
                             ELSE stream
  /\ PushReturns(p)

Published(c, f) ==
  [c EXCEPT !.latest = f.ts, !.latestGen = f.gen, !.transformed = @ + 1]

\* publish_transformed_frame, whatever has happened to the stream meanwhile.
PushPublish(p) ==
  LET s == pusher[p].stream IN
  /\ pusher[p].pc = "transform"
  /\ stream' = IF Present(s)
               THEN [stream EXCEPT ![s] = Published(stream[s], pusher[p])]
               ELSE stream
  /\ PushReturns(p)

-----------------------------------------------------------------------------
PushStep(p) ==
  \/ PushReject(p) \/ PushVanished(p) \/ PushThrottled(p) \/ PushAdmitted(p)
  \/ PushTransformFails(p) \/ PushPublish(p)

Next ==
  \/ \E s \in Streams :
       \/ RegisterStream(s) \/ RemoveStream(s)
       \/ \E interval \in Intervals : SetOutputConfig(s, interval)
       \/ \E p \in Pushers : \E fits \in BOOLEAN : PushValidate(p, s, fits)
  \/ \E p \in Pushers : PushStep(p)

Spec == Init /\ [][Next]_vars

-----------------------------------------------------------------------------
(* Properties.                                                             *)

StreamState ==
  [life : Nat, gen : Nat, interval : Nat, next : Nat, latest : Nat,
   latestGen : Nat, received : Nat, transformed : Nat, dropped : Nat]
PusherState ==
  [pc : {"idle", "reject", "count", "transform"}, stream : Streams \cup {None},
   ts : Nat, gen : Nat, interval : Nat, from : Nat, life : Nat]
GhostState ==
  [rejected : Nat, foreign : Nat, admitted : Nat, stray : BOOLEAN,
   since : Nat]

TypeOK ==
  /\ stream \in [Streams -> StreamState]
  /\ pusher \in [Pushers -> PusherState]
  /\ \A p \in Pushers : pusher[p].pc # "idle" => pusher[p].stream \in Streams
  /\ clock \in Nat
  /\ made \in [lives : Nat, configs : Nat]
  /\ ghost \in [Streams -> GhostState]

\* The public counters add up for every registration, whatever its frames meet
\* between the critical sections: a frame received is transformed, dropped or
\* still in a push_frame call, and nothing else is counted, except the frames
\* that were refused and those an earlier registration of the id left behind.
InFlight(s) ==
  {p \in Pushers : /\ pusher[p].pc = "transform" /\ pusher[p].stream = s
                   /\ pusher[p].life = stream[s].life}
FramesAccounted ==
  \A s \in Streams : Present(s) =>
    stream[s].received + ghost[s].rejected + ghost[s].foreign =
      stream[s].transformed + stream[s].dropped + Cardinality(InFlight(s))

\* "the core drops transformed output frames as needed to honor the target FPS"
\* (configuration_and_filters.md): of the frames admitted under the
\* configuration in force, no two are closer than its interval, also when
\* calls that still hold an older snapshot write the throttle in between.
ThrottleHonoured ==
  [][\A s \in Streams :
       LET a == ghost[s].admitted
           b == ghost'[s].admitted
       IN  a # None /\ b # None /\ a # b /\ stream[s].interval > 0 =>
             b >= a + stream[s].interval]_vars

\* "per-stream output throttling state is reset" (configuration_and_filters.md):
\* the cadence of an earlier configuration costs the one in force no frame of
\* its own.  Such a frame is dropped as too early only after an admitted frame
\* of the same configuration, or because a call begun before the reset has
\* written the throttle after it; and that ends one interval past the reset.
ThrottledForCause ==
  [][\A p \in Pushers :
       LET f == pusher[p]
           g == ghost[f.stream]
       IN  PushThrottled(p) /\ Current(f, stream[f.stream]) =>
             \/ g.admitted # None /\ f.ts < g.admitted + f.interval
             \/ g.stray /\ \E i \in Intervals : f.ts < g.since + i]_vars

\* "the latest transformed frame snapshot is cleared" and "the next push_frame()
\* uses the new config" (configuration_and_filters.md:73): what is shown as the
\* latest frame was made under the configuration in force.
LatestReflectsConfig ==
  \A s \in Streams : stream[s].latest # None => stream[s].latestGen = stream[s].gen
=============================================================================
