# TLA+ models of video-server

This directory holds TLA+ models of the video server library, the TLC
configurations that check them, and proofs checked by TLAPS. The models are
translated from the C++ sources; `PROJECT.json` names, for every definition,
the lines it stands for, and for every hazard the line where it bites.

Contents: [the system](#1-the-system) · [the modules](#2-the-modules) ·
[the runs](#3-the-runs) · [bounds](#4-bounds-and-why-they-are-enough) ·
[fairness](#5-fairness) · [proofs](#6-proofs) ·
[disagreements](#7-where-the-code-and-its-documents-disagree) ·
[limits](#8-what-is-not-modelled) · [plan](#9-plan)

## 1. The system

A library that takes raw video frames from an application, transforms and
encodes them as H.264, and delivers them over WebRTC to browsers, with a small
HTTP API for signalling and configuration.

```
 application threads                                          viewers
   push_frame ──► ManagedVideoServer ─ per stream: latch ─┐      ▲
   step_streams ──► process_stream: take, transform ──────┤      │ RTP
                      RawToH264Pipeline (encoder) ─► sink ┤      │
                                 EncodedAccessUnitHandoff ┘      │
   step_api / api_loop ──► drain ──► WebRtcVideoServer ──► WebRtcStreamSession
                                      │   │    ▲
                             VideoServerCore │ SignalingServer ◄─ HTTP API
```

| component | source | state it keeps | operations | how it interacts |
|---|---|---|---|---|
| Encoded handoff | `webrtc/encoded_access_unit_handoff.h` | cached codec configuration, backlog of units, drop counter | push, drain, clear | pushed by the encoder's sink, drained by the API step, each under the stream's mutex |
| Managed server | `webrtc/managed_video_server.cpp` | stream states (latched frame, pipeline, handoff, owner), stream order and rotation index, start/stop flags, API thread, access block shared with the group handles | push_frame, step_streams, step, step_api, api_loop, start, stop, destroy, register/remove, register_streams and handle release | owns an inner WebRtcVideoServer; locks in the order access, server, stream, core |
| Video server core | `core/video_server_core.cpp` | per stream: configuration with generation, counters, throttle, latest frame and unit | register, remove, set_stream_output_config, push_frame, push_access_unit, lookups | one mutex; called by every other component; transforms outside the lock |
| Signaling server | `webrtc/signaling_server.cpp` | per stream: recipients with generations, queued candidates | set_offer, set_answer, add_ice_candidate, lookups that prune, remove_stream, stop | called by the HTTP thread and by the application; creates, replaces and stops sessions outside its lock |
| WebRTC session | `webrtc/webrtc_stream.cpp` | active/sending flags, track sink, an H.264 sender (cached SPS/PPS and IDR, startup flags) and an AV1 sender (cached keyframe) | on_encoded_access_unit, stop, callbacks of libdatachannel | API thread, libdatachannel's threads and the owner at once |
| Raw pipeline | `pipeline/raw_to_h264_pipeline.cpp` | running/failed/failure, decimation clock, the encoder that was opened and the frames it holds back | start, push_frame, stop | its sink is the handoff (managed server, under the stream's mutex) or the server's `push_access_unit` |
| HTTP API and access control | `webrtc/webrtc_video_server.cpp`, `webrtc/http_api_server.cpp` | listener and worker, configuration, rate-limit windows, security counters | start, step, stop; one connection per turn: authorize, count, route to core and signaling | a thread of its own or the caller of `step()`; a configuration PUT is a read-modify-write over three critical sections of the core |
| Transforms, pixel formats, statistics, frame encoding | `transforms/`, `core/`, `webrtc/frame_http_encoder.cpp` | none | pure functions | called with no lock held |

**What is hard here.** No component has a single owner thread. Almost every
operation is *several* critical sections with unlocked work between them: the
core validates, counts and publishes a frame in three; `set_offer` checks the
limit in one and inserts in another; the API step drains under the stream locks
and delivers later; sending a packet holds no lock at all. Streams can be
removed, registered again and reconfigured in every gap, sessions can be stopped
by a peer, a replacement, a removal or `stop()`, a pipeline can fail for good,
and a backlog of fixed size has to stay decodable when it overflows. Threads
must leave when the server is stopped or destroyed.

**What makes each component correct.**

- *Handoff*: bounded; never loses the newest keyframe to overflow; drops the
  stalest units first; counts every loss; hands out in order and at most once;
  batches start decoder-safe.
- *Managed server*: a stream belongs to at most one group; frames are encoded
  and delivered in order; counters account for every frame; no pipeline outlives
  its stream; stop and destruction terminate and leave nothing; `step()` starves
  no stream.
- *Core*: counters add up for each registration; the frame rate is honoured, and an
  earlier configuration's costs the one in force no frame without cause; the latest
  frame is one of the configuration in force.
- *Signaling*: at most `max_subscribers` viewers; connected viewers keep their
  place; removal and stop end the sessions.
- *Session*: the viewer's stream starts with configuration and a keyframe, for
  each codec, also when a send fails and the next unit goes on; nothing is sent after
  the end; disconnects are counted once.
- *Raw pipeline*: a frame is dropped exactly when it comes too early; the units'
  times go forward; what was encoded is flushed before the encoder closes; a
  failure refuses every later frame and names its cause.
- *HTTP API*: a PUT works as a whole or not at all; the window of a client and a
  request path admits its number of requests; `stop()` returns unless a client is served
  for ever.

The hazards list in `PROJECT.json` is the inventory, with the properties
that cover each hazard or the reason why none does.

## 2. The modules

| module | models | state |
|---|---|---|
| `HandoffOps` | the handoff's member functions as operators on a record | – |
| `EncodedHandoff` | one handoff under push, drain, clear | the object and ghosts for what went in and out |
| `RawPipeline` | one pipeline: start, push_frame, stop, failures, decimation | pipeline, encoder, the call that holds the mutex, ghosts |
| `EncodedPath` (extends both) | a pipeline bound to the handoff or to the server | theirs and the binding |
| `RealtimeChannel` | *abstract*: a lossy, ordered, at-most-once channel that keeps the newest keyframe | sent, pending, horizon, span |
| `ManagedServer` (uses `HandoffOps`) | the managed server split at its locks | objects, groups, core counters, one program counter per thread |
| `StreamLeases` | *abstract*: streams that groups lease whole and work on one thread at a time | enrolled, leased, atWork, encoders, closed |
| `StepRotation` | the compatibility call `step()` | order, index, the step's locals |
| `VideoServerCore` | registry and direct `push_frame` of the core | streams, one snapshot per pushing thread |
| `Signaling` | recipients and sessions as objects | slots, sessions, the request and the application call in progress |
| `ViewerPlaces` | *abstract*: places that a viewer takes once and keeps until it leaves or its stream is cleared | hall, seats, who came |
| `WebRtcSession` | one viewer's session, sink and senders | the parts, and one program counter per party |
| `HttpApi` | the server loop, authorization, rate limits and every route | listener, the serving thread and its request, windows, the stream it is about |
| `MC…` | instances for TLC (symmetry; settings and requests) | |
| `EncodedPathProofs` | theorems and proofs about `EncodedHandoff`, `RawPipeline` and `EncodedPath` | |
| `ManagedServerProofs`, `ManagedFramesProofs` | about `ManagedServer`: ownership, pipelines and destruction; frames, units and types | |
| `StepRotationProofs`, `VideoServerCoreProofs`, `SignalingProofs`, `WebRtcSessionProofs`, `HttpApiProofs` | about the module each is named after | |

**How actions correspond to code.** An action is one critical section (or one
atomic operation, or one send) with everything the code does in it. A thread
inside a call has a program counter and the local variables it carries from one
section to the next; the place between two actions is a place where the code
holds no lock. So `push_frame` of the core is `PushValidate` (copy the snapshots
and check), `PushVanished | PushThrottled | PushAdmitted` (count and throttle),
then `PushPublish | PushTransformFails`; `step_streams` is `StepBegin`,
`StepEnter`, per stream `StepLookup`, `StepTake`,
`StepEncode | StepEncodeFails | StepPipelineFails`, `StepPublish`, and
`StepLeave`; `set_offer` is `OfferBegin`, `OfferLimit`, `OfferReserve`,
`OfferApply`, `OfferInsert`, then the replaced sessions and queued candidates one
at a time. A PUT of a configuration is `PutBegins` (a copy is read, the body is
judged), `PutSets` (the merged copy is set) and `PutEnds` (the answer is read). A
pipeline holds its mutex through a whole call, so its actions are the answers of
libavcodec and of the sink inside the call. A failure path that returns early is a
disjunct or an action of its own.

**What is abstracted.** A frame is its time stamp. An access unit is its number and its
kind, because only the kind decides what the handoff and the sender do. An output
configuration is its generation and frame interval; in `HttpApi` it is the two fields
that are only valid together. SDP and candidate texts are dropped; of queued candidates
the number is kept, because a limit is on it. Inside an encoder a frame is the
presentation time of its unit on the grid of the time base. A request is its route, who
sends it, whether its key is valid, what its body is like and the fields it names; an
address range is the set of the clients in it. Session objects live as long as something
refers to them, as `shared_ptr` makes them.

**Composition.** `ManagedServer` contains the handoff of every stream through the
operators of `HandoffOps`, the pipeline as the managed server uses it (fresh, running
with frames held back, failed) and the inner server's counters. `EncodedHandoff`
explores the same operators with every order of calls, and `RealtimeChannel` is what
`ManagedServer`'s correctness needs of them. `EncodedPath` puts `RawPipeline` in front:
the handoff receives what an encoder with delay, skipped frames, a flush and failures
emits, and drain and clear wait for the call that holds the stream's mutex.
`VideoServerCore` looks at the direct `push_frame` that `ManagedServer` does not use.
`StreamLeases` is what the locks, flags and counters of `ManagedServer` amount to for
groups and stepping threads, and `ManagedServer` implements it. `Signaling` and
`WebRtcSession` meet in the session's life: `Signaling` sees of a session that it is
active and that its peer connection is open; `WebRtcSession` is what happens inside.
`ViewerPlaces` is what the two critical sections of an offer amount to for the viewers,
and `Signaling` implements it. `HttpApi` sees the core's stream through the calls a
handler makes, with the application acting between them; the signaling routes answer
what `Signaling` answers.

**Outside the repository.** libdatachannel calls `onTrack` for the video sections
of the one offer before any track opens; sending on a closed track throws;
closing a peer connection closes its tracks. The encoder may hold back up to a
few frames, may fail at any frame, and its first unit is a keyframe; OpenH264, as it
is opened here, may give no unit for a frame. A probe of a hardware encoder may
succeed or fail each time. A send on an open track may fail and the next one succeed.
An HTTP client may connect and send nothing, or not take its answer.

**Ghost variables** record what the code does not store but a property is about:
frames refused or left behind by an earlier registration and who wrote the throttle
since when (`ghost`), the newest frame a pipeline took (`encoded`), frames a failed step
gave up (`lost`), frames a late count credits to another registration (`foreign`,
`missed`), what
the viewer's decoder has (`viewer`), packets sent too late (`late`), sessions
that a removal found (`doomed`), the frame last admitted by a pipeline and the times
of its last two units (`admitted`, `recent`), what ended its last run (`ending`), the
requests let through within the last window's length, with their time, the window they
were counted in and their place in it (`HttpApi`'s `admitted`), and the stream as a PUT
left it (`wrote`). No guard reads them.

## 3. The runs

| run | question | result |
|---|---|---|
| `encoded_path` | does the backlog stay within its capacity; what overflow keeps, counts and hands out when a pipeline feeds the handoff; does the closed form of the overflow loop equal the loop; does the handoff implement `RealtimeChannel`; which frames are decimated, do the times of the units advance, is everything flushed before an encoder closes, does a failed pipeline say why | holds |
| `managed_frames` | are frames encoded and delivered in order, counted once and shown as encoded, with two stepping threads, two API threads, failures, reconfiguration, removals that flush the encoder into a handoff still being drained, and re-registration | holds |
| `managed_lifecycle` | does the managed server implement `StreamLeases` (ownership by groups, one thread at a pipeline); does destruction wait for group steps and leave nothing; do stop and destruction terminate with a managed API thread, unless it serves one client for ever | holds |
| `managed_api_thread` | does the one API thread of the managed mode run as long as the server | **violated** |
| `step_rotation` | does the rotation index stay within the order (`RotationTypeOK`); do idle streams cost budget; is every due stream served while no pipeline fails | holds |
| `step_starvation` | is every due stream served | **violated** |
| `core` | counters and throttle of concurrent `push_frame` calls with reconfiguration, removal and re-registration in between | holds |
| `core_stale_frame` | is the latest frame one of the configuration in force | **violated** |
| `signaling` | viewers' places, end of sessions, with offers, answers and candidates racing removal, re-registration, stop and restart; does the server implement `ViewerPlaces`, with its limit | holds |
| `signaling_orphan` | is no session left connected to a removed stream | **violated** |
| `session` | decodable start in H.264 and AV1 with sends that fail for good or once, end of sending, track handling and disconnect count with the API thread, callbacks and stop interleaved at every packet | holds |
| `http` | rate-limit windows of a client's request paths, PUTs racing the application, requests under three settings and one that is refused, and the return of `stop()` | holds |

Each property of a passing run has a mutant in `PROJECT.json`: a plausible bug in
one mapped definition (a dropped guard, an off-by-one, a missing reset) under
which TLC finds the property violated. The mutated definitions stand just in
front of the ones they change.

Deadlock checking is off where the system may really stop: with a bound used up,
a destroyed server, a session that has ended.

## 4. Bounds and why they are enough

- `encoded_path`: capacity 3 and 6 frame units. Capacity 3 is the smallest where a kept
  keyframe has a unit to evict *and* one to keep behind it; 6 units overflow around a
  keyframe and again behind a drain. Capacities 1 and 0 are special cases of the code
  and are covered by the proofs, which hold for every capacity; `OverflowLoopAgrees`
  also tries every backlog with up to 6 more units behind it, so that the loop turns
  more than once. The encoder holds back one frame. A second has 10 units of time: 3
  frames in 10 units make the interval a rounded one, as most real rates do with
  1000000000, and time stamps up to 12 let four frames pass the decimation, one more
  than can share a place on the grid. Of the configurations one can never start, and of
  the encoders one is linked only for software.
- `managed_frames`: two stepping threads and a group handle that can be made twice, two
  API threads, two frames (one to encode, one to overtake it), two registrations, so that
  a push that latched its frame in the first counts it in the second, one
  reconfiguration, an encoder delay of one, so that a removal has a frame to flush.
- `managed_lifecycle`: one start, one destruction, two streams so that a list of
  two can be assigned partly, two groups, one stepping thread; the API thread in
  both the working and the unplaceable configuration. Two stepping threads meet in
  `managed_frames` and in the proof of the refinement, which holds for any number.
- `step_rotation`: three streams with a budget of one, so that the rotation passes
  over a stream; three changes of membership or ownership shift the order during a
  step, and are the fewest that list a stream twice (removed, refused, registered again).
- `core`: two pushing threads, five frames and intervals 2 and 3 (different ones,
  so that a stale snapshot throttles wrongly if it can), two registrations, two
  reconfigurations. Streams do not interact in the core, so one stream is enough;
  the proofs lift this to any number.
- `signaling`: one stream (slots do not interact except through `stop`, which
  takes them all), limits 1 (replacement) and 2 (limit), three offers, three
  registrations, one queued candidate.
- `session`: all kinds of units of both codecs, four units (a startup sequence broken
  off and resumed needs three), two video tracks in the offer.
- `http`: one client (windows of clients do not interact) that reaches the configuration
  by two paths, a limit of two requests in two seconds at times 0 to 2, so that a window
  is filled, left and begun again;
  three changes by requests and application together, enough for a removal and a new
  registration inside one PUT; three values, so that two valid pairs can mix into an
  invalid one.

## 5. Fairness

`ManagedServer`'s `FairSpec` says only that a thread that is inside a call goes
on: the stepping threads, the API steps, the exit of `api_loop`, and the steps of
stop and destruction, each weakly fair. Nobody has to call anything. The code
justifies this because every wait inside these calls is for a lock that is held
for a bounded time, for the join of the API thread, or for the counter of active
calls, and those are exactly the conditions the actions wait for.

A client that has connected is not among them. `handle_client` reads the request and
writes the answer without a time limit (`http_api_server.cpp:343, 417`), so nothing makes
`ApiServed`, the end of serving a client, happen. `StopCompletes` and
`DestructionCompletes` say what is left: stop and destruction return unless the API
thread serves one client for ever. `HttpApi` looks closer: its `FairSpec` says that the
worker goes on where it waits for nobody (`Loop`: the end of the loop, authorization, the
handlers) and that a `stop()` whose worker has ended joins it. Clients owe nothing, so
`StopReturns` excepts the client that neither completes its request nor takes its answer
for ever. It also excepts the end of the process: a `Content-Length` that is no number
makes `std::stoul` throw, and in the worker (and in the API thread of the managed server)
nothing catches that (`LengthThrows`). `ManagedServer` leaves that end of the process out;
in the manual mode the exception leaves `step_api` as a failed step would.

`StepRotation` assumes that the loop that owns `step()` keeps calling it, that its first
API step does not fail for ever, and that a group's thread steps its streams; calling in
a loop is the documented way of using these calls. The remaining specifications state no
fairness and are checked for safety only.

## 6. Proofs

TLC checks small instances; the theorems hold for every value of the constants.
They rest on the named assumptions of the modules (natural-number bounds, finite
sets of threads) and on nothing else.

**The handoff (`EncodedPathProofs`, first part).** `HandoffInv` is the inductive invariant. The
properties are not inductive by themselves: that overflow keeps the newest units
needs to know *where* each pending unit stands. `NewestPending` says it: behind
the front, the backlog is the run of inter units that ends with the newest unit,
and the front either continues the run or is an older keyframe. The lemmas
`MakeRoomEffect` and `PushDeltaEffect` say what overflow does to a backlog; one
lemma per action shows that the invariant is kept. From it follow
`HandoffTypeCorrect`, `HandoffSafe` (bound, newest keyframe), `EveryUnitAccounted`,
`BatchesStartSafe`, `StaleUnitsGoFirst`, `UnitsLeaveInOrder`, and
`HandoffImplementsChannel`: under the mapping pending ↦ the set of pending
numbers, horizon ↦ the newest number delivered, every step is a step of
`RealtimeChannel` or a stutter. That a keyframe leads its batch and that delivery
is in order are proved here only; the run checks what they amount to (`BatchStartsSafe`,
`ImplementsChannel`).

The model writes `push`'s overflow loop in closed form (`PushDelta`: one cut that makes
room). `OverflowIsTheLoop` says that this is what the loop leaves, for every capacity and
every backlog in which only the front can be a keyframe, over-full ones included.
`OverflowLoop` is the loop itself, a recursive function of the number of turns. After n
turns the backlog is the one without its n oldest inter units (`Cut`, `CutOneMore`,
`NextTurn`); the loop ends after as many turns as it takes to make room or to reach a
keyframe alone, and stays there (`LastTurn`); a recursive definition has one solution
(`RoundsUnique`).

**`VideoServerCoreProofs`.** Types first (`CoreTypeCorrect`); the writes of a
step are named operators (`Received`, `Dropped`, `Admitted`, `Published`,
`Reconfigured`) and one lemma each says what they change.

- *Throttle.* `next_allowed` is written by calls that may hold an old snapshot of
  the configuration, so neither property is inductive. `ThrottleInv` adds
  `Faithful` (a snapshot that carries the registration and generation in force
  carries the interval in force, since registrations and generations only grow; one
  that does not is of a frame no newer than the last reset) and `Spaced` (`next` lies
  an interval past the newest admitted frame, and nothing takes it further but a
  call that is `stray`, to at most one interval past the reset). An admission by an old
  snapshot cannot bring frames closer: with an interval it passes `next` and moves it
  forward; without one it leaves it alone. Hence, for the steps, `CoreThrottleHonoured`,
  and `CoreThrottledForCause`: a frame of the configuration in force is dropped as too
  early only after an admitted one of the same configuration, or because a call begun
  before the reset wrote the throttle after it, and then for no longer than one interval.
- *Counters.* `AccountInv` adds that a frame in flight was counted for a
  registration that has been made, so a new registration starts with none in
  flight. Each step changes the set `InFlight` of one stream by at most its own
  thread; the cardinality theorems of the library do the rest
  (`CoreFramesAccounted`).

**The pipeline (`EncodedPathProofs`, second part).** For every frame rate up to one
frame in a unit of time, every delay and every clock.

- `PipelineInv` strengthens the types: a running pipeline has its encoder open and the
  other way round; `ClockFollows` ties the decimation clock to the last admitted frame
  (it is 0 exactly while none was admitted, since an interval is never 0), and
  `CauseKept` ties the failure to what ended the run. `DecimationIsExact` and
  `FailureIsTold` follow, and with them `NothingIsLostQuietly` for the steps.
- `TimesDoAdvance`. The interval is second / rate *rounded*, and a unit's time is
  *rounded* to the grid, so neighbours may share a place. `GridInv` says of all
  remembered and held times that they are in order with no third on one place, and
  that all are at most the place of the newest admitted frame and all but the last
  before the place of a frame that comes an interval later. The arithmetic is in
  `UnitTimeMonotone` and `TwoIntervalsAdvance`: two rounded intervals are at least one
  step of the grid, because a rate is at most one frame in a unit of time.

**The composition (`EncodedPathProofs`, last part).** Every step of the composition is a
step of the handoff or leaves it alone (`PathIsHandoff`), and a step of the pipeline or
leaves it alone (`PathIsPipeline`); so what was proved of the parts holds of the whole
(`PathDelivers`, `PathEndsWell`), and the type invariant adds that the two agree on the
binding and that the backlog keeps within every capacity (`PathTypeCorrect`).

**`WebRtcSessionProofs`.** For any number of units and tracks, and all seven kinds of
units. `SessionInv` has the types and two parts, neither property being inductive.

- `Ended`: the senders end with the session, and an AV1 unit being sent holds the end
  off. A track that `onTrack` binds late is not open before it has looked at the session
  again, so an inactive session cannot pass the next check of the sink, and the packet
  after which `late` is 1 is the last one. `SessionStaysEnded` and `OneDisconnect` follow.
- `Starts`: what a sender believes of its viewer (`started`, `decodable`) is true while
  the session is active, and the packets left of a unit lead the viewer's decoder to a
  picture, whatever it has seen (`Leads`). A send that breaks off, because the track has
  closed or because the send failed, leaves the flags as they were, and the next unit
  finds them so; a packet dropped for want of a track only counts as sent once the session
  has ended. `ItemsLead` and `Av1ItemsLead` are about the packets a unit makes,
  `LeadsOn` about one packet sent. `StartsWithAPicture` follows.

**`SignalingProofs`.** For any number of streams, limits, offers and registrations.
`SignalingInv` has the types and four parts.

- `Room`: `set_offer` checks the limit under one lock and takes the place under another.
  Requests are handled one at a time, so nothing joins a slot in between, and a removal,
  a lookup or a lost connection only makes room: an offer that is still for the
  registration in force has its limit (`LimitInForce`) and a free place (`PlaceLeft`),
  and a slot stays `Within` the limit. With a limit of one the offer replaces the viewer
  instead. `ViewersLimited` follows.
- `Numbered`: registrations are numbered and nothing belongs to one still to come; a
  viewer that an outdated offer leaves behind is not one of the present registration.
- `Ends`: who was taken out of a slot is still to be stopped by the call under way, or
  has stopped. `SessionsEndWithTeardown` follows.
- `Made`: nothing refers to a session that is not made yet.

`ViewersKeepTheirPlaces` is about steps, and a second invariant, `Seats`, is what they
need to know: generations of a slot start again after a removal, so only of recipients
that crossed no removal they tell who came first (`Seated`); and whatever stands in the
slot of an offer under way belongs to its registration or an older one and came before
it (`Admitting`). So the offer's insertion replaces somebody of the present registration
only where the limit is one, and no other step takes a connected viewer out.

`SignalingImplementsPlaces` puts this together as a refinement. The mapping: hall ↦ the
limit of a registered stream; seats ↦ the connected recipients of the present
registration whose offer crossed no removal; came ↦ the sessions that were inserted or
whose offer failed. With `SignalingInv` and `Seats`, every step is a step of
`ViewerPlaces` or shows nothing:

| step of `Signaling` | step of `ViewerPlaces` |
|---|---|
| `OfferInsert`, still for the registration in force | `Sit`; `SitInVain` if the viewer has hung up by then |
| `OfferInsert` after a removal or a stop, `OfferApply` that fails | `TurnAway` |
| a lost connection, the end of a session that still has its place | `Leave` |
| `RegisterStream`, `RemoveFromCore` | `Open`, `Close` |
| `RemoveBegin`, `StopBegin` | `Clear` of the stream, of all streams |
| everything else: limits, reservations, lookups that prune, candidates, sessions already out of their place | nothing |

The guard of `Sit` (a free place) is checked by the code one critical section earlier, so
`TimelyOffer` takes it from `Room`. `SitInVain` is there because of what the code does:
with a limit of one, an offer whose viewer has hung up before it is inserted still
displaces the viewer before it.

**`ManagedServerProofs`.** For any number of streams, groups, stepping and API threads,
frames and registrations. `ManagedInv` has what the steps need of the types and these
parts.

- `Grouped`, `OwnedByHandle`: the two directions of ownership, the first also while the
  server is being destroyed (group steps go on until the destructor has waited for them).
  `StreamsBelongToOneGroup` follows. `Numbered` says that a new registration starts with
  an object nobody has touched.
- `Admitted`: a thread inside `step_streams` has its handle for itself, and what it still
  has to do are streams of the handle. With `Grouped` no two threads work on one stream
  (`OneThreadPerObject`), and the object a thread carries from one critical section to
  the next is still the registered one, because an owned stream cannot be removed. Hence
  `NoPipelineLeftBehind`, though the thread rebuilds a pipeline it looked up earlier.
- `Phased`: the counter of active calls is the number of threads inside, so the
  destructor's wait is one for all of them. With `ThreadsEnd` (the API threads leave) and
  `NothingLeft` this gives `DestructionIsSafe`.
- `Clocked`: a frame is newer than the ones before it wherever it is on its way, with the
  producer, latched or in a step. `FramesEncodedInOrder` follows, since only
  `StepEncode` changes what a pipeline has seen.

`ManagedImplementsLeases` puts this together as a refinement. The mapping: enrolled ↦ the
streams of the map; leased ↦ the streams of each living handle; atWork ↦ the stream whose
state object a thread has looked up and is not through with; encoders ↦ the registered
streams with a pipeline; closed ↦ the destructor has passed its wait.

| step of `ManagedServer` | step of `StreamLeases` |
|---|---|
| `RegisterStream`, `RemoveStream` | `Enrol`, `Withdraw` |
| `RegisterStreams`, `ReleaseStreamGroup` | `Lease` of the whole list, `Return` |
| `StepLookup` of a registered stream | `TakeUp` |
| `StepEncode` | `Works` |
| `StepTake` of a stream that is idle or not due, `StepTransformFails`, `StepPipelineFails`, `StepEncodeFails`, `StepPublish` | `LayDown` |
| `StopFinish`, `DestroyDrained` | `StopEncoders`, `Close` |
| everything else: start, producers, the API step, entering and leaving a call, taking a frame | nothing |

The guards of the abstract steps are what the code does not test at that place: a stream
that is looked up is leased to the thread's own group and nobody of the group has one in
hand (`LookupTakesUp`, from `Admitted` and `Grouped`); a pipeline is touched only by the
thread that has its stream in hand (`OwnPipelineOnly`); nobody has anything in hand when
the counter is zero (`DrainedCloses`, from `Phased`). The mapping needs no history
variable.

The handoffs are opaque in this module; the next one looks into them.

**`ManagedFramesProofs`.** For the same constants, three invariants on top of
`ManagedInv`.

- `CoreInv`, frames. `Balanced` counts, for every registration, the first one of a
  stream or a later one: what the core has received and what a producer has not told it
  yet (a push counts its frame in a critical section of its own) is transformed,
  dropped, lost, latched or in the hands of a thread. A push that has latched its frame
  when the stream is removed tells the registration that follows (`foreign`) or nobody,
  and the frame's own registration is short of it (`missed`). A stream has one producer,
  so at most one such push is on its way (`Late`), and a registration is credited at
  most once (`CreditedOnce`). `Bound` ties the core's stream to the object; of one that
  has an object before it is in the core, `Untouched` says that no thread takes its
  frame. The number of `Holders` is a cardinality, and each step changes it by its own
  thread at most. `EveryFrameAccounted` follows. `Aligned` ties the latest frame to what
  the encoder took last, unless a thread is between the two, and that thread publishes
  exactly this frame (`ThreadInv`); `SnapshotIsEncoded` follows.
- `UnitInv`, units. Every object, registered or not, is a line (`Line`): there are
  numbers lo and m such that what has left the object (delivered, or drained by the API
  step under way) is at most lo, the backlog rises strictly between lo and m, and what
  the encoder holds back rises above m (`Lined`). Encoding adds at the end of the line;
  a push, an overflow and a flush move its units forward and may thin them out (lemmas
  on `HandoffOps` and on `Handed`, the recursive function that hands a run of units to a
  handoff); so does a removal, which flushes the object that an API step may still have
  to drain; a drain empties the backlog and raises lo to m. `Turn` says of the one API
  step that can be under way that it drains one object of each stream, holds the units
  of a stream in their order, and that all of them go after what the stream has got.
  Since objects are numbered by registration, a unit of an older one goes before those
  of a newer (`Before`), and a removed stream turns the old units away.
  `UnitsReachViewersInOrder` follows.
- `BoundInv` has the bounds of clocks, counters and owners that the two do not need;
  together they give `ManagedTypes`.

`Handed` is a recursive function, and the library's induction theorems cannot be used
(see below), so these proofs do their induction with sets: a set of naturals that has 0
and the successor of each of its members has them all, by the well-foundedness of <.

**`StepRotationProofs`.** For any number of streams and any budget. `Only` keeps of the
order what is in a set (`OnlyKeeps`, by the same induction), so the streams of a step are
registered ones and the index stays within the order (`RotationTypes`). `StillToCome`
says of a step in its loop that every stream that was due when it began and has not been
progressed has a turn left; the turns from any start go round the whole list
(`Around`). A loop that ends with budget left has had all its turns, so
`BudgetIsForReadyStreams`.

**`HttpApiProofs`.** For any settings, clients, requests and times.

- *Rate limits.* `WindowsHold` speaks of every span as long as a window, which need not
  be one of the fixed windows the code counts in. `Ledger` says that a request let through
  was counted in the present window or in one that ended before it began, that windows do
  not overlap, and that no two requests have the same place in the same window. A span
  meets at most two windows, and of the earlier one not its first request (that one came
  when the window began): fewer than twice the limit (`WindowsAlwaysHold`). The windows
  are those of the code, one for each client and request path.
- *PUT.* `Puts`: every configuration a stream ever has is fit, since a PUT judges the
  merged copy; what a request wrote is at `persisted` still what the stream shows, or
  something later, or the registration is gone (`Shows`); and an answer tells which
  (`Answered`). `PutsWorkWhole` follows, though the copy was read two critical sections
  before it is written.
- `HttpTypes` adds where the serving thread can be.

**Only model-checked.** Liveness (`StopCompletes`, `DestructionCompletes`,
`ReadyServedUnlessBroken`, `StopReturns`) is out of the prover's reach and stays with
TLC. Every invariant, action property and refinement that a passing run checks is stated
by a theorem. Two more invariants have a theorem and no run of their own, since the runs
check a refinement that says nearly the same: `OwnershipExact` (`StreamsBelongToOneGroup`,
next to `ImplementsLeases`) and `SubscribersLimited` (`ViewersLimited`, next to
`ImplementsPlaces`; it also counts viewers whose offer crossed a stop).

## 7. Where the code and its documents disagree

- **The managed API thread can end silently** (`managed_api_thread`). A stream
  removed between the drain of its handoff and the delivery of its units fails
  the API step, and `api_loop` leaves its loop; the started server no longer
  progresses its API (`managed_video_server.cpp:1333, 1395`).
- **`step()` can starve streams** (`step_starvation`). It returns at the first
  stream that fails, before the rotation index moves; a failed pipeline is reused,
  so a failing stream that stays busy blocks the ones behind it
  (`managed_video_server.cpp:595`).
- **The latest frame can be of an old configuration** (`core_stale_frame`). A
  `push_frame` under way when the configuration is set publishes a frame made
  with its old snapshot (`video_server_core.cpp:332`).
- **A session can outlive its stream** (`signaling_orphan`). An offer handled while
  the stream is removed inserts its session after the removal has taken the slot
  (`signaling_server.cpp:100`).

Each is a finding in `PROJECT.json` with the document it quotes.

Some things the code does that no document excludes, but a reader may not expect, are in
the models, and the properties state what is left:

- `push_frame` of the managed server counts a frame as received after it has let go of
  the stream (`managed_video_server.cpp:813`): a removal and a registration in between
  give the new registration one frame that the old one latched (`FramesAccounted`).
- A rate-limit window belongs to a client and a request *path*
  (`webrtc_video_server.cpp:1348`): aliases (`/output`, `/config`) and session ids in a
  path open further windows for one route, each with the full number. The header
  (`webrtc_video_server.h:57-61`) calls it the maximum per window and does not say of
  which requests (`WindowsHold`).
- A `push_frame` of the core that began before a reconfiguration throttles the new
  configuration with its old interval, once (`video_server_core.cpp:130-139`,
  `ThrottledForCause`).
- A client that is silent keeps `stop()` and the destructor waiting; a `Content-Length`
  that is no number ends the process (section 5).

## 8. What is not modelled

- *Numbers at the end of their range*: time stamps and intervals are 64 bits wide in
  the code and natural numbers in the models; a `Content-Length` is one that fits the body,
  one that is too large, or one that is no number.
- *Texts*: SDP and candidates, JSON bodies and answers, CORS headers, PPM bytes, log
  messages. A body is well-formed or not, a stored text is there or not.
- *Below a unit*: RTP packetization, the split of an access unit into NAL units, pixel
  data, the names and options libavcodec is opened with.
- *`InlineOnPush`*: `push_frame` that encodes on the caller's thread; one thread
  then does what two threads do in the model.
- *Transforms, pixel conversion, statistics, frame encoding*: pure functions of one
  frame; in the models a frame transforms or fails.
- *TOML loader*: runs before there is a server; its results are the constants.
- *Test framework, generators, tools, examples*: drive the library, are not part
  of it.
- *Locks within a critical section*: that lock orders agree was read in the code
  (access, server, stream, core; session, sender, sink), not modelled.

## 9. Plan

Done, in this order: `HandoffOps`, `EncodedHandoff`, `RealtimeChannel`; `ManagedServer`;
`StepRotation`; `VideoServerCore`; `Signaling` and `WebRtcSession` (with both codecs);
`RawPipeline` and `EncodedPath`; `HttpApi`; the proofs about each; `ViewerPlaces`
and `StreamLeases`, and the proofs that `Signaling` and `ManagedServer` implement them.

What would come next:

1. The compatibility `step()` inside `ManagedServer`. It is for single-loop callers;
   called beside a `remove_stream` on another thread it could rebuild the pipeline of an
   orphaned state (`managed_video_server.cpp:1190`).
2. `InlineOnPush`, where `push_frame` encodes on the caller's thread.
