----------------------------- MODULE ManagedServer -----------------------------
(***************************************************************************)
(* The managed server of managed_video_server.cpp, split at its locks.     *)
(*                                                                         *)
(*   producers   push_frame: latch the newest raw frame of a stream        *)
(*   steppers    step_streams: encode the latched frames of a group        *)
(*   api         step_api / api_loop: drain the handoffs, deliver the      *)
(*               units, turn the HTTP pump                                 *)
(*   the owner   start, stop, destroy, register and remove streams, make   *)
(*               and release stream groups                                 *)
(*                                                                         *)
(* Every action is one critical section of mutex_, access_->mutex, a       *)
(* stream's mutex or the core's mutex, or one atomic operation; the places *)
(* between two actions are the places where the code holds no lock.  The   *)
(* locks are always taken in the order access, mutex_, stream, core.       *)
(*                                                                         *)
(* Streams are driven through groups; the compatibility call step() has a  *)
(* module of its own (StepRotation).  Frames carry their time stamp, which *)
(* counts a stream's push_frame calls.  A stream state object outlives its *)
(* registration as long as somebody points to it, so objects are numbered. *)
(***************************************************************************)
EXTENDS HandoffOps, FiniteSets

CONSTANTS
  Streams,        \* stream ids
  Sources,        \* the streams somebody pushes frames to
  Handles,        \* stream-group handles the application can hold at a time
  Steppers,       \* threads that call step_streams
  ApiThreads,     \* threads that call step_api; ApiWorker is the managed one
  ApiWorker,
  Modes,          \* configurations to explore: "manual", "thread", "unplaceable"
  EncoderDelay,   \* the most frames the encoder holds back
  LaterKinds,     \* what the encoder emits after a pipeline's first unit
  PumpResults,    \* what a turn of the HTTP pump can return
  MaxFrames,      \* bound: push_frame calls per stream
  MaxObjects,     \* bound: stream registrations
  MaxGroups,      \* bound: groups ever made
  MaxStarts,      \* bound: calls of start
  MaxReconfigures \* bound: output configuration changes

ASSUME ManagedAssumption ==
  /\ IsFiniteSet(Streams) /\ IsFiniteSet(Steppers)
  /\ Sources \subseteq Streams
  /\ ApiWorker \in ApiThreads
  /\ Modes \subseteq {"manual", "thread", "unplaceable"}
  /\ EncoderDelay \in Nat
  /\ LaterKinds \subseteq {"key", "delta"}
  /\ PumpResults \subseteq BOOLEAN
  /\ MaxFrames \in Nat /\ MaxGroups \in Nat /\ MaxStarts \in Nat
  /\ MaxReconfigures \in Nat
  /\ MaxObjects \in Nat /\ Cardinality(Streams) <= MaxObjects

VARIABLES
  mode,      \* config_: who progresses the API; "unplaceable" is a managed
             \* thread whose affinity or priority cannot be applied
  life,      \* start/stop/destroy: [started, stopRequested, phase, starts]
  access,    \* ManagedServerAccess: [owner, shuttingDown, activeCalls]
  streams,   \* streams_: the object of each registered stream, or 0
  object,    \* ManagedStreamState objects, by number of registration
  made,      \* [objects, groups, configs]: how many there have been
  group,     \* StreamGroupHandle objects: [id, streams, stepping]; id 0 is none
  core,      \* what the inner server keeps of each stream
  producer,  \* each stream's producer inside push_frame
  stepper,   \* each stepping thread inside step_streams
  api,       \* each API thread inside step_api_impl
  apiActive  \* api_step_active_

vars == <<mode, life, access, streams, object, made, group, core, producer,
          stepper, api, apiActive>>

-----------------------------------------------------------------------------
Objects == 1..MaxObjects
None == 0

NoPipeline == [state |-> "none", gen |-> 0, fresh |-> FALSE, held |-> <<>>]
NewPipeline(gen) ==
  [state |-> "running", gen |-> gen, fresh |-> TRUE, held |-> <<>>]

\* Two ghosts: `encoded` is the newest frame the pipeline accepted, `missed` the
\* number of frames latched here whose push found another registration, or none,
\* when it came to count them.
NewObject ==
  [pending |-> None, pipeline |-> NoPipeline, handoff |-> EmptyHandoff,
   due |-> 0, registered |-> FALSE, owner |-> 0, encoded |-> None, missed |-> 0]

\* `life` is the object of the registration, None if the core has no such
\* stream; `rejected`, `lost` and `foreign` are ghosts (dropped frames that were
\* never latched, latched frames that a failed step gave up, frames counted as
\* received that an earlier registration had latched), the rest are the public
\* counters, the latest frame and the latest unit.
NoUnit == [origin |-> None, seq |-> 0]
NotInCore ==
  [life |-> None, gen |-> 0, interval |-> 0, latest |-> None, unit |-> NoUnit,
   received |-> 0, transformed |-> 0, dropped |-> 0, rejected |-> 0, lost |-> 0,
   foreign |-> 0]
Fresh(o) == [NotInCore EXCEPT !.life = o]

InCore(s) == core[s].life # None

\* note_frame_dropped on the inner server: nothing happens without the stream.
CountDropped(c) == IF c.life = None THEN c ELSE [c EXCEPT !.dropped = @ + 1]
CountRejected(c) ==
  IF c.life = None THEN c ELSE [c EXCEPT !.dropped = @ + 1, !.rejected = @ + 1]

GroupLists ==
  {list \in UNION {[1..n -> Streams] : n \in 1..Cardinality(Streams)} :
     \A i, j \in DOMAIN list : list[i] = list[j] => i = j}
Members(h) == {group[h].streams[i] : i \in DOMAIN group[h].streams}
NoGroup == [id |-> 0, streams |-> <<>>, stepping |-> FALSE]

IdleStepper ==
  [pc |-> "idle", handle |-> None, todo |-> <<>>, object |-> None,
   frame |-> None, gen |-> 0]
IdleApi == [pc |-> "idle", todo |-> {}, units |-> <<>>]

InitialObjects == 1..Cardinality(Streams)

Managed == mode # "manual"
\* The application keeps the server alive while it calls it; only the group
\* handles may be used until and after the destruction.
Callable == life.phase \notin {"draining", "lastStop", "destroyed"}

Init ==
  /\ mode \in Modes
  /\ life = [started |-> FALSE, stopRequested |-> FALSE, phase |-> "calm",
             starts |-> 0]
  /\ access = [owner |-> TRUE, shuttingDown |-> FALSE, activeCalls |-> 0]
  /\ \E ids \in [Streams -> InitialObjects] :
       /\ \A s, t \in Streams : ids[s] = ids[t] => s = t
       /\ streams = ids
  /\ object = [o \in Objects |-> NewObject]
  /\ made = [objects |-> Cardinality(Streams), groups |-> 0, configs |-> 0]
  /\ group = [h \in Handles |-> NoGroup]
  /\ core = [s \in Streams |-> NotInCore]
  /\ producer = [s \in Streams |-> [pc |-> "idle", clock |-> 0, object |-> None]]
  /\ stepper = [t \in Steppers |-> IdleStepper]
  /\ api = [a \in ApiThreads |->
             IF mode = "manual" THEN IdleApi ELSE [IdleApi EXCEPT !.pc = "none"]]
  /\ apiActive = FALSE

-----------------------------------------------------------------------------
(* A pipeline and its sink.                                                *)

\* The sink: the encoder's output goes into the stream's handoff.  A pipeline's
\* first unit is a keyframe.
Handed(h, units) ==
  LET after[n \in 0..Len(units)] ==
        IF n = 0 THEN h ELSE AfterPush(after[n - 1], units[n])
  IN  after[Len(units)]
Units(r, frames, kind) ==
  [i \in DOMAIN frames |->
     [seq |-> frames[i], kind |-> IF r.pipeline.fresh /\ i = 1 THEN "key" ELSE kind]]
Emit(r, frames, kind) ==
  [r EXCEPT !.handoff = Handed(@, Units(r, frames, kind)),
            !.pipeline.fresh = @ /\ frames = <<>>]

\* Stopping a pipeline flushes what the encoder holds, unless it has failed.
StopPipeline(r) ==
  LET flushed == IF r.pipeline.state = "running"
                 THEN Emit(r, r.pipeline.held, "delta") ELSE r
  IN  [flushed EXCEPT !.pipeline = NoPipeline]

-----------------------------------------------------------------------------
(* Start, stop and destruction.                                            *)

\* start() registers what is not registered yet; the HTTP listener may refuse
\* to open, and then only the registrations remain.
RegisterAll ==
  /\ core' = [s \in Streams |->
                IF streams[s] # None /\ ~object[streams[s]].registered
                THEN Fresh(streams[s]) ELSE core[s]]
  /\ object' = [o \in Objects |->
                  IF \E s \in Streams : streams[s] = o
                  THEN [object[o] EXCEPT !.registered = TRUE] ELSE object[o]]

Start(opened) ==
  /\ Callable /\ life.phase = "calm" /\ ~life.started
  /\ life.starts < MaxStarts
  /\ RegisterAll
  /\ IF opened
     THEN /\ life' = [started |-> TRUE, stopRequested |-> mode = "unplaceable",
                      phase |-> IF mode = "unplaceable" THEN "unwinding" ELSE "calm",
                      starts |-> life.starts + 1]
          /\ api' = IF Managed THEN [api EXCEPT ![ApiWorker] = IdleApi] ELSE api
     ELSE /\ life' = [life EXCEPT !.starts = @ + 1]
          /\ UNCHANGED api
  /\ UNCHANGED <<mode, access, streams, made, group, producer, stepper, apiActive>>

\* join() returns when the thread has left api_loop, or there is no thread.
Joinable == Managed => api[ApiWorker].pc \in {"none", "exited"}
Joined == IF Managed THEN [api EXCEPT ![ApiWorker].pc = "none"] ELSE api

\* The failure path of start(): join without the lock, then not started.
UnwindStart ==
  /\ life.phase = "unwinding" /\ Joinable
  /\ api' = Joined
  /\ life' = [life EXCEPT !.started = FALSE, !.phase = "calm"]
  /\ UNCHANGED <<mode, access, streams, object, made, group, core, producer,
                 stepper, apiActive>>

\* Mutant: a stop that forgets to ask the API thread to leave.
StopBeginSilently ==
  /\ Callable /\ life.phase = "calm"
  /\ life' = [life EXCEPT !.phase = "joining"]
  /\ UNCHANGED <<mode, access, streams, object, made, group, core, producer,
                 stepper, api, apiActive>>

\* stop(), in any state: nothing asks whether the server is started.
StopBegin ==
  /\ Callable /\ life.phase = "calm"
  /\ life' = [life EXCEPT !.stopRequested = TRUE, !.phase = "joining"]
  /\ UNCHANGED <<mode, access, streams, object, made, group, core, producer,
                 stepper, api, apiActive>>

\* Mutant: a stop that leaves the encoded handoffs as they are.
StopFinishKeepingUnits ==
  /\ life.phase \in {"joining", "lastStop"} /\ Joinable
  /\ api' = Joined
  /\ object' = [o \in Objects |->
                  IF \E s \in Streams : streams[s] = o
                  THEN StopPipeline(object[o]) ELSE object[o]]
  /\ life' = [life EXCEPT !.started = FALSE,
                          !.phase = IF @ = "joining" THEN "calm" ELSE "destroyed"]
  /\ UNCHANGED <<mode, access, streams, made, group, core, producer, stepper,
                 apiActive>>

\* The rest of stop(), under mutex_: each pipeline flushes into its handoff, which
\* is then cleared.  (The clear of one stream commutes with whatever a stepper does
\* to another.)
StopFinish ==
  /\ life.phase \in {"joining", "lastStop"} /\ Joinable
  /\ api' = Joined
  /\ object' = [o \in Objects |->
                  IF \E s \in Streams : streams[s] = o
                  THEN [StopPipeline(object[o]) EXCEPT !.handoff = AfterClear(@)]
                  ELSE object[o]]
  /\ life' = [life EXCEPT !.started = FALSE,
                          !.phase = IF @ = "joining" THEN "calm" ELSE "destroyed"]
  /\ UNCHANGED <<mode, access, streams, made, group, core, producer, stepper,
                 apiActive>>

\* The destructor.  Nobody else is inside the server's own methods any more.
DestroyBegin ==
  /\ Callable /\ life.phase = "calm"
  /\ \A s \in Streams : producer[s].pc = "idle"
  /\ \A a \in ApiThreads : ~Managed => api[a].pc = "idle"
  /\ access' = [access EXCEPT !.shuttingDown = TRUE]
  /\ life' = [life EXCEPT !.phase = "draining"]
  /\ UNCHANGED <<mode, streams, object, made, group, core, producer, stepper, api,
                 apiActive>>

\* Mutant: a destructor that does not wait.
NoActiveCallsUnchecked == TRUE
\* cv.wait: the destructor goes on when no group step is inside.
NoActiveCalls == access.activeCalls = 0

DestroyDrained ==
  /\ life.phase = "draining" /\ NoActiveCalls
  /\ access' = [access EXCEPT !.owner = FALSE]
  /\ life' = [life EXCEPT !.stopRequested = TRUE, !.phase = "lastStop"]
  /\ UNCHANGED <<mode, streams, object, made, group, core, producer, stepper, api,
                 apiActive>>

-----------------------------------------------------------------------------
(* Streams and groups.                                                     *)

RegisterStream(s) ==
  /\ Callable /\ streams[s] = None /\ made.objects < MaxObjects
  /\ LET o == made.objects + 1 IN
       /\ made' = [made EXCEPT !.objects = o]
       /\ streams' = [streams EXCEPT ![s] = o]
       /\ object' = [object EXCEPT ![o].registered = life.started]
       /\ core' = IF life.started THEN [core EXCEPT ![s] = Fresh(o)] ELSE core
  /\ UNCHANGED <<mode, life, access, group, producer, stepper, api, apiActive>>

\* Mutant: a removal that does not ask who owns the stream.
RemovableUnchecked(s) == streams[s] # None
Removable(s) == streams[s] # None /\ object[streams[s]].owner = 0

\* The pipeline is stopped, so it flushes into the handoff of the state object; an
\* API step that has copied the pointer to it can still drain and deliver that.
RemoveStream(s) ==
  /\ Callable /\ Removable(s)
  /\ object' = [object EXCEPT ![streams[s]] = StopPipeline(@)]
  /\ core' = IF object[streams[s]].registered
             THEN [core EXCEPT ![s] = NotInCore] ELSE core
  /\ streams' = [streams EXCEPT ![s] = None]
  /\ UNCHANGED <<mode, life, access, made, group, producer, stepper, api, apiActive>>

\* Mutant: only the first stream of the list is checked.
AssignableIfFirstFree(list) ==
  /\ \A i \in DOMAIN list : streams[list[i]] # None
  /\ object[streams[list[1]]].owner = 0
Assignable(list) ==
  \A i \in DOMAIN list : streams[list[i]] # None /\ object[streams[list[i]]].owner = 0

\* register_streams: all of the list becomes the group's, or none of it.
RegisterStreams(h, list) ==
  /\ Callable /\ group[h].id = 0 /\ made.groups < MaxGroups
  /\ Assignable(list)
  /\ LET id == made.groups + 1 IN
       /\ made' = [made EXCEPT !.groups = id]
       /\ group' = [group EXCEPT ![h] = [id |-> id, streams |-> list,
                                         stepping |-> FALSE]]
       /\ object' = [o \in Objects |->
                       IF \E i \in DOMAIN list : streams[list[i]] = o
                       THEN [object[o] EXCEPT !.owner = id] ELSE object[o]]
  /\ UNCHANGED <<mode, life, access, streams, core, producer, stepper, api, apiActive>>

\* The handle's destructor, when the last thread has let go of it.
ReleaseStreamGroup(h) ==
  /\ group[h].id # 0
  /\ \A t \in Steppers : stepper[t].handle # h
  /\ object' = [o \in Objects |->
                  IF /\ access.owner /\ ~access.shuttingDown
                     /\ \E s \in Members(h) : streams[s] = o
                     /\ object[o].owner = group[h].id
                  THEN [object[o] EXCEPT !.owner = 0] ELSE object[o]]
  /\ group' = [group EXCEPT ![h] = NoGroup]
  /\ UNCHANGED <<mode, life, access, streams, made, core, producer, stepper, api,
                 apiActive>>

\* set_stream_output_config on the inner server: directly or by an HTTP PUT.
SetOutputConfig(s, interval) ==
  /\ Callable /\ InCore(s) /\ made.configs < MaxReconfigures
  /\ made' = [made EXCEPT !.configs = @ + 1]
  /\ core' = [core EXCEPT ![s].gen = @ + 1, ![s].interval = interval,
                          ![s].latest = None]
  /\ UNCHANGED <<mode, life, access, streams, object, group, producer, stepper, api,
                 apiActive>>

-----------------------------------------------------------------------------
(* push_frame, one producer per stream.                                    *)

\* The inner server validates the frame and unlocks; a frame that it refuses, or
\* whose stream it does not know, is counted in a call of its own.
PushValidate(s) ==
  /\ Callable /\ producer[s].pc = "idle" /\ producer[s].clock < MaxFrames
  /\ \E pc \in {"latch", "reject"} :
       /\ pc = "latch" => InCore(s)
       /\ producer' = [producer EXCEPT ![s].pc = pc, ![s].clock = @ + 1]
  /\ UNCHANGED <<mode, life, access, streams, object, made, group, core, stepper,
                 api, apiActive>>

\* note_frame_dropped for a frame that was refused, or that was latched and whose
\* stream then was not there to receive it: whichever registration is there now.
PushReject(s) ==
  /\ producer[s].pc = "reject"
  /\ core' = [core EXCEPT ![s] = CountRejected(@)]
  /\ producer' = [producer EXCEPT ![s].pc = "idle"]
  /\ UNCHANGED <<mode, life, access, streams, object, made, group, stepper, api,
                 apiActive>>

\* Mutant: the replaced frame is not counted.
LatchUncounted(s, o) ==
  /\ object' = [object EXCEPT ![o].pending = producer[s].clock]
  /\ producer' = [producer EXCEPT ![s].pc = "note", ![s].object = o]
  /\ UNCHANGED core
\* The newest frame replaces a frame nobody took, which counts as dropped.
Latch(s, o) ==
  /\ object' = [object EXCEPT ![o].pending = producer[s].clock]
  /\ core' = IF object[o].pending # None
             THEN [core EXCEPT ![s] = CountDropped(@)] ELSE core
  /\ producer' = [producer EXCEPT ![s].pc = "note", ![s].object = o]

PushLatch(s) ==
  /\ producer[s].pc = "latch"
  /\ \/ streams[s] # None /\ Latch(s, streams[s])
     \/ /\ streams[s] = None
        /\ core' = [core EXCEPT ![s] = CountDropped(@)]
        /\ producer' = [producer EXCEPT ![s].pc = "idle"]
        /\ UNCHANGED object
  /\ UNCHANGED <<mode, life, access, streams, made, group, stepper, api, apiActive>>

\* note_frame_received, without mutex_: the registration it finds need not be the
\* one whose state object took the frame.
PushNote(s) ==
  LET o == producer[s].object IN
  /\ producer[s].pc = "note"
  /\ producer' = [producer EXCEPT ![s].pc = IF InCore(s) THEN "idle" ELSE "reject",
                                  ![s].object = None]
  /\ core' = IF InCore(s)
             THEN [core EXCEPT ![s].received = @ + 1,
                               ![s].foreign = IF core[s].life = o THEN @ ELSE @ + 1]
             ELSE core
  /\ object' = IF core[s].life = o THEN object ELSE [object EXCEPT ![o].missed = @ + 1]
  /\ UNCHANGED <<mode, life, access, streams, made, group, stepper, api, apiActive>>

-----------------------------------------------------------------------------
(* step_streams, on a caller's thread.                                     *)

\* Mutant: several threads may step one group.
StepAdmittedAlways(h) == TRUE
\* compare_exchange on stepping_.
StepAdmitted(h) == ~group[h].stepping

StepBegin(t, h) ==
  /\ stepper[t].pc = "idle" /\ group[h].id # 0
  /\ StepAdmitted(h)
  /\ group' = [group EXCEPT ![h].stepping = TRUE]
  /\ stepper' = [stepper EXCEPT ![t] =
                   [IdleStepper EXCEPT !.pc = "enter", !.handle = h]]
  /\ UNCHANGED <<mode, life, access, streams, object, made, core, producer, api,
                 apiActive>>

\* Mutant: the call is counted before the test and not counted out.
StepEnterCountedFirst(t) ==
  LET h == stepper[t].handle IN
  /\ stepper[t].pc = "enter"
  /\ access' = [access EXCEPT !.activeCalls = @ + 1]
  /\ IF access.owner /\ ~access.shuttingDown
     THEN /\ stepper' = [stepper EXCEPT ![t].pc = "lookup",
                                        ![t].todo = group[h].streams]
          /\ UNCHANGED group
     ELSE /\ stepper' = [stepper EXCEPT ![t] = IdleStepper]
          /\ group' = [group EXCEPT ![h].stepping = FALSE]
  /\ UNCHANGED <<mode, life, streams, object, made, core, producer, api, apiActive>>
StepEnter(t) ==
  LET h == stepper[t].handle IN
  /\ stepper[t].pc = "enter"
  /\ IF access.owner /\ ~access.shuttingDown
     THEN /\ access' = [access EXCEPT !.activeCalls = @ + 1]
          /\ stepper' = [stepper EXCEPT ![t].pc = "lookup",
                                        ![t].todo = group[h].streams]
          /\ UNCHANGED group
     ELSE /\ stepper' = [stepper EXCEPT ![t] = IdleStepper]
          /\ group' = [group EXCEPT ![h].stepping = FALSE]
          /\ UNCHANGED access
  /\ UNCHANGED <<mode, life, streams, object, made, core, producer, api, apiActive>>

StepLeave(t) ==
  /\ stepper[t].pc = "leave"
  /\ access' = [access EXCEPT !.activeCalls = @ - 1]
  /\ group' = [group EXCEPT ![stepper[t].handle].stepping = FALSE]
  /\ stepper' = [stepper EXCEPT ![t] = IdleStepper]
  /\ UNCHANGED <<mode, life, streams, object, made, core, producer, api, apiActive>>

\* process_stream is over for this stream: Idle or Progressed goes on with the
\* group's next stream, Failed ends the call.
AtStream(t) == Head(stepper[t].todo)
NextStream(t) ==
  stepper' = [stepper EXCEPT ![t].pc = IF Len(stepper[t].todo) > 1 THEN "lookup" ELSE "leave",
                             ![t].todo = Tail(@), ![t].object = None,
                             ![t].frame = None, ![t].gen = 0]
\* Mutant: a failed step returns without counting itself out.
FailStepUncounted(t) == stepper' = [stepper EXCEPT ![t] = IdleStepper]
FailStep(t) ==
  stepper' = [stepper EXCEPT ![t].pc = "leave", ![t].todo = <<>>,
                             ![t].object = None, ![t].frame = None, ![t].gen = 0]

StepLookup(t) ==
  /\ stepper[t].pc = "lookup"
  /\ IF streams[AtStream(t)] = None
     THEN NextStream(t)
     ELSE stepper' = [stepper EXCEPT ![t].pc = "take",
                                     ![t].object = streams[AtStream(t)]]
  /\ UNCHANGED <<mode, life, access, streams, object, made, group, core, producer,
                 api, apiActive>>

\* The latched frame is left alone while it is not due.
NotDue(o, c) ==
  c.interval > 0 /\ object[o].due > 0 /\ object[o].pending < object[o].due

StepTake(t) ==
  LET o == stepper[t].object
      c == core[AtStream(t)]
  IN
  /\ stepper[t].pc = "take"
  /\ \/ /\ object[o].pending = None \/ (InCore(AtStream(t)) /\ NotDue(o, c))
        /\ NextStream(t)
        /\ UNCHANGED object
     \/ /\ object[o].pending # None /\ ~InCore(AtStream(t))
        /\ FailStep(t)
        /\ UNCHANGED object
     \/ /\ object[o].pending # None /\ InCore(AtStream(t)) /\ ~NotDue(o, c)
        /\ object' = [object EXCEPT ![o].pending = None,
                        ![o].due = IF c.interval > 0
                                   THEN object[o].pending + c.interval ELSE 0]
        /\ stepper' = [stepper EXCEPT ![t].pc = "encode", ![t].gen = c.gen,
                                      ![t].frame = object[o].pending]
  /\ UNCHANGED <<mode, life, access, streams, made, group, core, producer, api,
                 apiActive>>

\* apply_display_transform refuses the frame.
StepTransformFails(t) ==
  LET s == AtStream(t) IN
  /\ stepper[t].pc = "encode"
  /\ core' = [core EXCEPT ![s] = CountDropped(@)]
  /\ NextStream(t)
  /\ UNCHANGED <<mode, life, access, streams, object, made, group, producer, api,
                 apiActive>>

\* ensure_pipeline keeps a pipeline of the same configuration, failed or not.
\* (Frames have the registered size, so the transformed size follows from the
\* configuration.)
EnsurePipeline(r, gen) ==
  IF r.pipeline.state # "none" /\ r.pipeline.gen = gen THEN r
  ELSE [StopPipeline(r) EXCEPT !.pipeline = NewPipeline(gen)]

\* The encoder takes a frame and emits all but the last `keep` frames it has.
Encode(r, frame, keep, kind) ==
  LET queue == Append(r.pipeline.held, frame)
      n     == Len(queue) - keep
  IN  [Emit(r, SubSeq(queue, 1, n), kind)
         EXCEPT !.encoded = frame, !.pipeline.held = SubSeq(queue, n + 1, Len(queue))]

\* Frames the step gives up without counting them.
CountLost(c) == IF c.life = None THEN c ELSE [c EXCEPT !.lost = @ + 1]

StepEncode(t, keep, kind) ==
  LET o == stepper[t].object
      r == EnsurePipeline(object[o], stepper[t].gen)
  IN
  /\ stepper[t].pc = "encode" /\ r.pipeline.state = "running"
  /\ keep <= Len(r.pipeline.held) + 1
  /\ object' = [object EXCEPT ![o] = Encode(r, stepper[t].frame, keep, kind)]
  /\ stepper' = [stepper EXCEPT ![t].pc = "publish"]
  /\ UNCHANGED <<mode, life, access, streams, made, group, core, producer, api,
                 apiActive>>

\* The new pipeline does not start: the old one is gone, and none takes its place.
StepPipelineFails(t) ==
  LET o == stepper[t].object IN
  /\ stepper[t].pc = "encode"
  /\ ~(object[o].pipeline.state # "none" /\ object[o].pipeline.gen = stepper[t].gen)
  /\ object' = [object EXCEPT ![o] = StopPipeline(@)]
  /\ core' = [core EXCEPT ![AtStream(t)] = CountLost(@)]
  /\ FailStep(t)
  /\ UNCHANGED <<mode, life, access, streams, made, group, producer, api, apiActive>>

\* Mutant: the failure of the encoder is not noticed.
StepEncodeFailsUnnoticed(t) ==
  LET o == stepper[t].object
      r == EnsurePipeline(object[o], stepper[t].gen)
  IN
  /\ stepper[t].pc = "encode"
  /\ object' = [object EXCEPT ![o] = [r EXCEPT !.pipeline.state = "failed",
                                               !.pipeline.held = <<>>]]
  /\ stepper' = [stepper EXCEPT ![t].pc = "publish"]
  /\ UNCHANGED <<mode, life, access, streams, made, group, core, producer, api,
                 apiActive>>
\* The encoder rejects the frame: the pipeline has failed for good.
StepEncodeFails(t) ==
  LET o == stepper[t].object
      r == EnsurePipeline(object[o], stepper[t].gen)
  IN
  /\ stepper[t].pc = "encode"
  /\ object' = [object EXCEPT ![o] = [r EXCEPT !.pipeline.state = "failed",
                                               !.pipeline.held = <<>>]]
  /\ core' = [core EXCEPT ![AtStream(t)] = CountLost(@)]
  /\ FailStep(t)
  /\ UNCHANGED <<mode, life, access, streams, made, group, producer, api, apiActive>>

\* publish_transformed_frame on the inner server.
StepPublish(t) ==
  LET s == AtStream(t) IN
  /\ stepper[t].pc = "publish"
  /\ IF InCore(s)
     THEN /\ core' = [core EXCEPT ![s].latest = stepper[t].frame,
                                  ![s].transformed = @ + 1]
          /\ NextStream(t)
     ELSE FailStep(t) /\ UNCHANGED core
  /\ UNCHANGED <<mode, life, access, streams, object, made, group, producer, api,
                 apiActive>>

-----------------------------------------------------------------------------
(* The API step.                                                           *)

\* Mutant: several API steps at a time.
ApiStepAdmittedAlways == TRUE
\* compare_exchange on api_step_active_.
ApiStepAdmitted == ~apiActive

\* A manual call, or the next turn of api_loop; the objects are copied under
\* mutex_.  (The copy is the step's first lock; nothing happens before it.)
ApiBegin(a) ==
  /\ api[a].pc = "idle"
  /\ IF Managed THEN a = ApiWorker /\ ~life.stopRequested ELSE Callable
  /\ ApiStepAdmitted
  /\ apiActive' = TRUE
  /\ api' = [api EXCEPT ![a] =
               [pc |-> "step", units |-> <<>>,
                todo |-> {<<s, streams[s]>> : s \in {u \in Streams : streams[u] # None}}]]
  /\ UNCHANGED <<mode, life, access, streams, object, made, group, core, producer,
                 stepper>>

Tagged(s, o, batch) ==
  [i \in DOMAIN batch |-> [stream |-> s, origin |-> o, seq |-> batch[i].seq]]

ApiDrain(a, s, o) ==
  /\ api[a].pc = "step" /\ <<s, o>> \in api[a].todo
  /\ api' = [api EXCEPT ![a].todo = @ \ {<<s, o>>},
                        ![a].units = @ \o Tagged(s, o, DrainBatch(object[o].handoff))]
  /\ object' = [object EXCEPT ![o].handoff = AfterDrain(@)]
  /\ UNCHANGED <<mode, life, access, streams, made, group, core, producer, stepper,
                 apiActive>>

\* The step ends; a failed one ends api_loop as well.
EndApiStep(a, ok) ==
  /\ api' = [api EXCEPT ![a] = [IdleApi EXCEPT !.pc =
                                  IF Managed /\ ~ok THEN "exited" ELSE "idle"]]
  /\ apiActive' = FALSE

\* push_access_unit on the inner server: the latest unit, and its delivery.
\* A stream that has gone meanwhile fails the step with all the units left.
ApiDeliver(a) ==
  /\ api[a].pc = "step" /\ api[a].todo = {} /\ api[a].units # <<>>
  /\ LET u == Head(api[a].units) IN
       \/ /\ InCore(u.stream)
          /\ core' = [core EXCEPT ![u.stream].unit = [origin |-> u.origin, seq |-> u.seq]]
          /\ api' = [api EXCEPT ![a].units = Tail(@)]
          /\ UNCHANGED apiActive
       \/ /\ ~InCore(u.stream)
          /\ EndApiStep(a, FALSE)
          /\ UNCHANGED core
  /\ UNCHANGED <<mode, life, access, streams, object, made, group, producer, stepper>>

\* server_.step(), one turn of the HTTP pump, which can fail: no client came, ...
ApiPump(a, ok) ==
  /\ api[a].pc = "step" /\ api[a].todo = {} /\ api[a].units = <<>>
  /\ EndApiStep(a, ok)
  /\ UNCHANGED <<mode, life, access, streams, object, made, group, core, producer,
                 stepper>>

\* ... or one came and is served; its socket has no time limit.
ApiAccept(a) ==
  /\ api[a].pc = "step" /\ api[a].todo = {} /\ api[a].units = <<>>
  /\ api' = [api EXCEPT ![a].pc = "serve"]
  /\ UNCHANGED <<mode, life, access, streams, object, made, group, core, producer,
                 stepper, apiActive>>

\* (A handler that throws is a failed step here, whose flag is reset; in the API thread
\* it ends the process, see LengthThrows in HttpApi.)
ApiServed(a, ok) ==
  /\ api[a].pc = "serve"
  /\ EndApiStep(a, ok)
  /\ UNCHANGED <<mode, life, access, streams, object, made, group, core, producer,
                 stepper>>

ApiExit ==
  /\ Managed /\ api[ApiWorker].pc = "idle" /\ life.stopRequested
  /\ api' = [api EXCEPT ![ApiWorker].pc = "exited"]
  /\ UNCHANGED <<mode, life, access, streams, object, made, group, core, producer,
                 stepper, apiActive>>

-----------------------------------------------------------------------------
StepperStep(t) ==
  \/ StepEnter(t) \/ StepLookup(t) \/ StepTake(t) \/ StepTransformFails(t)
  \/ \E keep \in 0..EncoderDelay, kind \in LaterKinds : StepEncode(t, keep, kind)
  \/ StepPipelineFails(t) \/ StepEncodeFails(t) \/ StepPublish(t) \/ StepLeave(t)

ApiStep(a) ==
  \/ \E s \in Streams, o \in Objects : ApiDrain(a, s, o)
  \/ ApiDeliver(a)
  \/ \E ok \in PumpResults : ApiPump(a, ok)
  \/ ApiAccept(a)

ApiTurn(a) ==
  ApiBegin(a) \/ ApiStep(a) \/ \E ok \in PumpResults : ApiServed(a, ok)

OwnerStep ==
  \/ \E opened \in BOOLEAN : Start(opened)
  \/ UnwindStart \/ StopBegin \/ StopFinish \/ DestroyBegin \/ DestroyDrained
  \/ \E s \in Streams : RegisterStream(s) \/ RemoveStream(s)
  \/ \E h \in Handles : \E list \in GroupLists : RegisterStreams(h, list)
  \/ \E h \in Handles : ReleaseStreamGroup(h)
  \/ \E s \in Streams : \E interval \in {0, 2} : SetOutputConfig(s, interval)

Next ==
  \/ OwnerStep
  \/ \E s \in Sources : PushValidate(s) \/ PushReject(s) \/ PushLatch(s) \/ PushNote(s)
  \/ \E t \in Steppers : (\E h \in Handles : StepBegin(t, h)) \/ StepperStep(t)
  \/ \E a \in ApiThreads : ApiTurn(a)
  \/ ApiExit

Spec == Init /\ [][Next]_vars

\* Threads that are inside a call finish it; nobody has to call anything, and a
\* client that has connected has neither to send its request nor to read the
\* answer: ApiServed is not fair.
Fairness ==
  /\ \A t \in Steppers : WF_vars(StepperStep(t))
  /\ \A a \in ApiThreads : WF_vars(ApiStep(a))
  /\ WF_vars(ApiExit)
  /\ WF_vars(UnwindStart) /\ WF_vars(StopFinish) /\ WF_vars(DestroyDrained)

FairSpec == Spec /\ Fairness

-----------------------------------------------------------------------------
(* Properties.                                                             *)

\* The types of the state.
TypeOK ==
  /\ mode \in Modes
  /\ life \in [started : BOOLEAN, stopRequested : BOOLEAN, starts : 0..MaxStarts,
               phase : {"calm", "unwinding", "joining", "draining", "lastStop",
                        "destroyed"}]
  /\ access \in [owner : BOOLEAN, shuttingDown : BOOLEAN,
                 activeCalls : 0..Cardinality(Steppers)]
  /\ streams \in [Streams -> Objects \cup {None}]
  /\ \A o \in Objects :
       /\ object[o].pending \in 0..MaxFrames
       /\ object[o].encoded \in 0..MaxFrames
       /\ object[o].owner \in 0..MaxGroups
       /\ object[o].handoff \in Handoff
       /\ object[o].pipeline.state \in {"none", "running", "failed"}
  /\ \A s \in Streams : core[s].life \in Objects \cup {None}
  /\ \A t \in Steppers : stepper[t].pc \in
       {"idle", "enter", "lookup", "take", "encode", "publish", "leave"}
  /\ \A a \in ApiThreads : api[a].pc \in {"none", "idle", "step", "serve", "exited"}
  /\ apiActive \in BOOLEAN

\* "a stream can belong to only one registered group" (raw_frames_to_webrtc.md):
\* while a handle lives, each of its streams is registered and owned by it, and
\* an owned stream belongs to a living handle, whatever is registered, removed
\* and released in between.
OwnershipExact ==
  ~access.shuttingDown =>
    /\ \A h \in Handles : \A s \in Members(h) :
         streams[s] # None /\ object[streams[s]].owner = group[h].id
    /\ \A s \in Streams : streams[s] # None /\ object[streams[s]].owner # 0 =>
         \E h \in Handles : s \in Members(h)

\* A pipeline never outlives its stream's registration: no step builds one for
\* a stream state that remove_stream has taken out of the map.
NoOrphanedPipeline ==
  \A o \in Objects : object[o].pipeline.state # "none" => \E s \in Streams : streams[s] = o

\* The pipeline sees a stream's frames in the order they were pushed, though
\* several threads may call step_streams on the same handle.
EncodedInOrder ==
  [][\A o \in Objects :
       object'[o].encoded # object[o].encoded => object'[o].encoded > object[o].encoded]_vars

\* Units reach the sessions in encoding order and at most once, over drains by
\* concurrent step_api calls, pipeline restarts and re-registrations.
UnitsDeliveredInOrder ==
  [][\A s \in Streams :
       LET u == core[s].unit
           v == core'[s].unit
       IN  u # v /\ core'[s].life = core[s].life =>
             u.origin < v.origin \/ (u.origin = v.origin /\ u.seq < v.seq)]_vars

\* Every frame a registration latched, the first one of a stream or a later one,
\* is transformed or dropped in its counters, or is still pending or in a step, or
\* was lost by a failed step: latest-wins replacement and concurrent steps count
\* no frame twice and forget none.  Only `received` can be off, because a push
\* counts there (managed_video_server.cpp:813) after it has let go of the stream: by
\* the frames of this registration that were counted elsewhere or nowhere, and by at
\* most one frame of an earlier registration.
Unnoted(s, o) == IF producer[s].pc = "note" /\ producer[s].object = o THEN 1 ELSE 0
Waiting(o) == IF object[o].pending # None THEN 1 ELSE 0
InStep(o) == Cardinality({t \in Steppers : stepper[t].object = o /\ stepper[t].frame # None})
FramesAccounted ==
  \A s \in Streams :
    LET c == core[s]
        o == core[s].life
    IN
    InCore(s) =>
      /\ c.received - c.foreign + object[o].missed + Unnoted(s, o) =
           c.transformed + (c.dropped - c.rejected) + c.lost + Waiting(o) + InStep(o)
      /\ c.foreign <= 1

\* "This keeps debug/latest-frame output aligned with encoded output"
\* (architecture_overview.md): unless a step is between the two, the frame shown
\* as the latest one is the newest frame the encoder has taken.
SnapshotMatchesEncoder ==
  \A s \in Streams :
    LET o == core[s].life IN
    /\ InCore(s) /\ core[s].latest # None
    /\ \A t \in Steppers : stepper[t].object = o => stepper[t].pc # "publish"
    => core[s].latest = object[o].encoded

\* No step_streams call is inside the server once its destructor has passed the
\* wait, so none touches the object that is going away, and destruction leaves
\* nothing behind: no encoder, no pending unit, no thread.
DestructionSafe ==
  /\ life.phase \in {"lastStop", "destroyed"} =>
       \A t \in Steppers : stepper[t].pc \in {"idle", "enter"}
  /\ life.phase = "destroyed" =>
       /\ \A o \in Objects : object[o].pipeline.state = "none"
       /\ \A s \in Streams : streams[s] # None => object[streams[s]].handoff.backlog = <<>>
       /\ Managed => api[ApiWorker].pc = "none"

\* stop() and the destructor return: the API thread leaves its loop, and the
\* steps inside the server end and are counted out, also when they fail.  Only a
\* client that is served for ever keeps them (http_api_server.cpp:343, 417 wait
\* without a limit): a silent one keeps stop() from ever returning.
ServesForEver == [](api[ApiWorker].pc = "serve")
StopCompletes ==
  life.phase = "joining" ~> (life.phase # "joining" \/ ServesForEver)
DestructionCompletes ==
  life.phase = "draining" ~> (life.phase = "destroyed" \/ ServesForEver)

\* In the managed mode "the library owns exactly one API progression thread"
\* (raw_frames_to_webrtc.md:139): it runs as long as the server is started.
ApiThreadRuns ==
  Managed /\ life.started /\ ~life.stopRequested => api[ApiWorker].pc # "exited"

-----------------------------------------------------------------------------
\* The streams of the map, the streams of the groups, and those with a pipeline.
Enrolled == {s \in Streams : streams[s] # None}
GroupStreams == [h \in Handles |-> Members(h)]
WithPipeline == {s \in Enrolled : object[streams[s]].pipeline.state # "none"}

\* The stream a thread of step_streams has in hand: process_stream has looked up
\* its state object and is not through with it.
InHand(t) ==
  IF stepper[t].pc \in {"take", "encode", "publish"} THEN {AtStream(t)} ELSE {}
InHands == [t \in Steppers |-> InHand(t)]

\* However the threads interleave between the locks, groups and stepping threads
\* see the contract of StreamLeases: the streams of a list are assigned
\* "atomically" (managed_video_server.h:125), "a stream can belong to only one
\* registered group" and "the same stream-group handle rejects concurrent
\* step_streams() calls" (raw_frames_to_webrtc.md:71); a stream in hand is not
\* removed, nobody else touches its pipeline, and the destructor closes the
\* server when no thread has a stream in hand any more.
Leases == INSTANCE StreamLeases
            WITH Groups <- Handles, Workers <- Steppers,
                 enrolled <- Enrolled, leased <- GroupStreams, atWork <- InHands,
                 encoders <- WithPipeline, closed <- ~access.owner

ImplementsLeases == Leases!LeasesSpec
=============================================================================
