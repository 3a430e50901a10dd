-------------------------- MODULE ManagedFramesProofs --------------------------
(***************************************************************************)
(* What becomes of the frames of a managed server, for any number of       *)
(* streams, producers, stepping threads and API threads: the counters      *)
(* account for every frame of a stream, the latest frame shown is the      *)
(* newest one the encoder has taken, the encoded units reach the viewers   *)
(* in their order, and every variable keeps its type.                      *)
(***************************************************************************)
EXTENDS ManagedServerProofs

-----------------------------------------------------------------------------
(* The inductive invariant.                                                *)

CoreShape(c) ==
  /\ DOMAIN c = {"life", "gen", "interval", "latest", "unit", "received", "transformed",
                 "dropped", "rejected", "lost", "foreign"}
  /\ c.received \in Int /\ c.transformed \in Int /\ c.dropped \in Int
  /\ c.rejected \in Int /\ c.lost \in Int /\ c.foreign \in Int

\* The inner server's stream is the registered one.
Bound(s) ==
  IF InCore(s) THEN core[s].life = streams[s] /\ object[streams[s]].registered
  ELSE core[s] = NotInCore

\* A registered stream that is not in the core yet has at most the frame of one push
\* that was begun before its registration, and no thread takes that one.
Untouched(s) ==
  streams[s] # None /\ ~InCore(s) =>
    /\ producer[s].pc = "latch" => object[streams[s]].pending = None
    /\ \A t \in Steppers : stepper[t].object = streams[s] => stepper[t].frame = None

\* The threads that have a frame of an object in hand.
Holders(o) == {t \in Steppers : stepper[t].object = o /\ stepper[t].frame # None}

\* By how many frames the counters are ahead of those they have noted as received.
Counts(c) == c.transformed + (c.dropped - c.rejected) + c.lost - (c.received - c.foreign)
Balanced(s) ==
  LET o == streams[s] IN
  o # None =>
    object[o].missed + Unnoted(s, o) = Counts(core[s]) + Waiting(o) + Cardinality(Holders(o))

\* A stream has one producer, so at most one push is under way that has latched its
\* frame in an earlier registration.
Late(s) == IF producer[s].pc = "note" /\ producer[s].object # streams[s] THEN 1 ELSE 0
CreditedOnce(s) == core[s].foreign + Late(s) <= 1

Aligned(s) ==
  /\ InCore(s) /\ core[s].latest # None
  /\ \A t \in Steppers : stepper[t].object = core[s].life => stepper[t].pc # "publish"
  => core[s].latest = object[core[s].life].encoded

StreamInv(s) == Bound(s) /\ Untouched(s) /\ Balanced(s) /\ CreditedOnce(s) /\ Aligned(s)

\* A push holds an object of its own stream, and nobody has missed a frame of an
\* object to come.
Placed ==
  /\ \A s \in Streams : producer[s].pc = "note" =>
       /\ producer[s].object \in 1..made.objects
       /\ \A u \in Streams \ {s} : streams[u] # producer[s].object
  /\ \A o \in Objects : o > made.objects => object[o].missed = 0

\* A thread has an object while it works on a stream, and a frame once it has taken
\* one; what it publishes is what the pipeline took last.
ThreadInv(t) ==
  /\ stepper[t].object # None <=> AtWork(t)
  /\ stepper[t].frame # None <=> stepper[t].pc \in {"encode", "publish"}
  /\ stepper[t].pc = "publish" => stepper[t].frame = object[stepper[t].object].encoded

CoreInv ==
  /\ core = [s \in Streams |-> core[s]] /\ \A s \in Streams : CoreShape(core[s])
  /\ Placed
  /\ \A s \in Streams : StreamInv(s)
  /\ \A t \in Steppers : ThreadInv(t)

-----------------------------------------------------------------------------
(* Streams and threads a step has nothing to do with.                      *)

LEMMA HoldersFinite ==
  ASSUME NEW o
  PROVE  IsFiniteSet(Holders(o)) /\ Cardinality(Holders(o)) \in Nat
<1>1. Holders(o) \subseteq Steppers
  BY DEF Holders
<1>2. IsFiniteSet(Steppers)
  BY ManagedAssumption DEF ManagedAssumption
<1> QED
  BY <1>1, <1>2, FS_Subset, FS_CardinalityType

\* The object of a thread that publishes is there.
LEMMA PublishedObject ==
  ASSUME ManagedInv, NEW t \in Steppers, AtWork(t)
  PROVE  /\ stepper[t].object \in Objects /\ AtStream(t) \in Streams
         /\ streams[AtStream(t)] = stepper[t].object /\ stepper[t].object # None
         /\ \A s \in Streams : streams[s] = stepper[t].object => s = AtStream(t)
<1>1. /\ stepper[t].object \in Objects /\ AtStream(t) \in Streams
      /\ streams[AtStream(t)] = stepper[t].object
  BY AtWorkFacts DEF ManagedInv
<1>2. stepper[t].object # None
  BY <1>1 DEF Objects, None
<1> QED
  BY <1>1, <1>2 DEF ManagedInv, Numbered

\* A stream's part stays as it is when nothing of the stream is touched, and no
\* thread takes up a frame of it or lays one down.
LEMMA StreamKeeps ==
  ASSUME NEW s \in Streams, StreamInv(s), streams'[s] = streams[s],
         core'[s] = core[s], producer'[s] = producer[s],
         streams[s] # None =>
           /\ object'[streams[s]].pending = object[streams[s]].pending
           /\ object'[streams[s]].encoded = object[streams[s]].encoded
           /\ object'[streams[s]].missed = object[streams[s]].missed
           /\ object[streams[s]].registered => object'[streams[s]].registered,
         \A t \in Steppers : streams[s] # None =>
           /\ (stepper'[t].object = streams[s] /\ stepper'[t].frame # None) <=>
                (stepper[t].object = streams[s] /\ stepper[t].frame # None)
           /\ (stepper'[t].object = streams[s] /\ stepper'[t].pc = "publish") <=>
                (stepper[t].object = streams[s] /\ stepper[t].pc = "publish")
  PROVE  StreamInv(s)'
<1>1. InCore(s) => core[s].life = streams[s] /\ streams[s] # None
  BY DEF StreamInv, Bound, InCore
<1>2. Bound(s)'
  BY <1>1 DEF StreamInv, Bound, InCore
<1>3. Untouched(s)'
  BY DEF StreamInv, Untouched, InCore
<1>4. CreditedOnce(s)'
  BY DEF StreamInv, CreditedOnce, Late
<1>5. Balanced(s)'
  <2>1. PICK o : o = streams[s]
    OBVIOUS
  <2>2. CASE o # None
    <3>1. Holders(o)' = Holders(o)
      BY <2>1, <2>2 DEF Holders
    <3>2. Waiting(o)' = Waiting(o) /\ Unnoted(s, o)' = Unnoted(s, o)
      BY <2>1, <2>2 DEF Waiting, Unnoted
    <3>3. object'[o].missed = object[o].missed
      BY <2>1, <2>2
    <3>4. object[o].missed + Unnoted(s, o)
            = Counts(core[s]) + Waiting(o) + Cardinality(Holders(o))
      BY <2>1, <2>2 DEF StreamInv, Balanced
    <3>5. Counts(core[s])' = Counts(core[s]) /\ streams'[s] = o
      BY <2>1 DEF Counts
    <3> QED
      BY <3>1, <3>2, <3>3, <3>4, <3>5 DEF Balanced
  <2>3. CASE o = None
    BY <2>1, <2>3 DEF Balanced
  <2> QED
    BY <2>2, <2>3
<1>6. Aligned(s)'
  BY <1>1 DEF StreamInv, Aligned, InCore
<1> QED
  BY <1>2, <1>3, <1>4, <1>5, <1>6 DEF StreamInv

LEMMA PlacedStays ==
  ASSUME Placed, made'.objects = made.objects,
         \A u \in Streams : streams'[u] \in {streams[u], None},
         \A u \in Streams : producer'[u] = producer[u] \/ producer'[u].pc # "note",
         \A o \in Objects : o > made.objects => object'[o].missed = object[o].missed
  PROVE  Placed'
<1>1. ASSUME NEW s \in Streams, producer'[s].pc = "note"
      PROVE  /\ producer'[s].object \in 1..made'.objects
             /\ \A u \in Streams \ {s} : streams'[u] # producer'[s].object
  <2>1. producer'[s] = producer[s]
    BY <1>1
  <2>2. /\ producer[s].object \in 1..made.objects /\ producer[s].object # None
        /\ \A u \in Streams \ {s} : streams[u] # producer[s].object
    BY <1>1, <2>1 DEF Placed, None
  <2> QED
    BY <2>1, <2>2
<1> QED
  BY <1>1 DEF Placed

\* What the counters ask of the objects is the same.
FramesStay ==
  \A o \in Objects : /\ object'[o].pending = object[o].pending
                     /\ object'[o].encoded = object[o].encoded
                     /\ object'[o].missed = object[o].missed
                     /\ object'[o].registered = object[o].registered

\* Nothing of the inner server, the producers and the threads' frames is touched.
LEMMA QuietCore ==
  ASSUME ManagedInv, CoreInv, UNCHANGED <<streams, core, producer>>,
         made'.objects = made.objects, FramesStay,
         \A t \in Steppers : \/ stepper'[t] = stepper[t]
                             \/ /\ stepper[t].pc \in
                                     {"idle", "enter", "lookup", "take", "leave"}
                                /\ stepper'[t].frame = None
                                /\ stepper'[t].pc \in
                                     {"idle", "enter", "lookup", "take", "leave"}
                                /\ stepper'[t].object # None <=> stepper'[t].pc = "take"
  PROVE  CoreInv'
<1>1. \A s \in Streams : streams[s] # None => streams[s] \in Objects
  BY DEF ManagedInv, Types, Objects, None
<1>2. \A t \in Steppers : stepper'[t] = stepper[t] \/
        (stepper[t].pc # "publish" /\ stepper'[t].pc # "publish"
           /\ stepper[t].frame = None /\ stepper'[t].frame = None)
  BY DEF CoreInv, ThreadInv
<1>3. ASSUME NEW s \in Streams PROVE StreamInv(s)'
  <2>1. StreamInv(s)
    BY DEF CoreInv
  <2> QED
    BY <1>1, <1>2, <2>1, StreamKeeps DEF FramesStay
<1>4. ASSUME NEW t \in Steppers PROVE ThreadInv(t)'
  <2>1. CASE stepper'[t] = stepper[t]
    <3>1. stepper[t].pc = "publish" => stepper[t].object \in Objects
      BY PublishedObject DEF AtWork
    <3> QED
      BY <2>1, <3>1 DEF CoreInv, ThreadInv, AtWork, FramesStay
  <2>2. CASE stepper'[t] # stepper[t]
    BY <2>2 DEF ThreadInv, AtWork
  <2> QED
    BY <2>1, <2>2
<1>5. Placed'
  BY PlacedStays DEF CoreInv, FramesStay
<1> QED
  BY <1>3, <1>4, <1>5 DEF CoreInv

-----------------------------------------------------------------------------
(* Steps that have nothing to do with frames.                              *)

\* The pipeline's operators leave the registration of the object alone.
LEMMA PipelineRegistered ==
  ASSUME NEW r, ObjectShape(r), NEW gen
  PROVE  /\ StopPipeline(r).registered = r.registered
         /\ EnsurePipeline(r, gen).registered = r.registered
<1> DEFINE units == Units(r, r.pipeline.held, "delta")
           fresh == r.pipeline.fresh /\ r.pipeline.held = <<>>
           e == Emit(r, r.pipeline.held, "delta")
           f == IF r.pipeline.state = "running" THEN e ELSE r
           q == StopPipeline(r)
<1>1. e = [r EXCEPT !.handoff = Handed(r.handoff, units), !.pipeline.fresh = fresh]
  BY DEF Emit
<1>2. ObjectShape(e)
  BY EmitShape
<1> HIDE DEF units, fresh
<1>3. e.registered = r.registered
  BY <1>1 DEF ObjectShape
<1> HIDE DEF e
<1>4. ObjectShape(f) /\ f.registered = r.registered
  BY <1>2, <1>3
<1>5. q = [f EXCEPT !.pipeline = NoPipeline]
  BY DEF StopPipeline, e
<1> HIDE DEF f
<1>6. q.registered = r.registered
  BY <1>4, <1>5 DEF ObjectShape
<1>7. ObjectShape(q)
  BY StopPipelineShape
<1>8. \/ EnsurePipeline(r, gen) = r
      \/ EnsurePipeline(r, gen) = [q EXCEPT !.pipeline = NewPipeline(gen)]
  BY DEF EnsurePipeline
<1> HIDE DEF q
<1>9. EnsurePipeline(r, gen).registered = r.registered
  BY <1>6, <1>7, <1>8 DEF ObjectShape
<1> QED
  BY <1>6, <1>9 DEF q

LEMMA EncodeRegistered ==
  ASSUME NEW r, ObjectShape(r), NEW frame \in Nat, NEW keep, NEW kind
  PROVE  Encode(r, frame, keep, kind).registered = r.registered
<1> DEFINE queue == Append(r.pipeline.held, frame)
           n     == Len(queue) - keep
           out   == SubSeq(queue, 1, n)
           rest  == SubSeq(queue, n + 1, Len(queue))
           units == Units(r, out, kind)
           fresh == r.pipeline.fresh /\ out = <<>>
           e     == Emit(r, out, kind)
<1>1. Encode(r, frame, keep, kind) = [e EXCEPT !.encoded = frame, !.pipeline.held = rest]
  BY DEF Encode
<1>2. e = [r EXCEPT !.handoff = Handed(r.handoff, units), !.pipeline.fresh = fresh]
  BY DEF Emit
<1>3. ObjectShape(e)
  BY EmitShape
<1> HIDE DEF units, fresh, rest
<1>4. e.registered = r.registered
  BY <1>2 DEF ObjectShape
<1> HIDE DEF e
<1> QED
  BY <1>1, <1>3, <1>4 DEF ObjectShape

LEMMA SameFrames ==
  ASSUME object' = object
  PROVE  FramesStay
BY DEF FramesStay

\* Pipelines and handoffs change, and nothing the counters ask for.
LEMMA StopFinishCore ==
  ASSUME ManagedInv, CoreInv, StopFinish
  PROVE  CoreInv'
<1>1. UNCHANGED <<streams, core, producer, stepper, made>>
  BY DEF StopFinish
<1>2. ASSUME NEW o \in Objects
      PROVE  /\ object'[o].pending = object[o].pending
             /\ object'[o].encoded = object[o].encoded
             /\ object'[o].missed = object[o].missed
             /\ object'[o].registered = object[o].registered
  <2> DEFINE q == StopPipeline(object[o])
             h == AfterClear(q.handoff)
  <2>1. object'[o] = object[o] \/ object'[o] = [q EXCEPT !.handoff = h]
    BY DEF StopFinish
  <2>2. ObjectShape(object[o])
    BY DEF ManagedInv, Types
  <2>3. /\ ObjectShape(q) /\ q.pending = object[o].pending /\ q.encoded = object[o].encoded
        /\ q.missed = object[o].missed /\ q.registered = object[o].registered
    BY <2>2, StopPipelineShape, PipelineRegistered
  <2> HIDE DEF q, h
  <2> QED
    BY <2>1, <2>2, <2>3 DEF ObjectShape
<1>3. FramesStay
  BY <1>2 DEF FramesStay
<1> QED
  BY <1>1, <1>3, QuietCore

LEMMA RegisterStreamsCore ==
  ASSUME ManagedInv, CoreInv, NEW h \in Handles, NEW list \in GroupLists,
         RegisterStreams(h, list)
  PROVE  CoreInv'
<1>1. UNCHANGED <<streams, core, producer, stepper>>
  BY DEF RegisterStreams
<1>2. /\ made' = [made EXCEPT !.groups = made.groups + 1]
      /\ object' = [o \in Objects |->
                      IF \E i \in DOMAIN list : streams[list[i]] = o
                      THEN [object[o] EXCEPT !.owner = made.groups + 1] ELSE object[o]]
  BY DEF RegisterStreams
<1>3. made'.objects = made.objects
  BY <1>2 DEF ManagedInv, Types, MadeType
<1>4. ASSUME NEW o \in Objects
      PROVE  /\ object'[o].pending = object[o].pending
             /\ object'[o].encoded = object[o].encoded
             /\ object'[o].missed = object[o].missed
             /\ object'[o].registered = object[o].registered
  <2>1. object'[o] = object[o] \/ object'[o] = [object[o] EXCEPT !.owner = made.groups + 1]
    BY <1>2
  <2>2. ObjectShape(object[o])
    BY DEF ManagedInv, Types
  <2> QED
    BY <2>1, <2>2 DEF ObjectShape
<1>5. FramesStay
  BY <1>4 DEF FramesStay
<1> QED
  BY <1>1, <1>3, <1>5, QuietCore

LEMMA ReleaseStreamGroupCore ==
  ASSUME ManagedInv, CoreInv, NEW h \in Handles, ReleaseStreamGroup(h)
  PROVE  CoreInv'
<1>1. UNCHANGED <<streams, core, producer, stepper, made>>
  BY DEF ReleaseStreamGroup
<1>2. ASSUME NEW o \in Objects
      PROVE  /\ object'[o].pending = object[o].pending
             /\ object'[o].encoded = object[o].encoded
             /\ object'[o].missed = object[o].missed
             /\ object'[o].registered = object[o].registered
  <2>1. object'[o] = object[o] \/ object'[o] = [object[o] EXCEPT !.owner = 0]
    BY DEF ReleaseStreamGroup
  <2>2. ObjectShape(object[o])
    BY DEF ManagedInv, Types
  <2> QED
    BY <2>1, <2>2 DEF ObjectShape
<1>3. FramesStay
  BY <1>2 DEF FramesStay
<1> QED
  BY <1>1, <1>3, QuietCore

LEMMA ApiDrainCore ==
  ASSUME ManagedInv, CoreInv, NEW a \in ApiThreads, NEW s \in Streams, NEW n \in Objects,
         ApiDrain(a, s, n)
  PROVE  CoreInv'
<1>1. UNCHANGED <<streams, core, producer, stepper, made>>
  BY DEF ApiDrain
<1>2. ASSUME NEW o \in Objects
      PROVE  /\ object'[o].pending = object[o].pending
             /\ object'[o].encoded = object[o].encoded
             /\ object'[o].missed = object[o].missed
             /\ object'[o].registered = object[o].registered
  <2> DEFINE h == AfterDrain(object[n].handoff)
  <2>1. object' = [object EXCEPT ![n].handoff = h]
    BY DEF ApiDrain
  <2> HIDE DEF h
  <2>2. object'[o] = object[o] \/ object'[o] = [object[o] EXCEPT !.handoff = h]
    BY <2>1 DEF ManagedInv, Types
  <2>3. ObjectShape(object[o])
    BY DEF ManagedInv, Types
  <2> QED
    BY <2>2, <2>3 DEF ObjectShape
<1>3. FramesStay
  BY <1>2 DEF FramesStay
<1> QED
  BY <1>1, <1>3, QuietCore

LEMMA GateCore ==
  ASSUME ManagedInv, CoreInv, NEW t \in Steppers,
         StepEnter(t) \/ StepLeave(t) \/ \E h \in Handles : StepBegin(t, h)
  PROVE  CoreInv'
<1>1. UNCHANGED <<streams, core, producer, object, made>>
  BY DEF StepEnter, StepLeave, StepBegin
<1>2. \A u \in Steppers : StepperShape(stepper[u])
  BY DEF ManagedInv, Types
<1>3. ThreadInv(t)
  BY DEF CoreInv
<1>4. ASSUME NEW u \in Steppers
      PROVE  \/ stepper'[u] = stepper[u]
             \/ /\ stepper[u].pc \in {"idle", "enter", "lookup", "take", "leave"}
                /\ stepper'[u].frame = None
                /\ stepper'[u].pc \in {"idle", "enter", "lookup", "take", "leave"}
                /\ stepper'[u].object # None <=> stepper'[u].pc = "take"
  <2>1. CASE u # t
    <3>1. stepper'[u] = stepper[u]
      BY <2>1 DEF StepEnter, StepLeave, StepBegin, ManagedInv, Types
    <3> QED
      BY <3>1
  <2>2. CASE u = t
    <3>1. CASE StepLeave(t) \/ (StepEnter(t) /\ ~(access.owner /\ ~access.shuttingDown))
      <4>1. stepper'[t] = IdleStepper /\ stepper[t].pc \in {"enter", "leave"}
        BY <3>1 DEF StepEnter, StepLeave, ManagedInv, Types
      <4> QED
        BY <2>2, <4>1 DEF IdleStepper, None
    <3>2. CASE StepEnter(t) /\ access.owner /\ ~access.shuttingDown
      <4> DEFINE q == group[stepper[t].handle].streams
      <4>1. stepper'[t] = [stepper[t] EXCEPT !.pc = "lookup", !.todo = q]
            /\ stepper[t].pc = "enter"
        BY <3>2 DEF StepEnter, ManagedInv, Types
      <4> HIDE DEF q
      <4>2. /\ stepper'[t].pc = "lookup" /\ stepper'[t].frame = stepper[t].frame
            /\ stepper'[t].object = stepper[t].object
        BY <1>2, <4>1 DEF StepperShape
      <4> QED
        BY <1>3, <2>2, <4>1, <4>2 DEF ThreadInv, AtWork
    <3>3. CASE \E h \in Handles : StepBegin(t, h)
      <4>1. PICK h \in Handles : StepBegin(t, h)
        BY <3>3
      <4>2. stepper'[t] = [IdleStepper EXCEPT !.pc = "enter", !.handle = h]
            /\ stepper[t].pc = "idle"
        BY <4>1 DEF StepBegin, ManagedInv, Types
      <4> QED
        BY <2>2, <4>2 DEF IdleStepper, None
    <3> QED
      BY <3>1, <3>2, <3>3
  <2> QED
    BY <2>1, <2>2
<1> QED
  BY <1>1, <1>4, SameFrames, QuietCore

\* What is left of a thread that is through with a stream.
LEMMA ThroughLaid ==
  ASSUME ManagedInv, NEW t \in Steppers, stepper[t].pc = "lookup" \/ AtWork(t),
         NextStream(t) \/ FailStep(t), streams' = streams, group' = group
  PROVE  /\ stepper'[t].pc \in {"lookup", "leave"} /\ stepper'[t].frame = None
         /\ stepper'[t].object = None
         /\ \A u \in Steppers \ {t} : stepper'[u] = stepper[u]
<1>1. Through(t)
  BY NextStreamThrough, FailStepThrough DEF ManagedInv
<1>2. StepperShape(stepper[t])
  BY DEF ManagedInv, Types
<1>3. CASE NextStream(t)
  <2> DEFINE pc == IF Len(stepper[t].todo) > 1 THEN "lookup" ELSE "leave"
             q  == Tail(stepper[t].todo)
  <2>1. stepper'[t] = [stepper[t] EXCEPT !.pc = pc, !.todo = q, !.object = None,
                                         !.frame = None, !.gen = 0]
    BY <1>3 DEF NextStream, ManagedInv, Types
  <2> HIDE DEF pc, q
  <2>2. stepper'[t].frame = None /\ stepper'[t].object = None
    BY <1>2, <2>1 DEF StepperShape
  <2> QED
    BY <1>1, <2>2 DEF Through
<1>4. CASE FailStep(t)
  <2>1. stepper'[t] = [stepper[t] EXCEPT !.pc = "leave", !.todo = <<>>, !.object = None,
                                         !.frame = None, !.gen = 0]
    BY <1>4 DEF FailStep, ManagedInv, Types
  <2>2. stepper'[t].frame = None /\ stepper'[t].object = None
    BY <1>2, <2>1 DEF StepperShape
  <2> QED
    BY <1>1, <2>2 DEF Through
<1> QED
  BY <1>3, <1>4

LEMMA StepLookupCore ==
  ASSUME ManagedInv, CoreInv, NEW t \in Steppers, StepLookup(t)
  PROVE  CoreInv'
<1>1. UNCHANGED <<streams, core, producer, object, made, group>> /\ stepper[t].pc = "lookup"
  BY DEF StepLookup
<1>2. StepperShape(stepper[t]) /\ ThreadInv(t)
  BY DEF ManagedInv, Types, CoreInv
<1>3. ASSUME NEW u \in Steppers
      PROVE  \/ stepper'[u] = stepper[u]
             \/ /\ stepper[u].pc \in {"idle", "enter", "lookup", "take", "leave"}
                /\ stepper'[u].frame = None
                /\ stepper'[u].pc \in {"idle", "enter", "lookup", "take", "leave"}
                /\ stepper'[u].object # None <=> stepper'[u].pc = "take"
  <2>1. CASE streams[AtStream(t)] = None
    <3>1. NextStream(t)
      BY <2>1 DEF StepLookup
    <3> QED
      BY <1>1, <3>1, ThroughLaid
  <2>2. CASE streams[AtStream(t)] # None
    <3> DEFINE n == streams[AtStream(t)]
    <3>1. stepper' = [stepper EXCEPT ![t].pc = "take", ![t].object = n]
      BY <2>2 DEF StepLookup
    <3>2. n # None
      BY <2>2
    <3> HIDE DEF n
    <3>3. u # t => stepper'[u] = stepper[u]
      BY <3>1 DEF ManagedInv, Types
    <3>4. stepper'[t] = [stepper[t] EXCEPT !.pc = "take", !.object = n]
      BY <3>1 DEF ManagedInv, Types
    <3>5. /\ stepper'[t].pc = "take" /\ stepper'[t].object = n
          /\ stepper'[t].frame = stepper[t].frame
      BY <1>2, <3>4 DEF StepperShape
    <3> QED
      BY <1>1, <1>2, <3>2, <3>3, <3>5 DEF ThreadInv
  <2> QED
    BY <2>1, <2>2
<1> QED
  BY <1>1, <1>3, SameFrames, QuietCore

-----------------------------------------------------------------------------
(* The owner's steps that reach the inner server.                          *)

LEMMA FreshCore ==
  ASSUME NEW o
  PROVE  /\ CoreShape(Fresh(o)) /\ CoreShape(NotInCore) /\ NotInCore.life = None
         /\ Fresh(o).life = o /\ Fresh(o).latest = None
         /\ Counts(Fresh(o)) = 0 /\ Counts(NotInCore) = 0
         /\ Fresh(o).foreign = 0 /\ NotInCore.foreign = 0
BY DEF CoreShape, Fresh, NotInCore, None, Counts

LEMMA CountsType ==
  ASSUME NEW c, CoreShape(c)
  PROVE  Counts(c) \in Int
BY DEF CoreShape, Counts

\* A stream that is new in the core: nothing of it has been counted, and there is
\* nothing to count.
LEMMA FreshStream ==
  ASSUME ManagedInv, NEW s \in Streams, NEW o \in Objects,
         streams'[s] = o, core'[s] = Fresh(o), object'[o].registered,
         producer' = producer, stepper' = stepper,
         object'[o].pending = object[o].pending, object'[o].missed = object[o].missed,
         object[o].missed + Unnoted(s, o) = Waiting(o) + Cardinality(Holders(o))
  PROVE  StreamInv(s)'
<1>1. Bound(s)' /\ Untouched(s)' /\ Aligned(s)'
  BY FreshCore DEF Bound, Untouched, Aligned, InCore, Objects, None
<1>2. CreditedOnce(s)'
  BY FreshCore DEF CreditedOnce, Late
<1>3. Balanced(s)'
  <2>1. Waiting(o)' = Waiting(o) /\ Unnoted(s, o)' = Unnoted(s, o) /\ Holders(o)' = Holders(o)
    BY DEF Waiting, Unnoted, Holders
  <2>2. Counts(core[s])' = 0
    <3>1. Counts(core'[s]) = 0
      BY FreshCore
    <3> QED
      BY <3>1 DEF Counts
  <2>3. Waiting(o) \in Int /\ Cardinality(Holders(o)) \in Int
    BY HoldersFinite DEF Waiting
  <2>4. object'[o].missed + Unnoted(s, o)'
          = Counts(core[s])' + Waiting(o)' + Cardinality(Holders(o)')
    BY <2>1, <2>2, <2>3
  <2> QED
    BY <2>4 DEF Balanced
<1> QED
  BY <1>1, <1>2, <1>3 DEF StreamInv

\* Nothing has come to an object that no registration has used yet.
LEMMA UnusedObject ==
  ASSUME ManagedInv, CoreInv, NEW o \in Objects, o > made.objects, NEW s \in Streams
  PROVE  /\ object[o].missed = 0 /\ Unnoted(s, o) = 0 /\ Waiting(o) = 0
         /\ Cardinality(Holders(o)) = 0 /\ object[o].pending = None
         /\ \A t \in Steppers : stepper[t].object = o => stepper[t].frame = None
<1>1. made.objects \in Nat
  BY DEF ManagedInv, Types, MadeType
<1>2. object[o].missed = 0
  BY DEF CoreInv, Placed
<1>3. Unnoted(s, o) = 0
  BY <1>1 DEF CoreInv, Placed, Unnoted, Objects
<1>4. object[o].pending = None
  BY DEF ManagedInv, Numbered
<1>5. ASSUME NEW t \in Steppers, stepper[t].object = o
      PROVE  stepper[t].frame = None
  <2>1. SUFFICES ASSUME stepper[t].frame # None PROVE FALSE
    OBVIOUS
  <2>2. AtWork(t)
    BY <2>1 DEF CoreInv, ThreadInv, AtWork
  <2>3. streams[AtStream(t)] = o /\ AtStream(t) \in Streams
    BY <1>5, <2>2, PublishedObject
  <2> QED
    BY <1>1, <2>3 DEF ManagedInv, Numbered, Objects
<1>6. Holders(o) = {}
  BY <1>5 DEF Holders
<1>7. Cardinality(Holders(o)) = 0
  BY <1>6, FS_EmptySet
<1> QED
  BY <1>2, <1>3, <1>4, <1>5, <1>7 DEF Waiting

\* The threads' part, when the objects they work on have what they had.
LEMMA ThreadsStay ==
  ASSUME ManagedInv, CoreInv, stepper' = stepper,
         \A o \in Objects : (\E s \in Streams : streams[s] = o) =>
            object'[o].encoded = object[o].encoded,
         NEW t \in Steppers
  PROVE  ThreadInv(t)'
<1>1. stepper[t].pc = "publish" => object'[stepper[t].object].encoded
                                     = object[stepper[t].object].encoded
  BY PublishedObject DEF AtWork
<1> QED
  BY <1>1 DEF CoreInv, ThreadInv, AtWork

LEMMA StartCore ==
  ASSUME ManagedInv, CoreInv, NEW opened \in BOOLEAN, Start(opened)
  PROVE  CoreInv'
<1>1. UNCHANGED <<streams, producer, stepper, made>> /\ RegisterAll
  BY DEF Start
<1>2. /\ core' = [s \in Streams |->
                    IF streams[s] # None /\ ~object[streams[s]].registered
                    THEN Fresh(streams[s]) ELSE core[s]]
      /\ object' = [o \in Objects |->
                      IF \E s \in Streams : streams[s] = o
                      THEN [object[o] EXCEPT !.registered = TRUE] ELSE object[o]]
  BY <1>1 DEF RegisterAll
<1>3. ASSUME NEW o \in Objects
      PROVE  /\ object'[o].pending = object[o].pending
             /\ object'[o].encoded = object[o].encoded
             /\ object'[o].missed = object[o].missed
             /\ object[o].registered => object'[o].registered
             /\ (\E s \in Streams : streams[s] = o) => object'[o].registered
  <2>1. ObjectShape(object[o])
    BY DEF ManagedInv, Types
  <2>2. CASE \E s \in Streams : streams[s] = o
    <3>1. object'[o] = [object[o] EXCEPT !.registered = TRUE]
      BY <1>2, <2>2
    <3> QED
      BY <2>1, <3>1 DEF ObjectShape
  <2>3. CASE ~\E s \in Streams : streams[s] = o
    <3>1. object'[o] = object[o]
      BY <1>2, <2>3
    <3> QED
      BY <2>3, <3>1
  <2> QED
    BY <2>2, <2>3
<1>4. \A s \in Streams : streams[s] # None => streams[s] \in Objects
  BY DEF ManagedInv, Types, Objects, None
<1>5. ASSUME NEW s \in Streams
      PROVE  StreamInv(s)' /\ CoreShape(core'[s])
  <2>1. StreamInv(s) /\ CoreShape(core[s])
    BY DEF CoreInv
  <2>2. CASE streams[s] # None /\ ~object[streams[s]].registered
    <3>1. core'[s] = Fresh(streams[s])
      BY <1>2, <2>2
    <3>2. ~InCore(s)
      BY <2>1, <2>2 DEF StreamInv, Bound
    <3>3. PICK o \in Objects : o = streams[s] /\ o # None
      BY <1>4, <2>2
    <3>4. object[o].missed + Unnoted(s, o) = Waiting(o) + Cardinality(Holders(o))
      <4>1. core[s] = NotInCore
        BY <2>1, <3>2 DEF StreamInv, Bound
      <4>2. Counts(core[s]) = 0
        BY <4>1, FreshCore
      <4>3. Waiting(o) \in Int /\ Cardinality(Holders(o)) \in Int
        BY HoldersFinite DEF Waiting
      <4>4. object[o].missed + Unnoted(s, o)
              = Counts(core[s]) + Waiting(o) + Cardinality(Holders(o))
        BY <2>1, <3>3 DEF StreamInv, Balanced
      <4> QED
        BY <4>2, <4>3, <4>4
    <3>5. StreamInv(s)'
      BY <1>1, <1>3, <3>1, <3>3, <3>4, FreshStream
    <3> QED
      BY <3>1, <3>5, FreshCore
  <2>3. CASE ~(streams[s] # None /\ ~object[streams[s]].registered)
    <3>1. core'[s] = core[s]
      BY <1>2, <2>3
    <3>2. StreamInv(s)'
      BY <1>1, <1>3, <1>4, <2>1, <3>1, StreamKeeps
    <3> QED
      BY <2>1, <3>1, <3>2
  <2> QED
    BY <2>2, <2>3
<1>6. \A t \in Steppers : ThreadInv(t)'
  BY <1>1, <1>3, ThreadsStay
<1>7. core' = [s \in Streams |-> core'[s]]
  BY <1>2
<1>8. Placed'
  BY <1>1, <1>3, PlacedStays DEF CoreInv
<1> QED
  BY <1>5, <1>6, <1>7, <1>8 DEF CoreInv

LEMMA RegisterStreamCore ==
  ASSUME ManagedInv, CoreInv, NEW s \in Streams, RegisterStream(s)
  PROVE  CoreInv'
<1>0. PICK n : n = made.objects + 1
  OBVIOUS
<1>1. /\ UNCHANGED <<producer, stepper>> /\ streams[s] = None /\ made.objects < MaxObjects
      /\ made' = [made EXCEPT !.objects = n]
      /\ streams' = [streams EXCEPT ![s] = n]
      /\ object' = [object EXCEPT ![n].registered = life.started]
      /\ core' = IF life.started THEN [core EXCEPT ![s] = Fresh(n)] ELSE core
  BY <1>0 DEF RegisterStream
<1>2. /\ n \in Objects /\ made'.objects = n /\ n > made.objects /\ n # None
      /\ made.objects \in Nat /\ n = made.objects + 1
  <2>1. made.objects \in 0..MaxObjects /\ MaxObjects \in Nat
    BY ManagedAssumption DEF ManagedInv, Types, MadeType, ManagedAssumption
  <2>2. made'.objects = n
    BY <1>1 DEF ManagedInv, Types, MadeType
  <2> QED
    BY <1>0, <1>1, <2>1, <2>2 DEF Objects, None
<1>3. ASSUME NEW o \in Objects
      PROVE  /\ object'[o].pending = object[o].pending
             /\ object'[o].encoded = object[o].encoded
             /\ object'[o].missed = object[o].missed
             /\ o # n => object'[o] = object[o]
             /\ o = n => object'[o].registered = life.started
  <2>1. \/ o # n /\ object'[o] = object[o]
        \/ o = n /\ object'[o] = [object[o] EXCEPT !.registered = life.started]
    BY <1>1 DEF ManagedInv, Types
  <2>2. ObjectShape(object[o])
    BY DEF ManagedInv, Types
  <2> QED
    BY <2>1, <2>2 DEF ObjectShape
<1>4. /\ streams'[s] = n
      /\ \A u \in Streams \ {s} : streams'[u] = streams[u] /\ core'[u] = core[u]
      /\ core' = [u \in Streams |-> core'[u]]
      /\ core'[s] = IF life.started THEN Fresh(n) ELSE core[s]
  BY <1>1 DEF ManagedInv, Types, CoreInv
<1>5. \A u \in Streams : streams[u] # None => streams[u] \in Objects /\ streams[u] # n
  BY <1>2 DEF ManagedInv, Types, Numbered, MadeType, Objects, None
<1>6. /\ object[n].missed = 0 /\ Unnoted(s, n) = 0 /\ Waiting(n) = 0
      /\ Cardinality(Holders(n)) = 0 /\ object[n].pending = None
      /\ \A t \in Steppers : stepper[t].object = n => stepper[t].frame = None
  BY <1>2, UnusedObject
<1>7. ASSUME NEW u \in Streams
      PROVE  StreamInv(u)' /\ CoreShape(core'[u])
  <2>1. StreamInv(u) /\ CoreShape(core[u])
    BY DEF CoreInv
  <2>2. CASE u # s
    <3>1. StreamInv(u)'
      BY <1>1, <1>3, <1>4, <1>5, <2>1, <2>2, StreamKeeps
    <3> QED
      BY <1>4, <2>1, <2>2, <3>1
  <2>3. CASE u = s /\ life.started
    <3>1. core'[s] = Fresh(n) /\ object'[n].registered
      BY <1>2, <1>3, <1>4, <2>3
    <3>2. object'[n].pending = object[n].pending /\ object'[n].missed = object[n].missed
          /\ object[n].missed + Unnoted(s, n) = Waiting(n) + Cardinality(Holders(n))
      BY <1>2, <1>3, <1>6
    <3>3. StreamInv(s)'
      BY <1>1, <1>2, <1>4, <3>1, <3>2, FreshStream
    <3> QED
      BY <2>3, <3>1, <3>3, FreshCore
  <2>4. CASE u = s /\ ~life.started
    <3>1. core'[s] = NotInCore
      BY <1>1, <1>4, <2>1, <2>4 DEF StreamInv, Bound, InCore
    <3>2. NotInCore.life = None /\ CoreShape(NotInCore) /\ NotInCore.foreign = 0
          /\ Counts(NotInCore) = 0
      BY FreshCore
    <3>3. object'[n].pending = None /\ object'[n].missed = 0
      BY <1>2, <1>3, <1>6
    <3>4. Bound(s)' /\ Untouched(s)' /\ Aligned(s)'
      BY <1>1, <1>4, <1>6, <3>1, <3>2, <3>3 DEF Bound, Untouched, Aligned, InCore
    <3>5. CreditedOnce(s)'
      BY <3>1, <3>2 DEF CreditedOnce, Late
    <3>6. Balanced(s)'
      <4>1. Unnoted(s, n)' = 0 /\ Waiting(n)' = 0 /\ Holders(n)' = Holders(n)
        BY <1>1, <1>6, <3>3 DEF Unnoted, Waiting, Holders
      <4>2. Counts(core[s])' = 0
        BY <3>1, <3>2 DEF Counts
      <4>3. PICK k \in Int : k = Cardinality(Holders(n)) /\ k = 0
        BY <1>6
      <4>4. object'[n].missed + Unnoted(s, n)' = Counts(core[s])' + Waiting(n)' + k
        BY <3>3, <4>1, <4>2, <4>3
      <4>5. k = Cardinality(Holders(n)') /\ streams'[s] = n
        BY <1>4, <4>1, <4>3
      <4> QED
        BY <4>4, <4>5 DEF Balanced
    <3> QED
      BY <2>4, <3>1, <3>2, <3>4, <3>5, <3>6 DEF StreamInv
  <2> QED
    BY <2>2, <2>3, <2>4
<1>8. \A t \in Steppers : ThreadInv(t)'
  BY <1>1, <1>3, ThreadsStay
<1>9. Placed'
  <2>1. ASSUME NEW u \in Streams, producer'[u].pc = "note"
        PROVE  /\ producer'[u].object \in 1..made'.objects
               /\ \A v \in Streams \ {u} : streams'[v] # producer'[u].object
    <3>1. /\ producer[u].object \in 1..made.objects
          /\ \A v \in Streams \ {u} : streams[v] # producer[u].object
      BY <1>1, <2>1 DEF CoreInv, Placed
    <3>2. producer[u].object # n /\ producer[u].object \in 1..n
      BY <1>2, <3>1
    <3> QED
      BY <1>1, <1>2, <1>4, <3>1, <3>2
  <2>2. ASSUME NEW o \in Objects, o > made'.objects
        PROVE  object'[o].missed = 0
    <3>1. o > made.objects
      BY <1>2, <2>2 DEF Objects
    <3> QED
      BY <1>3, <3>1 DEF CoreInv, Placed
  <2> QED
    BY <2>1, <2>2 DEF Placed
<1> QED
  BY <1>4, <1>7, <1>8, <1>9 DEF CoreInv

LEMMA RemoveStreamCore ==
  ASSUME ManagedInv, CoreInv, NEW s \in Streams, RemoveStream(s)
  PROVE  CoreInv'
<1> DEFINE n == streams[s]
           r == StopPipeline(object[n])
<1>1. /\ UNCHANGED <<producer, stepper, made>> /\ n # None
      /\ object' = [object EXCEPT ![n] = r]
      /\ core' = IF object[n].registered THEN [core EXCEPT ![s] = NotInCore] ELSE core
      /\ streams' = [streams EXCEPT ![s] = None]
  BY DEF RemoveStream, Removable
<1>2. n \in Objects
  BY <1>1 DEF ManagedInv, Types, Objects, None
<1>3. /\ r.pending = object[n].pending /\ r.encoded = object[n].encoded
      /\ r.missed = object[n].missed /\ r.registered = object[n].registered
  <2>1. ObjectShape(object[n])
    BY <1>2 DEF ManagedInv, Types
  <2> QED
    BY <2>1, StopPipelineShape, PipelineRegistered
<1> HIDE DEF r
<1>4. ASSUME NEW o \in Objects
      PROVE  /\ object'[o].pending = object[o].pending
             /\ object'[o].encoded = object[o].encoded
             /\ object'[o].missed = object[o].missed
             /\ object'[o].registered = object[o].registered
  <2>1. object'[o] = object[o] \/ (o = n /\ object'[o] = r)
    BY <1>1 DEF ManagedInv, Types
  <2> QED
    BY <1>3, <2>1
<1>5. /\ streams'[s] = None
      /\ \A u \in Streams \ {s} : streams'[u] = streams[u] /\ core'[u] = core[u]
      /\ core' = [u \in Streams |-> core'[u]]
      /\ core'[s] = IF object[n].registered THEN NotInCore ELSE core[s]
  BY <1>1 DEF ManagedInv, Types, CoreInv
<1>6. \A u \in Streams : streams[u] # None => streams[u] \in Objects
  BY DEF ManagedInv, Types, Objects, None
<1>7. core'[s] = NotInCore
  BY <1>5 DEF CoreInv, StreamInv, Bound
<1> HIDE DEF n
<1>8. ASSUME NEW u \in Streams
      PROVE  StreamInv(u)' /\ CoreShape(core'[u])
  <2>1. StreamInv(u) /\ CoreShape(core[u])
    BY DEF CoreInv
  <2>2. CASE u # s
    <3>1. StreamInv(u)'
      BY <1>1, <1>4, <1>5, <1>6, <2>1, <2>2, StreamKeeps
    <3> QED
      BY <1>5, <2>1, <2>2, <3>1
  <2>3. CASE u = s
    <3>1. NotInCore.life = None /\ CoreShape(NotInCore) /\ NotInCore.foreign = 0
      BY FreshCore
    <3>2. Bound(s)' /\ Untouched(s)' /\ Balanced(s)' /\ Aligned(s)'
      BY <1>5, <1>7, <3>1 DEF Bound, Untouched, Balanced, Aligned, InCore
    <3>3. CreditedOnce(s)'
      BY <1>7, <3>1 DEF CreditedOnce, Late
    <3> QED
      BY <1>7, <2>3, <3>1, <3>2, <3>3 DEF StreamInv
  <2> QED
    BY <2>2, <2>3
<1>9. \A t \in Steppers : ThreadInv(t)'
  BY <1>1, <1>4, ThreadsStay
<1>10. Placed'
  BY <1>1, <1>4, <1>5, PlacedStays DEF CoreInv
<1> QED
  BY <1>5, <1>8, <1>9, <1>10 DEF CoreInv

-----------------------------------------------------------------------------
(* Steps on one stream.                                                    *)

\* The frame is counted as dropped, lost or rejected.
LEMMA Counted ==
  ASSUME NEW c, CoreShape(c)
  PROVE  /\ CoreShape(CountDropped(c)) /\ CoreShape(CountLost(c))
         /\ CoreShape(CountRejected(c))
         /\ CountDropped(c).life = c.life /\ CountDropped(c).latest = c.latest
         /\ CountDropped(c).foreign = c.foreign
         /\ CountLost(c).life = c.life /\ CountLost(c).latest = c.latest
         /\ CountLost(c).foreign = c.foreign
         /\ CountRejected(c).life = c.life /\ CountRejected(c).latest = c.latest
         /\ CountRejected(c).foreign = c.foreign
         /\ Counts(CountRejected(c)) = Counts(c)
         /\ c.life # None => /\ Counts(CountDropped(c)) = Counts(c) + 1
                             /\ Counts(CountLost(c)) = Counts(c) + 1
         /\ c.life = None => /\ CountDropped(c) = c /\ CountLost(c) = c
                             /\ CountRejected(c) = c
<1> DEFINE a == c.dropped + 1
           b == c.lost + 1
           r == c.rejected + 1
<1>1. /\ a \in Int /\ a = c.dropped + 1 /\ b \in Int /\ b = c.lost + 1
      /\ r \in Int /\ r = c.rejected + 1
  BY DEF CoreShape
<1>2. /\ CountDropped(c) = IF c.life = None THEN c ELSE [c EXCEPT !.dropped = a]
      /\ CountLost(c) = IF c.life = None THEN c ELSE [c EXCEPT !.lost = b]
      /\ CountRejected(c) =
           IF c.life = None THEN c ELSE [c EXCEPT !.dropped = a, !.rejected = r]
  BY DEF CountDropped, CountLost, CountRejected
<1> HIDE DEF a, b, r
<1>3. CASE c.life = None
  BY <1>2, <1>3
<1>4. CASE c.life # None
  <2>1. /\ CoreShape(CountDropped(c)) /\ CountDropped(c).life = c.life
        /\ CountDropped(c).latest = c.latest /\ CountDropped(c).foreign = c.foreign
        /\ CountDropped(c).received = c.received /\ CountDropped(c).dropped = a
        /\ CountDropped(c).transformed = c.transformed
        /\ CountDropped(c).rejected = c.rejected /\ CountDropped(c).lost = c.lost
    BY <1>1, <1>2, <1>4 DEF CoreShape
  <2>2. /\ CoreShape(CountLost(c)) /\ CountLost(c).life = c.life
        /\ CountLost(c).latest = c.latest /\ CountLost(c).foreign = c.foreign
        /\ CountLost(c).received = c.received /\ CountLost(c).dropped = c.dropped
        /\ CountLost(c).transformed = c.transformed
        /\ CountLost(c).rejected = c.rejected /\ CountLost(c).lost = b
    BY <1>1, <1>2, <1>4 DEF CoreShape
  <2>3. /\ CoreShape(CountRejected(c)) /\ CountRejected(c).life = c.life
        /\ CountRejected(c).latest = c.latest /\ CountRejected(c).foreign = c.foreign
        /\ CountRejected(c).received = c.received /\ CountRejected(c).dropped = a
        /\ CountRejected(c).transformed = c.transformed
        /\ CountRejected(c).rejected = r /\ CountRejected(c).lost = c.lost
    BY <1>1, <1>2, <1>4 DEF CoreShape
  <2>4. Counts(CountDropped(c)) = Counts(c) + 1
    BY <1>1, <2>1 DEF Counts, CoreShape
  <2>5. Counts(CountLost(c)) = Counts(c) + 1
    BY <1>1, <2>2 DEF Counts, CoreShape
  <2>6. Counts(CountRejected(c)) = Counts(c)
    BY <1>1, <2>3 DEF Counts, CoreShape
  <2> QED
    BY <1>4, <2>1, <2>2, <2>3, <2>4, <2>5, <2>6
<1> QED
  BY <1>3, <1>4

LEMMA OneStreamChanges ==
  ASSUME ManagedInv, CoreInv, NEW s \in Streams, streams' = streams,
         made'.objects = made.objects,
         NEW c, CoreShape(c), core' = [core EXCEPT ![s] = c],
         \A u \in Streams \ {s} : producer'[u] = producer[u],
         \A u \in Streams \ {s} : streams[u] # None => object'[streams[u]] = object[streams[u]],
         \A t \in Steppers : \/ stepper'[t] = stepper[t]
                             \/ /\ stepper[t].object \in {None, streams[s]}
                                /\ stepper'[t].object \in {None, streams[s]},
         Placed', StreamInv(s)', \A t \in Steppers : ThreadInv(t)'
  PROVE  CoreInv'
<1>1. /\ core' = [u \in Streams |-> core'[u]] /\ core'[s] = c
      /\ \A u \in Streams \ {s} : core'[u] = core[u]
  BY DEF CoreInv
<1>2. ASSUME NEW u \in Streams, u # s
      PROVE  StreamInv(u)'
  <2>1. StreamInv(u)
    BY DEF CoreInv
  <2>2. streams[u] # None => streams[u] \in Objects /\ streams[u] # streams[s]
    BY <1>2 DEF ManagedInv, Types, Numbered, Objects, None
  <2>3. streams[u] # None => object'[streams[u]] = object[streams[u]]
    BY <1>2
  <2>4. \A t \in Steppers : streams[u] # None =>
           /\ (stepper'[t].object = streams[u] /\ stepper'[t].frame # None) <=>
                (stepper[t].object = streams[u] /\ stepper[t].frame # None)
           /\ (stepper'[t].object = streams[u] /\ stepper'[t].pc = "publish") <=>
                (stepper[t].object = streams[u] /\ stepper[t].pc = "publish")
    BY <2>2
  <2> QED
    BY <1>1, <1>2, <2>1, <2>3, <2>4, StreamKeeps
<1>3. \A u \in Streams : CoreShape(core'[u])
  BY <1>1 DEF CoreInv
<1> QED
  BY <1>1, <1>2, <1>3 DEF CoreInv

\* The balance, when the counters come to the same.
LEMMA SameBalance ==
  ASSUME NEW s \in Streams, Balanced(s), UNCHANGED <<streams, stepper>>,
         Counts(core'[s]) = Counts(core[s]),
         \A o : Unnoted(s, o)' = Unnoted(s, o),
         streams[s] # None =>
           /\ object'[streams[s]].pending = object[streams[s]].pending
           /\ object'[streams[s]].missed = object[streams[s]].missed
  PROVE  Balanced(s)'
<1>1. PICK o : o = streams[s]
  OBVIOUS
<1>2. CASE o # None
  <2>1. Holders(o)' = Holders(o) /\ Waiting(o)' = Waiting(o) /\ Unnoted(s, o)' = Unnoted(s, o)
    BY <1>1, <1>2 DEF Holders, Waiting
  <2>2. object'[o].missed = object[o].missed
    BY <1>1, <1>2
  <2>3. object[o].missed + Unnoted(s, o)
          = Counts(core[s]) + Waiting(o) + Cardinality(Holders(o))
    BY <1>1, <1>2 DEF Balanced
  <2>4. Counts(core[s])' = Counts(core[s]) /\ streams'[s] = o
    BY <1>1 DEF Counts
  <2> QED
    BY <2>1, <2>2, <2>3, <2>4 DEF Balanced
<1>3. CASE o = None
  BY <1>1, <1>3 DEF Balanced
<1> QED
  BY <1>2, <1>3

\* A stream whose entry in the core changes in numbers only.
LEMMA SetOutputConfigCore ==
  ASSUME ManagedInv, CoreInv, NEW s \in Streams, NEW i, SetOutputConfig(s, i)
  PROVE  CoreInv'
<1> DEFINE c == [core[s] EXCEPT !.gen = @ + 1, !.interval = i, !.latest = None]
<1>1. /\ UNCHANGED <<streams, object, producer, stepper>> /\ InCore(s)
      /\ made' = [made EXCEPT !.configs = @ + 1]
      /\ core' = [core EXCEPT ![s] = c]
  BY DEF SetOutputConfig
<1>2. made'.objects = made.objects
  BY <1>1 DEF ManagedInv, Types, MadeType
<1>3. CoreShape(core[s]) /\ StreamInv(s)
  BY DEF CoreInv
<1>4. /\ CoreShape(c) /\ c.life = core[s].life /\ c.latest = None
      /\ c.foreign = core[s].foreign /\ Counts(c) = Counts(core[s])
  <2> DEFINE g == core[s].gen + 1
             d == [core[s] EXCEPT !.gen = g, !.interval = i, !.latest = None]
  <2> HIDE DEF g
  <2>1. /\ CoreShape(d) /\ d.life = core[s].life /\ d.latest = None
        /\ d.received = core[s].received /\ d.transformed = core[s].transformed
        /\ d.dropped = core[s].dropped /\ d.rejected = core[s].rejected
        /\ d.lost = core[s].lost /\ d.foreign = core[s].foreign
    BY <1>3 DEF CoreShape
  <2>2. d = c
    BY DEF g
  <2>3. Counts(d) = Counts(core[s])
    BY <2>1 DEF Counts
  <2> HIDE DEF c, d
  <2> QED
    BY <2>1, <2>2, <2>3
<1> HIDE DEF c
<1>5. core'[s] = c
  BY <1>1 DEF CoreInv
<1>6. StreamInv(s)'
  <2>1. Bound(s)' /\ Untouched(s)' /\ Aligned(s)'
    BY <1>1, <1>3, <1>4, <1>5 DEF StreamInv, Bound, Untouched, Aligned, InCore
  <2>2. CreditedOnce(s)'
    BY <1>1, <1>3, <1>4, <1>5 DEF StreamInv, CreditedOnce, Late
  <2>3. Balanced(s)'
    <3>1. \A o : Unnoted(s, o)' = Unnoted(s, o)
      BY <1>1 DEF Unnoted
    <3>2. Balanced(s) /\ Counts(core'[s]) = Counts(core[s])
      BY <1>3, <1>4, <1>5 DEF StreamInv
    <3> QED
      BY <1>1, <3>1, <3>2, SameBalance
  <2> QED
    BY <2>1, <2>2, <2>3 DEF StreamInv
<1>7. \A t \in Steppers : ThreadInv(t)'
  BY <1>1, ThreadsStay
<1>8. Placed'
  BY <1>1, <1>2, PlacedStays DEF CoreInv
<1> QED
  BY <1>1, <1>2, <1>4, <1>6, <1>7, <1>8, OneStreamChanges

\* The producer's part: what becomes of its place in the call and of the core's
\* entry, when objects and threads are left alone.
LEMMA ProducerCore ==
  ASSUME ManagedInv, CoreInv, NEW s \in Streams,
         UNCHANGED <<streams, object, made, stepper>>,
         NEW p, producer' = [producer EXCEPT ![s] = p],
         producer[s].pc # "note", p.pc # "note", p.pc = "latch" => InCore(s),
         NEW c, CoreShape(c), core' = [core EXCEPT ![s] = c],
         c.life = core[s].life, c.latest = core[s].latest, c.foreign = core[s].foreign,
         Counts(c) = Counts(core[s]), ~InCore(s) => c = core[s]
  PROVE  CoreInv'
<1>1. producer'[s] = p /\ \A u \in Streams \ {s} : producer'[u] = producer[u]
  BY DEF ManagedInv, Types
<1>2. core'[s] = c
  BY DEF CoreInv
<1>3. StreamInv(s) /\ CoreShape(core[s])
  BY DEF CoreInv
<1>4. Bound(s)' /\ Untouched(s)' /\ Aligned(s)'
  BY <1>1, <1>2, <1>3 DEF StreamInv, Bound, Untouched, Aligned, InCore
<1>5. CreditedOnce(s)'
  BY <1>1, <1>2, <1>3 DEF StreamInv, CreditedOnce, Late
<1>6. Balanced(s)'
  <2>1. \A o : Unnoted(s, o)' = Unnoted(s, o)
    BY <1>1 DEF Unnoted
  <2> QED
    BY <1>2, <1>3, <2>1, SameBalance DEF StreamInv
<1>7. StreamInv(s)'
  BY <1>4, <1>5, <1>6 DEF StreamInv
<1>8. \A t \in Steppers : ThreadInv(t)'
  BY ThreadsStay
<1>9. Placed'
  <2>1. \A u \in Streams : producer'[u] = producer[u] \/ producer'[u].pc # "note"
    BY <1>1
  <2> QED
    BY <2>1, PlacedStays DEF CoreInv
<1> QED
  BY <1>1, <1>7, <1>8, <1>9, OneStreamChanges

LEMMA PushValidateCore ==
  ASSUME ManagedInv, CoreInv, NEW s \in Streams, PushValidate(s)
  PROVE  CoreInv'
<1>1. PICK pc \in {"latch", "reject"} :
        /\ pc = "latch" => InCore(s)
        /\ producer' = [producer EXCEPT ![s].pc = pc, ![s].clock = @ + 1]
  BY DEF PushValidate
<1> DEFINE p == [producer[s] EXCEPT !.pc = pc, !.clock = @ + 1]
<1>2. /\ UNCHANGED <<streams, object, made, stepper, core>>
      /\ producer[s].pc = "idle" /\ producer' = [producer EXCEPT ![s] = p]
  BY <1>1 DEF PushValidate
<1>3. producer[s] \in ProducerType
  BY DEF ManagedInv, Types
<1>4. p.pc = pc
  BY <1>3 DEF ProducerType
<1> HIDE DEF p
<1>5. core' = [core EXCEPT ![s] = core[s]] /\ CoreShape(core[s])
  BY <1>2 DEF CoreInv
<1> QED
  BY <1>1, <1>2, <1>4, <1>5, ProducerCore

LEMMA PushRejectCore ==
  ASSUME ManagedInv, CoreInv, NEW s \in Streams, PushReject(s)
  PROVE  CoreInv'
<1> DEFINE p == [producer[s] EXCEPT !.pc = "idle"]
           c == CountRejected(core[s])
<1>1. /\ UNCHANGED <<streams, object, made, stepper>>
      /\ producer[s].pc = "reject" /\ producer' = [producer EXCEPT ![s] = p]
      /\ core' = [core EXCEPT ![s] = c]
  BY DEF PushReject
<1>2. producer[s] \in ProducerType /\ CoreShape(core[s])
  BY DEF ManagedInv, Types, CoreInv
<1>3. p.pc = "idle"
  BY <1>2 DEF ProducerType
<1>4. /\ CoreShape(c) /\ c.life = core[s].life /\ c.latest = core[s].latest
      /\ c.foreign = core[s].foreign /\ Counts(c) = Counts(core[s])
      /\ ~InCore(s) => c = core[s]
  BY <1>2, Counted DEF InCore
<1> HIDE DEF p, c
<1> QED
  BY <1>1, <1>3, <1>4, ProducerCore

LEMMA PushNoteCore ==
  ASSUME ManagedInv, CoreInv, NEW s \in Streams, PushNote(s)
  PROVE  CoreInv'
<1> DEFINE next == IF InCore(s) THEN "idle" ELSE "reject"
           p == [producer[s] EXCEPT !.pc = next, !.object = None]
           r == core[s].received + 1
           f == IF core[s].life = producer[s].object THEN core[s].foreign
                ELSE core[s].foreign + 1
           c == IF InCore(s) THEN [core[s] EXCEPT !.received = r, !.foreign = f] ELSE core[s]
<1>1. /\ UNCHANGED <<streams, made, stepper>>
      /\ producer[s].pc = "note" /\ producer' = [producer EXCEPT ![s] = p]
  BY DEF PushNote
<1>2. producer[s] \in ProducerType /\ CoreShape(core[s]) /\ StreamInv(s)
  BY DEF ManagedInv, Types, CoreInv
<1>3. p.pc \in {"idle", "reject"}
  BY <1>2 DEF ProducerType
<1>4. core' = [core EXCEPT ![s] = c]
  BY DEF PushNote, CoreInv
<1>5. PICK o \in Objects :
        /\ o = producer[s].object /\ o # None /\ o <= made.objects
        /\ \A u \in Streams \ {s} : streams[u] # o
  <2>1. made.objects \in 0..MaxObjects /\ MaxObjects \in Nat
    BY ManagedAssumption DEF ManagedInv, Types, MadeType, ManagedAssumption
  <2>2. /\ producer[s].object \in 1..made.objects
        /\ \A u \in Streams \ {s} : streams[u] # producer[s].object
    BY <1>1 DEF CoreInv, Placed
  <2> QED
    BY <2>1, <2>2 DEF Objects, None
<1>6. /\ r \in Int /\ r = core[s].received + 1 /\ f \in Int
      /\ f = IF core[s].life = o THEN core[s].foreign ELSE core[s].foreign + 1
  BY <1>2, <1>5 DEF CoreShape
<1> HIDE DEF r, f
<1>7. /\ CoreShape(c) /\ c.life = core[s].life /\ c.latest = core[s].latest
      /\ ~InCore(s) => c = core[s]
      /\ InCore(s) => c.foreign = f /\ Counts(c) = Counts(core[s]) - 1 + (f - core[s].foreign)
  <2>1. CASE InCore(s)
    <3>1. /\ CoreShape(c) /\ c.life = core[s].life /\ c.latest = core[s].latest
          /\ c.received = r /\ c.foreign = f /\ c.transformed = core[s].transformed
          /\ c.dropped = core[s].dropped /\ c.rejected = core[s].rejected
          /\ c.lost = core[s].lost
      BY <1>2, <1>6, <2>1 DEF CoreShape
    <3>2. Counts(c) = Counts(core[s]) - 1 + (f - core[s].foreign)
      BY <1>2, <1>6, <3>1 DEF Counts, CoreShape
    <3> QED
      BY <2>1, <3>1, <3>2
  <2>2. CASE ~InCore(s)
    BY <1>2, <2>2
  <2> QED
    BY <2>1, <2>2
<1> HIDE DEF p, c
<1>8. /\ producer'[s].pc \in {"idle", "reject"}
      /\ \A u \in Streams \ {s} : producer'[u] = producer[u]
  BY <1>1, <1>3 DEF ManagedInv, Types
<1>9. core'[s] = c
  BY <1>4 DEF CoreInv
<1>10. /\ \A q \in Objects : /\ object'[q].pending = object[q].pending
                             /\ object'[q].encoded = object[q].encoded
                             /\ object'[q].registered = object[q].registered
       /\ \A q \in Objects \ {o} : object'[q] = object[q]
       /\ core[s].life = o => object' = object
       /\ core[s].life # o => object'[o].missed = object[o].missed + 1
       /\ object[o].missed \in Nat
  <2> DEFINE k == object[o].missed + 1
  <2>1. object' = IF core[s].life = o THEN object ELSE [object EXCEPT ![o].missed = k]
    BY <1>5 DEF PushNote
  <2>2. ObjectShape(object[o])
    BY DEF ManagedInv, Types
  <2> HIDE DEF k
  <2>3. /\ \A q \in Objects \ {o} : object'[q] = object[q]
        /\ core[s].life = o => object' = object
        /\ core[s].life # o => object'[o].missed = k
        /\ object[o].missed \in Nat
    BY <2>1, <2>2 DEF ManagedInv, Types, ObjectShape
  <2>4. \A q \in Objects : /\ object'[q].pending = object[q].pending
                           /\ object'[q].encoded = object[q].encoded
                           /\ object'[q].registered = object[q].registered
    BY NotedObjects DEF Alike, ManagedInv
  <2> QED
    BY <2>3, <2>4 DEF k
<1>11. streams[s] # None => streams[s] \in Objects
  BY DEF ManagedInv, Types, Objects, None
<1>12. InCore(s) => core[s].life = streams[s] /\ streams[s] # None
  BY <1>2 DEF StreamInv, Bound, InCore
<1>13. Bound(s)' /\ Untouched(s)' /\ Aligned(s)'
  BY <1>1, <1>2, <1>7, <1>8, <1>9, <1>10, <1>11, <1>12
     DEF StreamInv, Bound, Untouched, Aligned, InCore
<1>14. Late(s)' = 0 /\ \A q : Unnoted(s, q)' = 0
  BY <1>8 DEF Late, Unnoted
<1>15. CreditedOnce(s)' /\ Balanced(s)'
  <2>1. core[s].foreign + Late(s) <= 1
    BY <1>2 DEF StreamInv, CreditedOnce
  <2>2. PICK n : n = streams[s]
    OBVIOUS
  <2>3. /\ Holders(n)' = Holders(n) /\ Cardinality(Holders(n)) \in Nat
        /\ Waiting(n) \in {0, 1}
        /\ n # None => Waiting(n)' = Waiting(n)
    BY <1>1, <1>10, <1>11, <2>2, HoldersFinite DEF Holders, Waiting
  <2>4. n # None => object[n].missed + Unnoted(s, n)
                      = Counts(core[s]) + Waiting(n) + Cardinality(Holders(n))
    BY <1>2, <2>2 DEF StreamInv, Balanced
  <2>5. Counts(core[s]) \in Int /\ core[s].foreign \in Int
    BY <1>2, CountsType DEF CoreShape
  <2>6. Counts(core[s])' = Counts(c) /\ streams'[s] = n
    BY <1>1, <1>9, <2>2 DEF Counts
  <2>7. PICK k \in Int, w \in Int, d \in Int :
          /\ k = Cardinality(Holders(n)) /\ w = Waiting(n) /\ d = Counts(core[s])
    BY <2>3, <2>5
  <2>8. n # None => object[n].missed + Unnoted(s, n) = d + w + k
    BY <2>4, <2>7
  <2>9. k = Cardinality(Holders(n)') /\ (n # None => w = Waiting(n)')
    BY <2>3, <2>7
  <2>10. CASE o = n
    <3>1. Unnoted(s, n) = 1 /\ Late(s) = 0 /\ n # None
      BY <1>1, <1>5, <2>2, <2>10 DEF Unnoted, Late
    <3>2. CASE InCore(s)
      <4>1. f = core[s].foreign /\ object'[n].missed = object[n].missed
        BY <1>6, <1>10, <1>12, <2>2, <2>10, <3>2
      <4>2. CreditedOnce(s)'
        BY <1>7, <1>9, <1>14, <2>1, <2>5, <3>1, <3>2, <4>1 DEF CreditedOnce
      <4>3. Counts(c) = d - 1
        BY <1>7, <2>5, <2>7, <3>2, <4>1
      <4>4. object[n].missed \in Nat /\ Unnoted(s, n)' = 0
        BY <1>10, <1>14, <2>10
      <4>5. object'[n].missed + Unnoted(s, n)' = Counts(c) + w + k
        BY <2>7, <2>8, <3>1, <4>1, <4>3, <4>4
      <4> QED
        BY <2>6, <2>9, <3>1, <4>2, <4>5 DEF Balanced
    <3>3. CASE ~InCore(s)
      <4>1. core[s].life # o /\ c = core[s]
        BY <1>5, <1>7, <3>3 DEF InCore
      <4>2. CreditedOnce(s)'
        BY <1>9, <1>14, <2>1, <2>5, <3>1, <4>1 DEF CreditedOnce
      <4>3. /\ object'[n].missed = object[n].missed + 1 /\ object[n].missed \in Nat
            /\ Unnoted(s, n)' = 0 /\ Counts(c) = d
        BY <1>10, <1>14, <2>10, <2>7, <4>1
      <4>4. object'[n].missed + Unnoted(s, n)' = Counts(c) + w + k
        BY <2>7, <2>8, <3>1, <4>3
      <4> QED
        BY <2>6, <2>9, <3>1, <4>2, <4>4 DEF Balanced
    <3> QED
      BY <3>2, <3>3
  <2>11. CASE o # n
    <3>1. Unnoted(s, n) = 0 /\ Late(s) = 1
      BY <1>1, <1>5, <2>2, <2>11 DEF Unnoted, Late
    <3>2. Counts(c) = Counts(core[s]) /\ c.foreign <= 1
      <4>1. CASE InCore(s)
        BY <1>6, <1>7, <1>12, <2>1, <2>2, <2>5, <2>11, <3>1, <4>1
      <4>2. CASE ~InCore(s)
        BY <1>7, <2>1, <2>5, <3>1, <4>2
      <4> QED
        BY <4>1, <4>2
    <3>3. c.foreign \in Int
      BY <1>7 DEF CoreShape
    <3>4. CreditedOnce(s)'
      BY <1>9, <1>14, <3>2, <3>3 DEF CreditedOnce
    <3>5. CASE n # None
      <4>1. object'[n].missed = object[n].missed /\ Unnoted(s, n)' = 0
        BY <1>10, <1>11, <1>14, <2>2, <2>11, <3>5
      <4>2. object'[n].missed + Unnoted(s, n)' = Counts(c) + w + k
        BY <2>7, <2>8, <3>1, <3>2, <3>5, <4>1
      <4> QED
        BY <2>6, <2>9, <3>4, <3>5, <4>2 DEF Balanced
    <3>6. CASE n = None
      BY <2>6, <3>4, <3>6 DEF Balanced
    <3> QED
      BY <3>5, <3>6
  <2> QED
    BY <2>10, <2>11
<1>16. StreamInv(s)'
  BY <1>13, <1>15 DEF StreamInv
<1>17. \A t \in Steppers : ThreadInv(t)'
  BY <1>1, <1>10, ThreadsStay
<1>18. Placed'
  <2>1. \A q \in Objects : q > made.objects => object'[q] = object[q]
    <3>1. made.objects \in Nat /\ o \in Nat
      BY DEF ManagedInv, Types, MadeType, Objects
    <3> QED
      BY <1>5, <1>10, <3>1 DEF Objects
  <2>2. \A u \in Streams : producer'[u] = producer[u] \/ producer'[u].pc # "note"
    BY <1>8
  <2> QED
    BY <1>1, <2>1, <2>2, PlacedStays DEF CoreInv
<1>19. \A u \in Streams \ {s} : streams[u] # None => object'[streams[u]] = object[streams[u]]
  BY <1>5, <1>10 DEF ManagedInv, Types, Objects, None
<1> QED
  BY <1>1, <1>4, <1>7, <1>8, <1>16, <1>17, <1>18, <1>19, OneStreamChanges

\* The latched frame takes the place of one nobody took, or an empty place.
LEMMA PushLatchCore ==
  ASSUME ManagedInv, CoreInv, NEW s \in Streams, PushLatch(s)
  PROVE  CoreInv'
<1>0. /\ producer[s] \in ProducerType /\ CoreShape(core[s]) /\ StreamInv(s)
      /\ UNCHANGED <<streams, made, stepper>> /\ producer[s].pc = "latch"
  BY DEF ManagedInv, Types, CoreInv, PushLatch
<1>1. CASE streams[s] = None
  <2> DEFINE p == [producer[s] EXCEPT !.pc = "idle"]
  <2>1. /\ object' = object /\ producer' = [producer EXCEPT ![s] = p]
        /\ core' = [core EXCEPT ![s] = CountDropped(core[s])]
    BY <1>1 DEF PushLatch
  <2>2. p.pc = "idle"
    BY <1>0 DEF ProducerType
  <2> HIDE DEF p
  <2>3. ~InCore(s) /\ CountDropped(core[s]) = core[s]
    BY <1>0, <1>1 DEF CountDropped, StreamInv, Bound, InCore
  <2>4. core' = [core EXCEPT ![s] = core[s]]
    BY <2>1, <2>3
  <2> QED
    BY <1>0, <2>1, <2>2, <2>3, <2>4, ProducerCore
<1>2. CASE streams[s] # None
  <2>0. PICK n : n = streams[s]
    OBVIOUS
  <2> DEFINE k == producer[s].clock
             p == [producer[s] EXCEPT !.pc = "note", !.object = n]
             c == IF object[n].pending # None THEN CountDropped(core[s]) ELSE core[s]
  <2>1. /\ object' = [object EXCEPT ![n].pending = k]
        /\ producer' = [producer EXCEPT ![s] = p]
    BY <1>2, <2>0 DEF PushLatch, Latch
  <2>2. core' = [core EXCEPT ![s] = c]
    BY <1>2, <2>0 DEF PushLatch, Latch, CoreInv
  <2>3. n \in Objects /\ n # None /\ n <= made.objects /\ k \in Nat /\ k > 0
    <3>1. n \in Objects /\ n # None /\ n <= made.objects /\ k \in Nat
      BY <1>0, <1>2, <2>0 DEF ManagedInv, Types, Numbered, ProducerType, Objects, None
    <3>2. k > 0
      BY <1>0 DEF ManagedInv, Clocked
    <3> QED
      BY <3>1, <3>2
  <2>4. p.pc = "note" /\ p.object = n
    BY <1>0 DEF ProducerType
  <2>5. InCore(s) => core[s].life = n /\ object[n].registered
    BY <1>0, <2>0 DEF StreamInv, Bound
  <2>6. Waiting(n) \in {0, 1} /\ (object[n].pending = None <=> Waiting(n) = 0)
    BY DEF Waiting
  <2>7. /\ CoreShape(c) /\ c.life = core[s].life /\ c.latest = core[s].latest
        /\ c.foreign = core[s].foreign /\ Counts(c) = Counts(core[s]) + Waiting(n)
        /\ ~InCore(s) => c = core[s]
    <3>1. CASE object[n].pending = None
      <4>1. Counts(core[s]) = Counts(core[s]) + Waiting(n)
        BY <1>0, <2>6, <3>1, CountsType
      <4> QED
        BY <1>0, <3>1, <4>1
    <3>2. CASE object[n].pending # None
      <4>1. InCore(s) /\ core[s].life # None /\ Waiting(n) = 1
        BY <1>0, <1>2, <2>0, <2>6, <3>2 DEF StreamInv, Untouched, InCore
      <4> QED
        BY <1>0, <3>2, <4>1, Counted
    <3> QED
      BY <3>1, <3>2
  <2> HIDE DEF p, c, k
  <2>8. producer'[s] = p /\ \A u \in Streams \ {s} : producer'[u] = producer[u]
    BY <2>1 DEF ManagedInv, Types
  <2>9. core'[s] = c
    BY <2>2 DEF CoreInv
  <2>10. /\ \A o \in Objects : o # n => object'[o] = object[o]
         /\ \A o \in Objects : object'[o].encoded = object[o].encoded
                               /\ object'[o].missed = object[o].missed
         /\ object'[n].pending = k /\ object'[n].registered = object[n].registered
         /\ object[n].missed \in Nat
    <3>1. ObjectShape(object[n]) /\ \A o \in Objects : o # n => object'[o] = object[o]
      BY <2>1, <2>3 DEF ManagedInv, Types
    <3>2. object'[n] = [object[n] EXCEPT !.pending = k]
      BY <2>1, <2>3 DEF ManagedInv, Types
    <3>3. /\ object'[n].pending = k /\ object'[n].registered = object[n].registered
          /\ object'[n].encoded = object[n].encoded /\ object'[n].missed = object[n].missed
          /\ object[n].missed \in Nat
      BY <3>1, <3>2 DEF ObjectShape
    <3> QED
      BY <3>1, <3>3
  <2>11. Bound(s)' /\ Untouched(s)' /\ Aligned(s)'
    <3>1. streams'[s] = n /\ core'[s].life = core[s].life /\ core'[s].latest = core[s].latest
      BY <1>0, <2>0, <2>7, <2>9
    <3>2. InCore(s)' <=> InCore(s)
      BY <3>1 DEF InCore
    <3>3. Bound(s)'
      BY <1>0, <2>5, <2>7, <2>9, <2>10, <3>1, <3>2 DEF StreamInv, Bound
    <3>4. Untouched(s)'
      BY <1>0, <2>0, <2>4, <2>8, <3>1, <3>2 DEF StreamInv, Untouched
    <3>5. Aligned(s)'
      BY <1>0, <2>3, <2>5, <2>10, <3>1, <3>2 DEF StreamInv, Aligned
    <3> QED
      BY <3>3, <3>4, <3>5
  <2>12. CreditedOnce(s)'
    <3>1. Late(s)' = 0 /\ Late(s) = 0
      BY <1>0, <2>0, <2>4, <2>8 DEF Late
    <3> QED
      BY <1>0, <2>7, <2>9, <3>1 DEF StreamInv, CreditedOnce
  <2>13. Balanced(s)'
    <3>1. Holders(n)' = Holders(n) /\ Cardinality(Holders(n)) \in Nat
      BY <1>0, HoldersFinite DEF Holders
    <3>2. Unnoted(s, n) = 0 /\ Unnoted(s, n)' = 1
      BY <1>0, <2>4, <2>8 DEF Unnoted
    <3>3. Waiting(n)' = 1 /\ object'[n].missed = object[n].missed
      BY <2>3, <2>10 DEF Waiting, None
    <3>4. object[n].missed + Unnoted(s, n)
            = Counts(core[s]) + Waiting(n) + Cardinality(Holders(n))
      BY <1>0, <2>0, <2>3 DEF StreamInv, Balanced
    <3>5. Counts(core[s]) \in Int
      BY <1>0, CountsType
    <3>6. object[n].missed + 1 = Counts(c) + 1 + Cardinality(Holders(n))
      BY <2>6, <2>7, <2>10, <3>1, <3>2, <3>4, <3>5
    <3>7. Counts(core[s])' = Counts(c) /\ streams'[s] = n
      BY <1>0, <2>0, <2>9 DEF Counts
    <3>8. object'[n].missed + Unnoted(s, n)'
            = Counts(core[s])' + Waiting(n)' + Cardinality(Holders(n)')
      BY <3>1, <3>2, <3>3, <3>6, <3>7
    <3> QED
      BY <3>7, <3>8 DEF Balanced
  <2>14. StreamInv(s)'
    BY <2>11, <2>12, <2>13 DEF StreamInv
  <2>15. \A t \in Steppers : ThreadInv(t)'
    BY <1>0, <2>10, ThreadsStay
  <2>16. \A u \in Streams \ {s} : streams[u] # None /\ streams[u] \in Objects => streams[u] # n
    BY <1>2, <2>0 DEF ManagedInv, Numbered
  <2>17. \A u \in Streams \ {s} :
           streams[u] # None => object'[streams[u]] = object[streams[u]]
    BY <2>10, <2>16 DEF ManagedInv, Types, Objects, None
  <2>18. Placed'
    <3>1. made.objects \in Nat /\ n \in 1..made.objects /\ made'.objects = made.objects
      BY <1>0, <2>3 DEF ManagedInv, Types, MadeType, Objects
    <3>2. \A u \in Streams \ {s} : streams[u] # n
      BY <1>2, <2>0 DEF ManagedInv, Numbered
    <3>3. ASSUME NEW u \in Streams, producer'[u].pc = "note"
          PROVE  /\ producer'[u].object \in 1..made'.objects
                 /\ \A v \in Streams \ {u} : streams'[v] # producer'[u].object
      <4>1. CASE u = s
        BY <1>0, <2>4, <2>8, <3>1, <3>2, <4>1
      <4>2. CASE u # s
        <5>1. /\ producer[u].object \in 1..made.objects
              /\ \A v \in Streams \ {u} : streams[v] # producer[u].object
          BY <2>8, <3>3, <4>2 DEF CoreInv, Placed
        <5> QED
          BY <1>0, <2>8, <3>1, <4>2, <5>1
      <4> QED
        BY <4>1, <4>2
    <3>4. \A o \in Objects : o > made'.objects => object'[o].missed = 0
      BY <2>10, <3>1 DEF CoreInv, Placed
    <3> QED
      BY <3>3, <3>4 DEF Placed
  <2> QED
    BY <1>0, <2>2, <2>7, <2>8, <2>14, <2>15, <2>17, <2>18, OneStreamChanges
<1> QED
  BY <1>1, <1>2

-----------------------------------------------------------------------------
(* The steps of a thread that has a frame.                                 *)

\* No thread publishes from another's object.
LEMMA OthersStay ==
  ASSUME ManagedInv, CoreInv, NEW t \in Steppers, AtWork(t),
         \A u \in Steppers \ {t} : stepper'[u] = stepper[u],
         \A o \in Objects \ {stepper[t].object} : object'[o] = object[o],
         NEW u \in Steppers, u # t
  PROVE  ThreadInv(u)'
<1>1. ThreadInv(u) /\ stepper'[u] = stepper[u]
  BY DEF CoreInv
<1>2. CASE stepper[u].pc = "publish"
  <2>1. AtWork(u)
    BY <1>2 DEF AtWork
  <2>2. stepper[u].object \in Objects /\ stepper[u].object # stepper[t].object
    BY <2>1, PublishedObject, OneThreadPerObject DEF ManagedInv
  <2> QED
    BY <1>1, <2>2 DEF ThreadInv, AtWork
<1>3. CASE stepper[u].pc # "publish"
  BY <1>1, <1>3 DEF ThreadInv, AtWork
<1> QED
  BY <1>2, <1>3

\* A thread lays down the frame it has: the core counts it once.
LEMMA LaidDown ==
  ASSUME ManagedInv, CoreInv, NEW t \in Steppers, stepper[t].pc \in {"encode", "publish"},
         UNCHANGED <<streams, made, producer, group>>, NextStream(t) \/ FailStep(t),
         \A o \in Objects \ {stepper[t].object} : object'[o] = object[o],
         object'[stepper[t].object].pending = object[stepper[t].object].pending,
         object'[stepper[t].object].encoded = object[stepper[t].object].encoded,
         object'[stepper[t].object].registered = object[stepper[t].object].registered,
         object'[stepper[t].object].missed = object[stepper[t].object].missed,
         NEW s \in Streams, s = AtStream(t),
         NEW c, CoreShape(c), core' = [core EXCEPT ![s] = c],
         c.life = core[s].life,
         InCore(s) => c.foreign = core[s].foreign /\ Counts(c) = Counts(core[s]) + 1,
         InCore(s) => \/ stepper[t].pc = "encode" /\ c.latest = core[s].latest
                      \/ stepper[t].pc = "publish" /\ c.latest = stepper[t].frame
  PROVE  CoreInv'
<1>1. PICK n : n = stepper[t].object
  OBVIOUS
<1>2. /\ AtWork(t) /\ n \in Objects /\ n # None /\ streams[s] = n
      /\ \A u \in Streams : streams[u] = n => u = s
  BY <1>1, PublishedObject DEF AtWork
<1>3. /\ stepper'[t].pc \in {"lookup", "leave"} /\ stepper'[t].frame = None
      /\ stepper'[t].object = None
      /\ \A u \in Steppers \ {t} : stepper'[u] = stepper[u]
  BY <1>2, ThroughLaid
<1>4. ThreadInv(t) /\ StreamInv(s) /\ CoreShape(core[s]) /\ core'[s] = c
  BY DEF CoreInv
<1>5. \A u \in Steppers : ThreadInv(u)'
  <2>1. ThreadInv(t)'
    BY <1>3 DEF ThreadInv, AtWork
  <2> QED
    BY <1>2, <1>3, <2>1, OthersStay
<1>6. InCore(s) /\ core[s].life = n /\ object[n].registered
  <2>1. stepper[t].frame # None
    BY <1>4 DEF ThreadInv
  <2>2. InCore(s)
    BY <1>1, <1>2, <1>4, <2>1 DEF StreamInv, Untouched
  <2> QED
    BY <1>2, <1>4, <2>2 DEF StreamInv, Bound
<1>7. Bound(s)' /\ CreditedOnce(s)'
  BY <1>1, <1>2, <1>4, <1>6 DEF StreamInv, Bound, CreditedOnce, Late, InCore
<1>8. Untouched(s)'
  BY <1>4, <1>6 DEF Untouched, InCore
<1>9. Aligned(s)'
  <2>1. SUFFICES ASSUME InCore(s), c.latest # None,
                        \A u \in Steppers :
                          stepper'[u].object = n => stepper'[u].pc # "publish"
                 PROVE  c.latest = object[n].encoded
    BY <1>1, <1>2, <1>4, <1>6 DEF Aligned, InCore
  <2>2. CASE stepper[t].pc = "encode"
    <3>1. \A u \in Steppers : stepper[u].object = n => stepper[u].pc # "publish"
      BY <1>3, <2>1, <2>2
    <3> QED
      BY <1>4, <1>6, <2>1, <2>2, <3>1 DEF StreamInv, Aligned
  <2>3. CASE stepper[t].pc = "publish"
    BY <1>1, <1>4, <2>1, <2>3 DEF ThreadInv
  <2> QED
    BY <2>2, <2>3
<1>10. Balanced(s)'
  <2>1. t \in Holders(n)
    BY <1>1, <1>4 DEF Holders, ThreadInv
  <2>2. Holders(n)' = Holders(n) \ {t}
    BY <1>1, <1>2, <1>3, <2>1 DEF Holders, None
  <2>3. Cardinality(Holders(n)') = Cardinality(Holders(n)) - 1
        /\ Cardinality(Holders(n)) \in Nat
    BY <2>1, <2>2, HoldersFinite, FS_RemoveElement
  <2>4. /\ Waiting(n)' = Waiting(n) /\ Unnoted(s, n)' = Unnoted(s, n)
        /\ Waiting(n) \in {0, 1} /\ object'[n].missed = object[n].missed
    BY <1>1 DEF Waiting, Unnoted
  <2>5. object[n].missed + Unnoted(s, n)
          = Counts(core[s]) + Waiting(n) + Cardinality(Holders(n))
    BY <1>2, <1>4 DEF StreamInv, Balanced
  <2>6. Counts(core[s]) \in Int /\ Counts(c) = Counts(core[s]) + 1
    BY <1>4, <1>6, CountsType
  <2>7. object[n].missed + Unnoted(s, n) = Counts(c) + Waiting(n) + Cardinality(Holders(n)')
    BY <2>3, <2>4, <2>5, <2>6
  <2>8. Counts(core[s])' = Counts(c) /\ streams'[s] = n
    BY <1>2, <1>4 DEF Counts
  <2>9. object'[n].missed + Unnoted(s, n)'
          = Counts(core[s])' + Waiting(n)' + Cardinality(Holders(n)')
    BY <2>4, <2>7, <2>8
  <2> QED
    BY <2>8, <2>9 DEF Balanced
<1>11. StreamInv(s)'
  BY <1>7, <1>8, <1>9, <1>10 DEF StreamInv
<1>13. Placed'
  <2>1. \A o \in Objects : object'[o].missed = object[o].missed
    BY <1>1
  <2> QED
    BY <2>1, PlacedStays DEF CoreInv
<1>14. \A u \in Streams \ {s} : streams[u] # None => object'[streams[u]] = object[streams[u]]
  BY <1>1, <1>2 DEF ManagedInv, Types, Objects, None
<1>12. \A u \in Steppers : \/ stepper'[u] = stepper[u]
                           \/ /\ stepper[u].object \in {None, streams[s]}
                              /\ stepper'[u].object \in {None, streams[s]}
  BY <1>1, <1>2, <1>3
<1> QED
  BY <1>1, <1>2, <1>5, <1>11, <1>12, <1>13, <1>14, OneStreamChanges

LEMMA StepTransformFailsCore ==
  ASSUME ManagedInv, CoreInv, NEW t \in Steppers, StepTransformFails(t)
  PROVE  CoreInv'
<1>1. /\ stepper[t].pc = "encode" /\ NextStream(t)
      /\ UNCHANGED <<streams, object, made, group, producer>>
      /\ core' = [core EXCEPT ![AtStream(t)] = CountDropped(core[AtStream(t)])]
  BY DEF StepTransformFails
<1>2. PICK s \in Streams : s = AtStream(t)
  BY <1>1, PublishedObject DEF AtWork
<1> DEFINE c == CountDropped(core[s])
<1>3. CoreShape(core[s])
  BY DEF CoreInv
<1>4. /\ CoreShape(c) /\ c.life = core[s].life /\ c.latest = core[s].latest
      /\ InCore(s) => c.foreign = core[s].foreign /\ Counts(c) = Counts(core[s]) + 1
  BY <1>3, Counted DEF InCore
<1>5. core' = [core EXCEPT ![s] = c]
  BY <1>1, <1>2
<1> HIDE DEF c
<1> QED
  BY <1>1, <1>2, <1>4, <1>5, LaidDown

LEMMA StepPublishCore ==
  ASSUME ManagedInv, CoreInv, NEW t \in Steppers, StepPublish(t)
  PROVE  CoreInv'
<1>1. /\ stepper[t].pc = "publish" /\ (NextStream(t) \/ FailStep(t))
      /\ UNCHANGED <<streams, object, made, group, producer>>
  BY DEF StepPublish
<1>2. PICK s \in Streams : s = AtStream(t)
  BY <1>1, PublishedObject DEF AtWork
<1> DEFINE d == [core[s] EXCEPT !.latest = stepper[t].frame,
                                !.transformed = @ + 1]
           c == IF InCore(s) THEN d ELSE core[s]
<1>3. CoreShape(core[s])
  BY DEF CoreInv
<1>4. core' = [core EXCEPT ![s] = c]
  BY <1>2 DEF StepPublish, CoreInv
<1>5. /\ CoreShape(d) /\ d.life = core[s].life /\ d.latest = stepper[t].frame
      /\ d.received = core[s].received /\ d.transformed = core[s].transformed + 1
      /\ d.dropped = core[s].dropped /\ d.rejected = core[s].rejected
      /\ d.lost = core[s].lost /\ d.foreign = core[s].foreign
  <2> DEFINE k == core[s].transformed + 1
             f == stepper[t].frame
  <2>1. k \in Int /\ d = [core[s] EXCEPT !.latest = f, !.transformed = k]
    BY <1>3 DEF CoreShape
  <2> HIDE DEF d, k, f
  <2>2. /\ CoreShape(d) /\ d.life = core[s].life /\ d.latest = f
        /\ d.received = core[s].received /\ d.transformed = k
        /\ d.dropped = core[s].dropped /\ d.rejected = core[s].rejected
        /\ d.lost = core[s].lost /\ d.foreign = core[s].foreign
    BY <1>3, <2>1 DEF CoreShape
  <2> QED
    BY <2>2 DEF k, f
<1> HIDE DEF d
<1>6. /\ CoreShape(c) /\ c.life = core[s].life
      /\ InCore(s) => /\ c.latest = stepper[t].frame /\ c.foreign = core[s].foreign
                      /\ Counts(c) = Counts(core[s]) + 1
  <2>1. Counts(d) = Counts(core[s]) + 1
    BY <1>3, <1>5 DEF Counts, CoreShape
  <2> QED
    BY <1>3, <1>5, <2>1
<1> HIDE DEF c
<1> QED
  BY <1>1, <1>2, <1>4, <1>6, LaidDown

\* A step that fails on the encoder counts its frame as lost.
LEMMA FailsCore ==
  ASSUME ManagedInv, CoreInv, NEW t \in Steppers, stepper[t].pc = "encode", FailStep(t),
         UNCHANGED <<streams, made, group, producer>>,
         core' = [core EXCEPT ![AtStream(t)] = CountLost(core[AtStream(t)])],
         NEW r, object' = [object EXCEPT ![stepper[t].object] = r],
         r.pending = object[stepper[t].object].pending,
         r.encoded = object[stepper[t].object].encoded,
         r.registered = object[stepper[t].object].registered,
         r.missed = object[stepper[t].object].missed
  PROVE  CoreInv'
<1>1. PICK s \in Streams : s = AtStream(t)
  BY PublishedObject DEF AtWork
<1>2. stepper[t].object \in Objects
  BY PublishedObject DEF AtWork
<1>3. /\ object'[stepper[t].object] = r
      /\ \A o \in Objects \ {stepper[t].object} : object'[o] = object[o]
  BY <1>2 DEF ManagedInv, Types
<1> DEFINE c == CountLost(core[s])
<1>4. CoreShape(core[s])
  BY DEF CoreInv
<1>5. /\ CoreShape(c) /\ c.life = core[s].life /\ c.latest = core[s].latest
      /\ InCore(s) => c.foreign = core[s].foreign /\ Counts(c) = Counts(core[s]) + 1
  BY <1>4, Counted DEF InCore
<1>6. core' = [core EXCEPT ![s] = c]
  BY <1>1
<1> HIDE DEF c
<1> QED
  BY <1>1, <1>3, <1>5, <1>6, LaidDown

LEMMA StepPipelineFailsCore ==
  ASSUME ManagedInv, CoreInv, NEW t \in Steppers, StepPipelineFails(t)
  PROVE  CoreInv'
<1> DEFINE r == StopPipeline(object[stepper[t].object])
<1>1. /\ UNCHANGED <<streams, made, group, producer>>
      /\ stepper[t].pc = "encode" /\ FailStep(t)
      /\ core' = [core EXCEPT ![AtStream(t)] = CountLost(core[AtStream(t)])]
      /\ object' = [object EXCEPT ![stepper[t].object] = r]
  BY DEF StepPipelineFails
<1>2. ObjectShape(object[stepper[t].object])
  BY <1>1, AtWorkFacts DEF ManagedInv, Types, AtWork
<1>3. /\ r.pending = object[stepper[t].object].pending
      /\ r.encoded = object[stepper[t].object].encoded
      /\ r.registered = object[stepper[t].object].registered
      /\ r.missed = object[stepper[t].object].missed
  BY <1>2, StopPipelineShape, PipelineRegistered
<1> HIDE DEF r
<1> QED
  BY <1>1, <1>3, FailsCore

LEMMA StepEncodeFailsCore ==
  ASSUME ManagedInv, CoreInv, NEW t \in Steppers, StepEncodeFails(t)
  PROVE  CoreInv'
<1> DEFINE e == EnsurePipeline(object[stepper[t].object], stepper[t].gen)
           r == [e EXCEPT !.pipeline.state = "failed", !.pipeline.held = <<>>]
<1>1. /\ UNCHANGED <<streams, made, group, producer>>
      /\ stepper[t].pc = "encode" /\ FailStep(t)
      /\ core' = [core EXCEPT ![AtStream(t)] = CountLost(core[AtStream(t)])]
      /\ object' = [object EXCEPT ![stepper[t].object] = r]
  BY DEF StepEncodeFails
<1>2. ObjectShape(object[stepper[t].object])
  BY <1>1, AtWorkFacts DEF ManagedInv, Types, AtWork
<1>3. /\ ObjectShape(e)
      /\ e.pending = object[stepper[t].object].pending
      /\ e.encoded = object[stepper[t].object].encoded
      /\ e.registered = object[stepper[t].object].registered
      /\ e.missed = object[stepper[t].object].missed
  BY <1>2, EnsurePipelineShape, PipelineRegistered
<1> HIDE DEF e
<1>4. /\ r.pending = e.pending /\ r.encoded = e.encoded /\ r.registered = e.registered
      /\ r.missed = e.missed
  BY <1>3 DEF ObjectShape, PipelineShape
<1> HIDE DEF r
<1> QED
  BY <1>1, <1>3, <1>4, FailsCore

\* A thread takes the latched frame in hand.
LEMMA StepTakeCore ==
  ASSUME ManagedInv, CoreInv, NEW t \in Steppers, StepTake(t)
  PROVE  CoreInv'
<1>1. /\ stepper[t].pc = "take" /\ AtWork(t)
      /\ UNCHANGED <<streams, made, group, producer, core>>
  BY DEF StepTake, AtWork
<1>2. PICK n \in Objects, s \in Streams :
        /\ n = stepper[t].object /\ s = AtStream(t) /\ n # None
        /\ streams[s] = n /\ \A u \in Streams : streams[u] = n => u = s
  BY <1>1, PublishedObject
<1>3. ThreadInv(t) /\ StreamInv(s) /\ CoreShape(core[s]) /\ StepperShape(stepper[t])
      /\ ObjectShape(object[n])
  BY <1>2 DEF CoreInv, ManagedInv, Types
<1>4. CASE object' = object /\ (NextStream(t) \/ FailStep(t))
  <2>1. /\ stepper'[t].pc \in {"lookup", "leave"} /\ stepper'[t].frame = None
        /\ stepper'[t].object = None
        /\ \A u \in Steppers \ {t} : stepper'[u] = stepper[u]
    BY <1>1, <1>4, ThroughLaid
  <2>2. FramesStay
    BY <1>4, SameFrames
  <2>3. \A u \in Steppers : \/ stepper'[u] = stepper[u]
                            \/ /\ stepper[u].pc \in
                                    {"idle", "enter", "lookup", "take", "leave"}
                               /\ stepper'[u].frame = None
                               /\ stepper'[u].pc \in
                                    {"idle", "enter", "lookup", "take", "leave"}
                               /\ stepper'[u].object # None <=> stepper'[u].pc = "take"
    BY <1>1, <2>1
  <2> QED
    BY <1>1, <2>2, <2>3, QuietCore
<1>5. CASE ~(object' = object /\ (NextStream(t) \/ FailStep(t)))
  <2>1. PICK f, d, g :
          /\ f = object[n].pending /\ f # None /\ InCore(s)
          /\ object' = [object EXCEPT ![n].pending = None, ![n].due = d]
          /\ stepper' = [stepper EXCEPT ![t].pc = "encode", ![t].gen = g, ![t].frame = f]
    <3> DEFINE x == object[n].pending
               y == core[s].gen
               z == IF core[s].interval > 0 THEN object[n].pending + core[s].interval ELSE 0
    <3>1. /\ x # None /\ InCore(s)
          /\ object' = [object EXCEPT ![n].pending = None, ![n].due = z]
          /\ stepper' = [stepper EXCEPT ![t].pc = "encode", ![t].gen = y, ![t].frame = x]
      BY <1>2, <1>5 DEF StepTake
    <3> HIDE DEF y, z
    <3> QED
      BY <3>1
  <2>2. /\ \A o \in Objects \ {n} : object'[o] = object[o]
        /\ object'[n].pending = None /\ object'[n].encoded = object[n].encoded
        /\ object'[n].registered = object[n].registered
        /\ object'[n].missed = object[n].missed
    <3>1. \A o \in Objects \ {n} : object'[o] = object[o]
      BY <1>2, <2>1 DEF ManagedInv, Types
    <3>2. object'[n] = [object[n] EXCEPT !.pending = None, !.due = d]
      BY <1>2, <2>1 DEF ManagedInv, Types
    <3> QED
      BY <1>3, <3>1, <3>2 DEF ObjectShape
  <2>3. /\ \A u \in Steppers \ {t} : stepper'[u] = stepper[u]
        /\ stepper'[t].pc = "encode" /\ stepper'[t].frame = f /\ stepper'[t].object = n
    <3>1. \A u \in Steppers \ {t} : stepper'[u] = stepper[u]
      BY <2>1 DEF ManagedInv, Types
    <3>2. stepper'[t] = [stepper[t] EXCEPT !.pc = "encode", !.gen = g, !.frame = f]
      BY <2>1 DEF ManagedInv, Types
    <3> QED
      BY <1>2, <1>3, <3>1, <3>2 DEF StepperShape
  <2>4. \A u \in Steppers : ThreadInv(u)'
    <3>1. ThreadInv(t)'
      BY <1>2, <2>1, <2>3 DEF ThreadInv, AtWork
    <3> QED
      BY <1>1, <1>2, <2>2, <2>3, <3>1, OthersStay
  <2>5. core[s].life = n /\ stepper[t].frame = None
    BY <1>1, <1>2, <1>3, <2>1 DEF StreamInv, Bound, ThreadInv
  <2>6. Bound(s)' /\ CreditedOnce(s)' /\ Untouched(s)'
    BY <1>1, <1>2, <1>3, <2>1, <2>2
       DEF StreamInv, Bound, CreditedOnce, Late, Untouched, InCore
  <2>7. Aligned(s)'
    BY <1>1, <1>2, <1>3, <2>2, <2>3, <2>5 DEF StreamInv, Aligned, InCore
  <2>8. Balanced(s)'
    <3>1. Holders(n)' = Holders(n) \cup {t} /\ t \notin Holders(n)
      BY <1>2, <2>1, <2>3, <2>5 DEF Holders
    <3>2. Cardinality(Holders(n)') = Cardinality(Holders(n)) + 1
          /\ Cardinality(Holders(n)) \in Nat
      BY <3>1, HoldersFinite, FS_AddElement
    <3>3. /\ Waiting(n) = 1 /\ Waiting(n)' = 0 /\ Unnoted(s, n)' = Unnoted(s, n)
          /\ object'[n].missed = object[n].missed
      BY <1>1, <2>1, <2>2 DEF Waiting, Unnoted
    <3>4. object[n].missed + Unnoted(s, n)
            = Counts(core[s]) + Waiting(n) + Cardinality(Holders(n))
      BY <1>2, <1>3 DEF StreamInv, Balanced
    <3>5. Counts(core[s]) \in Int
      BY <1>3, CountsType
    <3>6. Counts(core[s]) + Waiting(n) + Cardinality(Holders(n))
            = Counts(core[s]) + Waiting(n)' + Cardinality(Holders(n)')
      BY <3>2, <3>3, <3>5
    <3>7. Counts(core[s])' = Counts(core[s]) /\ streams'[s] = n
      BY <1>1, <1>2 DEF Counts
    <3>8. object'[n].missed + Unnoted(s, n)'
            = Counts(core[s])' + Waiting(n)' + Cardinality(Holders(n)')
      BY <3>3, <3>4, <3>6, <3>7
    <3> QED
      BY <3>7, <3>8 DEF Balanced
  <2>9. StreamInv(s)'
    BY <2>6, <2>7, <2>8 DEF StreamInv
  <2>10. core' = [core EXCEPT ![s] = core[s]]
    BY <1>1 DEF CoreInv
  <2>11. \A u \in Steppers : \/ stepper'[u] = stepper[u]
                             \/ /\ stepper[u].object \in {None, streams[s]}
                                /\ stepper'[u].object \in {None, streams[s]}
    BY <1>2, <2>3
  <2>12. Placed'
    <3>1. \A o \in Objects : object'[o].missed = object[o].missed
      BY <2>2
    <3> QED
      BY <1>1, <3>1, PlacedStays DEF CoreInv
  <2>13. \A u \in Streams \ {s} :
           streams[u] # None => object'[streams[u]] = object[streams[u]]
    BY <1>2, <2>2 DEF ManagedInv, Types, Objects, None
  <2> QED
    BY <1>1, <1>2, <1>3, <2>4, <2>9, <2>10, <2>11, <2>12, <2>13, OneStreamChanges
<1> QED
  BY <1>4, <1>5

\* The encoder takes the frame, and the thread is about to publish it.
LEMMA StepEncodeCore ==
  ASSUME ManagedInv, CoreInv, NEW t \in Steppers, NEW keep, NEW kind, StepEncode(t, keep, kind)
  PROVE  CoreInv'
<1>1. /\ stepper[t].pc = "encode" /\ AtWork(t)
      /\ UNCHANGED <<streams, made, group, producer, core>>
      /\ stepper' = [stepper EXCEPT ![t].pc = "publish"]
  BY DEF StepEncode, AtWork
<1>2. PICK n \in Objects, s \in Streams :
        /\ n = stepper[t].object /\ s = AtStream(t) /\ n # None
        /\ streams[s] = n /\ \A u \in Streams : streams[u] = n => u = s
  BY <1>1, PublishedObject
<1>3. ThreadInv(t) /\ StreamInv(s) /\ CoreShape(core[s]) /\ StepperShape(stepper[t])
      /\ ObjectShape(object[n])
  BY <1>2 DEF CoreInv, ManagedInv, Types
<1>4. /\ \A o \in Objects \ {n} : object'[o] = object[o]
      /\ object'[n].pending = object[n].pending
      /\ object'[n].encoded = stepper[t].frame
  BY <1>2, StepEncodeFacts
<1>5. object'[n].registered = object[n].registered /\ object'[n].missed = object[n].missed
  <2> DEFINE e == EnsurePipeline(object[n], stepper[t].gen)
             r == Encode(e, stepper[t].frame, keep, kind)
  <2>1. object'[n] = r
    BY <1>2 DEF StepEncode, ManagedInv, Types
  <2>2. ObjectShape(e) /\ e.registered = object[n].registered /\ e.missed = object[n].missed
    BY <1>3, EnsurePipelineShape, PipelineRegistered
  <2> HIDE DEF e
  <2>3. r.registered = e.registered /\ r.missed = e.missed
    BY <1>3, <2>2, EncodeShape, EncodeRegistered DEF StepperShape
  <2> HIDE DEF r
  <2> QED
    BY <2>1, <2>2, <2>3
<1>6. /\ \A u \in Steppers \ {t} : stepper'[u] = stepper[u]
      /\ stepper'[t].pc = "publish" /\ stepper'[t].frame = stepper[t].frame
      /\ stepper'[t].object = n
  <2>1. \A u \in Steppers \ {t} : stepper'[u] = stepper[u]
    BY <1>1 DEF ManagedInv, Types
  <2>2. stepper'[t] = [stepper[t] EXCEPT !.pc = "publish"]
    BY <1>1 DEF ManagedInv, Types
  <2> QED
    BY <1>2, <1>3, <2>1, <2>2 DEF StepperShape
<1>7. \A u \in Steppers : ThreadInv(u)'
  <2>1. ThreadInv(t)'
    BY <1>1, <1>2, <1>3, <1>4, <1>6 DEF ThreadInv, AtWork
  <2> QED
    BY <1>1, <1>2, <1>4, <1>6, <2>1, OthersStay
<1>8. InCore(s) => core[s].life = n
  BY <1>2, <1>3 DEF StreamInv, Bound
<1>9. Bound(s)' /\ CreditedOnce(s)'
  BY <1>1, <1>2, <1>3, <1>5 DEF StreamInv, Bound, CreditedOnce, Late, InCore
<1>10. Untouched(s)'
  BY <1>1, <1>2, <1>3, <1>4, <1>6 DEF StreamInv, Untouched, InCore
<1>11. Aligned(s)'
  BY <1>1, <1>6, <1>8 DEF Aligned, InCore
<1>12. Balanced(s)'
  <2>1. Holders(n)' = Holders(n)
    BY <1>1, <1>2, <1>3, <1>6 DEF Holders, ThreadInv
  <2>2. Waiting(n)' = Waiting(n) /\ Unnoted(s, n)' = Unnoted(s, n)
    BY <1>1, <1>4 DEF Waiting, Unnoted
  <2>3. object[n].missed + Unnoted(s, n)
          = Counts(core[s]) + Waiting(n) + Cardinality(Holders(n))
    BY <1>2, <1>3 DEF StreamInv, Balanced
  <2>4. Counts(core[s])' = Counts(core[s]) /\ streams'[s] = n
    BY <1>1, <1>2 DEF Counts
  <2>5. object'[n].missed + Unnoted(s, n)'
          = Counts(core[s])' + Waiting(n)' + Cardinality(Holders(n)')
    BY <1>5, <2>1, <2>2, <2>3, <2>4
  <2> QED
    BY <2>4, <2>5 DEF Balanced
<1>13. StreamInv(s)'
  BY <1>9, <1>10, <1>11, <1>12 DEF StreamInv
<1>14. core' = [core EXCEPT ![s] = core[s]]
  BY <1>1 DEF CoreInv
<1>15. \A u \in Steppers : \/ stepper'[u] = stepper[u]
                           \/ /\ stepper[u].object \in {None, streams[s]}
                              /\ stepper'[u].object \in {None, streams[s]}
  BY <1>2, <1>6
<1>16. Placed'
  <2>1. \A o \in Objects : object'[o].missed = object[o].missed
    BY <1>4, <1>5
  <2> QED
    BY <1>1, <2>1, PlacedStays DEF CoreInv
<1>17. \A u \in Streams \ {s} : streams[u] # None => object'[streams[u]] = object[streams[u]]
  BY <1>2, <1>4 DEF ManagedInv, Types, Objects, None
<1> QED
  BY <1>1, <1>2, <1>3, <1>7, <1>13, <1>14, <1>15, <1>16, <1>17, OneStreamChanges

-----------------------------------------------------------------------------
(* The API step, the initial states and the whole.                         *)

\* A unit arrives at a stream: none of the counters moves.
LEMMA ApiDeliverCore ==
  ASSUME ManagedInv, CoreInv, NEW a \in ApiThreads, ApiDeliver(a)
  PROVE  CoreInv'
<1>1. UNCHANGED <<streams, object, made, producer, stepper>>
  BY DEF ApiDeliver
<1> DEFINE u == Head(api[a].units)
           x == [origin |-> u.origin, seq |-> u.seq]
<1>2. core' = core \/ (InCore(u.stream) /\ core' = [core EXCEPT ![u.stream].unit = x])
  BY DEF ApiDeliver
<1> HIDE DEF x, u
<1>3. ASSUME NEW s \in Streams
      PROVE  /\ CoreShape(core'[s]) /\ core'[s].life = core[s].life
             /\ core'[s].latest = core[s].latest /\ core'[s].foreign = core[s].foreign
             /\ Counts(core'[s]) = Counts(core[s])
             /\ ~InCore(s) => core'[s] = core[s]
  <2>1. core'[s] = core[s] \/ (InCore(s) /\ core'[s] = [core[s] EXCEPT !.unit = x])
    BY <1>2 DEF CoreInv
  <2>2. CoreShape(core[s])
    BY DEF CoreInv
  <2>3. CASE core'[s] = core[s]
    BY <2>2, <2>3
  <2>4. CASE InCore(s) /\ core'[s] = [core[s] EXCEPT !.unit = x]
    <3>1. /\ CoreShape(core'[s]) /\ core'[s].life = core[s].life
          /\ core'[s].latest = core[s].latest /\ core'[s].foreign = core[s].foreign
          /\ core'[s].received = core[s].received
          /\ core'[s].transformed = core[s].transformed
          /\ core'[s].dropped = core[s].dropped
          /\ core'[s].rejected = core[s].rejected /\ core'[s].lost = core[s].lost
      BY <2>2, <2>4 DEF CoreShape
    <3>2. Counts(core'[s]) = Counts(core[s])
      BY <3>1 DEF Counts
    <3> QED
      BY <2>4, <3>1, <3>2
  <2> QED
    BY <2>1, <2>3, <2>4
<1>4. core' = [s \in Streams |-> core'[s]]
  BY <1>2 DEF CoreInv
<1>5. ASSUME NEW s \in Streams PROVE StreamInv(s)'
  <2>1. StreamInv(s) /\ (InCore(s)' <=> InCore(s))
    BY <1>3 DEF CoreInv, InCore
  <2>2. Bound(s)' /\ Untouched(s)' /\ CreditedOnce(s)'
    BY <1>1, <1>3, <2>1 DEF StreamInv, Bound, Untouched, CreditedOnce, Late
  <2>3. Aligned(s)'
    BY <1>1, <1>3, <2>1 DEF StreamInv, Aligned
  <2>4. \A o : Unnoted(s, o)' = Unnoted(s, o)
    BY <1>1 DEF Unnoted
  <2>5. Balanced(s)'
    BY <1>1, <1>3, <2>1, <2>4, SameBalance DEF StreamInv
  <2> QED
    BY <2>2, <2>3, <2>5 DEF StreamInv
<1>6. \A t \in Steppers : ThreadInv(t)'
  BY <1>1, ThreadsStay
<1>7. Placed'
  BY <1>1, PlacedStays DEF CoreInv
<1> QED
  BY <1>3, <1>4, <1>5, <1>6, <1>7 DEF CoreInv

LEMMA CoreInit ==
  ASSUME Init
  PROVE  CoreInv
<1>1. core = [s \in Streams |-> NotInCore] /\ \A s \in Streams : core[s] = NotInCore
  BY DEF Init
<1>2. /\ \A s \in Streams : producer[s].pc = "idle"
      /\ \A o \in Objects : object[o].pending = None /\ object[o].missed = 0
      /\ \A t \in Steppers : stepper[t] = IdleStepper
  BY DEF Init, NewObject
<1>3. /\ IdleStepper.pc = "idle" /\ IdleStepper.object = None /\ IdleStepper.frame = None
  BY DEF IdleStepper
<1>4. \A s \in Streams : streams[s] \in Objects
  <2>1. \A s \in Streams : streams[s] \in InitialObjects
    BY DEF Init
  <2>2. Cardinality(Streams) \in Nat
    BY ManagedAssumption, FS_CardinalityType DEF ManagedAssumption
  <2> QED
    BY <2>1, <2>2, ManagedAssumption DEF InitialObjects, Objects, ManagedAssumption
<1>5. ASSUME NEW s \in Streams PROVE StreamInv(s)
  <2>1. core[s] = NotInCore /\ NotInCore.life = None /\ Counts(NotInCore) = 0
        /\ NotInCore.foreign = 0
    BY <1>1, FreshCore
  <2>2. Bound(s) /\ Untouched(s) /\ Aligned(s)
    BY <1>2, <1>3, <1>4, <2>1 DEF Bound, Untouched, Aligned, InCore
  <2>3. CreditedOnce(s)
    BY <2>1 DEF CreditedOnce, Late
  <2>4. Balanced(s)
    <3>1. PICK o \in Objects : o = streams[s]
      BY <1>4
    <3>2. Holders(o) = {}
      BY <1>2, <1>3 DEF Holders
    <3>3. Cardinality(Holders(o)) = 0
      BY <3>2, FS_EmptySet
    <3>4. Unnoted(s, o) = 0 /\ Waiting(o) = 0 /\ object[o].missed = 0
      BY <1>2 DEF Unnoted, Waiting
    <3>5. object[o].missed + Unnoted(s, o)
            = Counts(core[s]) + Waiting(o) + Cardinality(Holders(o))
      BY <2>1, <3>3, <3>4
    <3> QED
      BY <3>1, <3>5 DEF Balanced
  <2> QED
    BY <2>2, <2>3, <2>4 DEF StreamInv
<1>6. ASSUME NEW t \in Steppers PROVE ThreadInv(t)
  BY <1>2, <1>3 DEF ThreadInv, AtWork
<1>7. \A s \in Streams : CoreShape(core[s])
  BY <1>1, FreshCore
<1>8. Placed
  BY <1>2 DEF Placed
<1> QED
  BY <1>1, <1>5, <1>6, <1>7, <1>8 DEF CoreInv

LEMMA OwnerStepCore ==
  ASSUME ManagedInv, CoreInv, OwnerStep
  PROVE  CoreInv'
<1>1. CASE \E opened \in BOOLEAN : Start(opened)
  BY <1>1, StartCore
<1>2. CASE UnwindStart \/ StopBegin \/ DestroyBegin \/ DestroyDrained
  <2>1. UNCHANGED <<streams, core, producer, object, made, stepper>>
    BY <1>2 DEF UnwindStart, StopBegin, DestroyBegin, DestroyDrained
  <2> QED
    BY <2>1, SameFrames, QuietCore
<1>3. CASE StopFinish
  BY <1>3, StopFinishCore
<1>4. CASE \E s \in Streams : RegisterStream(s) \/ RemoveStream(s)
  BY <1>4, RegisterStreamCore, RemoveStreamCore
<1>5. CASE \E h \in Handles : \E list \in GroupLists : RegisterStreams(h, list)
  BY <1>5, RegisterStreamsCore
<1>6. CASE \E h \in Handles : ReleaseStreamGroup(h)
  BY <1>6, ReleaseStreamGroupCore
<1>7. CASE \E s \in Streams : \E interval \in {0, 2} : SetOutputConfig(s, interval)
  BY <1>7, SetOutputConfigCore
<1> QED
  BY <1>1, <1>2, <1>3, <1>4, <1>5, <1>6, <1>7 DEF OwnerStep

LEMMA StepperStepCore ==
  ASSUME ManagedInv, CoreInv, NEW t \in Steppers,
         (\E h \in Handles : StepBegin(t, h)) \/ StepperStep(t)
  PROVE  CoreInv'
<1>1. CASE StepEnter(t) \/ StepLeave(t) \/ \E h \in Handles : StepBegin(t, h)
  BY <1>1, GateCore
<1>2. CASE StepLookup(t) \/ StepTake(t) \/ StepTransformFails(t)
  BY <1>2, StepLookupCore, StepTakeCore, StepTransformFailsCore
<1>3. CASE \E keep \in 0..EncoderDelay, kind \in LaterKinds : StepEncode(t, keep, kind)
  BY <1>3, StepEncodeCore
<1>4. CASE StepPipelineFails(t) \/ StepEncodeFails(t) \/ StepPublish(t)
  BY <1>4, StepPipelineFailsCore, StepEncodeFailsCore, StepPublishCore
<1> QED
  BY <1>1, <1>2, <1>3, <1>4 DEF StepperStep

LEMMA ApiTurnCore ==
  ASSUME ManagedInv, CoreInv, NEW a \in ApiThreads, ApiTurn(a)
  PROVE  CoreInv'
<1>1. CASE \/ ApiBegin(a) \/ ApiAccept(a)
           \/ \E ok \in PumpResults : ApiPump(a, ok) \/ ApiServed(a, ok)
  <2>1. UNCHANGED <<streams, core, producer, object, made, stepper>>
    BY <1>1 DEF ApiBegin, ApiPump, ApiAccept, ApiServed
  <2> QED
    BY <2>1, SameFrames, QuietCore
<1>2. CASE \E s \in Streams, o \in Objects : ApiDrain(a, s, o)
  BY <1>2, ApiDrainCore
<1>3. CASE ApiDeliver(a)
  BY <1>3, ApiDeliverCore
<1> QED
  BY <1>1, <1>2, <1>3 DEF ApiTurn, ApiStep

LEMMA CoreInductive ==
  ASSUME ManagedInv, CoreInv, [Next]_vars
  PROVE  CoreInv'
<1>1. CASE OwnerStep
  BY <1>1, OwnerStepCore
<1>2. CASE \E s \in Sources : PushValidate(s) \/ PushReject(s) \/ PushLatch(s) \/ PushNote(s)
  BY <1>2, ManagedAssumption, PushValidateCore, PushRejectCore, PushLatchCore, PushNoteCore
     DEF ManagedAssumption
<1>3. CASE \E t \in Steppers : (\E h \in Handles : StepBegin(t, h)) \/ StepperStep(t)
  BY <1>3, StepperStepCore
<1>4. CASE \E a \in ApiThreads : ApiTurn(a)
  BY <1>4, ApiTurnCore
<1>5. CASE ApiExit \/ UNCHANGED vars
  <2>1. UNCHANGED <<streams, core, producer, object, made, stepper>>
    BY <1>5 DEF ApiExit, vars
  <2> QED
    BY <2>1, SameFrames, QuietCore
<1> QED
  BY <1>1, <1>2, <1>3, <1>4, <1>5 DEF Next

LEMMA CoreInvariant == Spec => []CoreInv
<1>1. Init => CoreInv
  BY CoreInit
<1>2. ManagedInv /\ CoreInv /\ [Next]_vars => CoreInv'
  BY CoreInductive
<1> QED
  BY <1>1, <1>2, ManagedInvariant, PTL DEF Spec

\* push_frame, process_stream and their counters: for any number of streams and
\* threads, and for every registration of a stream, the first one or a later one, each
\* latched frame is transformed, dropped, lost, pending or in a step, and is so once;
\* `received` counts it, or the push was overtaken by a removal, and it counts at most
\* one frame that an earlier registration had latched.
THEOREM EveryFrameAccounted == Spec => []FramesAccounted
<1>1. ASSUME ManagedInv, CoreInv PROVE FramesAccounted
  <2>1. SUFFICES ASSUME NEW s \in Streams, InCore(s)
                 PROVE  LET c == core[s]
                            o == core[s].life
                        IN  /\ c.received - c.foreign + object[o].missed + Unnoted(s, o)
                                 = c.transformed + (c.dropped - c.rejected) + c.lost
                                     + Waiting(o) + InStep(o)
                            /\ c.foreign <= 1
    BY DEF FramesAccounted
  <2>2. CoreShape(core[s]) /\ StreamInv(s)
    BY <1>1 DEF CoreInv
  <2>3. PICK o \in Objects : o = core[s].life /\ o = streams[s] /\ o # None
    BY <1>1, <2>1, <2>2 DEF StreamInv, Bound, InCore, ManagedInv, Types, Objects, None
  <2>4. /\ object[o].missed \in Nat /\ Unnoted(s, o) \in {0, 1} /\ Waiting(o) \in {0, 1}
        /\ InStep(o) = Cardinality(Holders(o)) /\ Cardinality(Holders(o)) \in Nat
        /\ Late(s) \in {0, 1}
    BY <1>1, HoldersFinite
       DEF ManagedInv, Types, ObjectShape, Unnoted, Waiting, InStep, Holders, Late
  <2>5. object[o].missed + Unnoted(s, o)
          = Counts(core[s]) + Waiting(o) + Cardinality(Holders(o))
    BY <2>2, <2>3 DEF StreamInv, Balanced
  <2>6. core[s].received - core[s].foreign + object[o].missed + Unnoted(s, o)
          = core[s].transformed + (core[s].dropped - core[s].rejected) + core[s].lost
              + Waiting(o) + InStep(o)
    BY <2>2, <2>4, <2>5 DEF Counts, CoreShape
  <2>7. core[s].foreign <= 1
    BY <2>2, <2>4 DEF StreamInv, CreditedOnce, CoreShape
  <2> QED
    BY <2>3, <2>6, <2>7
<1> QED
  BY <1>1, ManagedInvariant, CoreInvariant, PTL

\* publish_transformed_frame after push_frame of the pipeline: between two steps the
\* latest frame shown is the one the encoder took last.
THEOREM SnapshotIsEncoded == Spec => []SnapshotMatchesEncoder
<1>1. CoreInv => SnapshotMatchesEncoder
  BY DEF CoreInv, StreamInv, Aligned, SnapshotMatchesEncoder
<1> QED
  BY <1>1, CoreInvariant, PTL

-----------------------------------------------------------------------------
(* Induction over the natural numbers, with the property written as a set. *)

LEMMA Least ==
  ASSUME NEW T, T \subseteq Nat, T # {}
  PROVE  \E x \in T : \A y \in T : ~(y < x)
<1>1. IsWellFoundedOn(OpToRel(<, Nat), Nat)
  BY NatLessThanWellFounded
<1>2. \E x \in T : \A y \in T : ~(<<y, x>> \in OpToRel(<, Nat))
  BY <1>1, WFMin
<1> QED
  BY <1>2 DEF OpToRel

LEMMA Induction ==
  ASSUME NEW S, 0 \in S, \A n \in Nat : n \in S => n + 1 \in S
  PROVE  Nat \subseteq S
<1> DEFINE T == {n \in Nat : n \notin S}
<1>1. SUFFICES ASSUME T # {} PROVE FALSE
  OBVIOUS
<1>2. PICK x \in T : \A y \in T : ~(y < x)
  BY <1>1, Least
<1>3. x # 0 /\ x \in Nat
  BY <1>2
<1>4. x - 1 \in Nat /\ x - 1 \in S
  BY <1>2, <1>3
<1> QED
  BY <1>3, <1>4

-----------------------------------------------------------------------------
(* What the sink's pushes, one after the other, make of a handoff.         *)

Fold(h, units, m, f) ==
  f = [n \in 0..m |-> IF n = 0 THEN h ELSE AfterPush(f[n - 1], units[n])]

\* The recursion of Handed defines a function.
LEMMA FoldExists ==
  ASSUME NEW h, NEW units, NEW m \in Nat
  PROVE  \E f : Fold(h, units, m, f)
<1> DEFINE S == {k \in Nat : \E f : Fold(h, units, k, f)}
<1>1. 0 \in S
  <2>1. Fold(h, units, 0, [n \in {0} |-> h])
    BY DEF Fold
  <2> QED
    BY <2>1
<1>2. ASSUME NEW k \in Nat, k \in S PROVE k + 1 \in S
  <2>1. PICK f : Fold(h, units, k, f)
    BY <1>2
  <2> DEFINE g == [n \in 0..(k + 1) |->
                    IF n = k + 1 THEN AfterPush(f[k], units[k + 1]) ELSE f[n]]
  <2>2. \A n \in 0..k : f[n] = IF n = 0 THEN h ELSE AfterPush(f[n - 1], units[n])
    BY <2>1 DEF Fold
  <2>3. ASSUME NEW n \in 0..(k + 1)
        PROVE  g[n] = IF n = 0 THEN h ELSE AfterPush(g[n - 1], units[n])
    <3>1. CASE n = k + 1
      BY <3>1
    <3>2. CASE n # k + 1
      <4>1. n \in 0..k /\ (n # 0 => n - 1 \in 0..(k + 1) /\ n - 1 # k + 1)
        BY <3>2
      <4>2. g[n] = f[n] /\ (n # 0 => g[n - 1] = f[n - 1])
        BY <3>2, <4>1
      <4> HIDE DEF g
      <4> QED
        BY <2>2, <4>1, <4>2
    <3> QED
      BY <3>1, <3>2
  <2>4. Fold(h, units, k + 1, g)
    <3>1. g = [n \in 0..(k + 1) |-> g[n]]
      OBVIOUS
    <3> HIDE DEF g
    <3> QED
      BY <2>3, <3>1 DEF Fold
  <2> HIDE DEF g
  <2> QED
    BY <2>4
<1> HIDE DEF S
<1>3. Nat \subseteq S
  BY <1>1, <1>2, Induction
<1> QED
  BY <1>3 DEF S

LEMMA HandedFold ==
  ASSUME NEW h, NEW units, Len(units) \in Nat
  PROVE  \E f : Fold(h, units, Len(units), f) /\ Handed(h, units) = f[Len(units)]
<1> DEFINE f == CHOOSE g : Fold(h, units, Len(units), g)
<1>1. Fold(h, units, Len(units), f)
  BY FoldExists
<1>2. Handed(h, units) = f[Len(units)]
  BY DEF Handed, Fold
<1> HIDE DEF f
<1> QED
  BY <1>1, <1>2

-----------------------------------------------------------------------------
(* Units on their way: encoded frames rise in a handoff's backlog and in   *)
(* an encoder.                                                             *)

\* Units above lo and up to hi, each newer than the one before it.
RisingUnits(b, lo, hi) ==
  /\ b \in Seq(Unit)
  /\ \A i \in 1..Len(b) : lo < b[i].seq /\ b[i].seq <= hi
  /\ \A i, j \in 1..Len(b) : i < j => b[i].seq < b[j].seq
\* The same of the frames inside an encoder.
RisingFrames(q, lo, hi) ==
  /\ q \in Seq(Nat)
  /\ \A i \in 1..Len(q) : lo < q[i] /\ q[i] <= hi
  /\ \A i, j \in 1..Len(q) : i < j => q[i] < q[j]
HandoffLine(h, lo, hi) ==
  /\ h \in Handoff /\ h.config = <<>> /\ RisingUnits(h.backlog, lo, hi)

LEMMA PositiveCapacity == Capacity \in Nat \ {0}
BY MaxUnitsAssumption DEF Capacity

LEMMA UnitsOf ==
  ASSUME NEW b, NEW lo, NEW hi, RisingUnits(b, lo, hi)
  PROVE  /\ b \in Seq(Unit) /\ Len(b) \in Nat
         /\ \A i \in 1..Len(b) : b[i] \in Unit /\ b[i].seq \in Nat
<1>1. b \in Seq(Unit) /\ Len(b) \in Nat /\ \A i \in 1..Len(b) : b[i] \in Unit
  BY DEF RisingUnits
<1> QED
  BY <1>1 DEF Unit

\* Some units of a rising sequence, in their order.
LEMMA RisingPart ==
  ASSUME NEW b, NEW lo, NEW hi, RisingUnits(b, lo, hi), NEW c \in Seq(Unit),
         NEW p \in [1..Len(c) -> 1..Len(b)],
         \A i \in 1..Len(c) : c[i] = b[p[i]],
         \A i, j \in 1..Len(c) : i < j => p[i] < p[j]
  PROVE  RisingUnits(c, lo, hi)
<1>1. \A i \in 1..Len(c) : p[i] \in 1..Len(b)
  OBVIOUS
<1> QED
  BY <1>1 DEF RisingUnits

LEMMA InFront ==
  ASSUME NEW x \in Unit, NEW q \in Seq(Unit)
  PROVE  /\ <<x>> \o q \in Seq(Unit) /\ Len(<<x>> \o q) = Len(q) + 1
         /\ \A i \in 1..(Len(q) + 1) : (<<x>> \o q)[i] = IF i = 1 THEN x ELSE q[i - 1]
OBVIOUS

LEMMA LineAgain ==
  ASSUME NEW h \in Handoff, h.config = <<>>, NEW lo, NEW hi, NEW b, RisingUnits(b, lo, hi),
         NEW d \in Nat, NEW g,
         g = [h EXCEPT !.backlog = b] \/ g = [h EXCEPT !.backlog = b, !.dropped = d]
  PROVE  HandoffLine(g, lo, hi)
<1>1. b \in Seq(Unit)
  BY DEF RisingUnits
<1>2. g \in Handoff /\ g.config = <<>> /\ g.backlog = b
  BY <1>1 DEF Handoff
<1> QED
  BY <1>2 DEF HandoffLine

\* What MakeRoom leaves of a full backlog: its end, and a keyframe in front.
LEMMA RoomLine ==
  ASSUME NEW h, NEW lo \in Nat, NEW hi \in Nat, HandoffLine(h, lo, hi),
         Len(h.backlog) >= Capacity
  PROVE  HandoffLine(MakeRoom(h), lo, hi)
<1> DEFINE b == h.backlog
           n == Len(b)
           e == n - Capacity + 1
           key == <<b[1]>> \o SubSeq(b, e + 2, n)
           end == SubSeq(b, e + 1, n)
           d == h.dropped + e
<1>0. h \in Handoff /\ h.config = <<>> /\ h.dropped \in Nat
  BY DEF HandoffLine, Handoff
<1>1. /\ h.dropped \in Nat
      /\ b \in Seq(Unit) /\ n \in Nat /\ Capacity \in Nat \ {0} /\ n >= Capacity
      /\ \A i \in 1..n : lo < b[i].seq /\ b[i].seq <= hi
      /\ \A i, j \in 1..n : i < j => b[i].seq < b[j].seq
  BY <1>0, PositiveCapacity DEF HandoffLine, RisingUnits
<1>2. e \in Nat /\ e >= 1 /\ e <= n /\ d \in Nat
  BY <1>1
<1>3. MakeRoom(h) = IF b[1].kind = "key"
                    THEN [h EXCEPT !.backlog = key, !.dropped = d]
                    ELSE [h EXCEPT !.backlog = end, !.dropped = d]
  BY DEF MakeRoom
<1>4. RisingUnits(end, lo, hi)
  <2> DEFINE p == [i \in 1..(n - e) |-> i + e]
  <2>1. end \in Seq(Unit) /\ Len(end) = n - e /\ \A i \in 1..(n - e) : end[i] = b[i + e]
    BY <1>1, <1>2
  <2>2. /\ p \in [1..(n - e) -> 1..n] /\ \A i \in 1..(n - e) : p[i] = i + e
        /\ \A i, j \in 1..(n - e) : i < j => p[i] < p[j]
    BY <1>1, <1>2
  <2>3. RisingUnits(b, lo, hi)
    BY DEF HandoffLine
  <2> HIDE DEF p, end, e, n, b
  <2>4. p \in [1..Len(end) -> 1..Len(b)]
    BY <2>1, <2>2 DEF n
  <2> QED
    BY <2>1, <2>2, <2>3, <2>4, RisingPart
<1>5. RisingUnits(key, lo, hi)
  <2> DEFINE rest == SubSeq(b, e + 2, n)
             len == IF e + 2 <= n THEN n - e - 1 ELSE 0
             p == [i \in 1..(len + 1) |-> IF i = 1 THEN 1 ELSE i + e]
  <2>1. rest \in Seq(Unit) /\ Len(rest) = len /\ \A i \in 1..len : rest[i] = b[i + e + 1]
    BY <1>1, <1>2
  <2>2. b[1] \in Unit /\ key = <<b[1]>> \o rest
    BY <1>1, <1>2
  <2>3. len \in Nat /\ \A i \in 2..(len + 1) : i + e \in 1..n /\ i - 1 \in 1..len
    BY <1>1, <1>2
  <2>4. /\ p \in [1..(len + 1) -> 1..n]
        /\ \A i, j \in 1..(len + 1) : i < j => p[i] < p[j]
    <3>1. n \in Nat /\ n >= 1 /\ e \in Nat /\ len \in Nat
      BY <1>1, <1>2, <2>3
    <3> HIDE DEF n, e, len
    <3>2. \A i \in 1..(len + 1) : i = 1 \/ i \in 2..(len + 1)
      BY <3>1
    <3>3. \A i \in 1..(len + 1) : (IF i = 1 THEN 1 ELSE i + e) \in 1..n
      BY <2>3, <3>1, <3>2
    <3>4. \A i, j \in 1..(len + 1) : i < j =>
            (IF i = 1 THEN 1 ELSE i + e) < (IF j = 1 THEN 1 ELSE j + e)
      BY <1>2, <3>1
    <3> QED
      BY <3>3, <3>4
  <2>5. \A i \in 1..(len + 1) : p[i] = IF i = 1 THEN 1 ELSE i + e
    OBVIOUS
  <2> HIDE DEF rest, len, p, key, e, n
  <2>6. ASSUME NEW i \in 1..(len + 1)
        PROVE  (IF i = 1 THEN b[1] ELSE rest[i - 1]) = b[p[i]]
    <3>1. CASE i = 1
      BY <2>5, <3>1
    <3>2. CASE i # 1
      <4>1. i - 1 \in 1..len
        BY <2>3, <3>2
      <4>2. (i - 1) + e + 1 = i + e
        BY <1>2, <2>3
      <4> QED
        BY <2>1, <2>5, <3>2, <4>1, <4>2
    <3> QED
      BY <3>1, <3>2
  <2>7. /\ key \in Seq(Unit) /\ Len(key) = len + 1
        /\ \A i \in 1..(len + 1) : key[i] = b[p[i]]
    BY <2>1, <2>2, <2>6, InFront
  <2>8. RisingUnits(b, lo, hi)
    BY DEF HandoffLine
  <2> HIDE DEF b
  <2>9. p \in [1..Len(key) -> 1..Len(b)]
    BY <2>4, <2>7 DEF n
  <2> QED
    BY <2>4, <2>7, <2>8, <2>9, RisingPart
<1> HIDE DEF key, end, d
<1> QED
  BY <1>0, <1>2, <1>3, <1>4, <1>5, LineAgain

\* A unit newer than all before it.
LEMMA PushLine ==
  ASSUME NEW h, NEW lo \in Nat, NEW hi \in Nat, HandoffLine(h, lo, hi), lo <= hi,
         NEW u \in Unit, u.kind # "config", hi < u.seq
  PROVE  HandoffLine(AfterPush(h, u), lo, u.seq)
<1>1. /\ h \in Handoff /\ h.config = <<>> /\ h.dropped \in Nat
      /\ RisingUnits(h.backlog, lo, hi) /\ u.seq \in Nat /\ lo < u.seq
  BY DEF HandoffLine, Handoff, Unit
<1>2. ASSUME NEW g, HandoffLine(g, lo, hi)
      PROVE  HandoffLine([g EXCEPT !.backlog = Append(@, u)], lo, u.seq)
  <2> DEFINE b == g.backlog
             c == Append(b, u)
  <2>1. /\ g \in Handoff /\ g.config = <<>> /\ g.dropped \in Nat
        /\ b \in Seq(Unit) /\ Len(b) \in Nat
        /\ \A i \in 1..Len(b) : lo < b[i].seq /\ b[i].seq <= hi
        /\ \A i, j \in 1..Len(b) : i < j => b[i].seq < b[j].seq
        /\ \A i \in 1..Len(b) : b[i].seq \in Nat
    BY <1>2, UnitsOf DEF HandoffLine, Handoff, RisingUnits
  <2>2. /\ c \in Seq(Unit) /\ Len(c) = Len(b) + 1 /\ c[Len(b) + 1] = u
        /\ \A i \in 1..Len(b) : c[i] = b[i]
    BY <2>1
  <2> HIDE DEF b, c
  <2>3. RisingUnits(c, lo, u.seq)
    <3>1. \A i \in 1..Len(c) : i \in 1..Len(b) \/ i = Len(b) + 1
      BY <2>1, <2>2
    <3>2. \A i \in 1..Len(c) : lo < c[i].seq /\ c[i].seq <= u.seq
      BY <1>1, <2>1, <2>2, <3>1
    <3>3. ASSUME NEW i \in 1..Len(c), NEW j \in 1..Len(c), i < j PROVE c[i].seq < c[j].seq
      <4>1. i \in 1..Len(b)
        BY <2>1, <2>2, <3>3
      <4>2. CASE j \in 1..Len(b)
        BY <2>1, <2>2, <3>3, <4>1, <4>2
      <4>3. CASE j = Len(b) + 1
        BY <1>1, <2>1, <2>2, <4>1, <4>3
      <4> QED
        BY <3>1, <4>2, <4>3
    <3> QED
      BY <2>2, <3>2, <3>3 DEF RisingUnits
  <2>4. [g EXCEPT !.backlog = Append(@, u)] = [g EXCEPT !.backlog = c]
    BY DEF c, b
  <2> QED
    BY <2>1, <2>3, <2>4, LineAgain
<1>3. CASE u.kind = "key"
  <2> DEFINE d == h.dropped + Len(h.backlog)
  <2>1. AfterPush(h, u) = [h EXCEPT !.backlog = <<u>>, !.dropped = d]
    BY <1>3 DEF AfterPush, PushKeyframe
  <2>2. d \in Nat
    BY <1>1 DEF RisingUnits
  <2>3. RisingUnits(<<u>>, lo, u.seq)
    BY <1>1 DEF RisingUnits
  <2> HIDE DEF d
  <2> QED
    BY <1>1, <2>1, <2>2, <2>3, LineAgain
<1>4. CASE u.kind # "key"
  <2>1. AfterPush(h, u) = PushDelta(h, u)
    BY <1>4 DEF AfterPush
  <2>2. CASE Len(h.backlog) < Capacity
    BY <1>2, <2>1, <2>2 DEF PushDelta
  <2>3. CASE ~(Len(h.backlog) < Capacity) /\ KeyframeFillsCapacity(h)
    <3> DEFINE d == h.dropped + Len(h.backlog)
               f == h.backlog[1]
    <3>1. AfterPush(h, u) = [h EXCEPT !.backlog = <<f>>, !.dropped = d]
      BY <2>1, <2>3 DEF PushDelta
    <3>2. /\ d \in Nat /\ h.backlog \in Seq(Unit)
          /\ Len(h.backlog) \in Nat /\ Len(h.backlog) >= 1
      BY <1>1, <2>3, PositiveCapacity DEF RisingUnits
    <3>3. f \in Unit /\ lo < f.seq /\ f.seq <= hi /\ f.seq \in Nat
      <4>1. 1 \in 1..Len(h.backlog)
        BY <3>2
      <4> QED
        BY <1>1, <4>1, UnitsOf DEF RisingUnits
    <3> HIDE DEF d, f
    <3>4. RisingUnits(<<f>>, lo, u.seq)
      BY <1>1, <3>3 DEF RisingUnits
    <3> QED
      BY <1>1, <3>1, <3>2, <3>4, LineAgain
  <2>4. CASE ~(Len(h.backlog) < Capacity) /\ ~KeyframeFillsCapacity(h)
    <3> DEFINE g == MakeRoom(h)
    <3>1. AfterPush(h, u) = [g EXCEPT !.backlog = Append(@, u)]
      BY <2>1, <2>4 DEF PushDelta
    <3>2. Len(h.backlog) >= Capacity
      BY <1>1, <2>4, PositiveCapacity DEF RisingUnits
    <3>3. HandoffLine(g, lo, hi)
      BY <3>2, RoomLine
    <3> HIDE DEF g
    <3> QED
      BY <1>2, <3>1, <3>3
  <2> QED
    BY <2>2, <2>3, <2>4
<1> QED
  BY <1>3, <1>4

\* One push after the other.
LEMMA HandedLine ==
  ASSUME NEW h, NEW lo \in Nat, NEW hi \in Nat, HandoffLine(h, lo, hi), lo <= hi,
         NEW units, NEW top \in Nat, RisingUnits(units, hi, top),
         \A i \in 1..Len(units) : units[i].kind # "config"
  PROVE  HandoffLine(Handed(h, units), lo,
                     IF Len(units) = 0 THEN hi ELSE units[Len(units)].seq)
<1>1. /\ units \in Seq(Unit) /\ Len(units) \in Nat
      /\ \A i \in 1..Len(units) :
           units[i] \in Unit /\ units[i].seq \in Nat /\ hi < units[i].seq
      /\ \A i, j \in 1..Len(units) : i < j => units[i].seq < units[j].seq
  BY UnitsOf DEF RisingUnits
<1>2. PICK f : Fold(h, units, Len(units), f) /\ Handed(h, units) = f[Len(units)]
  BY <1>1, HandedFold
<1>3. /\ f[0] = h
      /\ \A n \in 1..Len(units) : f[n] = AfterPush(f[n - 1], units[n])
  BY <1>1, <1>2 DEF Fold
<1> DEFINE last(n) == IF n = 0 THEN hi ELSE units[n].seq
           S == {n \in Nat : n <= Len(units) => HandoffLine(f[n], lo, last(n))}
<1>4. 0 \in S
  BY <1>3
<1>5. ASSUME NEW n \in Nat, n \in S PROVE n + 1 \in S
  <2>1. SUFFICES ASSUME n + 1 <= Len(units)
                 PROVE  HandoffLine(f[n + 1], lo, last(n + 1))
    OBVIOUS
  <2>2. n + 1 \in 1..Len(units) /\ n <= Len(units) /\ (n + 1) - 1 = n /\ n + 1 # 0
    BY <1>1, <2>1
  <2>3. HandoffLine(f[n], lo, last(n))
    BY <1>5, <2>2
  <2>4. last(n) \in Nat /\ lo <= last(n) /\ last(n) < units[n + 1].seq
    <3>1. CASE n = 0
      BY <1>1, <2>2, <3>1
    <3>2. CASE n # 0
      <4>1. n \in 1..Len(units) /\ n < n + 1
        BY <2>2, <3>2
      <4> QED
        BY <1>1, <2>2, <3>2, <4>1
    <3> QED
      BY <3>1, <3>2
  <2>5. last(n + 1) = units[n + 1].seq
    BY <2>2
  <2> HIDE DEF last
  <2>6. units[n + 1] \in Unit /\ units[n + 1].kind # "config"
    BY <1>1, <2>2
  <2>7. HandoffLine(AfterPush(f[n], units[n + 1]), lo, units[n + 1].seq)
    BY <2>3, <2>4, <2>6, PushLine
  <2>8. f[n + 1] = AfterPush(f[n], units[n + 1])
    BY <1>3, <2>2
  <2> QED
    BY <2>5, <2>7, <2>8
<1> HIDE DEF S
<1>6. Nat \subseteq S
  BY <1>4, <1>5, Induction
<1>7. Len(units) \in S
  BY <1>1, <1>6
<1> QED
  BY <1>1, <1>2, <1>7 DEF S

-----------------------------------------------------------------------------
(* What the pipeline's operators make of an object.                        *)

\* The backlog holds units above lo and up to m, the encoder frames above m.
Lined(r, lo, m) ==
  /\ HandoffLine(r.handoff, lo, m) /\ lo <= m /\ m <= r.encoded
  /\ RisingFrames(r.pipeline.held, m, r.encoded)

LastOf(q, m) == IF Len(q) = 0 THEN m ELSE q[Len(q)]

LEMMA EmitLine ==
  ASSUME NEW r, ObjectShape(r), NEW lo \in Nat, NEW m \in Nat, HandoffLine(r.handoff, lo, m),
         lo <= m, NEW top \in Nat, NEW frames, RisingFrames(frames, m, top),
         NEW kind \in {"key", "delta"}
  PROVE  /\ HandoffLine(Emit(r, frames, kind).handoff, lo, LastOf(frames, m))
         /\ Emit(r, frames, kind).pipeline.held = r.pipeline.held
<1> DEFINE units == Units(r, frames, kind)
           fresh == r.pipeline.fresh /\ frames = <<>>
<1>1. Emit(r, frames, kind) = [r EXCEPT !.handoff = Handed(r.handoff, units),
                                        !.pipeline.fresh = fresh]
  BY DEF Emit
<1>2. /\ frames \in Seq(Nat) /\ Len(frames) \in Nat /\ DOMAIN frames = 1..Len(frames)
      /\ \A i \in 1..Len(frames) : frames[i] \in Nat
  BY DEF RisingFrames
<1>3. /\ units = [i \in 1..Len(frames) |-> units[i]]
      /\ \A i \in 1..Len(frames) : /\ units[i] \in Unit /\ units[i].seq = frames[i]
                                   /\ units[i].kind # "config"
  BY <1>2 DEF Units, Unit, Kind
<1> HIDE DEF units, fresh
<1>4. units \in Seq(Unit) /\ Len(units) = Len(frames)
  BY <1>2, <1>3
<1>5. RisingUnits(units, m, top)
  BY <1>3, <1>4 DEF RisingUnits, RisingFrames
<1>6. HandoffLine(Handed(r.handoff, units), lo,
                  IF Len(units) = 0 THEN m ELSE units[Len(units)].seq)
  BY <1>3, <1>4, <1>5, HandedLine
<1>7. (IF Len(units) = 0 THEN m ELSE units[Len(units)].seq) = LastOf(frames, m)
  BY <1>2, <1>3, <1>4 DEF LastOf
<1>8. HandoffLine(Handed(r.handoff, units), lo, LastOf(frames, m))
  BY <1>6, <1>7
<1>9. /\ Emit(r, frames, kind).handoff = Handed(r.handoff, units)
      /\ Emit(r, frames, kind).pipeline.held = r.pipeline.held
  BY <1>1 DEF ObjectShape, PipelineShape
<1> QED
  BY <1>8, <1>9

LEMMA LastBetween ==
  ASSUME NEW q, NEW m \in Nat, NEW hi \in Nat, m <= hi, RisingFrames(q, m, hi)
  PROVE  LastOf(q, m) \in Nat /\ m <= LastOf(q, m) /\ LastOf(q, m) <= hi
<1>1. q \in Seq(Nat) /\ Len(q) \in Nat
  BY DEF RisingFrames
<1>2. CASE Len(q) = 0
  BY <1>2 DEF LastOf
<1>3. CASE Len(q) # 0
  <2>1. Len(q) \in 1..Len(q)
    BY <1>1, <1>3
  <2>2. q[Len(q)] \in Nat /\ m < q[Len(q)] /\ q[Len(q)] <= hi
    BY <1>1, <2>1 DEF RisingFrames
  <2> QED
    BY <1>3, <2>2 DEF LastOf
<1> QED
  BY <1>2, <1>3

LEMMA StopLine ==
  ASSUME NEW r, ObjectShape(r), NEW lo \in Nat, NEW m \in Nat, Lined(r, lo, m)
  PROVE  \E k \in Nat : Lined(StopPipeline(r), lo, k)
<1> DEFINE f == IF r.pipeline.state = "running" THEN Emit(r, r.pipeline.held, "delta") ELSE r
           k == IF r.pipeline.state = "running" THEN LastOf(r.pipeline.held, m) ELSE m
           q == StopPipeline(r)
<1>1. r.encoded \in Nat
  BY DEF ObjectShape
<1>2. /\ ObjectShape(f) /\ f.encoded = r.encoded /\ HandoffLine(f.handoff, lo, k)
      /\ k \in Nat /\ lo <= k /\ k <= r.encoded
  <2>1. CASE r.pipeline.state = "running"
    <3>1. HandoffLine(Emit(r, r.pipeline.held, "delta").handoff, lo, k)
      BY <1>1, <2>1, EmitLine DEF Lined
    <3>2. k \in Nat /\ m <= k /\ k <= r.encoded /\ lo <= m
      BY <1>1, <2>1, LastBetween DEF Lined
    <3> HIDE DEF k
    <3>3. lo <= k
      BY <3>2
    <3> QED
      BY <2>1, <3>1, <3>2, <3>3, EmitShape
  <2>2. CASE r.pipeline.state # "running"
    BY <2>2 DEF Lined
  <2> QED
    BY <2>1, <2>2
<1>3. q = [f EXCEPT !.pipeline = NoPipeline]
  BY DEF StopPipeline
<1> HIDE DEF f, k
<1>4. q.handoff = f.handoff /\ q.encoded = f.encoded /\ q.pipeline.held = <<>>
  BY <1>2, <1>3 DEF ObjectShape, NoPipeline
<1>5. RisingFrames(<<>>, k, r.encoded)
  BY DEF RisingFrames
<1> HIDE DEF q
<1>6. Lined(q, lo, k)
  BY <1>2, <1>4, <1>5 DEF Lined
<1> QED
  BY <1>2, <1>6 DEF q

LEMMA EnsureLine ==
  ASSUME NEW r, ObjectShape(r), NEW lo \in Nat, NEW m \in Nat, Lined(r, lo, m), NEW gen
  PROVE  \E k \in Nat : Lined(EnsurePipeline(r, gen), lo, k)
<1> DEFINE q == StopPipeline(r)
           e == EnsurePipeline(r, gen)
<1>1. PICK k \in Nat : Lined(q, lo, k)
  BY StopLine
<1>2. ObjectShape(q)
  BY StopPipelineShape
<1>3. e = r \/ e = [q EXCEPT !.pipeline = NewPipeline(gen)]
  BY DEF EnsurePipeline
<1> HIDE DEF q, e
<1>4. CASE e = r
  BY <1>4 DEF e
<1>5. CASE e = [q EXCEPT !.pipeline = NewPipeline(gen)]
  <2>1. e.handoff = q.handoff /\ e.encoded = q.encoded /\ e.pipeline.held = <<>>
    BY <1>2, <1>5 DEF ObjectShape, NewPipeline
  <2>2. RisingFrames(<<>>, k, q.encoded)
    BY DEF RisingFrames
  <2>3. Lined(e, lo, k)
    BY <1>1, <2>1, <2>2 DEF Lined
  <2> QED
    BY <2>3 DEF e
<1> QED
  BY <1>3, <1>4, <1>5

LEMMA FramesOf ==
  ASSUME NEW q, NEW lo, NEW hi, RisingFrames(q, lo, hi)
  PROVE  /\ q \in Seq(Nat) /\ Len(q) \in Nat
         /\ \A i \in 1..Len(q) : q[i] \in Nat /\ lo < q[i] /\ q[i] <= hi
         /\ \A i, j \in 1..Len(q) : i < j => q[i] < q[j]
BY DEF RisingFrames

\* A queue of frames, cut in two.
LEMMA CutFrames ==
  ASSUME NEW q, NEW m \in Nat, NEW hi \in Nat, RisingFrames(q, m, hi), NEW n \in 0..Len(q)
  PROVE  /\ RisingFrames(SubSeq(q, 1, n), m, hi)
         /\ RisingFrames(SubSeq(q, n + 1, Len(q)), LastOf(SubSeq(q, 1, n), m), hi)
<1> DEFINE len == Len(q)
           out == SubSeq(q, 1, n)
           rest == SubSeq(q, n + 1, len)
<1>1. /\ q \in Seq(Nat) /\ len \in Nat /\ n \in Nat /\ n <= len
      /\ \A i \in 1..len : q[i] \in Nat /\ m < q[i] /\ q[i] <= hi
      /\ \A i, j \in 1..len : i < j => q[i] < q[j]
  BY DEF RisingFrames
<1>2. out \in Seq(Nat) /\ Len(out) = n /\ \A i \in 1..n : out[i] = q[i] /\ i \in 1..len
  BY <1>1
<1>3. /\ rest \in Seq(Nat) /\ Len(rest) = len - n
      /\ \A i \in 1..(len - n) : rest[i] = q[i + n] /\ i + n \in 1..len
  <2>1. CASE n = len
    BY <1>1, <2>1
  <2>2. CASE n # len
    BY <1>1, <2>2
  <2> QED
    BY <2>1, <2>2
<1> DEFINE last == LastOf(out, m)
<1> HIDE DEF out, rest, len
<1>4. RisingFrames(out, m, hi)
  BY <1>1, <1>2 DEF RisingFrames
<1>5. \A i \in 1..(len - n) : last < q[i + n]
  <2>1. CASE n = 0
    BY <1>1, <1>2, <1>3, <2>1 DEF LastOf
  <2>2. CASE n # 0
    <3>1. last = q[n] /\ n \in 1..len
      BY <1>1, <1>2, <2>2 DEF LastOf
    <3>2. \A i \in 1..(len - n) : n < i + n
      BY <1>1
    <3> HIDE DEF last
    <3> QED
      BY <1>1, <1>3, <3>1, <3>2
  <2> QED
    BY <2>1, <2>2
<1> HIDE DEF last
<1>6. \A i, j \in 1..(len - n) : i < j => q[i + n] < q[j + n]
  <2>1. \A i, j \in 1..(len - n) : i < j => i + n < j + n
    BY <1>1
  <2> QED
    BY <1>1, <1>3, <2>1
<1>7. RisingFrames(rest, last, hi)
  BY <1>1, <1>3, <1>5, <1>6 DEF RisingFrames
<1> QED
  BY <1>4, <1>7 DEF out, rest, len, last

LEMMA EncodeLine ==
  ASSUME NEW r, ObjectShape(r), NEW lo \in Nat, NEW m \in Nat, Lined(r, lo, m),
         NEW frame \in Nat, r.encoded < frame,
         NEW keep \in Nat, keep <= Len(r.pipeline.held) + 1, NEW kind \in {"key", "delta"}
  PROVE  \E k \in Nat : Lined(Encode(r, frame, keep, kind), lo, k)
<1> DEFINE held  == r.pipeline.held
           queue == Append(held, frame)
           n     == Len(queue) - keep
           out   == SubSeq(queue, 1, n)
           rest  == SubSeq(queue, n + 1, Len(queue))
           k     == LastOf(out, m)
           e     == Emit(r, out, kind)
<1>1. Encode(r, frame, keep, kind) = [e EXCEPT !.encoded = frame, !.pipeline.held = rest]
  BY DEF Encode
<1>2. /\ RisingFrames(held, m, r.encoded) /\ HandoffLine(r.handoff, lo, m) /\ lo <= m
      /\ m <= frame /\ r.encoded \in Nat
  BY DEF Lined, ObjectShape
<1>3. /\ held \in Seq(Nat) /\ Len(held) \in Nat
      /\ \A i \in 1..Len(held) : held[i] \in Nat /\ m < held[i] /\ held[i] <= r.encoded
      /\ \A i, j \in 1..Len(held) : i < j => held[i] < held[j]
  BY <1>2, FramesOf
<1>4. /\ queue \in Seq(Nat) /\ Len(queue) = Len(held) + 1 /\ queue[Len(held) + 1] = frame
      /\ \A i \in 1..Len(held) : queue[i] = held[i]
  BY <1>3
<1>5. n \in 0..Len(queue)
  BY <1>3, <1>4
<1> HIDE DEF n, held, queue
<1>6. RisingFrames(queue, m, frame)
  <2>1. \A i \in 1..Len(queue) : i \in 1..Len(held) \/ i = Len(held) + 1
    BY <1>3, <1>4
  <2>2. \A i \in 1..Len(queue) : m < queue[i] /\ queue[i] <= frame
    <3>1. m < frame
      BY <1>2 DEF Lined
    <3>2. ASSUME NEW i \in 1..Len(held) PROVE m < queue[i] /\ queue[i] <= frame
      <4>1. held[i] \in Nat /\ m < held[i] /\ held[i] <= r.encoded
        BY <1>3
      <4>2. held[i] <= frame
        BY <1>2, <4>1
      <4> QED
        BY <1>4, <4>1, <4>2
    <3>3. m < queue[Len(held) + 1] /\ queue[Len(held) + 1] <= frame
      BY <1>2, <1>4, <3>1
    <3> QED
      BY <2>1, <3>2, <3>3
  <2>3. ASSUME NEW i \in 1..Len(queue), NEW j \in 1..Len(queue), i < j
        PROVE  queue[i] < queue[j]
    <3>1. i \in 1..Len(held)
      BY <1>3, <1>4, <2>3
    <3>2. CASE j \in 1..Len(held)
      BY <1>3, <1>4, <2>3, <3>1, <3>2
    <3>3. CASE j = Len(held) + 1
      BY <1>2, <1>3, <1>4, <3>1, <3>3
    <3> QED
      BY <2>1, <3>2, <3>3
  <2> QED
    BY <1>4, <2>2, <2>3 DEF RisingFrames
<1>7. RisingFrames(out, m, frame) /\ RisingFrames(rest, k, frame)
  BY <1>2, <1>5, <1>6, CutFrames
<1>8. k \in Nat /\ m <= k /\ k <= frame
  BY <1>2, <1>7, LastBetween
<1>9. HandoffLine(e.handoff, lo, k)
  BY <1>2, <1>7, EmitLine
<1>10. ObjectShape(e)
  BY EmitShape
<1> DEFINE x == Encode(r, frame, keep, kind)
<1> HIDE DEF e, rest, out, k, x
<1>11. x.handoff = e.handoff /\ x.encoded = frame /\ x.pipeline.held = rest
  BY <1>1, <1>10 DEF ObjectShape, PipelineShape, x
<1>12. Lined(x, lo, k)
  BY <1>2, <1>7, <1>8, <1>9, <1>11 DEF Lined
<1> QED
  BY <1>8, <1>12 DEF x

-----------------------------------------------------------------------------
(* The inductive invariant about units.                                    *)

\* u goes before v: from an older registration, or encoded earlier in the same one.
Before(u, v) == u.origin < v.origin \/ (u.origin = v.origin /\ u.seq < v.seq)

\* Object o is no newer than the stream's present registration, if it has one.
Known(s, o) == o <= made.objects /\ (streams[s] # None => o <= streams[s])

Delivered(s) ==
  /\ core[s].unit \in [origin : Nat, seq : Nat] /\ Known(s, core[s].unit.origin)
  /\ ~InCore(s) => core[s].unit = NoUnit

\* One API step at a time, with objects to drain, one of each stream, and units to
\* deliver, those of a stream in their order and after what the stream has got.
UnitType == [stream : Streams, origin : Objects, seq : Nat]
ToDrain(a) ==
  /\ api[a].todo \subseteq Streams \X Objects
  /\ \A x, y \in api[a].todo : x[1] = y[1] => x = y
  /\ \A x \in api[a].todo :
       /\ Known(x[1], x[2]) /\ core[x[1]].unit.origin <= x[2]
       /\ \A i \in 1..Len(api[a].units) : api[a].units[i].stream # x[1]
Underway(a) ==
  LET units == api[a].units IN
  /\ units \in Seq(UnitType)
  /\ \A i \in 1..Len(units) : /\ Known(units[i].stream, units[i].origin)
                              /\ Before(core[units[i].stream].unit, units[i])
  /\ \A i, j \in 1..Len(units) : i < j /\ units[i].stream = units[j].stream =>
       units[i].origin = units[j].origin /\ units[i].seq < units[j].seq
Stepping(a) == api[a].pc \in {"step", "serve"}
Turn(a) ==
  Stepping(a) => /\ apiActive /\ \A b \in ApiThreads : Stepping(b) => b = a
                 /\ ToDrain(a) /\ Underway(a)

\* What has left an object is no newer than lo; what is still in it is.
Sent(o, lo) ==
  /\ \A s \in Streams : core[s].unit.origin = o => core[s].unit.seq <= lo
  /\ \A a \in ApiThreads : Stepping(a) =>
       \A i \in 1..Len(api[a].units) :
         api[a].units[i].origin = o => api[a].units[i].seq <= lo
Line(o) == \E lo, m \in Nat : Lined(object[o], lo, m) /\ Sent(o, lo)

UnitInv ==
  /\ \A s \in Streams : Delivered(s)
  /\ \A a \in ApiThreads : Turn(a)
  /\ \A o \in Objects : Line(o)

\* What a stream has got is followed by a later unit, or belongs to another life.
UnitsGoOn ==
  \A s \in Streams : core'[s].unit # core[s].unit /\ core'[s].life = core[s].life =>
    Before(core[s].unit, core'[s].unit)

-----------------------------------------------------------------------------
(* Steps that deliver nothing.                                             *)

\* Objects keep their lines, whatever the pipeline does inside.
LinesStay ==
  \A o \in Objects : \A lo, m \in Nat :
    Lined(object[o], lo, m) => \E k \in Nat : Lined(object'[o], lo, k)

\* The threads inside an API step go on as they were.
TurnsStay ==
  \A a \in ApiThreads : Stepping(a)' =>
    Stepping(a) /\ api'[a].todo = api[a].todo /\ api'[a].units = api[a].units

LEMMA UnitsKeep ==
  ASSUME ManagedInv, UnitInv, LinesStay, TurnsStay, apiActive' = apiActive,
         made.objects \in Nat, made'.objects \in Nat, made.objects <= made'.objects,
         \A s \in Streams : /\ \/ core'[s].unit = core[s].unit
                               \/ core'[s].unit = NoUnit /\ core'[s].life # core[s].life
                            /\ core'[s].life = None => core'[s].unit = NoUnit,
         \A s \in Streams : \/ streams'[s] = None \/ streams'[s] = streams[s]
                            \/ streams'[s] \in Nat /\ streams'[s] > made.objects
  PROVE  UnitInv' /\ UnitsGoOn
<1>1. \A s \in Streams, o \in Nat : Known(s, o) => Known(s, o)'
  BY DEF Known, ManagedInv, Types, None
<1>2. NoUnit \in [origin : Nat, seq : Nat] /\ NoUnit.origin = 0 /\ NoUnit.seq = 0
  BY DEF NoUnit, None
<1>3. ASSUME NEW s \in Streams
      PROVE  /\ core'[s].unit \in [origin : Nat, seq : Nat]
             /\ Known(s, core[s].unit.origin)'
             /\ ~InCore(s)' => core'[s].unit = NoUnit
             /\ core'[s].unit.origin <= core[s].unit.origin
             /\ core[s].unit.origin \in Nat
  <2>1. core[s].unit \in [origin : Nat, seq : Nat] /\ Known(s, core[s].unit.origin)
    BY DEF UnitInv, Delivered
  <2>2. PICK o \in Nat : o = core'[s].unit.origin
    BY <1>2, <2>1
  <2>3. o = core[s].unit.origin \/ o = 0
    BY <1>2, <2>2
  <2>4. Known(s, o)'
    <3>1. Known(s, o)
      BY <2>1, <2>3 DEF Known, ManagedInv, Types, MadeType
    <3> QED
      BY <1>1, <3>1
  <2>5. Known(s, core[s].unit.origin)'
    BY <2>2, <2>4 DEF Known
  <2> QED
    BY <1>2, <2>1, <2>2, <2>3, <2>5 DEF InCore
<1>4. \A s \in Streams : Delivered(s)'
  BY <1>3 DEF Delivered
<1>5. ASSUME NEW a \in ApiThreads, Stepping(a)' PROVE Turn(a)'
  <2>1. /\ Stepping(a) /\ Turn(a)
        /\ api'[a].todo = api[a].todo /\ api'[a].units = api[a].units
    BY <1>5 DEF UnitInv, TurnsStay
  <2>2. apiActive' /\ \A b \in ApiThreads : Stepping(b)' => b = a
    BY <2>1 DEF Turn, TurnsStay
  <2>3. ToDrain(a)'
    <3>1. ToDrain(a)
      BY <2>1 DEF Turn
    <3>2. ASSUME NEW x \in api[a].todo
          PROVE  Known(x[1], x[2])' /\ core'[x[1]].unit.origin <= x[2]
      <4>1. PICK s \in Streams, o \in Objects : x[1] = s /\ x[2] = o
        BY <3>1 DEF ToDrain
      <4>2. Known(s, o)' /\ core[s].unit.origin <= o
        BY <1>1, <3>1, <4>1 DEF ToDrain, Objects
      <4>3. core'[s].unit.origin <= o
        BY <1>2, <1>3, <4>2 DEF Objects
      <4> QED
        BY <4>1, <4>2, <4>3
    <3> QED
      BY <2>1, <3>1, <3>2 DEF ToDrain
  <2>4. Underway(a)'
    <3> DEFINE units == api[a].units
    <3>1. /\ units \in Seq(UnitType) /\ Len(units) \in Nat
          /\ \A i \in 1..Len(units) : /\ units[i] \in UnitType
                                      /\ Known(units[i].stream, units[i].origin)
                                      /\ Before(core[units[i].stream].unit, units[i])
          /\ \A i, j \in 1..Len(units) : i < j /\ units[i].stream = units[j].stream =>
               units[i].origin = units[j].origin /\ units[i].seq < units[j].seq
      BY <2>1 DEF Turn, Underway
    <3> HIDE DEF units
    <3>2. ASSUME NEW i \in 1..Len(units)
          PROVE  /\ Known(units[i].stream, units[i].origin)'
                 /\ Before(core'[units[i].stream].unit, units[i])
      <4>1. PICK s \in Streams, o \in Objects : units[i].stream = s /\ units[i].origin = o
        BY <3>1 DEF UnitType
      <4>2. Known(s, o)' /\ Before(core[s].unit, units[i]) /\ o \in Nat /\ o > 0
        BY <1>1, <3>1, <4>1 DEF Objects
      <4>3. Before(core'[s].unit, units[i])
        <5>1. CASE core'[s].unit = core[s].unit
          BY <4>2, <5>1
        <5>2. CASE core'[s].unit = NoUnit
          BY <1>2, <4>1, <4>2, <5>2 DEF Before
        <5> QED
          BY <5>1, <5>2
      <4>4. units' = units
        BY <2>1 DEF units
      <4> QED
        BY <4>1, <4>2, <4>3, <4>4
    <3>3. api'[a].units = units
      BY <2>1 DEF units
    <3>4. units' = units
      BY <2>1 DEF units
    <3> QED
      BY <3>1, <3>2, <3>3, <3>4 DEF Underway
  <2> QED
    BY <2>2, <2>3, <2>4 DEF Turn
<1>6. \A a \in ApiThreads : Turn(a)'
  BY <1>5 DEF Turn
<1>7. ASSUME NEW o \in Objects PROVE Line(o)'
  <2>1. PICK lo \in Nat, m \in Nat : Lined(object[o], lo, m) /\ Sent(o, lo)
    BY DEF UnitInv, Line
  <2>2. PICK k \in Nat : Lined(object'[o], lo, k)
    BY <2>1 DEF LinesStay
  <2>3. Sent(o, lo)'
    <3>1. \A s \in Streams : core'[s].unit.origin = o => core'[s].unit.seq <= lo
      BY <1>2, <2>1 DEF Sent
    <3> QED
      BY <2>1, <3>1 DEF Sent, TurnsStay
  <2>4. Lined(object[o], lo, k)'
    BY <2>2
  <2> QED
    BY <2>3, <2>4 DEF Line
<1> QED
  BY <1>4, <1>6, <1>7 DEF UnitInv, UnitsGoOn

LEMMA QuietUnits ==
  ASSUME ManagedInv, UnitInv, LinesStay, UNCHANGED <<streams, api, apiActive>>,
         made'.objects = made.objects,
         \A s \in Streams : core'[s].unit = core[s].unit /\ core'[s].life = core[s].life
  PROVE  UnitInv' /\ UnitsGoOn
<1>1. made.objects \in Nat
  BY DEF ManagedInv, Types, MadeType
<1>2. \A s \in Streams : core'[s].life = None => core'[s].unit = NoUnit
  BY DEF UnitInv, Delivered, InCore
<1>3. TurnsStay
  BY DEF TurnsStay, Stepping
<1> QED
  BY <1>1, <1>2, <1>3, UnitsKeep

\* What the lines speak of is the same.
PathsStay ==
  \A o \in Objects : /\ object'[o].handoff = object[o].handoff
                     /\ object'[o].pipeline = object[o].pipeline
                     /\ object'[o].encoded = object[o].encoded

LEMMA SteadyLines ==
  ASSUME PathsStay
  PROVE  LinesStay
BY DEF PathsStay, LinesStay, Lined

LEMMA SamePaths ==
  ASSUME object' = object
  PROVE  LinesStay
BY DEF LinesStay

\* One object changes, and its line goes on.
LEMMA OneLine ==
  ASSUME ManagedInv, NEW n \in Objects, NEW r, object' = [object EXCEPT ![n] = r],
         \A lo, m \in Nat : Lined(object[n], lo, m) => \E k \in Nat : Lined(r, lo, k)
  PROVE  LinesStay
<1>1. object'[n] = r /\ \A o \in Objects \ {n} : object'[o] = object[o]
  BY DEF ManagedInv, Types
<1>2. ASSUME NEW o \in Objects, NEW lo \in Nat, NEW m \in Nat, Lined(object[o], lo, m)
      PROVE  \E k \in Nat : Lined(object'[o], lo, k)
  <2>1. CASE o = n
    BY <1>1, <1>2, <2>1
  <2>2. CASE o # n
    <3>1. object'[o] = object[o]
      BY <1>1, <2>2
    <3> QED
      BY <1>2, <3>1
  <2> QED
    BY <2>1, <2>2
<1> QED
  BY <1>2 DEF LinesStay

LEMMA FreshUnit ==
  ASSUME NEW o
  PROVE  /\ Fresh(o).unit = NoUnit /\ Fresh(o).life = o
         /\ NotInCore.unit = NoUnit /\ NotInCore.life = None
BY DEF Fresh, NotInCore, None

LEMMA StartUnits ==
  ASSUME ManagedInv, CoreInv, UnitInv, NEW opened \in BOOLEAN, Start(opened)
  PROVE  UnitInv' /\ UnitsGoOn
<1>1. UNCHANGED <<streams, made, apiActive>> /\ RegisterAll
  BY DEF Start
<1>2. core' = [s \in Streams |->
                 IF streams[s] # None /\ ~object[streams[s]].registered
                 THEN Fresh(streams[s]) ELSE core[s]]
  BY <1>1 DEF RegisterAll
<1>3. ASSUME NEW s \in Streams
      PROVE  /\ \/ core'[s].unit = core[s].unit
                \/ core'[s].unit = NoUnit /\ core'[s].life # core[s].life
             /\ core'[s].life = None => core'[s].unit = NoUnit
  <2>1. \/ core'[s] = core[s]
        \/ core'[s] = Fresh(streams[s]) /\ core[s].life # streams[s]
    BY <1>2 DEF CoreInv, StreamInv, Bound, InCore
  <2>2. core[s].life = None => core[s].unit = NoUnit
    BY DEF UnitInv, Delivered, InCore
  <2> QED
    BY <2>1, <2>2, FreshUnit
<1>4. PathsStay
  <2>1. \A o \in Objects : Alike(object'[o], object[o])
    BY <1>1, RegisterAllAlike DEF ManagedInv
  <2> QED
    BY <2>1 DEF Alike, PathsStay
<1>5. TurnsStay
  <2>1. api' = api \/ api' = [api EXCEPT ![ApiWorker] = IdleApi]
    BY DEF Start
  <2>2. IdleApi.pc = "idle"
    BY DEF IdleApi
  <2> QED
    BY <2>1, <2>2 DEF ManagedInv, Types, TurnsStay, Stepping
<1>6. made.objects \in Nat
  BY DEF ManagedInv, Types, MadeType
<1> QED
  BY <1>1, <1>3, <1>4, <1>5, <1>6, SteadyLines, UnitsKeep

LEMMA JoinedTurns ==
  ASSUME ManagedInv, api' = Joined
  PROVE  TurnsStay
<1>1. api' = api \/ api' = [api EXCEPT ![ApiWorker].pc = "none"]
  BY DEF Joined
<1>2. ASSUME NEW a \in ApiThreads PROVE api'[a].pc = "none" \/ api'[a] = api[a]
  <2>1. api'[a] = api[a] \/ api'[a] = [api[a] EXCEPT !.pc = "none"]
    BY <1>1 DEF ManagedInv, Types
  <2>2. ApiShape(api[a])
    BY DEF ManagedInv, Types
  <2> QED
    BY <2>1, <2>2 DEF ApiShape
<1> QED
  BY <1>2 DEF TurnsStay, Stepping

LEMMA UnwindStartUnits ==
  ASSUME ManagedInv, CoreInv, UnitInv, UnwindStart
  PROVE  UnitInv' /\ UnitsGoOn
<1>1. UNCHANGED <<streams, object, made, core, apiActive>> /\ api' = Joined
  BY DEF UnwindStart
<1>2. \A s \in Streams : core[s].life = None => core[s].unit = NoUnit
  BY DEF UnitInv, Delivered, InCore
<1>3. made.objects \in Nat
  BY DEF ManagedInv, Types, MadeType
<1> QED
  BY <1>1, <1>2, <1>3, JoinedTurns, SamePaths, UnitsKeep

LEMMA StopFinishUnits ==
  ASSUME ManagedInv, CoreInv, UnitInv, StopFinish
  PROVE  UnitInv' /\ UnitsGoOn
<1>1. UNCHANGED <<streams, made, core, apiActive>> /\ api' = Joined
  BY DEF StopFinish
<1>2. \A s \in Streams : core[s].life = None => core[s].unit = NoUnit
  BY DEF UnitInv, Delivered, InCore
<1>3. made.objects \in Nat
  BY DEF ManagedInv, Types, MadeType
<1>4. ASSUME NEW o \in Objects, NEW lo \in Nat, NEW m \in Nat, Lined(object[o], lo, m)
      PROVE  \E k \in Nat : Lined(object'[o], lo, k)
  <2> DEFINE p == StopPipeline(object[o])
             h == AfterClear(p.handoff)
             r == [p EXCEPT !.handoff = h]
  <2>1. object'[o] = object[o] \/ object'[o] = r
    BY DEF StopFinish
  <2>2. ObjectShape(object[o])
    BY DEF ManagedInv, Types
  <2>3. ObjectShape(p) /\ \E k \in Nat : Lined(p, lo, k)
    BY <1>4, <2>2, StopPipelineShape, StopLine
  <2> HIDE DEF p
  <2>4. PICK k \in Nat : Lined(p, lo, k)
    BY <2>3
  <2>5. HandoffLine(h, lo, k)
    BY <2>4 DEF Lined, HandoffLine, Handoff, AfterClear, EmptyHandoff, RisingUnits
  <2> HIDE DEF h
  <2>6. r.handoff = h /\ r.encoded = p.encoded /\ r.pipeline = p.pipeline
    BY <2>3 DEF ObjectShape
  <2> HIDE DEF r
  <2>7. Lined(r, lo, k)
    BY <2>4, <2>5, <2>6 DEF Lined
  <2> QED
    BY <1>4, <2>1, <2>7
<1>5. LinesStay
  BY <1>4 DEF LinesStay
<1> QED
  BY <1>1, <1>2, <1>3, <1>5, JoinedTurns, UnitsKeep

LEMMA RegisterStreamUnits ==
  ASSUME ManagedInv, CoreInv, UnitInv, NEW s \in Streams, RegisterStream(s)
  PROVE  UnitInv' /\ UnitsGoOn
<1> DEFINE n == made.objects + 1
<1>1. /\ UNCHANGED <<api, apiActive>>
      /\ made' = [made EXCEPT !.objects = n]
      /\ streams' = [streams EXCEPT ![s] = n]
      /\ object' = [object EXCEPT ![n].registered = life.started]
      /\ core' = IF life.started THEN [core EXCEPT ![s] = Fresh(n)] ELSE core
  BY DEF RegisterStream
<1>2. made.objects \in Nat /\ n \in Nat /\ n > made.objects
  BY DEF ManagedInv, Types, MadeType
<1>3. made'.objects = n
  BY <1>1 DEF ManagedInv, Types, MadeType
<1> HIDE DEF n
<1>4. ASSUME NEW o \in Objects
      PROVE  /\ object'[o].handoff = object[o].handoff
             /\ object'[o].pipeline = object[o].pipeline
             /\ object'[o].encoded = object[o].encoded
  <2>1. object'[o] = object[o] \/ object'[o] = [object[o] EXCEPT !.registered = life.started]
    BY <1>1 DEF ManagedInv, Types
  <2>2. ObjectShape(object[o])
    BY DEF ManagedInv, Types
  <2> QED
    BY <2>1, <2>2 DEF ObjectShape
<1>5. PathsStay
  BY <1>4 DEF PathsStay
<1>6. ASSUME NEW u \in Streams
      PROVE  /\ \/ core'[u].unit = core[u].unit
                \/ core'[u].unit = NoUnit /\ core'[u].life # core[u].life
             /\ core'[u].life = None => core'[u].unit = NoUnit
  <2>1. core'[u] = core[u] \/ core'[u] = Fresh(n)
    BY <1>1 DEF CoreInv
  <2>3. core[u].life # n
    <3>1. core[u].life # None => core[u].life = streams[u]
      BY DEF CoreInv, StreamInv, Bound, InCore
    <3>2. streams[u] # None => streams[u] <= made.objects
      BY DEF ManagedInv, Types, Numbered, Objects, None
    <3> QED
      BY <1>2, <3>1, <3>2 DEF None
  <2>2. core[u].life = None => core[u].unit = NoUnit
    BY DEF UnitInv, Delivered, InCore
  <2> QED
    BY <2>1, <2>2, <2>3, FreshUnit
<1>7. \A u \in Streams : streams'[u] = streams[u] \/ streams'[u] = n
  BY <1>1 DEF ManagedInv, Types
<1>8. TurnsStay
  BY <1>1 DEF TurnsStay, Stepping
<1> QED
  BY <1>1, <1>2, <1>3, <1>5, <1>6, <1>7, <1>8, SteadyLines, UnitsKeep

LEMMA RemoveStreamUnits ==
  ASSUME ManagedInv, CoreInv, UnitInv, NEW s \in Streams, RemoveStream(s)
  PROVE  UnitInv' /\ UnitsGoOn
<1> DEFINE n == streams[s]
           r == StopPipeline(object[n])
<1>1. /\ UNCHANGED <<made, api, apiActive>> /\ n # None
      /\ object' = [object EXCEPT ![n] = r]
      /\ core' = IF object[n].registered THEN [core EXCEPT ![s] = NotInCore] ELSE core
      /\ streams' = [streams EXCEPT ![s] = None]
  BY DEF RemoveStream, Removable
<1>2. n \in Objects
  BY <1>1 DEF ManagedInv, Types, Objects, None
<1>3. ObjectShape(object[n])
  BY <1>2 DEF ManagedInv, Types
<1> HIDE DEF n
<1>4. \A lo, m \in Nat : Lined(object[n], lo, m) => \E k \in Nat : Lined(r, lo, k)
  BY <1>3, StopLine
<1> HIDE DEF r
<1>5. LinesStay
  BY <1>1, <1>2, <1>4, OneLine
<1>6. TurnsStay
  BY <1>1 DEF TurnsStay, Stepping
<1>7. ASSUME NEW u \in Streams
      PROVE  /\ \/ core'[u].unit = core[u].unit
                \/ core'[u].unit = NoUnit /\ core'[u].life # core[u].life
             /\ core'[u].life = None => core'[u].unit = NoUnit
  <2>1. core'[u] = core[u] \/ core'[u] = NotInCore
    BY <1>1 DEF CoreInv
  <2>2. core[u].life = None => core[u].unit = NoUnit
    BY DEF UnitInv, Delivered, InCore
  <2> QED
    BY <2>1, <2>2, FreshUnit
<1>8. made.objects \in Nat /\ \A u \in Streams : streams'[u] = streams[u] \/ streams'[u] = None
  BY <1>1 DEF ManagedInv, Types, MadeType
<1> QED
  BY <1>1, <1>5, <1>6, <1>7, <1>8, UnitsKeep

LEMMA RegisterStreamsUnits ==
  ASSUME ManagedInv, CoreInv, UnitInv, NEW h \in Handles, NEW list \in GroupLists,
         RegisterStreams(h, list)
  PROVE  UnitInv' /\ UnitsGoOn
<1>1. UNCHANGED <<streams, core, api, apiActive>>
  BY DEF RegisterStreams
<1>2. /\ made' = [made EXCEPT !.groups = made.groups + 1]
      /\ object' = [o \in Objects |->
                      IF \E i \in DOMAIN list : streams[list[i]] = o
                      THEN [object[o] EXCEPT !.owner = made.groups + 1] ELSE object[o]]
  BY DEF RegisterStreams
<1>3. made'.objects = made.objects
  BY <1>2 DEF ManagedInv, Types, MadeType
<1>4. ASSUME NEW o \in Objects
      PROVE  /\ object'[o].handoff = object[o].handoff
             /\ object'[o].pipeline = object[o].pipeline
             /\ object'[o].encoded = object[o].encoded
  <2>1. object'[o] = object[o] \/ object'[o] = [object[o] EXCEPT !.owner = made.groups + 1]
    BY <1>2
  <2>2. ObjectShape(object[o])
    BY DEF ManagedInv, Types
  <2> QED
    BY <2>1, <2>2 DEF ObjectShape
<1>5. PathsStay
  BY <1>4 DEF PathsStay
<1> QED
  BY <1>1, <1>3, <1>5, SteadyLines, QuietUnits

LEMMA ReleaseStreamGroupUnits ==
  ASSUME ManagedInv, CoreInv, UnitInv, NEW h \in Handles, ReleaseStreamGroup(h)
  PROVE  UnitInv' /\ UnitsGoOn
<1>1. UNCHANGED <<streams, core, api, apiActive, made>>
  BY DEF ReleaseStreamGroup
<1>2. ASSUME NEW o \in Objects
      PROVE  /\ object'[o].handoff = object[o].handoff
             /\ object'[o].pipeline = object[o].pipeline
             /\ object'[o].encoded = object[o].encoded
  <2>1. object'[o] = object[o] \/ object'[o] = [object[o] EXCEPT !.owner = 0]
    BY DEF ReleaseStreamGroup
  <2>2. ObjectShape(object[o])
    BY DEF ManagedInv, Types
  <2> QED
    BY <2>1, <2>2 DEF ObjectShape
<1>3. PathsStay
  BY <1>2 DEF PathsStay
<1> QED
  BY <1>1, <1>3, SteadyLines, QuietUnits

\* What is counted of a stream does not touch its latest unit.
LEMMA OneCoreCounts ==
  ASSUME CoreInv, NEW s \in Streams, NEW c, core' = [core EXCEPT ![s] = c],
         c.unit = core[s].unit, c.life = core[s].life
  PROVE  \A u \in Streams : core'[u].unit = core[u].unit /\ core'[u].life = core[u].life
<1>1. core'[s] = c /\ \A u \in Streams \ {s} : core'[u] = core[u]
  BY DEF CoreInv
<1> QED
  BY <1>1

LEMMA CountedUnit ==
  ASSUME NEW c, CoreShape(c)
  PROVE  /\ CountDropped(c).unit = c.unit /\ CountDropped(c).life = c.life
         /\ CountRejected(c).unit = c.unit /\ CountRejected(c).life = c.life
         /\ CountLost(c).unit = c.unit /\ CountLost(c).life = c.life
<1> DEFINE d == c.dropped + 1
           j == c.rejected + 1
           l == c.lost + 1
<1>1. /\ CountDropped(c) = c \/ CountDropped(c) = [c EXCEPT !.dropped = d]
      /\ CountRejected(c) = c \/ CountRejected(c) = [c EXCEPT !.dropped = d, !.rejected = j]
      /\ CountLost(c) = c \/ CountLost(c) = [c EXCEPT !.lost = l]
  BY DEF CountDropped, CountRejected, CountLost
<1> HIDE DEF d, j, l
<1> QED
  BY <1>1 DEF CoreShape

LEMMA SetOutputConfigUnits ==
  ASSUME ManagedInv, CoreInv, UnitInv, NEW s \in Streams, NEW i, SetOutputConfig(s, i)
  PROVE  UnitInv' /\ UnitsGoOn
<1> DEFINE g == core[s].gen + 1
           c == [core[s] EXCEPT !.gen = g, !.interval = i, !.latest = None]
<1>1. /\ UNCHANGED <<streams, object, api, apiActive>>
      /\ made' = [made EXCEPT !.configs = @ + 1]
      /\ core' = [core EXCEPT ![s] = c]
  BY DEF SetOutputConfig
<1>2. made'.objects = made.objects
  BY <1>1 DEF ManagedInv, Types, MadeType
<1>3. CoreShape(core[s])
  BY DEF CoreInv
<1> HIDE DEF g
<1>4. c.unit = core[s].unit /\ c.life = core[s].life
  BY <1>3 DEF CoreShape
<1> HIDE DEF c
<1> QED
  BY <1>1, <1>2, <1>4, OneCoreCounts, SamePaths, QuietUnits

LEMMA PushUnits ==
  ASSUME ManagedInv, CoreInv, UnitInv, NEW s \in Streams,
         PushValidate(s) \/ PushReject(s) \/ PushLatch(s) \/ PushNote(s)
  PROVE  UnitInv' /\ UnitsGoOn
<1>1. UNCHANGED <<streams, made, api, apiActive>>
  BY DEF PushValidate, PushReject, PushLatch, PushNote
<1>2. CoreShape(core[s])
  BY DEF CoreInv
<1>3. LinesStay
  <2>1. CASE object' = object
    BY <2>1, SamePaths
  <2>2. CASE /\ streams[s] # None
             /\ object' = [object EXCEPT ![streams[s]].pending = producer[s].clock]
    <3>1. ASSUME NEW o \in Objects
          PROVE  /\ object'[o].handoff = object[o].handoff
                 /\ object'[o].pipeline = object[o].pipeline
                 /\ object'[o].encoded = object[o].encoded
      <4> DEFINE k == producer[s].clock
      <4>1. object' = [object EXCEPT ![streams[s]].pending = k]
        BY <2>2
      <4> HIDE DEF k
      <4>2. object'[o] = object[o] \/ object'[o] = [object[o] EXCEPT !.pending = k]
        BY <4>1 DEF ManagedInv, Types
      <4>3. ObjectShape(object[o])
        BY DEF ManagedInv, Types
      <4> QED
        BY <4>2, <4>3 DEF ObjectShape
    <3> QED
      BY <3>1, SteadyLines DEF PathsStay
  <2>3. CASE PushNote(s)
    <3>1. PathsStay
      BY <2>3, NotedObjects DEF PathsStay, Alike, ManagedInv
    <3> QED
      BY <3>1, SteadyLines
  <2> QED
    BY <2>1, <2>2, <2>3 DEF PushValidate, PushReject, PushLatch, Latch
<1>4. \A u \in Streams : core'[u].unit = core[u].unit /\ core'[u].life = core[u].life
  <2>1. CASE core' = core
    BY <2>1
  <2>2. CASE core' = [core EXCEPT ![s] = CountDropped(core[s])]
    BY <1>2, <2>2, CountedUnit, OneCoreCounts
  <2>3. CASE PushReject(s)
    <3>1. core' = [core EXCEPT ![s] = CountRejected(core[s])]
      BY <2>3 DEF PushReject
    <3> QED
      BY <1>2, <3>1, CountedUnit, OneCoreCounts
  <2>4. CASE PushNote(s)
    <3> DEFINE n == core[s].received + 1
               f == IF core[s].life = producer[s].object THEN core[s].foreign
                    ELSE core[s].foreign + 1
               c == [core[s] EXCEPT !.received = n, !.foreign = f]
    <3>1. core' = core \/ core' = [core EXCEPT ![s] = c]
      BY <2>4 DEF PushNote
    <3> HIDE DEF n, f
    <3>2. c.unit = core[s].unit /\ c.life = core[s].life
      BY <1>2 DEF CoreShape
    <3> HIDE DEF c
    <3> QED
      BY <2>1, <3>1, <3>2, OneCoreCounts
  <2>5. PushLatch(s) => core' = core \/ core' = [core EXCEPT ![s] = CountDropped(core[s])]
    BY DEF PushLatch, Latch
  <2>6. PushValidate(s) => core' = core
    BY DEF PushValidate
  <2> QED
    BY <2>1, <2>2, <2>3, <2>4, <2>5, <2>6
<1> QED
  BY <1>1, <1>3, <1>4, QuietUnits

-----------------------------------------------------------------------------
(* step_streams.                                                           *)

LEMMA StepTakeUnits ==
  ASSUME ManagedInv, CoreInv, UnitInv, NEW t \in Steppers, StepTake(t)
  PROVE  UnitInv' /\ UnitsGoOn
<1>1. UNCHANGED <<streams, made, core, api, apiActive>>
  BY DEF StepTake
<1>2. PICK n : n = stepper[t].object
  OBVIOUS
<1> DEFINE d == IF core[AtStream(t)].interval > 0
                THEN object[n].pending + core[AtStream(t)].interval ELSE 0
<1>3. object' = object \/ object' = [object EXCEPT ![n].pending = None, ![n].due = d]
  BY <1>2 DEF StepTake
<1> HIDE DEF d
<1>4. ASSUME NEW o \in Objects
      PROVE  /\ object'[o].handoff = object[o].handoff
             /\ object'[o].pipeline = object[o].pipeline
             /\ object'[o].encoded = object[o].encoded
  <2>1. object'[o] = object[o] \/ object'[o] = [object[o] EXCEPT !.pending = None, !.due = d]
    BY <1>3 DEF ManagedInv, Types
  <2>2. ObjectShape(object[o])
    BY DEF ManagedInv, Types
  <2> QED
    BY <2>1, <2>2 DEF ObjectShape
<1> QED
  BY <1>1, <1>4, SteadyLines, QuietUnits DEF PathsStay

LEMMA StepCountUnits ==
  ASSUME ManagedInv, CoreInv, UnitInv, NEW t \in Steppers,
         StepTransformFails(t) \/ StepPublish(t)
  PROVE  UnitInv' /\ UnitsGoOn
<1>1. UNCHANGED <<streams, made, object, api, apiActive>>
  BY DEF StepTransformFails, StepPublish
<1>2. AtWork(t)
  BY DEF StepTransformFails, StepPublish, AtWork
<1>3. PICK s \in Streams : s = AtStream(t)
  BY <1>2, PublishedObject
<1>4. CoreShape(core[s])
  BY DEF CoreInv
<1>5. \A u \in Streams : core'[u].unit = core[u].unit /\ core'[u].life = core[u].life
  <2>1. CASE StepTransformFails(t)
    <3>1. core' = [core EXCEPT ![s] = CountDropped(core[s])]
      BY <1>3, <2>1 DEF StepTransformFails
    <3> QED
      BY <1>4, <3>1, CountedUnit, OneCoreCounts
  <2>2. CASE StepPublish(t)
    <3> DEFINE f == stepper[t].frame
               k == core[s].transformed + 1
               c == [core[s] EXCEPT !.latest = f, !.transformed = k]
    <3>1. core' = core \/ core' = [core EXCEPT ![s] = c]
      BY <1>3, <2>2 DEF StepPublish
    <3> HIDE DEF f, k
    <3>2. c.unit = core[s].unit /\ c.life = core[s].life
      BY <1>4 DEF CoreShape
    <3> HIDE DEF c
    <3> QED
      BY <3>1, <3>2, OneCoreCounts
  <2> QED
    BY <2>1, <2>2
<1> QED
  BY <1>1, <1>5, SamePaths, QuietUnits

\* The steps that end at the encoder.
LEMMA FailsUnits ==
  ASSUME ManagedInv, CoreInv, UnitInv, NEW t \in Steppers, stepper[t].pc = "encode",
         UNCHANGED <<streams, made, api, apiActive>>,
         core' = core \/ core' = [core EXCEPT ![AtStream(t)] = CountLost(core[AtStream(t)])],
         NEW n \in Objects, NEW r, object' = [object EXCEPT ![n] = r],
         \A lo, m \in Nat : Lined(object[n], lo, m) => \E k \in Nat : Lined(r, lo, k)
  PROVE  UnitInv' /\ UnitsGoOn
<1>1. PICK s \in Streams : s = AtStream(t)
  BY PublishedObject DEF AtWork
<1>2. CoreShape(core[s])
  BY DEF CoreInv
<1>3. \A u \in Streams : core'[u].unit = core[u].unit /\ core'[u].life = core[u].life
  <2>1. CASE core' = core
    BY <2>1
  <2>2. CASE core' = [core EXCEPT ![s] = CountLost(core[s])]
    BY <1>2, <2>2, CountedUnit, OneCoreCounts
  <2> QED
    BY <1>1, <2>1, <2>2
<1> QED
  BY <1>3, OneLine, QuietUnits

LEMMA StepPipelineFailsUnits ==
  ASSUME ManagedInv, CoreInv, UnitInv, NEW t \in Steppers, StepPipelineFails(t)
  PROVE  UnitInv' /\ UnitsGoOn
<1>1. PICK n \in Objects : n = stepper[t].object
  BY PublishedObject DEF StepPipelineFails, AtWork
<1> DEFINE r == StopPipeline(object[n])
<1>2. /\ UNCHANGED <<streams, made, api, apiActive>> /\ stepper[t].pc = "encode"
      /\ core' = [core EXCEPT ![AtStream(t)] = CountLost(core[AtStream(t)])]
      /\ object' = [object EXCEPT ![n] = r]
  BY <1>1 DEF StepPipelineFails
<1>3. ObjectShape(object[n])
  BY DEF ManagedInv, Types
<1>4. \A lo, m \in Nat : Lined(object[n], lo, m) => \E k \in Nat : Lined(r, lo, k)
  BY <1>3, StopLine
<1> HIDE DEF r
<1> QED
  BY <1>2, <1>4, FailsUnits

LEMMA StepEncodeFailsUnits ==
  ASSUME ManagedInv, CoreInv, UnitInv, NEW t \in Steppers, StepEncodeFails(t)
  PROVE  UnitInv' /\ UnitsGoOn
<1>1. PICK n \in Objects : n = stepper[t].object
  BY PublishedObject DEF StepEncodeFails, AtWork
<1> DEFINE e == EnsurePipeline(object[n], stepper[t].gen)
           r == [e EXCEPT !.pipeline.state = "failed", !.pipeline.held = <<>>]
<1>2. /\ UNCHANGED <<streams, made, api, apiActive>> /\ stepper[t].pc = "encode"
      /\ core' = [core EXCEPT ![AtStream(t)] = CountLost(core[AtStream(t)])]
      /\ object' = [object EXCEPT ![n] = r]
  BY <1>1 DEF StepEncodeFails
<1>3. ObjectShape(object[n])
  BY DEF ManagedInv, Types
<1>4. /\ ObjectShape(e)
      /\ \A lo, m \in Nat : Lined(object[n], lo, m) => \E k \in Nat : Lined(e, lo, k)
  BY <1>3, EnsurePipelineShape, EnsureLine
<1> HIDE DEF e
<1>5. r.handoff = e.handoff /\ r.encoded = e.encoded /\ r.pipeline.held = <<>>
  BY <1>4 DEF ObjectShape, PipelineShape
<1> HIDE DEF r
<1>6. \A lo, m \in Nat : Lined(e, lo, m) => Lined(r, lo, m)
  BY <1>5 DEF Lined, RisingFrames
<1> QED
  BY <1>2, <1>4, <1>6, FailsUnits

LEMMA StepEncodeUnits ==
  ASSUME ManagedInv, CoreInv, UnitInv, NEW t \in Steppers,
         NEW keep \in 0..EncoderDelay, NEW kind \in LaterKinds, StepEncode(t, keep, kind)
  PROVE  UnitInv' /\ UnitsGoOn
<1>1. PICK n \in Objects : n = stepper[t].object
  BY PublishedObject DEF StepEncode, AtWork
<1> DEFINE e == EnsurePipeline(object[n], stepper[t].gen)
           f == stepper[t].frame
           r == Encode(e, f, keep, kind)
<1>2. /\ UNCHANGED <<streams, made, api, apiActive, core>> /\ stepper[t].pc = "encode"
      /\ keep <= Len(e.pipeline.held) + 1
      /\ object' = [object EXCEPT ![n] = r]
  BY <1>1 DEF StepEncode
<1>3. ObjectShape(object[n]) /\ f \in Nat
  BY DEF ManagedInv, Types, StepperShape
<1>4. /\ ObjectShape(e) /\ e.encoded = object[n].encoded
      /\ \A lo, m \in Nat : Lined(object[n], lo, m) => \E k \in Nat : Lined(e, lo, k)
  BY <1>3, EnsurePipelineShape, EnsureLine
<1>5. object[n].encoded < f
  BY <1>1, <1>2 DEF ManagedInv, Clocked
<1>6. keep \in Nat /\ kind \in {"key", "delta"}
  BY ManagedAssumption DEF ManagedAssumption
<1> HIDE DEF e, f
<1>7. \A lo, m \in Nat : Lined(e, lo, m) => \E k \in Nat : Lined(r, lo, k)
  BY <1>2, <1>3, <1>4, <1>5, <1>6, EncodeLine
<1> HIDE DEF r
<1> QED
  BY <1>2, <1>4, <1>7, FailsUnits

-----------------------------------------------------------------------------
(* The API step.                                                           *)

LEMMA ApiBeginUnits ==
  ASSUME ManagedInv, CoreInv, UnitInv, NEW a \in ApiThreads, ApiBegin(a)
  PROVE  UnitInv' /\ UnitsGoOn
<1> DEFINE todo == {<<s, streams[s]>> : s \in {u \in Streams : streams[u] # None}}
<1>1. /\ UNCHANGED <<streams, made, core, object>> /\ ~apiActive /\ apiActive'
      /\ api' = [api EXCEPT ![a] = [pc |-> "step", units |-> <<>>, todo |-> todo]]
  BY DEF ApiBegin, ApiStepAdmitted
<1> HIDE DEF todo
<1>2. /\ api'[a].pc = "step" /\ api'[a].units = <<>> /\ api'[a].todo = todo
      /\ \A b \in ApiThreads \ {a} : api'[b] = api[b]
  BY <1>1 DEF ManagedInv, Types
<1>3. \A b \in ApiThreads : ~Stepping(b)
  BY <1>1 DEF UnitInv, Turn
<1>4. Stepping(a)' /\ \A b \in ApiThreads : Stepping(b)' => b = a
  BY <1>2, <1>3 DEF Stepping
<1>5. \A s \in Streams : Delivered(s)'
  BY <1>1 DEF UnitInv, Delivered, Known, InCore
<1>6. ToDrain(a)'
  <2>1. \A s \in Streams : streams[s] # None =>
          /\ streams[s] \in Objects /\ streams[s] <= made.objects
          /\ core[s].unit.origin <= streams[s] /\ streams[s] <= streams[s]
    BY DEF UnitInv, Delivered, Known, ManagedInv, Types, Numbered, Objects, None
  <2>2. \A x \in todo : \E s \in Streams : streams[s] # None /\ x = <<s, streams[s]>>
    BY DEF todo
  <2>3. todo \subseteq Streams \X Objects
    BY <2>1, <2>2
  <2>4. \A x, y \in todo : x[1] = y[1] => x = y
    BY <2>2
  <2>5. \A x \in todo : Known(x[1], x[2])' /\ core'[x[1]].unit.origin <= x[2]
    BY <1>1, <2>1, <2>2 DEF Known
  <2> QED
    BY <1>2, <2>3, <2>4, <2>5 DEF ToDrain
<1>7. Underway(a)'
  BY <1>2 DEF Underway
<1>8. \A b \in ApiThreads : Turn(b)'
  BY <1>1, <1>4, <1>6, <1>7 DEF Turn
<1>9. ASSUME NEW o \in Objects PROVE Line(o)'
  <2>1. PICK lo \in Nat, m \in Nat : Lined(object[o], lo, m) /\ Sent(o, lo)
    BY DEF UnitInv, Line
  <2>2. Sent(o, lo)'
    BY <1>1, <1>2, <1>4, <2>1 DEF Sent
  <2>3. Lined(object[o], lo, m)'
    BY <1>1, <2>1
  <2> QED
    BY <2>2, <2>3 DEF Line
<1> QED
  BY <1>1, <1>5, <1>8, <1>9 DEF UnitInv, UnitsGoOn

\* The step ends: what it had left is lost.
LEMMA EndUnits ==
  ASSUME ManagedInv, CoreInv, UnitInv, UNCHANGED <<streams, made, core, object>>,
         NEW a \in ApiThreads, Stepping(a), NEW ok, EndApiStep(a, ok)
  PROVE  UnitInv' /\ UnitsGoOn
<1>1. /\ api'[a].pc \notin {"step", "serve"}
      /\ \A b \in ApiThreads \ {a} : api'[b] = api[b]
  BY DEF EndApiStep, IdleApi, ManagedInv, Types
<1>2. \A b \in ApiThreads : Stepping(b) => b = a
  BY DEF UnitInv, Turn
<1>3. \A b \in ApiThreads : ~Stepping(b)'
  BY <1>1, <1>2 DEF Stepping
<1>4. \A s \in Streams : Delivered(s)'
  BY DEF UnitInv, Delivered, Known, InCore
<1>5. ASSUME NEW o \in Objects PROVE Line(o)'
  <2>1. PICK lo \in Nat, m \in Nat : Lined(object[o], lo, m) /\ Sent(o, lo)
    BY DEF UnitInv, Line
  <2>2. Sent(o, lo)'
    BY <1>3, <2>1 DEF Sent
  <2>3. Lined(object[o], lo, m)'
    BY <2>1
  <2> QED
    BY <2>2, <2>3 DEF Line
<1> QED
  BY <1>3, <1>4, <1>5 DEF UnitInv, Turn, UnitsGoOn

\* A drained batch, as the step carries it.
LEMMA TaggedUnits ==
  ASSUME NEW b, NEW lo \in Nat, NEW hi \in Nat, RisingUnits(b, lo, hi),
         NEW s \in Streams, NEW o \in Objects
  PROVE  /\ Tagged(s, o, b) \in Seq(UnitType) /\ Len(Tagged(s, o, b)) = Len(b)
         /\ \A i \in 1..Len(b) :
              /\ Tagged(s, o, b)[i].stream = s /\ Tagged(s, o, b)[i].origin = o
              /\ Tagged(s, o, b)[i].seq = b[i].seq
<1>1. /\ b \in Seq(Unit) /\ Len(b) \in Nat /\ DOMAIN b = 1..Len(b)
      /\ \A i \in 1..Len(b) : b[i].seq \in Nat
  BY UnitsOf
<1>2. \A i \in 1..Len(b) : [stream |-> s, origin |-> o, seq |-> b[i].seq] \in UnitType
  BY <1>1 DEF UnitType
<1>3. Tagged(s, o, b) =
        [i \in 1..Len(b) |-> [stream |-> s, origin |-> o, seq |-> b[i].seq]]
  BY <1>1 DEF Tagged
<1>4. Tagged(s, o, b) \in [1..Len(b) -> UnitType]
  BY <1>2, <1>3
<1>5. Tagged(s, o, b) \in Seq(UnitType) /\ Len(Tagged(s, o, b)) = Len(b)
  BY <1>1, <1>4
<1> QED
  BY <1>3, <1>5

LEMMA InARow ==
  ASSUME NEW p \in Seq(UnitType), NEW q \in Seq(UnitType)
  PROVE  /\ p \o q \in Seq(UnitType) /\ Len(p \o q) = Len(p) + Len(q)
         /\ Len(p) \in Nat /\ Len(q) \in Nat
         /\ \A i \in 1..Len(p) : (p \o q)[i] = p[i]
         /\ \A i \in 1..Len(q) : (p \o q)[Len(p) + i] = q[i]
         /\ \A i \in 1..(Len(p) + Len(q)) : \/ i \in 1..Len(p)
                                            \/ \E j \in 1..Len(q) : i = Len(p) + j
<1>1. /\ p \o q \in Seq(UnitType) /\ Len(p \o q) = Len(p) + Len(q)
      /\ Len(p) \in Nat /\ Len(q) \in Nat
      /\ \A i \in 1..Len(p) : (p \o q)[i] = p[i]
      /\ \A i \in 1..Len(q) : (p \o q)[Len(p) + i] = q[i]
  OBVIOUS
<1>2. ASSUME NEW i \in 1..(Len(p) + Len(q)), i \notin 1..Len(p)
      PROVE  \E j \in 1..Len(q) : i = Len(p) + j
  <2>1. i - Len(p) \in 1..Len(q) /\ i = Len(p) + (i - Len(p))
    BY <1>1, <1>2
  <2> QED
    BY <2>1
<1> QED
  BY <1>1, <1>2

LEMMA ApiDrainUnits ==
  ASSUME ManagedInv, CoreInv, UnitInv, NEW a \in ApiThreads,
         NEW s \in Streams, NEW o \in Objects, ApiDrain(a, s, o)
  PROVE  UnitInv' /\ UnitsGoOn
<1> DEFINE h == object[o].handoff
           todo == api[a].todo \ {<<s, o>>}
<1>0. PICK old, batch, new :
        old = api[a].units /\ batch = Tagged(s, o, h.backlog) /\ new = old \o batch
  OBVIOUS
<1>1. /\ UNCHANGED <<streams, made, core, apiActive>>
      /\ Stepping(a) /\ api[a].pc = "step" /\ <<s, o>> \in api[a].todo
      /\ api' = [api EXCEPT ![a].todo = todo,
                            ![a].units = old \o Tagged(s, o, DrainBatch(h))]
      /\ object' = [object EXCEPT ![o].handoff = AfterDrain(h)]
  BY <1>0 DEF ApiDrain, Stepping
<1>2. ToDrain(a) /\ Underway(a) /\ apiActive /\ \A b \in ApiThreads : Stepping(b) => b = a
  BY <1>1 DEF UnitInv, Turn
<1>3. PICK lo \in Nat, m \in Nat : Lined(object[o], lo, m) /\ Sent(o, lo)
  BY DEF UnitInv, Line
<1>4. /\ HandoffLine(h, lo, m) /\ RisingUnits(h.backlog, lo, m) /\ lo <= m
      /\ h.backlog \in Seq(Unit) /\ h.config = <<>>
  BY <1>3, UnitsOf DEF Lined, HandoffLine
<1>5. DrainBatch(h) = h.backlog
  BY <1>4 DEF DrainBatch
<1>6. ApiShape(api[a]) /\ ObjectShape(object[o])
  BY DEF ManagedInv, Types
<1>7. /\ api'[a] = [api[a] EXCEPT !.todo = todo, !.units = new]
      /\ \A b \in ApiThreads \ {a} : api'[b] = api[b]
  BY <1>0, <1>1, <1>5 DEF ManagedInv, Types
<1> HIDE DEF todo
<1>8. api'[a].todo = todo /\ api'[a].units = new /\ api'[a].pc = "step"
  <2>1. api[a].pc = "step"
    BY <1>1
  <2>2. DOMAIN api[a] = {"pc", "todo", "units"}
    BY <1>6 DEF ApiShape
  <2> QED
    BY <1>7, <2>1, <2>2
<1>9. \A b \in ApiThreads : Stepping(b)' => b = a
  BY <1>2, <1>7 DEF Stepping
<1>10. /\ batch \in Seq(UnitType) /\ Len(batch) = Len(h.backlog) /\ Len(batch) \in Nat
       /\ \A i \in 1..Len(batch) :
            /\ batch[i].stream = s /\ batch[i].origin = o /\ batch[i].seq \in Nat
            /\ lo < batch[i].seq /\ batch[i].seq <= m
       /\ \A i, j \in 1..Len(batch) : i < j => batch[i].seq < batch[j].seq
  <2>1. /\ batch \in Seq(UnitType) /\ Len(batch) = Len(h.backlog)
        /\ \A i \in 1..Len(h.backlog) : /\ batch[i].stream = s /\ batch[i].origin = o
                                        /\ batch[i].seq = h.backlog[i].seq
    BY <1>0, <1>4, TaggedUnits
  <2>2. /\ Len(h.backlog) \in Nat
        /\ \A i \in 1..Len(h.backlog) : /\ h.backlog[i].seq \in Nat
                                        /\ lo < h.backlog[i].seq /\ h.backlog[i].seq <= m
        /\ \A i, j \in 1..Len(h.backlog) : i < j => h.backlog[i].seq < h.backlog[j].seq
    BY <1>4, UnitsOf DEF RisingUnits
  <2> HIDE DEF h
  <2> QED
    BY <2>1, <2>2
<1>11. /\ old \in Seq(UnitType) /\ new \in Seq(UnitType) /\ Len(new) = Len(old) + Len(batch)
       /\ Len(old) \in Nat
       /\ \A i \in 1..Len(old) : new[i] = old[i]
       /\ \A i \in 1..Len(batch) : new[Len(old) + i] = batch[i]
       /\ \A i \in 1..Len(new) : \/ i \in 1..Len(old)
                                 \/ \E j \in 1..Len(batch) : i = Len(old) + j
  <2>1. old \in Seq(UnitType)
    BY <1>0, <1>2 DEF Underway
  <2>2. /\ old \o batch \in Seq(UnitType) /\ Len(old \o batch) = Len(old) + Len(batch)
        /\ Len(old) \in Nat
        /\ \A i \in 1..Len(old) : (old \o batch)[i] = old[i]
        /\ \A i \in 1..Len(batch) : (old \o batch)[Len(old) + i] = batch[i]
        /\ \A i \in 1..(Len(old) + Len(batch)) : \/ i \in 1..Len(old)
                                               \/ \E j \in 1..Len(batch) : i = Len(old) + j
    BY <1>10, <2>1, InARow
  <2> QED
    BY <1>0, <2>1, <2>2
<1>12. \A i \in 1..Len(old) : old[i].stream # s
  BY <1>0, <1>1, <1>2 DEF ToDrain
<1>13. Known(s, o) /\ core[s].unit.origin <= o /\ core[s].unit \in [origin : Nat, seq : Nat]
  BY <1>1, <1>2 DEF ToDrain, UnitInv, Delivered
<1>14. \A u \in Streams : Delivered(u)'
  BY <1>1 DEF UnitInv, Delivered, Known, InCore
<1>15. ToDrain(a)'
  <2>1. /\ todo \subseteq Streams \X Objects
        /\ \A x, y \in todo : x[1] = y[1] => x = y
    BY <1>2 DEF todo, ToDrain
  <2>2. ASSUME NEW x \in todo
        PROVE  /\ Known(x[1], x[2])' /\ core'[x[1]].unit.origin <= x[2]
               /\ \A i \in 1..Len(new) : new[i].stream # x[1]
    <3>1. /\ Known(x[1], x[2]) /\ core[x[1]].unit.origin <= x[2]
          /\ \A i \in 1..Len(old) : old[i].stream # x[1]
      BY <1>0, <1>2, <2>2 DEF todo, ToDrain
    <3>2. x[1] # s
      BY <1>1, <1>2, <2>2 DEF todo, ToDrain
    <3>3. ASSUME NEW i \in 1..Len(new) PROVE new[i].stream # x[1]
      <4>1. CASE i \in 1..Len(old)
        BY <1>0, <1>11, <3>1, <4>1
      <4>2. CASE i \notin 1..Len(old)
        <5>1. PICK j \in 1..Len(batch) : i = Len(old) + j
          BY <1>11, <4>2
        <5>2. new[i] = batch[j] /\ batch[j].stream = s
          BY <1>10, <1>11, <5>1
        <5> QED
          BY <3>2, <5>2
      <4> QED
        BY <4>1, <4>2
    <3>4. Known(x[1], x[2])'
      BY <1>1, <3>1 DEF Known
    <3> QED
      BY <1>1, <3>1, <3>3, <3>4
  <2> QED
    BY <1>8, <2>1, <2>2 DEF ToDrain
<1>16. Underway(a)'
  <2>1. /\ \A i \in 1..Len(old) : /\ Known(old[i].stream, old[i].origin)
                                  /\ Before(core[old[i].stream].unit, old[i])
        /\ \A i, j \in 1..Len(old) : i < j /\ old[i].stream = old[j].stream =>
             old[i].origin = old[j].origin /\ old[i].seq < old[j].seq
    BY <1>0, <1>2 DEF Underway
  <2>2. ASSUME NEW j \in 1..Len(batch)
        PROVE  Known(batch[j].stream, batch[j].origin)
               /\ Before(core[batch[j].stream].unit, batch[j])
    <3>1. PICK q \in Nat : q = batch[j].seq
      BY <1>10
    <3>2. lo < q /\ batch[j].stream = s /\ batch[j].origin = o
      BY <1>10, <3>1
    <3>3. core[s].unit.origin = o => core[s].unit.seq < q
      BY <1>3, <1>13, <3>2 DEF Sent
    <3>4. Before(core[s].unit, batch[j])
      BY <1>13, <3>1, <3>2, <3>3 DEF Before, Objects
    <3> QED
      BY <1>13, <3>2, <3>4
  <2>3. ASSUME NEW i \in 1..Len(new)
        PROVE  /\ Known(new[i].stream, new[i].origin)'
               /\ Before(core'[new[i].stream].unit, new[i])
    <3>1. Known(new[i].stream, new[i].origin) /\ Before(core[new[i].stream].unit, new[i])
      BY <1>11, <2>1, <2>2
    <3> QED
      BY <1>1, <3>1 DEF Known
  <2>4. ASSUME NEW i \in 1..Len(new), NEW j \in 1..Len(new), i < j,
               new[i].stream = new[j].stream
        PROVE  new[i].origin = new[j].origin /\ new[i].seq < new[j].seq
    <3>1. CASE i \in 1..Len(old) /\ j \in 1..Len(old)
      <4>1. new[i] = old[i] /\ new[j] = old[j]
        BY <1>11, <3>1
      <4> QED
        BY <2>1, <2>4, <3>1, <4>1
    <3>2. CASE i \in 1..Len(old) /\ j \notin 1..Len(old)
      <4>1. PICK k \in 1..Len(batch) : j = Len(old) + k
        BY <1>11, <3>2
      <4>2. new[j].stream = s /\ new[i].stream # s
        BY <1>10, <1>11, <1>12, <3>2, <4>1
      <4> QED
        BY <2>4, <4>2
    <3>3. CASE i \notin 1..Len(old)
      <4>1. PICK k \in 1..Len(batch) : i = Len(old) + k
        BY <1>11, <3>3
      <4>2. j \notin 1..Len(old)
        BY <1>11, <2>4, <4>1
      <4>3. PICK l \in 1..Len(batch) : j = Len(old) + l
        BY <1>11, <4>2
      <4>4. k < l
        BY <1>10, <1>11, <2>4, <4>1, <4>3
      <4> QED
        BY <1>10, <1>11, <4>1, <4>3, <4>4
    <3> QED
      BY <3>1, <3>2, <3>3
  <2> QED
    BY <1>8, <1>11, <2>3, <2>4 DEF Underway
<1>17. \A b \in ApiThreads : Turn(b)'
  BY <1>1, <1>2, <1>9, <1>15, <1>16 DEF Turn
<1>18. ASSUME NEW p \in Objects PROVE Line(p)'
  <2>1. CASE p # o
    <3>1. PICK k \in Nat, n \in Nat : Lined(object[p], k, n) /\ Sent(p, k)
      BY DEF UnitInv, Line
    <3>2. Lined(object[p], k, n)'
      <4>1. object'[p] = object[p]
        BY <1>1, <2>1 DEF ManagedInv, Types
      <4> QED
        BY <3>1, <4>1
    <3>3. \A i \in 1..Len(new) : new[i].origin = p => new[i].seq <= k
      <4>1. \A i \in 1..Len(old) : old[i].origin = p => old[i].seq <= k
        BY <1>0, <1>1, <3>1 DEF Sent
      <4> QED
        BY <1>10, <1>11, <2>1, <4>1
    <3>4. \A u \in Streams : core'[u].unit.origin = p => core'[u].unit.seq <= k
      BY <1>1, <3>1 DEF Sent
    <3>5. Sent(p, k)'
      BY <1>8, <1>9, <3>3, <3>4 DEF Sent
    <3> QED
      BY <3>2, <3>5 DEF Line
  <2>2. CASE p = o
    <3>1. object'[o] = [object[o] EXCEPT !.handoff = AfterDrain(h)]
      BY <1>1 DEF ManagedInv, Types
    <3>2. HandoffLine(AfterDrain(h), m, m)
      BY <1>4 DEF HandoffLine, Handoff, AfterDrain, RisingUnits
    <3>3. Lined(object[o], lo, m)
      BY <1>3
    <3>4. object'[o].handoff = AfterDrain(h) /\ object'[o].pipeline = object[o].pipeline
          /\ object'[o].encoded = object[o].encoded
      BY <1>6, <3>1 DEF ObjectShape
    <3>5. Lined(object'[o], m, m)
      BY <3>2, <3>3, <3>4 DEF Lined
    <3>6. \A i \in 1..Len(new) : new[i].origin = o => new[i].seq <= m
      <4>1. \A i \in 1..Len(old) :
              old[i].seq \in Nat /\ (old[i].origin = o => old[i].seq <= lo)
        <5>1. \A i \in 1..Len(old) : old[i] \in UnitType
          BY <1>11
        <5> QED
          BY <1>0, <1>1, <1>3, <5>1 DEF Sent, UnitType
      <4>2. ASSUME NEW i \in 1..Len(new), new[i].origin = o PROVE new[i].seq <= m
        <5>1. CASE i \in 1..Len(old)
          BY <1>4, <1>11, <4>1, <4>2, <5>1
        <5>2. CASE i \notin 1..Len(old)
          BY <1>10, <1>11, <5>2
        <5> QED
          BY <5>1, <5>2
      <4> QED
        BY <4>2
    <3>7. \A u \in Streams : core'[u].unit.origin = o => core'[u].unit.seq <= m
      <4>1. \A u \in Streams : core[u].unit \in [origin : Nat, seq : Nat]
        BY DEF UnitInv, Delivered
      <4> QED
        BY <1>1, <1>3, <1>4, <4>1 DEF Sent
    <3>8. Sent(o, m)'
      BY <1>8, <1>9, <3>6, <3>7 DEF Sent
    <3>9. Lined(object[o], m, m)'
      BY <3>5
    <3> QED
      BY <2>2, <3>8, <3>9 DEF Line
  <2> QED
    BY <2>1, <2>2
<1> QED
  BY <1>1, <1>14, <1>17, <1>18 DEF UnitInv, UnitsGoOn

\* The unit that a step delivers next.
LEMMA NextUnit ==
  ASSUME ManagedInv, CoreInv, UnitInv, NEW a \in ApiThreads, Stepping(a),
         api[a].units # <<>>
  PROVE  LET u == Head(api[a].units) IN
           /\ u \in UnitType /\ u = api[a].units[1]
           /\ Known(u.stream, u.origin) /\ Before(core[u.stream].unit, u)
<1>1. Underway(a)
  BY DEF UnitInv, Turn
<1>2. PICK units : units = api[a].units
  OBVIOUS
<1>3. units \in Seq(UnitType) /\ units # <<>>
  BY <1>1, <1>2 DEF Underway
<1>4. 1 \in 1..Len(units) /\ units[1] \in UnitType /\ Head(units) = units[1]
  BY <1>3
<1>5. Known(units[1].stream, units[1].origin) /\ Before(core[units[1].stream].unit, units[1])
  BY <1>1, <1>2, <1>4 DEF Underway
<1> QED
  BY <1>2, <1>4, <1>5

LEMMA ApiDeliverUnits ==
  ASSUME ManagedInv, CoreInv, UnitInv, NEW a \in ApiThreads, ApiDeliver(a)
  PROVE  UnitInv' /\ UnitsGoOn
<1>1. /\ UNCHANGED <<streams, object, made>>
      /\ Stepping(a) /\ api[a].pc = "step" /\ api[a].todo = {} /\ api[a].units # <<>>
  BY DEF ApiDeliver, Stepping
<1>2. PICK units, u : units = api[a].units /\ u = Head(units)
  OBVIOUS
<1>3. /\ u \in UnitType /\ u = units[1]
      /\ Known(u.stream, u.origin) /\ Before(core[u.stream].unit, u)
  BY <1>1, <1>2, NextUnit
<1>4. CASE ~InCore(u.stream)
  <2>1. UNCHANGED core /\ EndApiStep(a, FALSE)
    BY <1>2, <1>4 DEF ApiDeliver
  <2> QED
    BY <1>1, <2>1, EndUnits
<1>5. CASE InCore(u.stream)
  <2>1. PICK s, v : s = u.stream /\ v = [origin |-> u.origin, seq |-> u.seq]
    OBVIOUS
  <2>2. /\ s \in Streams /\ v \in [origin : Nat, seq : Nat]
        /\ v.origin = u.origin /\ v.seq = u.seq
    BY <1>3, <2>1 DEF UnitType, Objects
  <2>3. /\ core' = [core EXCEPT ![s].unit = v] /\ UNCHANGED apiActive
        /\ api' = [api EXCEPT ![a].units = Tail(units)]
    BY <1>2, <1>5, <2>1 DEF ApiDeliver
  <2>4. /\ core'[s].unit = v /\ core'[s].life = core[s].life
        /\ \A t \in Streams \ {s} : core'[t] = core[t]
    <3>1. CoreShape(core[s]) /\ core'[s] = [core[s] EXCEPT !.unit = v]
      BY <2>2, <2>3 DEF CoreInv
    <3>2. core'[s].unit = v /\ core'[s].life = core[s].life
      BY <3>1 DEF CoreShape
    <3> QED
      BY <2>2, <2>3, <3>2 DEF CoreInv
  <2>5. PICK rest : rest = Tail(units)
    OBVIOUS
  <2>6. /\ api'[a].units = rest /\ api'[a].todo = {} /\ api'[a].pc = "step"
        /\ \A b \in ApiThreads \ {a} : api'[b] = api[b]
    <3>1. api'[a] = [api[a] EXCEPT !.units = rest]
      BY <2>3, <2>5 DEF ManagedInv, Types
    <3>2. ApiShape(api[a]) /\ api[a].pc = "step"
      BY <1>1 DEF ManagedInv, Types
    <3>3. api'[a].units = rest /\ api'[a].todo = {} /\ api'[a].pc = "step"
      BY <1>1, <3>1, <3>2 DEF ApiShape
    <3> QED
      BY <2>3, <3>3 DEF ManagedInv, Types
  <2>7. apiActive /\ Underway(a) /\ \A b \in ApiThreads : Stepping(b) => b = a
    BY <1>1 DEF UnitInv, Turn
  <2>8. /\ units \in Seq(UnitType) /\ units # <<>>
        /\ \A i \in 1..Len(units) : /\ Known(units[i].stream, units[i].origin)
                                    /\ Before(core[units[i].stream].unit, units[i])
        /\ \A i, j \in 1..Len(units) : i < j /\ units[i].stream = units[j].stream =>
             units[i].origin = units[j].origin /\ units[i].seq < units[j].seq
    BY <1>1, <1>2, <2>7 DEF Underway
  <2>9. /\ rest \in Seq(UnitType) /\ Len(rest) \in Nat
        /\ \A i \in 1..Len(rest) : /\ rest[i] = units[i + 1]
                                   /\ i + 1 \in 1..Len(units) /\ 1 < i + 1
        /\ 1 \in 1..Len(units)
    BY <2>5, <2>8
  <2>10. \A b \in ApiThreads : Stepping(b)' => b = a
    BY <2>6, <2>7 DEF Stepping
  <2>11. ASSUME NEW t \in Streams PROVE Delivered(t)'
    <3>1. CASE t = s
      <4>1. Known(s, u.origin)'
        BY <1>1, <1>3, <2>1 DEF Known
      <4>2. Known(s, core[s].unit.origin)'
        BY <2>2, <2>4, <4>1 DEF Known
      <4>3. InCore(s)'
        BY <1>5, <2>1, <2>4 DEF InCore
      <4> QED
        BY <2>2, <2>4, <3>1, <4>2, <4>3 DEF Delivered
    <3>2. CASE t # s
      BY <1>1, <2>4, <3>2 DEF UnitInv, Delivered, Known, InCore
    <3> QED
      BY <3>1, <3>2
  <2>12. ToDrain(a)'
    BY <2>6 DEF ToDrain
  <2>13. Underway(a)'
    <3>1. ASSUME NEW i \in 1..Len(rest)
          PROVE  /\ Known(rest[i].stream, rest[i].origin)'
                 /\ Before(core'[rest[i].stream].unit, rest[i])
      <4>1. PICK j \in 1..Len(units) : rest[i] = units[j] /\ 1 < j
        BY <2>9
      <4>2. units[j] \in UnitType
        BY <2>8
      <4>3. PICK t \in Streams : t = units[j].stream
        BY <4>2 DEF UnitType
      <4>4. Known(t, units[j].origin) /\ Before(core[t].unit, units[j])
        BY <2>8, <4>3
      <4>5. Known(t, units[j].origin)'
        BY <1>1, <4>4 DEF Known
      <4>6. CASE t = s
        <5>1. units[1].origin = units[j].origin /\ units[1].seq < units[j].seq
          BY <1>3, <2>1, <2>8, <2>9, <4>1, <4>3, <4>6
        <5>2. Before(v, units[j])
          BY <1>3, <2>2, <5>1 DEF Before
        <5> QED
          BY <2>4, <4>1, <4>3, <4>5, <4>6, <5>2
      <4>7. CASE t # s
        BY <2>4, <4>1, <4>3, <4>4, <4>5, <4>7
      <4> QED
        BY <4>6, <4>7
    <3>2. ASSUME NEW i \in 1..Len(rest), NEW j \in 1..Len(rest), i < j,
                 rest[i].stream = rest[j].stream
          PROVE  rest[i].origin = rest[j].origin /\ rest[i].seq < rest[j].seq
      <4>1. /\ rest[i] = units[i + 1] /\ rest[j] = units[j + 1] /\ i + 1 < j + 1
            /\ i + 1 \in 1..Len(units) /\ j + 1 \in 1..Len(units)
        BY <2>9, <3>2
      <4> QED
        BY <2>8, <3>2, <4>1
    <3> QED
      BY <2>6, <2>9, <3>1, <3>2 DEF Underway
  <2>14. \A b \in ApiThreads : Turn(b)'
    BY <2>3, <2>7, <2>10, <2>12, <2>13 DEF Turn
  <2>15. ASSUME NEW o \in Objects PROVE Line(o)'
    <3>1. PICK lo \in Nat, m \in Nat : Lined(object[o], lo, m) /\ Sent(o, lo)
      BY DEF UnitInv, Line
    <3>2. \A i \in 1..Len(units) : units[i].origin = o => units[i].seq <= lo
      BY <1>1, <1>2, <3>1 DEF Sent
    <3>3. \A i \in 1..Len(rest) : rest[i].origin = o => rest[i].seq <= lo
      BY <2>9, <3>2
    <3>4. ASSUME NEW t \in Streams, core'[t].unit.origin = o PROVE core'[t].unit.seq <= lo
      <4>1. CASE t = s
        BY <1>3, <2>2, <2>4, <2>9, <3>2, <3>4, <4>1
      <4>2. CASE t # s
        BY <2>4, <3>1, <3>4, <4>2 DEF Sent
      <4> QED
        BY <4>1, <4>2
    <3>5. Sent(o, lo)'
      BY <2>6, <2>10, <3>3, <3>4 DEF Sent
    <3>6. Lined(object[o], lo, m)'
      BY <1>1, <3>1
    <3> QED
      BY <3>5, <3>6 DEF Line
  <2>16. Before(core[s].unit, v)
    BY <1>3, <2>1, <2>2 DEF Before
  <2>17. UnitsGoOn
    BY <2>4, <2>16 DEF UnitsGoOn
  <2> QED
    BY <2>11, <2>14, <2>15, <2>17 DEF UnitInv
<1> QED
  BY <1>4, <1>5

LEMMA ApiExitUnits ==
  ASSUME ManagedInv, CoreInv, UnitInv, ApiExit
  PROVE  UnitInv' /\ UnitsGoOn
<1>1. UNCHANGED <<streams, object, made, core, apiActive>>
  BY DEF ApiExit
<1>2. ASSUME NEW a \in ApiThreads PROVE api'[a].pc = "exited" \/ api'[a] = api[a]
  <2>1. api' = [api EXCEPT ![ApiWorker].pc = "exited"]
    BY DEF ApiExit
  <2>2. api'[a] = api[a] \/ api'[a] = [api[a] EXCEPT !.pc = "exited"]
    BY <2>1 DEF ManagedInv, Types
  <2>3. ApiShape(api[a])
    BY DEF ManagedInv, Types
  <2> QED
    BY <2>2, <2>3 DEF ApiShape
<1>3. \A s \in Streams : core[s].life = None => core[s].unit = NoUnit
  BY DEF UnitInv, Delivered, InCore
<1>4. made.objects \in Nat
  BY DEF ManagedInv, Types, MadeType
<1>5. TurnsStay
  BY <1>2 DEF TurnsStay, Stepping
<1> QED
  BY <1>1, <1>3, <1>4, <1>5, SamePaths, UnitsKeep

\* A thread that serves a client has drained and delivered all it took.
LEMMA ApiAcceptUnits ==
  ASSUME ManagedInv, CoreInv, UnitInv, NEW a \in ApiThreads, ApiAccept(a)
  PROVE  UnitInv' /\ UnitsGoOn
<1>1. UNCHANGED <<streams, object, made, core, apiActive>> /\ api[a].pc = "step"
  BY DEF ApiAccept
<1>2. ASSUME NEW b \in ApiThreads
      PROVE  \/ api'[b] = api[b]
             \/ b = a /\ api'[b].todo = api[b].todo /\ api'[b].units = api[b].units
  <2>1. api' = [api EXCEPT ![a].pc = "serve"]
    BY DEF ApiAccept
  <2>2. api'[b] = api[b] \/ (b = a /\ api'[b] = [api[b] EXCEPT !.pc = "serve"])
    BY <2>1 DEF ManagedInv, Types
  <2>3. ApiShape(api[b])
    BY DEF ManagedInv, Types
  <2> QED
    BY <2>2, <2>3 DEF ApiShape
<1>3. \A s \in Streams : core[s].life = None => core[s].unit = NoUnit
  BY DEF UnitInv, Delivered, InCore
<1>4. made.objects \in Nat
  BY DEF ManagedInv, Types, MadeType
<1>5. TurnsStay
  BY <1>1, <1>2 DEF TurnsStay, Stepping
<1> QED
  BY <1>1, <1>3, <1>4, <1>5, SamePaths, UnitsKeep

-----------------------------------------------------------------------------
(* The invariant of the specification, and what follows from it.           *)

LEMMA UnitsInit ==
  ASSUME Init
  PROVE  UnitInv
<1>1. ManagedInv
  BY ManagedInit
<1>2. /\ \A s \in Streams : core[s] = NotInCore
      /\ \A a \in ApiThreads : api[a].pc \notin {"step", "serve"}
      /\ \A o \in Objects : object[o] = NewObject
  BY DEF Init, IdleApi
<1>3. \A s \in Streams : core[s].unit = NoUnit /\ core[s].life = None
  BY <1>2, FreshUnit
<1>4. NoUnit \in [origin : Nat, seq : Nat] /\ NoUnit.origin = 0 /\ NoUnit.seq = 0
  BY DEF NoUnit, None
<1>5. \A s \in Streams : Delivered(s)
  BY <1>1, <1>3, <1>4 DEF Delivered, Known, ManagedInv, Types, MadeType, Objects, None
<1>6. ASSUME NEW o \in Objects PROVE Line(o)
  <2>1. /\ NewObject.handoff = EmptyHandoff /\ NewObject.encoded = 0
        /\ NewObject.pipeline.held = <<>>
    BY DEF NewObject, NoPipeline, None
  <2>2. HandoffLine(EmptyHandoff, 0, 0)
    BY DEF HandoffLine, Handoff, EmptyHandoff, RisingUnits
  <2>3. Lined(NewObject, 0, 0)
    BY <2>1, <2>2 DEF Lined, RisingFrames
  <2>4. Sent(o, 0)
    BY <1>2, <1>3, <1>4 DEF Sent, Stepping
  <2> QED
    BY <1>2, <2>3, <2>4 DEF Line
<1> QED
  BY <1>2, <1>5, <1>6 DEF UnitInv, Turn, Stepping

LEMMA OwnerStepUnits ==
  ASSUME ManagedInv, CoreInv, UnitInv, OwnerStep
  PROVE  UnitInv' /\ UnitsGoOn
<1>1. CASE \E opened \in BOOLEAN : Start(opened)
  BY <1>1, StartUnits
<1>2. CASE StopBegin \/ DestroyBegin \/ DestroyDrained
  <2>1. UNCHANGED <<streams, core, object, made, api, apiActive>>
    BY <1>2 DEF StopBegin, DestroyBegin, DestroyDrained
  <2> QED
    BY <2>1, SamePaths, QuietUnits
<1>3. CASE UnwindStart \/ StopFinish
  BY <1>3, UnwindStartUnits, StopFinishUnits
<1>4. CASE \E s \in Streams : RegisterStream(s) \/ RemoveStream(s)
  BY <1>4, RegisterStreamUnits, RemoveStreamUnits
<1>5. CASE \E h \in Handles : \E list \in GroupLists : RegisterStreams(h, list)
  BY <1>5, RegisterStreamsUnits
<1>6. CASE \E h \in Handles : ReleaseStreamGroup(h)
  BY <1>6, ReleaseStreamGroupUnits
<1>7. CASE \E s \in Streams : \E interval \in {0, 2} : SetOutputConfig(s, interval)
  BY <1>7, SetOutputConfigUnits
<1> QED
  BY <1>1, <1>2, <1>3, <1>4, <1>5, <1>6, <1>7 DEF OwnerStep

LEMMA StepperStepUnits ==
  ASSUME ManagedInv, CoreInv, UnitInv, NEW t \in Steppers,
         (\E h \in Handles : StepBegin(t, h)) \/ StepperStep(t)
  PROVE  UnitInv' /\ UnitsGoOn
<1>1. CASE StepEnter(t) \/ StepLeave(t) \/ StepLookup(t) \/ \E h \in Handles : StepBegin(t, h)
  <2>1. UNCHANGED <<streams, core, object, made, api, apiActive>>
    BY <1>1 DEF StepEnter, StepLeave, StepLookup, StepBegin
  <2> QED
    BY <2>1, SamePaths, QuietUnits
<1>2. CASE StepTake(t) \/ StepTransformFails(t) \/ StepPublish(t)
  BY <1>2, StepTakeUnits, StepCountUnits
<1>3. CASE \E keep \in 0..EncoderDelay, kind \in LaterKinds : StepEncode(t, keep, kind)
  BY <1>3, StepEncodeUnits
<1>4. CASE StepPipelineFails(t) \/ StepEncodeFails(t)
  BY <1>4, StepPipelineFailsUnits, StepEncodeFailsUnits
<1> QED
  BY <1>1, <1>2, <1>3, <1>4 DEF StepperStep

LEMMA ApiTurnUnits ==
  ASSUME ManagedInv, CoreInv, UnitInv, NEW a \in ApiThreads, ApiTurn(a)
  PROVE  UnitInv' /\ UnitsGoOn
<1>1. CASE ApiBegin(a)
  BY <1>1, ApiBeginUnits
<1>2. CASE \E ok \in PumpResults : ApiPump(a, ok) \/ ApiServed(a, ok)
  <2>1. PICK ok \in PumpResults : ApiPump(a, ok) \/ ApiServed(a, ok)
    BY <1>2
  <2>2. UNCHANGED <<streams, core, object, made>> /\ Stepping(a) /\ EndApiStep(a, ok)
    BY <2>1 DEF ApiPump, ApiServed, Stepping
  <2> QED
    BY <2>2, EndUnits
<1>3. CASE \E s \in Streams, o \in Objects : ApiDrain(a, s, o)
  BY <1>3, ApiDrainUnits
<1>4. CASE ApiDeliver(a)
  BY <1>4, ApiDeliverUnits
<1>5. CASE ApiAccept(a)
  BY <1>5, ApiAcceptUnits
<1> QED
  BY <1>1, <1>2, <1>3, <1>4, <1>5 DEF ApiTurn, ApiStep

LEMMA UnitsInductive ==
  ASSUME ManagedInv, CoreInv, UnitInv, [Next]_vars
  PROVE  UnitInv' /\ UnitsGoOn
<1>1. CASE OwnerStep
  BY <1>1, OwnerStepUnits
<1>2. CASE \E s \in Sources : PushValidate(s) \/ PushReject(s) \/ PushLatch(s) \/ PushNote(s)
  BY <1>2, ManagedAssumption, PushUnits DEF ManagedAssumption
<1>3. CASE \E t \in Steppers : (\E h \in Handles : StepBegin(t, h)) \/ StepperStep(t)
  BY <1>3, StepperStepUnits
<1>4. CASE \E a \in ApiThreads : ApiTurn(a)
  BY <1>4, ApiTurnUnits
<1>5. CASE ApiExit
  BY <1>5, ApiExitUnits
<1>6. CASE UNCHANGED vars
  <2>1. UNCHANGED <<streams, core, object, made, api, apiActive>>
    BY <1>6 DEF vars
  <2> QED
    BY <2>1, SamePaths, QuietUnits
<1> QED
  BY <1>1, <1>2, <1>3, <1>4, <1>5, <1>6 DEF Next

LEMMA UnitsInvariant == Spec => []UnitInv
<1>1. Init => UnitInv
  BY UnitsInit
<1>2. ManagedInv /\ CoreInv /\ UnitInv /\ [Next]_vars => UnitInv'
  BY UnitsInductive
<1> QED
  BY <1>1, <1>2, ManagedInvariant, CoreInvariant, PTL DEF Spec

\* step_api over EncodedAccessUnitHandoff: for any number of calling threads, a stream's
\* viewers are offered each access unit after the ones encoded before it, and once,
\* whatever is stopped, rebuilt, removed or registered anew between the copying of the
\* state objects, the drain and the delivery: also the units that a stop or a removal
\* flushes out of the encoder.
THEOREM UnitsReachViewersInOrder == Spec => UnitsDeliveredInOrder
<1>1. UnitsGoOn <=> (\A s \in Streams :
       LET u == core[s].unit
           v == core'[s].unit
       IN  u # v /\ core'[s].life = core[s].life =>
             u.origin < v.origin \/ (u.origin = v.origin /\ u.seq < v.seq))
  BY DEF UnitsGoOn, Before
<1>2. ManagedInv /\ CoreInv /\ UnitInv /\ [Next]_vars =>
      [\A s \in Streams :
       LET u == core[s].unit
           v == core'[s].unit
       IN  u # v /\ core'[s].life = core[s].life =>
             u.origin < v.origin \/ (u.origin = v.origin /\ u.seq < v.seq)]_vars
  BY <1>1, UnitsInductive
<1> QED
  BY <1>2, ManagedInvariant, CoreInvariant, UnitsInvariant, PTL
     DEF Spec, UnitsDeliveredInOrder

-----------------------------------------------------------------------------
(* The bounds of the types.                                                *)

PipelineStates == {"none", "running", "failed"}
Fits(r) ==
  /\ r.pending <= MaxFrames /\ r.encoded <= MaxFrames /\ r.owner <= MaxGroups
  /\ r.pipeline.state \in PipelineStates
BoundInv ==
  /\ mode \in Modes /\ apiActive \in BOOLEAN
  /\ life.starts <= MaxStarts /\ made.groups <= MaxGroups
  /\ \A s \in Streams : producer[s].clock <= MaxFrames
  /\ \A o \in Objects : Fits(object[o])

LEMMA NumericBounds == MaxFrames \in Nat /\ MaxGroups \in Nat /\ MaxStarts \in Nat
BY ManagedAssumption DEF ManagedAssumption

\* One object changes, and it fits.
LEMMA OneFits ==
  ASSUME ManagedInv, BoundInv, NEW n, NEW r, object' = [object EXCEPT ![n] = r],
         n \in Objects => Fits(r)
  PROVE  \A o \in Objects : Fits(object'[o])
<1>1. CASE n \in Objects
  <2>1. object'[n] = r /\ \A o \in Objects \ {n} : object'[o] = object[o]
    BY <1>1 DEF ManagedInv, Types
  <2> QED
    BY <1>1, <2>1 DEF BoundInv
<1>2. CASE n \notin Objects
  <2>1. \A o \in Objects : object'[o] = object[o]
    BY <1>2 DEF ManagedInv, Types
  <2> QED
    BY <2>1 DEF BoundInv
<1> QED
  BY <1>1, <1>2

LEMMA OwnerFits ==
  ASSUME ManagedInv, CoreInv, BoundInv, OwnerStep
  PROVE  BoundInv'
<1>1. \A o \in Objects : ObjectShape(object[o]) /\ Fits(object[o])
  BY DEF ManagedInv, Types, BoundInv
<1>2. life \in LifeType /\ made \in MadeType
  BY DEF ManagedInv, Types
<1>3. CASE \E opened \in BOOLEAN : Start(opened)
  <2>1. PICK opened \in BOOLEAN : Start(opened)
    BY <1>3
  <2>2. UNCHANGED <<mode, made, producer, apiActive>> /\ RegisterAll /\ life.starts < MaxStarts
    BY <2>1 DEF Start
  <2>3. \A o \in Objects : Alike(object'[o], object[o])
    BY <2>2, RegisterAllAlike DEF ManagedInv
  <2>4. life'.starts = life.starts + 1
    BY <1>2, <2>1 DEF Start, LifeType
  <2>5. life'.starts <= MaxStarts
    BY <1>2, <2>2, <2>4, NumericBounds DEF LifeType
  <2> QED
    BY <1>1, <2>2, <2>3, <2>5 DEF BoundInv, Fits, Alike
<1>4. CASE UnwindStart \/ StopBegin \/ DestroyBegin \/ DestroyDrained
  <2>1. /\ UNCHANGED <<mode, made, producer, object, apiActive>>
        /\ life'.starts = life.starts
    BY <1>2, <1>4 DEF UnwindStart, StopBegin, DestroyBegin, DestroyDrained, LifeType
  <2> QED
    BY <2>1 DEF BoundInv
<1>5. CASE StopFinish
  <2>1. UNCHANGED <<mode, made, producer, apiActive>> /\ life'.starts = life.starts
    BY <1>2, <1>5 DEF StopFinish, LifeType
  <2>2. ASSUME NEW o \in Objects PROVE Fits(object'[o])
    <3> DEFINE p == StopPipeline(object[o])
               h == AfterClear(p.handoff)
    <3>1. object'[o] = object[o] \/ object'[o] = [p EXCEPT !.handoff = h]
      BY <1>5 DEF StopFinish
    <3>2. Fits(object[o]) /\ Fits(p) /\ ObjectShape(p)
      BY <1>1, StopPipelineShape DEF Fits, PipelineStates
    <3> HIDE DEF p, h
    <3>3. CASE object'[o] = [p EXCEPT !.handoff = h]
      <4>1. /\ object'[o].pending = p.pending /\ object'[o].owner = p.owner
            /\ object'[o].encoded = p.encoded /\ object'[o].pipeline = p.pipeline
        BY <3>2, <3>3 DEF ObjectShape
      <4> QED
        BY <3>2, <4>1 DEF Fits
    <3> QED
      BY <3>1, <3>2, <3>3
  <2> QED
    BY <2>1, <2>2 DEF BoundInv
<1>6. CASE \E s \in Streams : RegisterStream(s)
  <2>1. PICK s \in Streams : RegisterStream(s)
    BY <1>6
  <2>2. UNCHANGED <<mode, life, producer, apiActive>> /\ made'.groups = made.groups
    BY <1>2, <2>1 DEF RegisterStream, MadeType
  <2>3. ASSUME NEW o \in Objects PROVE Fits(object'[o])
    <3> DEFINE n == made.objects + 1
    <3>1. object' = [object EXCEPT ![n].registered = life.started]
      BY <2>1 DEF RegisterStream
    <3> HIDE DEF n
    <3>2. object'[o] = object[o] \/ object'[o] = [object[o] EXCEPT !.registered = life.started]
      BY <3>1 DEF ManagedInv, Types
    <3> QED
      BY <1>1, <3>2 DEF Fits, ObjectShape
  <2> QED
    BY <2>2, <2>3 DEF BoundInv
<1>7. CASE \E s \in Streams : RemoveStream(s)
  <2>1. PICK s \in Streams : RemoveStream(s)
    BY <1>7
  <2>2. UNCHANGED <<mode, life, producer, apiActive, made>>
    BY <2>1 DEF RemoveStream
  <2> DEFINE n == streams[s]
             r == StopPipeline(object[n])
  <2>3. object' = [object EXCEPT ![n] = r]
    BY <2>1 DEF RemoveStream
  <2> HIDE DEF n
  <2>4. n \in Objects => Fits(r)
    BY <1>1, StopPipelineShape DEF Fits, PipelineStates
  <2> HIDE DEF r
  <2> QED
    BY <2>2, <2>3, <2>4, OneFits DEF BoundInv
<1>8. CASE \E h \in Handles : \E list \in GroupLists : RegisterStreams(h, list)
  <2>1. PICK h \in Handles, list \in GroupLists : RegisterStreams(h, list)
    BY <1>8
  <2> DEFINE g == made.groups + 1
  <2>2. /\ UNCHANGED <<mode, life, producer, apiActive>> /\ g <= MaxGroups
        /\ made' = [made EXCEPT !.groups = g]
    BY <1>2, <2>1, NumericBounds DEF RegisterStreams, MadeType
  <2>3. ASSUME NEW o \in Objects
        PROVE  object'[o] = object[o] \/ object'[o] = [object[o] EXCEPT !.owner = g]
    BY <2>1 DEF RegisterStreams
  <2> HIDE DEF g
  <2>4. made'.groups = g
    BY <1>2, <2>2 DEF MadeType
  <2>5. \A o \in Objects : Fits(object'[o])
    BY <1>1, <2>2, <2>3 DEF Fits, ObjectShape
  <2> QED
    BY <2>2, <2>4, <2>5 DEF BoundInv
<1>9. CASE \E h \in Handles : ReleaseStreamGroup(h)
  <2>1. PICK h \in Handles : ReleaseStreamGroup(h)
    BY <1>9
  <2>2. UNCHANGED <<mode, life, made, producer, apiActive>>
    BY <2>1 DEF ReleaseStreamGroup
  <2>3. ASSUME NEW o \in Objects
        PROVE  object'[o] = object[o] \/ object'[o] = [object[o] EXCEPT !.owner = 0]
    BY <2>1 DEF ReleaseStreamGroup
  <2>4. ASSUME NEW o \in Objects PROVE Fits(object'[o])
    <3>1. ObjectShape(object[o]) /\ Fits(object[o])
      BY <1>1
    <3>2. CASE object'[o] = [object[o] EXCEPT !.owner = 0]
      <4>1. /\ object'[o].pending = object[o].pending /\ object'[o].owner = 0
            /\ object'[o].encoded = object[o].encoded
            /\ object'[o].pipeline = object[o].pipeline
        BY <3>1, <3>2 DEF ObjectShape
      <4> QED
        BY <3>1, <4>1, NumericBounds DEF Fits
    <3> QED
      BY <2>3, <3>1, <3>2
  <2> QED
    BY <2>2, <2>4 DEF BoundInv
<1>10. CASE \E s \in Streams : \E interval \in {0, 2} : SetOutputConfig(s, interval)
  <2>1. UNCHANGED <<mode, life, object, producer, apiActive>> /\ made'.groups = made.groups
    BY <1>2, <1>10 DEF SetOutputConfig, MadeType
  <2> QED
    BY <2>1 DEF BoundInv
<1> QED
  BY <1>3, <1>4, <1>5, <1>6, <1>7, <1>8, <1>9, <1>10 DEF OwnerStep

LEMMA PushFits ==
  ASSUME ManagedInv, BoundInv, NEW s \in Streams,
         PushValidate(s) \/ PushReject(s) \/ PushLatch(s) \/ PushNote(s)
  PROVE  BoundInv'
<1>1. UNCHANGED <<mode, life, made, apiActive>>
  BY DEF PushValidate, PushReject, PushLatch, PushNote
<1>2. \A t \in Streams : producer[t] \in ProducerType /\ producer[t].clock <= MaxFrames
  BY DEF ManagedInv, Types, BoundInv
<1>3. ASSUME NEW t \in Streams PROVE producer'[t].clock <= MaxFrames
  <2>1. CASE PushValidate(s)
    <3> DEFINE c == producer[s].clock + 1
    <3>1. c <= MaxFrames
      BY <1>2, <2>1, NumericBounds DEF PushValidate, ProducerType
    <3>2. \E pc : producer' = [producer EXCEPT ![s].pc = pc, ![s].clock = c]
      BY <2>1 DEF PushValidate
    <3> HIDE DEF c
    <3>3. producer'[t] = producer[t] \/ producer'[t].clock = c
      BY <1>2, <3>2 DEF ProducerType, ManagedInv, Types
    <3> QED
      BY <1>2, <3>1, <3>3
  <2>2. CASE PushReject(s) \/ PushLatch(s) \/ PushNote(s)
    <3>1. producer \in [Streams -> ProducerType]
      BY DEF ManagedInv, Types
    <3>2. \/ \E pc : producer' = [producer EXCEPT ![s].pc = pc]
          \/ \E pc, o : producer' = [producer EXCEPT ![s].pc = pc, ![s].object = o]
      BY <2>2 DEF PushReject, PushLatch, PushNote, Latch
    <3>3. PICK p : producer' = [producer EXCEPT ![s] = p] /\ p.clock = producer[s].clock
      <4>1. ASSUME NEW pc, producer' = [producer EXCEPT ![s].pc = pc]
            PROVE  \E p : producer' = [producer EXCEPT ![s] = p]
                          /\ p.clock = producer[s].clock
        <5> WITNESS [producer[s] EXCEPT !.pc = pc]
        <5> QED
          BY <3>1, <4>1 DEF ProducerType
      <4>2. ASSUME NEW pc, NEW o,
                   producer' = [producer EXCEPT ![s].pc = pc, ![s].object = o]
            PROVE  \E p : producer' = [producer EXCEPT ![s] = p]
                          /\ p.clock = producer[s].clock
        <5>1. producer' = [producer EXCEPT ![s] = [@ EXCEPT !.pc = pc, !.object = o]]
          BY <3>1, <4>2 DEF ProducerType
        <5> WITNESS [producer[s] EXCEPT !.pc = pc, !.object = o]
        <5> QED
          BY <3>1, <5>1 DEF ProducerType
      <4> QED
        BY <3>2, <4>1, <4>2
    <3>4. producer'[t].clock = producer[t].clock
      BY <3>1, <3>3
    <3> QED
      BY <1>2, <3>4
  <2> QED
    BY <2>1, <2>2
<1>4. \A o \in Objects : Fits(object'[o])
  <2>1. CASE object' = object
    BY <2>1 DEF BoundInv
  <2>2. CASE object' = [object EXCEPT ![streams[s]].pending = producer[s].clock]
    <3> DEFINE n == streams[s]
               c == producer[s].clock
               r == [object[n] EXCEPT !.pending = c]
    <3>1. object' = [object EXCEPT ![n] = r] /\ c <= MaxFrames
      BY <1>2, <2>2
    <3> HIDE DEF n, c
    <3>2. n \in Objects => Fits(r)
      BY <3>1 DEF Fits, ObjectShape, BoundInv, ManagedInv, Types
    <3> HIDE DEF r
    <3> QED
      BY <3>1, <3>2, OneFits
  <2>3. CASE PushNote(s)
    BY <2>3, NotedObjects DEF Alike, Fits, BoundInv, ManagedInv
  <2> QED
    BY <2>1, <2>2, <2>3 DEF PushValidate, PushReject, PushLatch, Latch
<1> QED
  BY <1>1, <1>3, <1>4 DEF BoundInv

LEMMA StepFits ==
  ASSUME ManagedInv, CoreInv, BoundInv, NEW t \in Steppers,
         (\E h \in Handles : StepBegin(t, h)) \/ StepperStep(t)
  PROVE  BoundInv'
<1>1. UNCHANGED <<mode, life, made, producer, apiActive>>
  BY DEF StepperStep, StepBegin, StepEnter, StepLookup, StepTake, StepTransformFails,
         StepEncode, StepPipelineFails, StepEncodeFails, StepPublish, StepLeave
<1> SUFFICES \A o \in Objects : Fits(object'[o])
  BY <1>1 DEF BoundInv
<1>2. PICK n, f : n = stepper[t].object /\ f = stepper[t].frame
  OBVIOUS
<1>3. n \in Objects => ObjectShape(object[n]) /\ Fits(object[n])
  BY DEF ManagedInv, Types, BoundInv
<1>4. n \in Objects => Fits(StopPipeline(object[n])) /\ ObjectShape(StopPipeline(object[n]))
  BY <1>3, StopPipelineShape DEF Fits, PipelineStates
<1>5. n \in Objects => /\ Fits(EnsurePipeline(object[n], stepper[t].gen))
                       /\ ObjectShape(EnsurePipeline(object[n], stepper[t].gen))
  <2> DEFINE e == EnsurePipeline(object[n], stepper[t].gen)
             p == StopPipeline(object[n])
  <2>1. e = object[n] \/ e = [p EXCEPT !.pipeline = NewPipeline(stepper[t].gen)]
    BY DEF EnsurePipeline
  <2>2. NewPipeline(stepper[t].gen).state = "running"
    BY DEF NewPipeline
  <2>3. n \in Objects => Fits(p) /\ ObjectShape(p)
    BY <1>4
  <2> HIDE DEF p
  <2>4. n \in Objects => Fits(e)
    BY <1>3, <2>1, <2>2, <2>3 DEF Fits, ObjectShape, PipelineStates
  <2> QED
    BY <1>3, <2>4, EnsurePipelineShape
<1>6. CASE object' = object
  BY <1>6 DEF BoundInv
<1>7. CASE StepTake(t) /\ object' # object
  <2> DEFINE d == IF core[AtStream(t)].interval > 0
                  THEN object[n].pending + core[AtStream(t)].interval ELSE 0
             r == [object[n] EXCEPT !.pending = None, !.due = d]
  <2>1. object' = [object EXCEPT ![n] = r]
    BY <1>2, <1>7 DEF StepTake
  <2> HIDE DEF d
  <2>2. n \in Objects => Fits(r)
    BY <1>3, NumericBounds DEF Fits, ObjectShape, None
  <2> HIDE DEF r
  <2> QED
    BY <2>1, <2>2, OneFits
<1>8. CASE StepPipelineFails(t)
  <2> DEFINE r == StopPipeline(object[n])
  <2>1. object' = [object EXCEPT ![n] = r]
    BY <1>2, <1>8 DEF StepPipelineFails
  <2>2. n \in Objects => Fits(r)
    BY <1>4
  <2> HIDE DEF r
  <2> QED
    BY <2>1, <2>2, OneFits
<1>9. CASE StepEncodeFails(t)
  <2> DEFINE e == EnsurePipeline(object[n], stepper[t].gen)
             r == [e EXCEPT !.pipeline.state = "failed", !.pipeline.held = <<>>]
  <2>1. object' = [object EXCEPT ![n] = r]
    BY <1>2, <1>9 DEF StepEncodeFails
  <2>2. n \in Objects => Fits(e) /\ ObjectShape(e)
    BY <1>5
  <2> HIDE DEF e
  <2>3. n \in Objects => Fits(r)
    BY <2>2 DEF Fits, ObjectShape, PipelineShape, PipelineStates
  <2> HIDE DEF r
  <2> QED
    BY <2>1, <2>3, OneFits
<1>10. CASE \E keep \in 0..EncoderDelay, kind \in LaterKinds : StepEncode(t, keep, kind)
  <2>1. PICK keep \in 0..EncoderDelay, kind \in LaterKinds : StepEncode(t, keep, kind)
    BY <1>10
  <2> DEFINE e == EnsurePipeline(object[n], stepper[t].gen)
             r == Encode(e, f, keep, kind)
  <2>2. object' = [object EXCEPT ![n] = r] /\ stepper[t].pc = "encode"
    BY <1>2, <2>1 DEF StepEncode
  <2>3. f \in Nat /\ f <= MaxFrames
    <3>1. PICK s \in Streams : s = AtStream(t)
      BY <2>2, PublishedObject DEF AtWork
    <3>2. f <= producer[s].clock /\ producer[s].clock <= MaxFrames /\ f \in Nat
      BY <1>2, <2>2, <3>1 DEF ManagedInv, Clocked, Types, StepperShape, BoundInv
    <3>3. producer[s].clock \in Nat
      BY DEF ManagedInv, Types, ProducerType
    <3> QED
      BY <3>2, <3>3, NumericBounds
  <2>4. n \in Objects => Fits(e) /\ ObjectShape(e)
    BY <1>5
  <2> HIDE DEF e
  <2>5. n \in Objects => /\ r.owner = e.owner /\ r.pending = e.pending /\ r.encoded = f
                         /\ r.pipeline.state = e.pipeline.state
    <3> SUFFICES ASSUME n \in Objects
                 PROVE  /\ r.owner = e.owner /\ r.pending = e.pending /\ r.encoded = f
                        /\ r.pipeline.state = e.pipeline.state
      OBVIOUS
    <3> DEFINE queue == Append(e.pipeline.held, f)
               k     == Len(queue) - keep
               out   == SubSeq(queue, 1, k)
               rest  == SubSeq(queue, k + 1, Len(queue))
               m     == Emit(e, out, kind)
    <3>1. r = [m EXCEPT !.encoded = f, !.pipeline.held = rest]
      BY DEF Encode
    <3>2. /\ ObjectShape(m) /\ m.owner = e.owner /\ m.pending = e.pending
          /\ m.pipeline.state = e.pipeline.state
      BY <2>4, EmitShape
    <3> HIDE DEF m, rest, r
    <3> QED
      BY <3>1, <3>2 DEF ObjectShape, PipelineShape
  <2>6. n \in Objects => Fits(r)
    BY <2>3, <2>4, <2>5 DEF Fits
  <2> HIDE DEF r
  <2> QED
    BY <2>2, <2>6, OneFits
<1>11. CASE StepEnter(t) \/ StepLookup(t) \/ StepTransformFails(t) \/ StepPublish(t)
            \/ StepLeave(t) \/ \E h \in Handles : StepBegin(t, h)
  BY <1>6, <1>11
     DEF StepEnter, StepLookup, StepTransformFails, StepPublish, StepLeave, StepBegin
<1> QED
  BY <1>6, <1>7, <1>8, <1>9, <1>10, <1>11 DEF StepperStep

LEMMA ApiFits ==
  ASSUME ManagedInv, BoundInv, NEW a \in ApiThreads, ApiTurn(a)
  PROVE  BoundInv'
<1>1. UNCHANGED <<mode, life, made, producer>> /\ apiActive' \in BOOLEAN
  BY DEF ApiTurn, ApiBegin, ApiStep, ApiDrain, ApiDeliver, ApiPump, ApiAccept, ApiServed,
         EndApiStep, BoundInv
<1>2. \A o \in Objects : Fits(object'[o])
  <2>1. CASE object' = object
    BY <2>1 DEF BoundInv
  <2>2. CASE \E s \in Streams, o \in Objects : ApiDrain(a, s, o)
    <3>1. PICK n \in Objects : object' = [object EXCEPT ![n].handoff = AfterDrain(@)]
      BY <2>2 DEF ApiDrain
    <3> DEFINE h == AfterDrain(object[n].handoff)
               r == [object[n] EXCEPT !.handoff = h]
    <3>2. object' = [object EXCEPT ![n] = r]
      BY <3>1
    <3> HIDE DEF h
    <3>3. Fits(r)
      BY DEF Fits, ObjectShape, BoundInv, ManagedInv, Types
    <3> HIDE DEF r
    <3> QED
      BY <3>2, <3>3, OneFits
  <2> QED
    BY <2>1, <2>2
       DEF ApiTurn, ApiBegin, ApiStep, ApiDeliver, ApiPump, ApiAccept, ApiServed
<1> QED
  BY <1>1, <1>2 DEF BoundInv

LEMMA BoundInit ==
  ASSUME Init
  PROVE  BoundInv
<1>1. NewObject.pending = 0 /\ NewObject.encoded = 0 /\ NewObject.owner = 0
      /\ NewObject.pipeline.state = "none"
  BY DEF NewObject, NoPipeline, None
<1>2. \A o \in Objects : Fits(object[o])
  BY <1>1, NumericBounds DEF Init, Fits, PipelineStates
<1>3. mode \in Modes /\ apiActive = FALSE /\ life.starts = 0 /\ made.groups = 0
      /\ \A s \in Streams : producer[s].clock = 0
  BY DEF Init
<1>4. apiActive \in BOOLEAN
  BY <1>3
<1>5. life.starts <= MaxStarts /\ made.groups <= MaxGroups
  BY <1>3, NumericBounds
<1>6. \A s \in Streams : producer[s].clock <= MaxFrames
  BY <1>3, NumericBounds
<1> QED
  BY <1>2, <1>3, <1>4, <1>5, <1>6 DEF BoundInv

LEMMA BoundInductive ==
  ASSUME ManagedInv, CoreInv, BoundInv, [Next]_vars
  PROVE  BoundInv'
<1>1. CASE OwnerStep
  BY <1>1, OwnerFits
<1>2. CASE \E s \in Sources : PushValidate(s) \/ PushReject(s) \/ PushLatch(s) \/ PushNote(s)
  BY <1>2, ManagedAssumption, PushFits DEF ManagedAssumption
<1>3. CASE \E t \in Steppers : (\E h \in Handles : StepBegin(t, h)) \/ StepperStep(t)
  BY <1>3, StepFits
<1>4. CASE \E a \in ApiThreads : ApiTurn(a)
  BY <1>4, ApiFits
<1>5. CASE ApiExit \/ UNCHANGED vars
  <2>1. UNCHANGED <<mode, life, made, producer, object, apiActive>>
    BY <1>5 DEF ApiExit, vars
  <2> QED
    BY <2>1 DEF BoundInv
<1> QED
  BY <1>1, <1>2, <1>3, <1>4, <1>5 DEF Next

LEMMA BoundInvariant == Spec => []BoundInv
<1>1. Init => BoundInv
  BY BoundInit
<1>2. ManagedInv /\ CoreInv /\ BoundInv /\ [Next]_vars => BoundInv'
  BY BoundInductive
<1> QED
  BY <1>1, <1>2, ManagedInvariant, CoreInvariant, PTL DEF Spec

LEMMA TypesFollow ==
  ASSUME ManagedInv, CoreInv, UnitInv, BoundInv
  PROVE  TypeOK
<1>1. /\ life \in LifeType /\ access \in AccessType /\ streams \in [Streams -> 0..MaxObjects]
      /\ \A o \in Objects : ObjectShape(object[o])
      /\ \A t \in Steppers : StepperShape(stepper[t])
      /\ \A a \in ApiThreads : ApiShape(api[a])
  BY DEF ManagedInv, Types
<1>2. mode \in Modes /\ apiActive \in BOOLEAN
  BY DEF BoundInv
<1>3. life \in [started : BOOLEAN, stopRequested : BOOLEAN, starts : 0..MaxStarts,
                phase : {"calm", "unwinding", "joining", "draining", "lastStop", "destroyed"}]
  BY <1>1, NumericBounds DEF LifeType, Gone, BoundInv
<1>4. access \in [owner : BOOLEAN, shuttingDown : BOOLEAN,
                  activeCalls : 0..Cardinality(Steppers)]
  <2> DEFINE I == {t \in Steppers : Inside(t)}
  <2>1. I \subseteq Steppers /\ IsFiniteSet(Steppers)
    BY ManagedAssumption DEF ManagedAssumption
  <2>2. access.activeCalls = Cardinality(I)
    BY DEF ManagedInv, Phased
  <2> HIDE DEF I
  <2>3. Cardinality(I) <= Cardinality(Steppers) /\ Cardinality(Steppers) \in Nat
    BY <2>1, FS_Subset, FS_CardinalityType
  <2> QED
    BY <1>1, <2>2, <2>3 DEF AccessType
<1>5. streams \in [Streams -> Objects \cup {None}]
  <2>1. 0..MaxObjects \subseteq Objects \cup {None}
    BY ManagedAssumption DEF ManagedAssumption, Objects, None
  <2> QED
    BY <1>1, <2>1
<1>6. ASSUME NEW o \in Objects
      PROVE  /\ object[o].pending \in 0..MaxFrames /\ object[o].encoded \in 0..MaxFrames
             /\ object[o].owner \in 0..MaxGroups /\ object[o].handoff \in Handoff
             /\ object[o].pipeline.state \in {"none", "running", "failed"}
  <2>1. object[o].handoff \in Handoff
    BY DEF UnitInv, Line, Lined, HandoffLine
  <2>2. Fits(object[o]) /\ ObjectShape(object[o])
    BY <1>1 DEF BoundInv
  <2> QED
    BY <2>1, <2>2, NumericBounds DEF Fits, ObjectShape, PipelineStates
<1>7. \A s \in Streams : core[s].life \in Objects \cup {None}
  BY <1>5 DEF CoreInv, StreamInv, Bound, InCore
<1> QED
  BY <1>1, <1>2, <1>3, <1>4, <1>5, <1>6, <1>7 DEF TypeOK, StepperShape, ApiShape

\* ManagedVideoServer: every variable keeps its type and its bound.
THEOREM ManagedTypes == Spec => []TypeOK
BY TypesFollow, ManagedInvariant, CoreInvariant, UnitsInvariant, BoundInvariant, PTL
=============================================================================
