-------------------------- MODULE ManagedServerProofs --------------------------
(***************************************************************************)
(* The managed server for any number of streams, groups, stepping threads  *)
(* and API threads: who owns a stream, that no pipeline is left without    *)
(* one, that destruction waits and leaves nothing, that frames are encoded *)
(* in the order they were pushed, and that the server implements the       *)
(* contract of StreamLeases.                                               *)
(***************************************************************************)
EXTENDS ManagedServer, FiniteSetTheorems, TLAPS

-----------------------------------------------------------------------------
(* The inductive invariant.                                                *)

\* The records have their fields; of some fields nothing else matters here.
PipelineShape(p) == DOMAIN p = {"state", "gen", "fresh", "held"}
ObjectShape(r) ==
  /\ DOMAIN r = {"pending", "pipeline", "handoff", "due", "registered", "owner", "encoded",
                 "missed"}
  /\ PipelineShape(r.pipeline)
  /\ r.pending \in Nat /\ r.owner \in Nat /\ r.encoded \in Nat /\ r.missed \in Nat

StepperShape(r) ==
  /\ DOMAIN r = {"pc", "handle", "todo", "object", "frame", "gen"}
  /\ r.pc \in {"idle", "enter", "lookup", "take", "encode", "publish", "leave"}
  /\ r.todo \in Seq(Streams) /\ r.object \in Nat /\ r.frame \in Nat
ApiShape(r) ==
  /\ DOMAIN r = {"pc", "todo", "units"}
  /\ r.pc \in {"none", "idle", "step", "serve", "exited"}

Gone == {"draining", "lastStop", "destroyed"}
LifeType == [started : BOOLEAN, stopRequested : BOOLEAN, starts : Nat,
             phase : {"calm", "unwinding", "joining"} \cup Gone]
AccessType == [owner : BOOLEAN, shuttingDown : BOOLEAN, activeCalls : Nat]
MadeType == [objects : 0..MaxObjects, groups : Nat, configs : Nat]
GroupType == [id : Nat, streams : Seq(Streams), stepping : BOOLEAN]
ProducerType == [pc : {"idle", "latch", "note", "reject"}, clock : Nat, object : Nat]

Types ==
  /\ life \in LifeType /\ access \in AccessType /\ made \in MadeType
  /\ streams \in [Streams -> 0..MaxObjects]
  /\ object = [o \in Objects |-> object[o]]
  /\ \A o \in Objects : ObjectShape(object[o])
  /\ group \in [Handles -> GroupType]
  /\ producer \in [Streams -> ProducerType]
  /\ stepper = [t \in Steppers |-> stepper[t]]
  /\ \A t \in Steppers : StepperShape(stepper[t])
  /\ api = [a \in ApiThreads |-> api[a]]
  /\ \A a \in ApiThreads : ApiShape(api[a])

\* Registrations have objects of their own, and those to come are untouched.
Numbered ==
  /\ \A s \in Streams : streams[s] <= made.objects
  /\ \A s, t \in Streams : streams[s] # None /\ streams[s] = streams[t] => s = t
  /\ \A o \in Objects : o > made.objects =>
       /\ object[o].owner = 0 /\ object[o].pipeline.state = "none"
       /\ object[o].pending = None /\ object[o].encoded = None

\* Groups are numbered, and a handle's streams are registered and its own, also
\* while the server is being destroyed.
Grouped ==
  /\ \A h \in Handles : group[h].id <= made.groups
  /\ \A h \in Handles : group[h].id = 0 <=> group[h].streams = <<>>
  /\ \A g, h \in Handles : group[g].id = group[h].id /\ group[g].id # 0 => g = h
  /\ \A h \in Handles : \A s \in Members(h) :
       streams[s] # None /\ object[streams[s]].owner = group[h].id
OwnedByHandle ==
  ~access.shuttingDown =>
    \A s \in Streams : streams[s] # None /\ object[streams[s]].owner # 0 =>
      \E h \in Handles : s \in Members(h)

\* A thread inside step_streams has its handle for itself, and the streams it
\* still has to do are the handle's.
Inside(t) == stepper[t].pc \notin {"idle", "enter"}
AtWork(t) == stepper[t].pc \in {"take", "encode", "publish"}
Admitted ==
  /\ \A t \in Steppers : stepper[t].pc # "idle" =>
       /\ stepper[t].handle \in Handles
       /\ group[stepper[t].handle].id # 0 /\ group[stepper[t].handle].stepping
  /\ \A t, u \in Steppers :
       stepper[t].pc # "idle" /\ stepper[u].pc # "idle" /\ stepper[t].handle = stepper[u].handle
         => t = u
  /\ \A t \in Steppers : stepper[t].pc = "lookup" \/ AtWork(t) => stepper[t].todo # <<>>
  /\ \A t \in Steppers, h \in Handles :
       (stepper[t].pc = "lookup" \/ AtWork(t)) /\ stepper[t].handle = h =>
         \A i \in DOMAIN stepper[t].todo : stepper[t].todo[i] \in Members(h)
  /\ \A t \in Steppers : AtWork(t) => stepper[t].object = streams[AtStream(t)]

\* Destruction: the calls inside are counted, and nobody enters any more.
Phased ==
  /\ access.shuttingDown <=> life.phase \in Gone
  /\ access.owner <=> life.phase \notin {"lastStop", "destroyed"}
  /\ access.activeCalls = Cardinality({t \in Steppers : Inside(t)})
  /\ life.phase \in {"lastStop", "destroyed"} => \A t \in Steppers : ~Inside(t)
ThreadsEnd ==
  /\ ~Managed /\ life.phase \in Gone => \A a \in ApiThreads : api[a].pc = "idle"
  /\ Managed => \A a \in ApiThreads \ {ApiWorker} : api[a].pc = "none"
  /\ Managed /\ life.phase = "destroyed" => api[ApiWorker].pc = "none"
NothingLeft ==
  life.phase = "destroyed" =>
    /\ \A o \in Objects : object[o].pipeline.state = "none"
    /\ \A s \in Streams : streams[s] # None => object[streams[s]].handoff.backlog = <<>>

\* A frame is newer than the frames before it, wherever it is on its way: with
\* the producer, latched, or in a step.
Clocked ==
  /\ \A s \in Streams :
       LET p == producer[s]
           r == object[streams[s]]
       IN  /\ p.pc = "latch" => p.clock > 0
           /\ streams[s] # None =>
                /\ r.pending <= p.clock /\ r.encoded <= p.clock
                /\ p.pc = "latch" => r.pending < p.clock /\ r.encoded < p.clock
                /\ r.pending # None => r.encoded < r.pending
  /\ \A t \in Steppers : stepper[t].pc = "encode" =>
       LET p == producer[AtStream(t)]
           r == object[stepper[t].object]
           f == stepper[t].frame
       IN  /\ r.encoded < f /\ f <= p.clock
           /\ p.pc = "latch" => f < p.clock
           /\ r.pending # None => f < r.pending

ManagedInv ==
  /\ Types /\ Numbered /\ Grouped /\ OwnedByHandle /\ Admitted /\ Phased
  /\ ThreadsEnd /\ NoOrphanedPipeline /\ NothingLeft /\ Clocked

-----------------------------------------------------------------------------
(* Objects: what the operators that change them leave alone.               *)

\* The parts of an object that the invariant speaks of are the same.
Alike(q, r) ==
  /\ q.pending = r.pending /\ q.pipeline = r.pipeline /\ q.handoff = r.handoff
  /\ q.owner = r.owner /\ q.encoded = r.encoded

LEMMA EmitShape ==
  ASSUME NEW r, ObjectShape(r), NEW frames, NEW kind
  PROVE  /\ ObjectShape(Emit(r, frames, kind))
         /\ Emit(r, frames, kind).pipeline.state = r.pipeline.state
         /\ Emit(r, frames, kind).owner = r.owner
         /\ Emit(r, frames, kind).pending = r.pending
         /\ Emit(r, frames, kind).encoded = r.encoded
         /\ Emit(r, frames, kind).missed = r.missed
<1> DEFINE units == Units(r, frames, kind)
           fresh == r.pipeline.fresh /\ frames = <<>>
<1>1. Emit(r, frames, kind) = [r EXCEPT !.handoff = Handed(r.handoff, units),
                                        !.pipeline.fresh = fresh]
  BY DEF Emit
<1> HIDE DEF units, fresh
<1> QED
  BY <1>1 DEF ObjectShape, PipelineShape

LEMMA StopPipelineShape ==
  ASSUME NEW r, ObjectShape(r)
  PROVE  /\ ObjectShape(StopPipeline(r)) /\ StopPipeline(r).pipeline.state = "none"
         /\ StopPipeline(r).owner = r.owner /\ StopPipeline(r).pending = r.pending
         /\ StopPipeline(r).encoded = r.encoded /\ StopPipeline(r).missed = r.missed
<1> DEFINE f == IF r.pipeline.state = "running" THEN Emit(r, r.pipeline.held, "delta") ELSE r
<1>1. /\ ObjectShape(f) /\ f.owner = r.owner /\ f.pending = r.pending
      /\ f.encoded = r.encoded /\ f.missed = r.missed
  BY EmitShape
<1>2. StopPipeline(r) = [f EXCEPT !.pipeline = NoPipeline]
  BY DEF StopPipeline
<1> HIDE DEF f
<1> QED
  BY <1>1, <1>2 DEF ObjectShape, PipelineShape, NoPipeline

LEMMA EnsurePipelineShape ==
  ASSUME NEW r, ObjectShape(r), NEW gen
  PROVE  /\ ObjectShape(EnsurePipeline(r, gen))
         /\ EnsurePipeline(r, gen).owner = r.owner
         /\ EnsurePipeline(r, gen).pending = r.pending
         /\ EnsurePipeline(r, gen).encoded = r.encoded
         /\ EnsurePipeline(r, gen).missed = r.missed
<1>1. CASE r.pipeline.state # "none" /\ r.pipeline.gen = gen
  BY <1>1 DEF EnsurePipeline
<1>2. CASE ~(r.pipeline.state # "none" /\ r.pipeline.gen = gen)
  <2>1. EnsurePipeline(r, gen) = [StopPipeline(r) EXCEPT !.pipeline = NewPipeline(gen)]
    BY <1>2 DEF EnsurePipeline
  <2> QED
    BY <2>1, StopPipelineShape DEF ObjectShape, PipelineShape, NewPipeline
<1> QED
  BY <1>1, <1>2

LEMMA EncodeShape ==
  ASSUME NEW r, ObjectShape(r), NEW frame \in Nat, NEW keep, NEW kind
  PROVE  /\ ObjectShape(Encode(r, frame, keep, kind))
         /\ Encode(r, frame, keep, kind).owner = r.owner
         /\ Encode(r, frame, keep, kind).pending = r.pending
         /\ Encode(r, frame, keep, kind).encoded = frame
         /\ Encode(r, frame, keep, kind).missed = r.missed
<1> DEFINE queue == Append(r.pipeline.held, frame)
           n     == Len(queue) - keep
           out   == SubSeq(queue, 1, n)
           rest  == SubSeq(queue, n + 1, Len(queue))
           e     == Emit(r, out, kind)
<1>1. Encode(r, frame, keep, kind) = [e EXCEPT !.encoded = frame, !.pipeline.held = rest]
  BY DEF Encode
<1>2. ObjectShape(e) /\ e.owner = r.owner /\ e.pending = r.pending /\ e.missed = r.missed
  BY EmitShape
<1> HIDE DEF e, rest
<1> QED
  BY <1>1, <1>2 DEF ObjectShape, PipelineShape

-----------------------------------------------------------------------------
(* What a step keeps that touches only some of the state.                  *)

\* Every object is still there, with its fields, owner and progress.
ObjectsStay ==
  /\ object' = [o \in Objects |-> object'[o]]
  /\ \A o \in Objects : ObjectShape(object'[o])
\* A thread goes on inside its call.
Moves(t, r) ==
  /\ stepper' = [stepper EXCEPT ![t] = r]
  /\ StepperShape(r) /\ r.handle = stepper[t].handle

\* Objects to come stay untouched, whatever is done to the others.
LEMMA NumberedKeeps ==
  ASSUME Numbered, streams' = streams, made'.objects = made.objects,
         \A o \in Objects : o > made.objects =>
            /\ object'[o].owner = object[o].owner
            /\ object'[o].pipeline.state = object[o].pipeline.state
            /\ object'[o].pending = object[o].pending
            /\ object'[o].encoded = object[o].encoded
  PROVE  Numbered'
BY DEF Numbered

LEMMA GroupedKeeps ==
  ASSUME Types, Grouped, streams' = streams, made'.groups = made.groups,
         \A h \in Handles : group'[h].id = group[h].id /\ group'[h].streams = group[h].streams,
         \A o \in Objects : object'[o].owner = object[o].owner
  PROVE  Grouped'
<1>1. \A h \in Handles : Members(h)' = Members(h) /\ Members(h) \subseteq Streams
  BY DEF Members, Types, GroupType
<1>2. \A s \in Streams : streams[s] # None => streams[s] \in Objects
  BY DEF Types, Objects, None
<1> QED
  BY <1>1, <1>2 DEF Grouped

LEMMA OwnedKeeps ==
  ASSUME Types, OwnedByHandle, streams' = streams,
         access.shuttingDown => access'.shuttingDown,
         \A h \in Handles : group'[h].streams = group[h].streams,
         \A o \in Objects : object'[o].owner = object[o].owner
  PROVE  OwnedByHandle'
<1>1. \A h \in Handles : Members(h)' = Members(h)
  BY DEF Members
<1>2. \A s \in Streams : streams[s] # None => streams[s] \in Objects
  BY DEF Types, Objects, None
<1> QED
  BY <1>1, <1>2 DEF OwnedByHandle

LEMMA AdmittedKeeps ==
  ASSUME Admitted, stepper' = stepper, streams' = streams, group' = group
  PROVE  Admitted'
<1>1. \A t \in Steppers : AtWork(t)' = AtWork(t) /\ AtStream(t)' = AtStream(t)
  BY DEF AtWork, AtStream
<1>2. \A h \in Handles : Members(h)' = Members(h)
  BY DEF Members
<1> QED
  BY <1>1, <1>2 DEF Admitted

\* A thread moves on within its call: what it still has to do is its handle's.
LEMMA AdmittedMoves ==
  ASSUME Types, Admitted, NEW t \in Steppers, stepper[t].pc # "idle",
         NEW r, Moves(t, r), r.pc # "idle",
         streams' = streams, group' = group,
         r.pc \in {"lookup", "take", "encode", "publish"} => r.todo # <<>>,
         \A h \in Handles : r.pc \in {"lookup", "take", "encode", "publish"} /\ r.handle = h =>
           \A i \in DOMAIN r.todo : r.todo[i] \in Members(h),
         r.pc \in {"take", "encode", "publish"} => r.object = streams[Head(r.todo)]
  PROVE  Admitted'
<1>1. /\ stepper'[t] = r
      /\ \A u \in Steppers \ {t} : stepper'[u] = stepper[u]
  BY DEF Types, Moves
<1>2. \A h \in Handles : Members(h)' = Members(h)
  BY DEF Members
<1>3. \A u \in Steppers : /\ stepper'[u].handle = stepper[u].handle
                          /\ stepper'[u].pc = "idle" <=> stepper[u].pc = "idle"
  BY <1>1 DEF Moves
<1>4. \A u \in Steppers : stepper'[u].pc # "idle" =>
        /\ stepper'[u].handle \in Handles
        /\ group'[stepper'[u].handle].id # 0 /\ group'[stepper'[u].handle].stepping
  BY <1>3 DEF Admitted
<1>5. \A u, v \in Steppers :
        stepper'[u].pc # "idle" /\ stepper'[v].pc # "idle" /\ stepper'[u].handle = stepper'[v].handle
          => u = v
  <2>1. \A u, v \in Steppers :
          stepper[u].pc # "idle" /\ stepper[v].pc # "idle" /\ stepper[u].handle = stepper[v].handle
            => u = v
    BY DEF Admitted
  <2> QED
    BY <1>3, <2>1
<1>6. \A u \in Steppers : stepper'[u].pc = "lookup" \/ AtWork(u)' => stepper'[u].todo # <<>>
  BY <1>1 DEF Admitted, AtWork
<1>7. \A u \in Steppers, h \in Handles :
        (stepper'[u].pc = "lookup" \/ AtWork(u)') /\ stepper'[u].handle = h =>
          \A i \in DOMAIN stepper'[u].todo : stepper'[u].todo[i] \in Members(h)
  BY <1>1 DEF Admitted, AtWork
<1>8. \A u \in Steppers : AtWork(u)' => stepper'[u].object = streams[AtStream(u)']
  BY <1>1 DEF Admitted, AtWork, AtStream
<1> QED
  BY <1>2, <1>4, <1>5, <1>6, <1>7, <1>8 DEF Admitted

LEMMA PhasedKeeps ==
  ASSUME Phased, access' = access,
         life'.phase = life.phase \/ (life.phase \notin Gone /\ life'.phase \notin Gone),
         \A t \in Steppers : Inside(t)' = Inside(t)
  PROVE  Phased'
<1>1. {t \in Steppers : Inside(t)'} = {t \in Steppers : Inside(t)}
  OBVIOUS
<1> QED
  BY <1>1 DEF Phased, Gone

LEMMA ThreadsKeep ==
  ASSUME ThreadsEnd, api' = api, mode' = mode,
         life'.phase = life.phase \/ (life.phase \notin Gone /\ life'.phase \notin Gone)
  PROVE  ThreadsEnd'
BY DEF ThreadsEnd, Managed, Gone

LEMMA PipelinesKeep ==
  ASSUME NoOrphanedPipeline, streams' = streams,
         \A o \in Objects : object'[o].pipeline.state # "none" =>
           object[o].pipeline.state # "none" \/ \E s \in Streams : streams[s] = o
  PROVE  NoOrphanedPipeline'
BY DEF NoOrphanedPipeline

\* The stream a thread works on is its handle's, and the object is the stream's.
LEMMA AtWorkFacts ==
  ASSUME Types, Grouped, Admitted, NEW t \in Steppers, AtWork(t)
  PROVE  /\ AtStream(t) \in Streams /\ stepper[t].handle \in Handles
         /\ AtStream(t) \in Members(stepper[t].handle)
         /\ stepper[t].object = streams[AtStream(t)] /\ stepper[t].object \in Objects
         /\ object[stepper[t].object].owner = group[stepper[t].handle].id
<1> DEFINE h == stepper[t].handle
<1>1. stepper[t].todo \in Seq(Streams) /\ stepper[t].todo # <<>> /\ h \in Handles
  BY DEF Types, StepperShape, Admitted, AtWork
<1>2. 1 \in DOMAIN stepper[t].todo /\ AtStream(t) = stepper[t].todo[1]
  BY <1>1 DEF AtStream
<1>3. AtStream(t) \in Members(h)
  BY <1>1, <1>2 DEF Admitted
<1>4. AtStream(t) \in Streams
  BY <1>1, <1>2
<1>5. streams[AtStream(t)] # None /\ object[streams[AtStream(t)]].owner = group[h].id
  BY <1>1, <1>3 DEF Grouped
<1>6. stepper[t].object = streams[AtStream(t)]
  BY DEF Admitted
<1> QED
  BY <1>1, <1>3, <1>4, <1>5, <1>6 DEF Types, Objects, None

LEMMA ClockedKeeps ==
  ASSUME Types, Grouped, Admitted, Clocked,
         streams' = streams, producer' = producer, stepper' = stepper,
         \A o \in Objects : /\ object'[o].pending = object[o].pending
                            /\ object'[o].encoded = object[o].encoded
  PROVE  Clocked'
<1>1. \A s \in Streams : streams[s] # None => streams[s] \in Objects
  BY DEF Types, Objects, None
<1>2. \A t \in Steppers : AtStream(t)' = AtStream(t)
  BY DEF AtStream
<1>3. \A t \in Steppers : stepper[t].pc = "encode" => stepper[t].object \in Objects
  BY AtWorkFacts DEF AtWork
<1> QED
  BY <1>1, <1>2, <1>3 DEF Clocked

\* A step that touches neither streams nor groups nor the threads of others, and of the
\* objects nothing that matters here.
LEMMA QuietKeeps ==
  ASSUME Types, Numbered, Grouped, OwnedByHandle, Admitted, NoOrphanedPipeline, Clocked,
         streams' = streams, group' = group, stepper' = stepper, producer' = producer,
         made'.objects = made.objects, made'.groups = made.groups,
         access.shuttingDown => access'.shuttingDown,
         \A o \in Objects : Alike(object'[o], object[o])
  PROVE  /\ Numbered' /\ Grouped' /\ OwnedByHandle' /\ Admitted'
         /\ NoOrphanedPipeline' /\ Clocked'
<1>1. Numbered'
  BY NumberedKeeps DEF Alike
<1>2. Grouped'
  BY GroupedKeeps DEF Alike
<1>3. OwnedByHandle'
  BY OwnedKeeps DEF Alike
<1>4. Admitted'
  BY AdmittedKeeps
<1>5. NoOrphanedPipeline'
  BY PipelinesKeep DEF Alike
<1>6. Clocked'
  BY ClockedKeeps DEF Alike
<1> QED
  BY <1>1, <1>2, <1>3, <1>4, <1>5, <1>6

LEMMA SameObjects ==
  ASSUME object' = object
  PROVE  \A o \in Objects : Alike(object'[o], object[o])
BY DEF Alike

-----------------------------------------------------------------------------
(* Start, stop and destruction.                                            *)

\* Registering with the inner server marks the objects and changes nothing else.
LEMMA RegisterAllAlike ==
  ASSUME Types, RegisterAll
  PROVE  ObjectsStay /\ \A o \in Objects : Alike(object'[o], object[o])
<1>1. object' = [o \in Objects |->
                  IF \E s \in Streams : streams[s] = o
                  THEN [object[o] EXCEPT !.registered = TRUE] ELSE object[o]]
  BY DEF RegisterAll
<1>2. ASSUME NEW o \in Objects
      PROVE  ObjectShape(object'[o]) /\ Alike(object'[o], object[o])
  <2>1. ObjectShape(object[o])
    BY DEF Types
  <2>2. object'[o] = object[o] \/ object'[o] = [object[o] EXCEPT !.registered = TRUE]
    BY <1>1
  <2> QED
    BY <2>1, <2>2 DEF ObjectShape, PipelineShape, Alike
<1> QED
  BY <1>1, <1>2 DEF ObjectsStay

LEMMA StartKeeps ==
  ASSUME ManagedInv, NEW opened \in BOOLEAN, Start(opened)
  PROVE  ManagedInv'
<1> USE DEF ManagedInv
<1>1. ObjectsStay /\ \A o \in Objects : Alike(object'[o], object[o])
  BY RegisterAllAlike DEF Start
<1>2. /\ UNCHANGED <<mode, access, streams, made, group, producer, stepper>>
      /\ life.phase = "calm" /\ life'.phase \in {"calm", "unwinding"} /\ life' \in LifeType
  <2>1. /\ UNCHANGED <<mode, access, streams, made, group, producer, stepper>>
        /\ life.phase = "calm" /\ life \in LifeType
    BY DEF Start, Types
  <2>2. CASE opened
    <3>1. \/ life' = [started |-> TRUE, stopRequested |-> TRUE, phase |-> "unwinding",
                      starts |-> life.starts + 1]
          \/ life' = [started |-> TRUE, stopRequested |-> FALSE, phase |-> "calm",
                      starts |-> life.starts + 1]
      BY <2>2 DEF Start
    <3>2. life.starts + 1 \in Nat
      BY <2>1 DEF LifeType
    <3>3. life' \in LifeType /\ life'.phase \in {"calm", "unwinding"}
      <4>1. CASE life' = [started |-> TRUE, stopRequested |-> TRUE, phase |-> "unwinding",
                          starts |-> life.starts + 1]
        BY <3>2, <4>1 DEF LifeType
      <4>2. CASE life' = [started |-> TRUE, stopRequested |-> FALSE, phase |-> "calm",
                          starts |-> life.starts + 1]
        BY <3>2, <4>2 DEF LifeType
      <4> QED
        BY <3>1, <4>1, <4>2
    <3> QED
      BY <2>1, <3>3
  <2>3. CASE ~opened
    BY <2>1, <2>3 DEF Start, LifeType
  <2> QED
    BY <2>1, <2>2, <2>3
<1>3. \/ api' = api
      \/ Managed /\ api' = [api EXCEPT ![ApiWorker] = IdleApi]
  BY DEF Start
<1>4. Types'
  <2>1. api' = [a \in ApiThreads |-> api'[a]] /\ \A a \in ApiThreads : ApiShape(api'[a])
    BY <1>3 DEF Types, ApiShape, IdleApi
  <2> QED
    BY <1>1, <1>2, <2>1 DEF Types, ObjectsStay
<1>5. /\ Numbered' /\ Grouped' /\ OwnedByHandle' /\ Admitted'
      /\ NoOrphanedPipeline' /\ Clocked'
  BY <1>1, <1>2, QuietKeeps
<1>6. Phased'
  BY <1>2, PhasedKeeps DEF Inside, Gone
<1>7. ThreadsEnd' /\ NothingLeft'
  BY <1>2, <1>3 DEF ThreadsEnd, NothingLeft, Managed, Gone, Types
<1> QED
  BY <1>4, <1>5, <1>6, <1>7

LEMMA JoinedThreads ==
  ASSUME Types, ThreadsEnd, api' = Joined, mode' = mode, ManagedAssumption
  PROVE  /\ api' = [a \in ApiThreads |-> api'[a]]
         /\ \A a \in ApiThreads : ApiShape(api'[a])
         /\ Managed => \A a \in ApiThreads : api'[a].pc = "none"
         /\ ~Managed => api' = api
<1>1. CASE Managed
  <2>1. ApiWorker \in ApiThreads /\ api' = [api EXCEPT ![ApiWorker].pc = "none"]
    BY <1>1 DEF Joined, ManagedAssumption
  <2>2. /\ api' = [a \in ApiThreads |-> api'[a]]
        /\ api'[ApiWorker] = [api[ApiWorker] EXCEPT !.pc = "none"]
        /\ \A a \in ApiThreads \ {ApiWorker} : api'[a] = api[a]
    BY <2>1 DEF Types
  <2>3. ApiShape(api'[ApiWorker]) /\ api'[ApiWorker].pc = "none"
    BY <2>1, <2>2 DEF Types, ApiShape
  <2> QED
    BY <1>1, <2>2, <2>3 DEF Types, ThreadsEnd
<1>2. CASE ~Managed
  BY <1>2 DEF Joined, Types
<1> QED
  BY <1>1, <1>2

LEMMA UnwindStartKeeps ==
  ASSUME ManagedInv, UnwindStart
  PROVE  ManagedInv'
<1> USE DEF ManagedInv
<1>1. /\ UNCHANGED <<mode, access, streams, object, made, group, producer, stepper>>
      /\ life.phase = "unwinding" /\ life'.phase = "calm" /\ life' \in LifeType
      /\ api' = Joined
  BY DEF UnwindStart, Types, LifeType
<1>2. Types'
  BY <1>1, JoinedThreads, ManagedAssumption DEF Types
<1>3. /\ Numbered' /\ Grouped' /\ OwnedByHandle' /\ Admitted'
      /\ NoOrphanedPipeline' /\ Clocked'
  BY <1>1, SameObjects, QuietKeeps
<1>4. Phased'
  BY <1>1, PhasedKeeps DEF Inside, Gone
<1>5. ThreadsEnd' /\ NothingLeft'
  BY <1>1, JoinedThreads, ManagedAssumption DEF ThreadsEnd, NothingLeft, Managed, Gone
<1> QED
  BY <1>2, <1>3, <1>4, <1>5

LEMMA StopBeginKeeps ==
  ASSUME ManagedInv, StopBegin
  PROVE  ManagedInv'
<1> USE DEF ManagedInv
<1>1. /\ UNCHANGED <<mode, access, streams, object, made, group, producer, stepper, api>>
      /\ life.phase = "calm" /\ life'.phase = "joining" /\ life' \in LifeType
  BY DEF StopBegin, Types, LifeType
<1>2. Types'
  BY <1>1 DEF Types
<1>3. /\ Numbered' /\ Grouped' /\ OwnedByHandle' /\ Admitted'
      /\ NoOrphanedPipeline' /\ Clocked'
  BY <1>1, SameObjects, QuietKeeps
<1>4. Phased' /\ ThreadsEnd' /\ NothingLeft'
  BY <1>1, PhasedKeeps, ThreadsKeep DEF Inside, Gone, NothingLeft
<1> QED
  BY <1>2, <1>3, <1>4

\* stop() takes the pipeline and the units of every registered stream.
LEMMA StopFinishObjects ==
  ASSUME Types, StopFinish
  PROVE  /\ ObjectsStay
         /\ \A o \in Objects :
              /\ object'[o].owner = object[o].owner
              /\ object'[o].pending = object[o].pending
              /\ object'[o].encoded = object[o].encoded
              /\ object'[o] = object[o] \/ object'[o].pipeline.state = "none"
              /\ (\E s \in Streams : streams[s] = o) =>
                   /\ object'[o].pipeline.state = "none"
                   /\ object'[o].handoff.backlog = <<>>
<1>1. object' = [o \in Objects |->
                  IF \E s \in Streams : streams[s] = o
                  THEN [StopPipeline(object[o]) EXCEPT !.handoff = AfterClear(@)]
                  ELSE object[o]]
  BY DEF StopFinish
<1>2. ASSUME NEW o \in Objects
      PROVE  /\ ObjectShape(object'[o])
             /\ object'[o].owner = object[o].owner
             /\ object'[o].pending = object[o].pending
             /\ object'[o].encoded = object[o].encoded
             /\ object'[o] = object[o] \/ object'[o].pipeline.state = "none"
             /\ (\E s \in Streams : streams[s] = o) =>
                  /\ object'[o].pipeline.state = "none"
                  /\ object'[o].handoff.backlog = <<>>
  <2>1. ObjectShape(object[o])
    BY DEF Types
  <2>2. CASE \E s \in Streams : streams[s] = o
    <3> DEFINE q == StopPipeline(object[o])
               h == AfterClear(q.handoff)
    <3>1. object'[o] = [q EXCEPT !.handoff = h]
      BY <1>1, <2>2
    <3>2. h.backlog = <<>>
      BY DEF AfterClear, EmptyHandoff
    <3>3. /\ ObjectShape(q) /\ q.pipeline.state = "none" /\ q.owner = object[o].owner
          /\ q.pending = object[o].pending /\ q.encoded = object[o].encoded
      BY <2>1, StopPipelineShape
    <3> HIDE DEF q, h
    <3> QED
      BY <3>1, <3>2, <3>3 DEF ObjectShape
  <2>3. CASE ~\E s \in Streams : streams[s] = o
    <3>1. object'[o] = object[o]
      BY <1>1, <2>3
    <3> QED
      BY <2>1, <2>3, <3>1
  <2> QED
    BY <2>2, <2>3
<1> QED
  BY <1>1, <1>2 DEF ObjectsStay

LEMMA StopFinishKeeps ==
  ASSUME ManagedInv, StopFinish
  PROVE  ManagedInv'
<1> USE DEF ManagedInv
<1>1. /\ UNCHANGED <<mode, access, streams, made, group, producer, stepper>>
      /\ api' = Joined
      /\ \/ life.phase = "joining" /\ life'.phase = "calm"
         \/ life.phase = "lastStop" /\ life'.phase = "destroyed"
      /\ life' \in LifeType
  BY DEF StopFinish, Types, LifeType, Gone
<1>2. Types'
  BY <1>1, StopFinishObjects, JoinedThreads, ManagedAssumption DEF Types, ObjectsStay
<1>3. Numbered'
  <2>1. \A o \in Objects : o > made.objects => object'[o].pipeline.state = object[o].pipeline.state
    BY StopFinishObjects DEF Numbered
  <2> QED
    BY <1>1, <2>1, StopFinishObjects, NumberedKeeps
<1>4. Grouped'
  BY <1>1, StopFinishObjects, GroupedKeeps
<1>5. OwnedByHandle'
  BY <1>1, StopFinishObjects, OwnedKeeps
<1>6. Admitted'
  BY <1>1, AdmittedKeeps
<1>7. Clocked'
  BY <1>1, StopFinishObjects, ClockedKeeps
<1>8. NoOrphanedPipeline'
  BY <1>1, StopFinishObjects, PipelinesKeep
<1>9. Phased'
  <2>1. \A t \in Steppers : Inside(t)' = Inside(t)
    BY <1>1 DEF Inside
  <2>2. {t \in Steppers : Inside(t)'} = {t \in Steppers : Inside(t)}
    BY <2>1
  <2> QED
    BY <1>1, <2>1, <2>2 DEF Phased, Gone
<1>10. ThreadsEnd'
  BY <1>1, JoinedThreads, ManagedAssumption DEF ThreadsEnd, Managed, Gone
<1>11. NothingLeft'
  <2>1. \A o \in Objects : object'[o].pipeline.state # "none" => \E s \in Streams : streams[s] = o
    BY <1>1, <1>8 DEF NoOrphanedPipeline
  <2>2. \A o \in Objects : object'[o].pipeline.state = "none"
    BY <2>1, StopFinishObjects
  <2>3. \A s \in Streams : streams[s] # None => streams[s] \in Objects
    BY DEF Types, Objects, None
  <2> QED
    BY <1>1, <2>2, <2>3, StopFinishObjects DEF NothingLeft
<1> QED
  BY <1>2, <1>3, <1>4, <1>5, <1>6, <1>7, <1>8, <1>9, <1>10, <1>11

LEMMA DestroyBeginKeeps ==
  ASSUME ManagedInv, DestroyBegin
  PROVE  ManagedInv'
<1> USE DEF ManagedInv
<1>1. /\ UNCHANGED <<mode, streams, object, made, group, producer, stepper, api>>
      /\ life.phase = "calm" /\ life'.phase = "draining" /\ life' \in LifeType
      /\ access' = [access EXCEPT !.shuttingDown = TRUE] /\ access' \in AccessType
      /\ ~Managed => \A a \in ApiThreads : api[a].pc = "idle"
  BY DEF DestroyBegin, Types, LifeType, AccessType, Gone
<1>2. Types'
  BY <1>1 DEF Types
<1>3. access'.shuttingDown /\ access'.owner = access.owner
      /\ access'.activeCalls = access.activeCalls
  BY <1>1 DEF Types, AccessType
<1>4. /\ Numbered' /\ Grouped' /\ OwnedByHandle' /\ Admitted'
      /\ NoOrphanedPipeline' /\ Clocked'
  BY <1>1, <1>3, SameObjects, QuietKeeps
<1>5. Phased'
  <2>1. \A t \in Steppers : Inside(t)' = Inside(t)
    BY <1>1 DEF Inside
  <2>2. {t \in Steppers : Inside(t)'} = {t \in Steppers : Inside(t)}
    BY <2>1
  <2> QED
    BY <1>1, <1>3, <2>2 DEF Phased, Gone
<1>6. ThreadsEnd' /\ NothingLeft'
  BY <1>1 DEF ThreadsEnd, NothingLeft, Managed, Gone
<1> QED
  BY <1>2, <1>4, <1>5, <1>6

LEMMA NobodyInside ==
  ASSUME Types, Phased, access.activeCalls = 0
  PROVE  \A t \in Steppers : ~Inside(t)
<1> DEFINE S == {t \in Steppers : Inside(t)}
<1>1. IsFiniteSet(S)
  BY ManagedAssumption, FS_Subset DEF ManagedAssumption
<1>2. Cardinality(S) = 0
  BY DEF Phased
<1>3. S = {}
  BY <1>1, <1>2, FS_EmptySet
<1> QED
  BY <1>3

LEMMA DestroyDrainedKeeps ==
  ASSUME ManagedInv, DestroyDrained
  PROVE  ManagedInv'
<1> USE DEF ManagedInv
<1>1. /\ UNCHANGED <<mode, streams, object, made, group, producer, stepper, api>>
      /\ life.phase = "draining" /\ life'.phase = "lastStop" /\ life' \in LifeType
      /\ access' = [access EXCEPT !.owner = FALSE] /\ access' \in AccessType
      /\ access.activeCalls = 0
  BY DEF DestroyDrained, NoActiveCalls, Types, LifeType, AccessType, Gone
<1>2. Types'
  BY <1>1 DEF Types
<1>3. ~access'.owner /\ access'.shuttingDown = access.shuttingDown
      /\ access'.activeCalls = access.activeCalls
  BY <1>1 DEF Types, AccessType
<1>4. /\ Numbered' /\ Grouped' /\ OwnedByHandle' /\ Admitted'
      /\ NoOrphanedPipeline' /\ Clocked'
  BY <1>1, <1>3, SameObjects, QuietKeeps
<1>5. Phased'
  <2>1. \A t \in Steppers : Inside(t)' = Inside(t)
    BY <1>1 DEF Inside
  <2>2. {t \in Steppers : Inside(t)'} = {t \in Steppers : Inside(t)}
    BY <2>1
  <2>3. \A t \in Steppers : ~Inside(t)'
    BY <1>1, <2>1, NobodyInside
  <2> QED
    BY <1>1, <1>3, <2>2, <2>3 DEF Phased, Gone
<1>6. ThreadsEnd' /\ NothingLeft'
  BY <1>1 DEF ThreadsEnd, NothingLeft, Managed, Gone
<1> QED
  BY <1>2, <1>4, <1>5, <1>6

-----------------------------------------------------------------------------
(* Streams and groups.                                                     *)

LEMMA RegisterStreamKeeps ==
  ASSUME ManagedInv, NEW s \in Streams, RegisterStream(s)
  PROVE  ManagedInv'
<1> USE DEF ManagedInv
<1> DEFINE n == made.objects + 1
<1>1. /\ UNCHANGED <<mode, life, access, group, producer, stepper, api>>
      /\ Callable /\ streams[s] = None
      /\ made.objects \in Nat /\ n \in Objects /\ n > made.objects
      /\ made' = [made EXCEPT !.objects = n] /\ made' \in MadeType
      /\ streams' = [streams EXCEPT ![s] = n]
      /\ object' = [object EXCEPT ![n].registered = life.started]
  <2>1. made.objects \in Nat /\ made.objects < MaxObjects /\ made \in MadeType
    BY ManagedAssumption DEF RegisterStream, Types, MadeType, ManagedAssumption
  <2>2. n \in Objects /\ n > made.objects /\ n \in 0..MaxObjects
    BY <2>1, ManagedAssumption DEF Objects, ManagedAssumption
  <2>3. [made EXCEPT !.objects = n] \in MadeType
    BY <2>1, <2>2 DEF MadeType
  <2>4. /\ UNCHANGED <<mode, life, access, group, producer, stepper, api>>
        /\ Callable /\ streams[s] = None
        /\ made' = [made EXCEPT !.objects = n]
        /\ streams' = [streams EXCEPT ![s] = n]
        /\ object' = [object EXCEPT ![n].registered = life.started]
    BY DEF RegisterStream
  <2> HIDE DEF n
  <2> QED
    BY <2>1, <2>2, <2>3, <2>4
<1>2. /\ made'.objects = n /\ made'.groups = made.groups
      /\ streams'[s] = n /\ \A u \in Streams \ {s} : streams'[u] = streams[u]
      /\ streams' \in [Streams -> 0..MaxObjects]
  BY <1>1 DEF Types, MadeType, Objects
<1>3. ObjectsStay /\ \A o \in Objects : Alike(object'[o], object[o])
  <2>1. ASSUME NEW o \in Objects PROVE ObjectShape(object'[o]) /\ Alike(object'[o], object[o])
    <3>1. ObjectShape(object[o])
      BY DEF Types
    <3>2. object'[o] = object[o] \/ object'[o] = [object[o] EXCEPT !.registered = life.started]
      BY <1>1 DEF Types
    <3> QED
      BY <3>1, <3>2 DEF ObjectShape, PipelineShape, Alike
  <2> QED
    BY <1>1, <2>1 DEF ObjectsStay, Types
<1> HIDE DEF n
<1>4. Types'
  BY <1>1, <1>2, <1>3 DEF Types, ObjectsStay
<1>5. Numbered'
  <2>1. \A u \in Streams : streams[u] <= made.objects /\ streams[u] \in Nat
    BY DEF Numbered, Types
  <2>2. \A u \in Streams : streams'[u] <= n /\ (u # s => streams'[u] # n)
    BY <1>1, <1>2, <2>1 DEF n
  <2>3. \A u, v \in Streams : streams'[u] # None /\ streams'[u] = streams'[v] => u = v
    BY <1>2, <2>2 DEF Numbered
  <2>4. \A o \in Objects : o > n => o > made.objects
    BY <1>1 DEF n, Objects
  <2> QED
    BY <1>2, <1>3, <2>2, <2>3, <2>4 DEF Numbered, Alike
<1>6. \A h \in Handles : Members(h)' = Members(h) /\ Members(h) \subseteq Streams
  BY <1>1 DEF Members, Types, GroupType
<1>7. \A h \in Handles : s \notin Members(h)
  BY <1>1 DEF Grouped
<1>8. Grouped'
  <2>1. \A h \in Handles : \A u \in Members(h) :
          streams'[u] # None /\ object'[streams'[u]].owner = group[h].id
    BY <1>2, <1>3, <1>6, <1>7 DEF Grouped, Alike, Types, Objects, None
  <2> QED
    BY <1>1, <1>2, <1>6, <2>1 DEF Grouped
<1>9. OwnedByHandle'
  <2>1. object'[streams'[s]].owner = 0
    BY <1>1, <1>2, <1>3 DEF Numbered, Alike
  <2>2. \A u \in Streams \ {s} : streams'[u] # None =>
          streams'[u] = streams[u] /\ object'[streams'[u]].owner = object[streams[u]].owner
    BY <1>2, <1>3 DEF Alike, Types, Objects, None
  <2> QED
    BY <1>1, <1>6, <2>1, <2>2 DEF OwnedByHandle
<1>10. Admitted'
  <2>1. \A t \in Steppers : AtWork(t) => streams'[AtStream(t)] = streams[AtStream(t)]
    BY <1>2, <1>7, AtWorkFacts
  <2>2. \A t \in Steppers : AtWork(t)' = AtWork(t) /\ AtStream(t)' = AtStream(t)
    BY <1>1 DEF AtWork, AtStream
  <2> QED
    BY <1>1, <1>6, <2>1, <2>2 DEF Admitted
<1>11. Phased' /\ ThreadsEnd' /\ NothingLeft'
  BY <1>1, PhasedKeeps, ThreadsKeep DEF Inside, NothingLeft, Callable
<1>12. NoOrphanedPipeline'
  <2>1. \A u \in Streams : streams[u] # None => streams'[u] = streams[u]
    BY <1>1, <1>2
  <2> QED
    BY <1>3, <2>1 DEF NoOrphanedPipeline, Alike, Objects, None
<1>13. Clocked'
  <2>1. \A u \in Streams \ {s} : streams'[u] # None =>
          /\ streams'[u] = streams[u]
          /\ object'[streams'[u]].pending = object[streams[u]].pending
          /\ object'[streams'[u]].encoded = object[streams[u]].encoded
    BY <1>2, <1>3 DEF Alike, Types, Objects, None
  <2>2. object'[n].pending = None /\ object'[n].encoded = None
    BY <1>1, <1>3 DEF Numbered, Alike
  <2>3. producer[s].clock \in Nat
    BY DEF Types, ProducerType
  <2>4. \A t \in Steppers : stepper[t].pc = "encode" =>
          /\ object'[stepper[t].object].pending = object[stepper[t].object].pending
          /\ object'[stepper[t].object].encoded = object[stepper[t].object].encoded
    BY <1>3, AtWorkFacts DEF Alike, AtWork
  <2>5. \A t \in Steppers : AtStream(t)' = AtStream(t)
    BY <1>1 DEF AtStream
  <2>6. \A u \in Streams :
         LET p == producer'[u]
             r == object'[streams'[u]]
         IN  /\ p.pc = "latch" => p.clock > 0
             /\ streams'[u] # None =>
                  /\ r.pending <= p.clock /\ r.encoded <= p.clock
                  /\ p.pc = "latch" => r.pending < p.clock /\ r.encoded < p.clock
                  /\ r.pending # None => r.encoded < r.pending
    <3>1. ASSUME NEW u \in Streams, u # s, streams'[u] # None
          PROVE  LET p == producer'[u]
                     r == object'[streams'[u]]
                 IN  /\ p.pc = "latch" => p.clock > 0
                     /\ r.pending <= p.clock /\ r.encoded <= p.clock
                     /\ p.pc = "latch" => r.pending < p.clock /\ r.encoded < p.clock
                     /\ r.pending # None => r.encoded < r.pending
      BY <1>1, <2>1, <3>1 DEF Clocked
    <3>2. \A u \in Streams : producer'[u].pc = "latch" => producer'[u].clock > 0
      BY <1>1 DEF Clocked
    <3>3. LET p == producer'[s]
              r == object'[streams'[s]]
          IN  /\ r.pending <= p.clock /\ r.encoded <= p.clock
              /\ p.pc = "latch" => r.pending < p.clock /\ r.encoded < p.clock
              /\ r.pending # None => r.encoded < r.pending
      BY <1>1, <1>2, <2>2, <2>3, <3>2 DEF None
    <3> QED
      BY <3>1, <3>2, <3>3
  <2> QED
    BY <1>1, <2>4, <2>5, <2>6 DEF Clocked
<1> QED
  BY <1>4, <1>5, <1>8, <1>9, <1>10, <1>11, <1>12, <1>13

LEMMA RemoveStreamKeeps ==
  ASSUME ManagedInv, NEW s \in Streams, RemoveStream(s)
  PROVE  ManagedInv'
<1> USE DEF ManagedInv
<1> DEFINE n == streams[s]
           q == StopPipeline(object[n])
<1>1. /\ UNCHANGED <<mode, life, access, made, group, producer, stepper, api>>
      /\ Callable /\ streams[s] # None /\ object[n].owner = 0
      /\ n \in Objects
      /\ streams' = [streams EXCEPT ![s] = None]
      /\ object' = [object EXCEPT ![n] = q]
  BY DEF RemoveStream, Removable, Types, Objects, None
<1>0. /\ ObjectShape(q) /\ q.pipeline.state = "none" /\ q.owner = object[n].owner
      /\ q.pending = object[n].pending /\ q.encoded = object[n].encoded
  BY <1>1, StopPipelineShape DEF Types
<1>2. /\ streams'[s] = None /\ \A u \in Streams \ {s} : streams'[u] = streams[u]
      /\ streams' \in [Streams -> 0..MaxObjects]
  BY <1>1, ManagedAssumption DEF Types, None, ManagedAssumption
<1> HIDE DEF n, q
<1>3. /\ ObjectsStay
      /\ \A o \in Objects : /\ object'[o].owner = object[o].owner
                            /\ object'[o].pending = object[o].pending
                            /\ object'[o].encoded = object[o].encoded
                            /\ o # n => object'[o] = object[o]
      /\ object'[n].pipeline.state = "none"
  <2>1. ASSUME NEW o \in Objects
        PROVE  /\ ObjectShape(object'[o]) /\ object'[o].owner = object[o].owner
               /\ object'[o].pending = object[o].pending
               /\ object'[o].encoded = object[o].encoded
               /\ o # n => object'[o] = object[o]
               /\ o = n => object'[o].pipeline.state = "none"
    <3>1. ObjectShape(object[o])
      BY DEF Types
    <3>2. /\ o # n => object'[o] = object[o]
          /\ o = n => object'[o] = q
      BY <1>1 DEF Types
    <3>3. CASE o = n
      BY <1>0, <3>2, <3>3
    <3>4. CASE o # n
      BY <3>1, <3>2, <3>4
    <3> QED
      BY <3>3, <3>4
  <2> QED
    BY <1>1, <2>1 DEF ObjectsStay, Types
<1>4. Types'
  BY <1>1, <1>2, <1>3 DEF Types, ObjectsStay
<1>5. n <= made.objects /\ \A u \in Streams \ {s} : streams[u] # n
  BY <1>1 DEF n, Numbered
<1>6. Numbered'
  <2>1. \A u \in Streams : streams'[u] <= made.objects
    BY <1>2 DEF Numbered, None, Types, MadeType
  <2>2. \A u, v \in Streams : streams'[u] # None /\ streams'[u] = streams'[v] => u = v
    BY <1>2 DEF Numbered
  <2>3. \A o \in Objects : o > made.objects => o # n
    BY <1>5, <1>1 DEF Objects, Types, MadeType
  <2> QED
    BY <1>1, <1>3, <2>1, <2>2, <2>3 DEF Numbered
<1>7. \A h \in Handles : Members(h)' = Members(h) /\ Members(h) \subseteq Streams
  BY <1>1 DEF Members, Types, GroupType
\* The stream has no owner, so it is in no handle's list.
<1>8. \A h \in Handles : s \notin Members(h)
  <2>1. SUFFICES ASSUME NEW h \in Handles, s \in Members(h) PROVE FALSE
    OBVIOUS
  <2>2. group[h].id = 0
    BY <1>1, <2>1 DEF Grouped, n
  <2>3. group[h].streams = <<>>
    BY <2>2 DEF Grouped
  <2> QED
    BY <2>1, <2>3 DEF Members
<1>9. Grouped'
  <2>1. \A h \in Handles : \A u \in Members(h) :
          streams'[u] # None /\ object'[streams'[u]].owner = group[h].id
    BY <1>2, <1>3, <1>7, <1>8 DEF Grouped, Types, Objects, None
  <2> QED
    BY <1>1, <1>7, <2>1 DEF Grouped
<1>10. OwnedByHandle'
  <2>1. \A u \in Streams : streams'[u] # None =>
          streams'[u] = streams[u] /\ object'[streams'[u]].owner = object[streams[u]].owner
    BY <1>2, <1>3 DEF Types, Objects, None
  <2> QED
    BY <1>1, <1>7, <2>1 DEF OwnedByHandle
<1>11. Admitted'
  <2>1. \A t \in Steppers : AtWork(t) => streams'[AtStream(t)] = streams[AtStream(t)]
    BY <1>2, <1>8, AtWorkFacts
  <2>2. \A t \in Steppers : AtWork(t)' = AtWork(t) /\ AtStream(t)' = AtStream(t)
    BY <1>1 DEF AtWork, AtStream
  <2> QED
    BY <1>1, <1>7, <2>1, <2>2 DEF Admitted
<1>12. Phased' /\ ThreadsEnd' /\ NothingLeft'
  BY <1>1, PhasedKeeps, ThreadsKeep DEF Inside, NothingLeft, Callable
<1>13. NoOrphanedPipeline'
  <2>1. \A u \in Streams : streams[u] # n => streams'[u] = streams[u]
    BY <1>2 DEF n
  <2>2. \A o \in Objects : object'[o].pipeline.state # "none" =>
          o # n /\ object[o].pipeline.state # "none"
    BY <1>3
  <2> QED
    BY <2>1, <2>2 DEF NoOrphanedPipeline
<1>14. Clocked'
  <2>1. \A u \in Streams : streams'[u] # None =>
          /\ streams'[u] = streams[u]
          /\ object'[streams'[u]].pending = object[streams[u]].pending
          /\ object'[streams'[u]].encoded = object[streams[u]].encoded
    BY <1>2, <1>3 DEF Types, Objects, None
  <2>2. \A t \in Steppers : stepper[t].pc = "encode" =>
          /\ object'[stepper[t].object].pending = object[stepper[t].object].pending
          /\ object'[stepper[t].object].encoded = object[stepper[t].object].encoded
    BY <1>3, AtWorkFacts DEF AtWork
  <2>3. \A t \in Steppers : AtStream(t)' = AtStream(t)
    BY <1>1 DEF AtStream
  <2> QED
    BY <1>1, <2>1, <2>2, <2>3 DEF Clocked
<1> QED
  BY <1>4, <1>6, <1>9, <1>10, <1>11, <1>12, <1>13, <1>14

LEMMA SetOutputConfigKeeps ==
  ASSUME ManagedInv, NEW s \in Streams, NEW interval, SetOutputConfig(s, interval)
  PROVE  ManagedInv'
<1> USE DEF ManagedInv
<1>1. /\ UNCHANGED <<mode, life, access, streams, object, group, producer, stepper, api>>
      /\ Callable /\ made' = [made EXCEPT !.configs = @ + 1]
  BY DEF SetOutputConfig
<1>2. made' \in MadeType /\ made'.objects = made.objects /\ made'.groups = made.groups
  BY <1>1 DEF Types, MadeType
<1>3. Types'
  BY <1>1, <1>2 DEF Types
<1>4. /\ Numbered' /\ Grouped' /\ OwnedByHandle' /\ Admitted'
      /\ NoOrphanedPipeline' /\ Clocked'
  BY <1>1, <1>2, SameObjects, QuietKeeps
<1>5. Phased' /\ ThreadsEnd' /\ NothingLeft'
  BY <1>1, PhasedKeeps, ThreadsKeep DEF Inside, NothingLeft, Callable
<1> QED
  BY <1>3, <1>4, <1>5

LEMMA GroupListFacts ==
  ASSUME NEW list \in GroupLists
  PROVE  list \in Seq(Streams) /\ list # <<>>
<1>1. PICK n \in 1..Cardinality(Streams) : list \in [1..n -> Streams]
  BY DEF GroupLists
<1>2. n \in Nat /\ n >= 1
  BY <1>1, ManagedAssumption, FS_CardinalityType DEF ManagedAssumption
<1> QED
  BY <1>1, <1>2

LEMMA RegisterStreamsKeeps ==
  ASSUME ManagedInv, NEW h \in Handles, NEW list \in GroupLists, RegisterStreams(h, list)
  PROVE  ManagedInv'
<1> USE DEF ManagedInv
<1> DEFINE id == made.groups + 1
           listed(o) == \E i \in DOMAIN list : streams[list[i]] = o
<1>1. /\ UNCHANGED <<mode, life, access, streams, producer, stepper, api>>
      /\ Callable /\ group[h].id = 0
      /\ \A i \in DOMAIN list : streams[list[i]] # None /\ object[streams[list[i]]].owner = 0
      /\ made' = [made EXCEPT !.groups = id]
      /\ group' = [group EXCEPT ![h] = [id |-> id, streams |-> list, stepping |-> FALSE]]
      /\ object' = [o \in Objects |->
                      IF listed(o) THEN [object[o] EXCEPT !.owner = id] ELSE object[o]]
  BY DEF RegisterStreams, Assignable
<1>2. list \in Seq(Streams) /\ list # <<>>
  BY GroupListFacts
<1>3. /\ id \in Nat /\ id # 0 /\ id > made.groups /\ made' \in MadeType
      /\ made'.groups = id /\ made'.objects = made.objects
  BY <1>1 DEF Types, MadeType
<1>4. /\ group'[h] = [id |-> id, streams |-> list, stepping |-> FALSE]
      /\ \A g \in Handles \ {h} : group'[g] = group[g]
  BY <1>1 DEF Types
<1> HIDE DEF id, listed
<1>5. /\ ObjectsStay
      /\ \A o \in Objects : /\ object'[o].pending = object[o].pending
                            /\ object'[o].encoded = object[o].encoded
                            /\ object'[o].pipeline = object[o].pipeline
                            /\ listed(o) => object'[o].owner = id
                            /\ ~listed(o) => object'[o] = object[o]
  <2>1. ASSUME NEW o \in Objects
        PROVE  /\ ObjectShape(object'[o])
               /\ object'[o].pending = object[o].pending
               /\ object'[o].encoded = object[o].encoded
               /\ object'[o].pipeline = object[o].pipeline
               /\ listed(o) => object'[o].owner = id
               /\ ~listed(o) => object'[o] = object[o]
    <3>1. ObjectShape(object[o])
      BY DEF Types
    <3>2. CASE listed(o)
      <4>1. object'[o] = [object[o] EXCEPT !.owner = id]
        BY <1>1, <3>2
      <4> QED
        BY <1>3, <3>1, <3>2, <4>1 DEF ObjectShape
    <3>3. CASE ~listed(o)
      <4>1. object'[o] = object[o]
        BY <1>1, <3>3
      <4> QED
        BY <3>1, <3>3, <4>1
    <3> QED
      BY <3>2, <3>3
  <2> QED
    BY <1>1, <2>1 DEF ObjectsStay
<1>6. Types'
  <2>1. group'[h] \in GroupType
    BY <1>2, <1>3, <1>4 DEF GroupType
  <2>2. group' \in [Handles -> GroupType]
    BY <1>1, <1>4, <2>1 DEF Types
  <2> QED
    BY <1>1, <1>3, <1>5, <2>2 DEF Types, ObjectsStay
\* Only registered streams are listed, and none that has an owner.
<1>7. \A o \in Objects : listed(o) => o <= made.objects
  BY <1>2 DEF listed, Numbered
<1>8. \A s \in Streams : streams[s] # None => streams[s] \in Objects
  BY DEF Types, Objects, None
<1>9. \A s \in Streams : streams[s] # None /\ object[streams[s]].owner # 0 => ~listed(streams[s])
  BY <1>1 DEF listed
<1>10. Numbered'
  <2>1. \A o \in Objects : o > made.objects => ~listed(o)
    BY <1>7 DEF Objects, Types, MadeType
  <2> QED
    BY <1>1, <1>3, <1>5, <2>1, NumberedKeeps
<1>11. Members(h)' = {list[i] : i \in DOMAIN list} /\ Members(h)' \subseteq Streams
  BY <1>2, <1>4 DEF Members
<1>12. \A g \in Handles \ {h} : Members(g)' = Members(g) /\ Members(g) \subseteq Streams
  BY <1>4 DEF Members, Types, GroupType
<1>13. \A g \in Handles : \A s \in Members(g) : group[g].id # 0
  BY DEF Grouped, Members
<1>14. Grouped'
  <2>1. \A g \in Handles : group'[g].id <= id
    <3>1. \A g \in Handles : group[g].id \in Nat /\ group[g].id <= made.groups
      BY DEF Grouped, Types, GroupType
    <3>2. made.groups \in Nat
      BY DEF Types, MadeType
    <3> QED
      BY <1>3, <1>4, <3>1, <3>2
  <2>2. \A g \in Handles : group'[g].id = 0 <=> group'[g].streams = <<>>
    BY <1>2, <1>3, <1>4 DEF Grouped
  <2>3. \A g \in Handles \ {h} : group'[g].id # id
    <3>1. \A g \in Handles : group[g].id \in Nat /\ group[g].id <= made.groups
      BY DEF Grouped, Types, GroupType
    <3>2. made.groups \in Nat
      BY DEF Types, MadeType
    <3> QED
      BY <1>3, <1>4, <3>1, <3>2
  <2>4. \A g, k \in Handles : group'[g].id = group'[k].id /\ group'[g].id # 0 => g = k
    BY <1>4, <2>3 DEF Grouped
  <2>5. \A s \in Members(h)' : streams[s] # None /\ object'[streams[s]].owner = group'[h].id
    BY <1>1, <1>4, <1>5, <1>8, <1>11 DEF listed
  <2>6. \A g \in Handles \ {h} : \A s \in Members(g)' :
          streams[s] # None /\ object'[streams[s]].owner = group'[g].id
    <3>1. SUFFICES ASSUME NEW g \in Handles \ {h}, NEW s \in Members(g)
                   PROVE  streams[s] # None /\ object'[streams[s]].owner = group'[g].id
      BY <1>12
    <3>2. s \in Streams /\ streams[s] # None /\ object[streams[s]].owner = group[g].id
      BY <1>12 DEF Grouped
    <3>3. group[g].id # 0
      BY <1>13
    <3> QED
      BY <1>4, <1>5, <1>8, <1>9, <3>2, <3>3
  <2> QED
    <3>1. \A g \in Handles : \A s \in Members(g)' :
            streams'[s] # None /\ object'[streams'[s]].owner = group'[g].id
      <4>1. \A s \in Members(h)' : streams'[s] # None /\ object'[streams'[s]].owner = group'[h].id
        BY <1>1, <2>5
      <4>2. \A g \in Handles \ {h} : \A s \in Members(g)' :
              streams'[s] # None /\ object'[streams'[s]].owner = group'[g].id
        BY <1>1, <2>6
      <4> QED
        BY <4>1, <4>2
    <3>2. \A g \in Handles : group'[g].id <= made'.groups
      BY <1>3, <2>1
    <3> QED
      BY <2>2, <2>4, <3>1, <3>2 DEF Grouped
<1>15. OwnedByHandle'
  <2>1. SUFFICES ASSUME ~access.shuttingDown, NEW s \in Streams, streams[s] # None,
                        object'[streams[s]].owner # 0
                 PROVE  \E g \in Handles : s \in Members(g)'
    BY <1>1 DEF OwnedByHandle
  <2>2. CASE listed(streams[s])
    <3>1. PICK i \in DOMAIN list : streams[list[i]] = streams[s]
      BY <2>2 DEF listed
    <3>2. list[i] \in Streams
      BY <1>2, <3>1
    <3>3. list[i] = s
      BY <2>1, <3>1, <3>2 DEF Numbered
    <3> QED
      BY <1>11, <3>3
  <2>3. CASE ~listed(streams[s])
    <3>1. PICK g \in Handles : s \in Members(g)
      BY <1>5, <1>8, <2>1, <2>3 DEF OwnedByHandle
    <3>2. g # h
      BY <1>1, <1>13, <3>1
    <3> QED
      BY <1>12, <3>1, <3>2
  <2> QED
    BY <2>2, <2>3
<1>16. Admitted'
  <2>1. \A t \in Steppers : stepper[t].pc # "idle" => stepper[t].handle # h
    BY <1>1 DEF Admitted
  <2>2. \A t \in Steppers : AtWork(t)' = AtWork(t) /\ AtStream(t)' = AtStream(t)
    BY <1>1 DEF AtWork, AtStream
  <2>3. \A t \in Steppers : stepper[t].pc # "idle" => group'[stepper[t].handle] = group[stepper[t].handle]
    BY <1>4, <2>1 DEF Admitted
  <2>4. \A t \in Steppers, g \in Handles :
          (stepper[t].pc = "lookup" \/ AtWork(t)) /\ stepper[t].handle = g => Members(g)' = Members(g)
    BY <1>12, <2>1 DEF AtWork
  <2> QED
    BY <1>1, <2>2, <2>3, <2>4 DEF Admitted
<1>17. Phased' /\ ThreadsEnd' /\ NothingLeft'
  BY <1>1, PhasedKeeps, ThreadsKeep DEF Inside, NothingLeft, Callable
<1>18. NoOrphanedPipeline'
  BY <1>1, <1>5, PipelinesKeep DEF NoOrphanedPipeline
<1>19. Clocked'
  BY <1>1, <1>5, ClockedKeeps
<1> QED
  BY <1>6, <1>10, <1>14, <1>15, <1>16, <1>17, <1>18, <1>19

LEMMA ReleaseStreamGroupKeeps ==
  ASSUME ManagedInv, NEW h \in Handles, ReleaseStreamGroup(h)
  PROVE  ManagedInv'
<1> USE DEF ManagedInv
<1> DEFINE freed(o) == /\ access.owner /\ ~access.shuttingDown
                       /\ \E s \in Members(h) : streams[s] = o
                       /\ object[o].owner = group[h].id
<1>1. /\ UNCHANGED <<mode, life, access, streams, made, producer, stepper, api>>
      /\ group[h].id # 0 /\ \A t \in Steppers : stepper[t].handle # h
      /\ group' = [group EXCEPT ![h] = NoGroup]
      /\ object' = [o \in Objects |->
                      IF freed(o) THEN [object[o] EXCEPT !.owner = 0] ELSE object[o]]
  BY DEF ReleaseStreamGroup
<1>2. group'[h] = NoGroup /\ \A g \in Handles \ {h} : group'[g] = group[g]
  BY <1>1 DEF Types
<1> HIDE DEF freed
<1>3. /\ ObjectsStay
      /\ \A o \in Objects : /\ object'[o].pending = object[o].pending
                            /\ object'[o].encoded = object[o].encoded
                            /\ object'[o].pipeline = object[o].pipeline
                            /\ object'[o].handoff = object[o].handoff
                            /\ freed(o) => object'[o].owner = 0
                            /\ ~freed(o) => object'[o] = object[o]
  <2>1. ASSUME NEW o \in Objects
        PROVE  /\ ObjectShape(object'[o])
               /\ object'[o].pending = object[o].pending
               /\ object'[o].encoded = object[o].encoded
               /\ object'[o].pipeline = object[o].pipeline
               /\ object'[o].handoff = object[o].handoff
               /\ freed(o) => object'[o].owner = 0
               /\ ~freed(o) => object'[o] = object[o]
    <3>1. ObjectShape(object[o])
      BY DEF Types
    <3>2. CASE freed(o)
      <4>1. object'[o] = [object[o] EXCEPT !.owner = 0]
        BY <1>1, <3>2
      <4> QED
        BY <3>1, <3>2, <4>1 DEF ObjectShape
    <3>3. CASE ~freed(o)
      <4>1. object'[o] = object[o]
        BY <1>1, <3>3
      <4> QED
        BY <3>1, <3>3, <4>1
    <3> QED
      BY <3>2, <3>3
  <2> QED
    BY <1>1, <2>1 DEF ObjectsStay
<1>4. Types'
  <2>1. group'[h] \in GroupType
    BY <1>2 DEF GroupType, NoGroup
  <2>2. group' \in [Handles -> GroupType]
    BY <1>1, <1>2, <2>1 DEF Types
  <2> QED
    BY <1>1, <1>3, <2>2 DEF Types, ObjectsStay
<1>5. \A s \in Streams : streams[s] # None => streams[s] \in Objects
  BY DEF Types, Objects, None
<1>6. Numbered'
  <2>1. \A o \in Objects : o > made.objects => object'[o].owner = object[o].owner
    BY <1>3 DEF Numbered
  <2> QED
    BY <1>1, <1>3, <2>1, NumberedKeeps
<1>7. Members(h)' = {}
  BY <1>2 DEF Members, NoGroup
<1>8. \A g \in Handles \ {h} : Members(g)' = Members(g)
  BY <1>2 DEF Members
<1>9. \A g \in Handles : Members(g) \subseteq Streams /\ \A s \in Members(g) : group[g].id # 0
  BY DEF Members, Types, GroupType, Grouped
<1>10. Grouped'
  <2>1. \A g \in Handles : group'[g].id <= made.groups
    BY <1>2 DEF Grouped, NoGroup, Types, MadeType
  <2>2. \A g \in Handles : group'[g].id = 0 <=> group'[g].streams = <<>>
    BY <1>2 DEF Grouped, NoGroup
  <2>3. \A g, k \in Handles : group'[g].id = group'[k].id /\ group'[g].id # 0 => g = k
    BY <1>2 DEF Grouped, NoGroup
  <2>4. \A g \in Handles \ {h} : \A s \in Members(g) :
          streams[s] # None /\ object'[streams[s]].owner = group[g].id
    <3>1. SUFFICES ASSUME NEW g \in Handles \ {h}, NEW s \in Members(g)
                   PROVE  streams[s] # None /\ object'[streams[s]].owner = group[g].id
      OBVIOUS
    <3>2. s \in Streams /\ streams[s] # None /\ object[streams[s]].owner = group[g].id
      BY <1>9 DEF Grouped
    <3>3. group[g].id # group[h].id
      BY <1>1 DEF Grouped
    <3> QED
      BY <1>3, <1>5, <3>2, <3>3 DEF freed
  <2> QED
    <3>1. \A g \in Handles : \A s \in Members(g)' :
            streams'[s] # None /\ object'[streams'[s]].owner = group'[g].id
      <4>1. \A s \in Members(h)' : FALSE
        BY <1>7
      <4>2. \A g \in Handles \ {h} : \A s \in Members(g)' :
              streams'[s] # None /\ object'[streams'[s]].owner = group'[g].id
        BY <1>1, <1>2, <1>8, <2>4
      <4> QED
        BY <4>1, <4>2
    <3>2. \A g \in Handles : group'[g].id <= made'.groups
      BY <1>1, <2>1
    <3> QED
      BY <2>2, <2>3, <3>1, <3>2 DEF Grouped
<1>11. OwnedByHandle'
  <2>1. SUFFICES ASSUME ~access.shuttingDown, NEW s \in Streams, streams[s] # None,
                        object'[streams[s]].owner # 0
                 PROVE  \E g \in Handles : s \in Members(g)'
    BY <1>1 DEF OwnedByHandle
  <2>2. object[streams[s]].owner # 0 /\ ~freed(streams[s])
    BY <1>3, <1>5, <2>1
  <2>3. PICK g \in Handles : s \in Members(g)
    BY <2>1, <2>2 DEF OwnedByHandle
  <2>4. access.owner
    BY <2>1 DEF Phased, Gone
  <2>5. g # h
    BY <2>1, <2>2, <2>3, <2>4 DEF freed, Grouped
  <2> QED
    BY <1>8, <2>3, <2>5
<1>12. Admitted'
  <2>1. \A t \in Steppers : stepper[t].pc # "idle" => stepper[t].handle # h
    BY <1>1
  <2>2. \A t \in Steppers : AtWork(t)' = AtWork(t) /\ AtStream(t)' = AtStream(t)
    BY <1>1 DEF AtWork, AtStream
  <2>3. \A t \in Steppers : stepper[t].pc # "idle" => group'[stepper[t].handle] = group[stepper[t].handle]
    BY <1>2, <2>1 DEF Admitted
  <2>4. \A t \in Steppers, g \in Handles :
          (stepper[t].pc = "lookup" \/ AtWork(t)) /\ stepper[t].handle = g => Members(g)' = Members(g)
    BY <1>8, <2>1 DEF AtWork
  <2> QED
    BY <1>1, <2>2, <2>3, <2>4 DEF Admitted
<1>13. Phased' /\ ThreadsEnd'
  BY <1>1, PhasedKeeps, ThreadsKeep DEF Inside
<1>14. NothingLeft'
  BY <1>1, <1>3, <1>5 DEF NothingLeft
<1>15. NoOrphanedPipeline'
  BY <1>1, <1>3, PipelinesKeep DEF NoOrphanedPipeline
<1>16. Clocked'
  BY <1>1, <1>3, ClockedKeeps
<1> QED
  BY <1>4, <1>6, <1>10, <1>11, <1>12, <1>13, <1>14, <1>15, <1>16

-----------------------------------------------------------------------------
(* push_frame.                                                             *)

\* What a producer alone cannot disturb.
LEMMA ProducerKeeps ==
  ASSUME Types, Numbered, Grouped, OwnedByHandle, Admitted, Phased, ThreadsEnd,
         NoOrphanedPipeline, NothingLeft,
         UNCHANGED <<mode, life, access, streams, made, group, stepper, api>>,
         \A o \in Objects : /\ object'[o].owner = object[o].owner
                            /\ object'[o].encoded = object[o].encoded
                            /\ object'[o].pipeline = object[o].pipeline
                            /\ object'[o].handoff = object[o].handoff
                            /\ o > made.objects => object'[o].pending = object[o].pending
  PROVE  /\ Numbered' /\ Grouped' /\ OwnedByHandle' /\ Admitted' /\ Phased'
         /\ ThreadsEnd' /\ NoOrphanedPipeline' /\ NothingLeft'
<1>1. Numbered'
  BY NumberedKeeps
<1>2. Grouped' /\ OwnedByHandle'
  BY GroupedKeeps, OwnedKeeps
<1>3. Admitted'
  BY AdmittedKeeps
<1>4. Phased' /\ ThreadsEnd'
  BY PhasedKeeps, ThreadsKeep DEF Inside
<1>5. NoOrphanedPipeline'
  BY PipelinesKeep
<1>6. \A s \in Streams : streams[s] # None => streams[s] \in Objects
  BY DEF Types, Objects, None
<1>7. NothingLeft'
  BY <1>6 DEF NothingLeft
<1> QED
  BY <1>1, <1>2, <1>3, <1>4, <1>5, <1>7

\* A producer that has its frame refused, or is done, is not about to latch.
LEMMA ProducerRests ==
  ASSUME ManagedInv, NEW s \in Streams,
         UNCHANGED <<mode, life, access, streams, made, group, stepper, api>>,
         ObjectsStay, \A o \in Objects : Alike(object'[o], object[o]),
         NEW p, producer' = [producer EXCEPT ![s] = p], p \in ProducerType,
         p.pc # "latch", p.clock >= producer[s].clock
  PROVE  ManagedInv'
<1> USE DEF ManagedInv
<1>1. producer' \in [Streams -> ProducerType] /\ producer'[s] = p
      /\ \A u \in Streams \ {s} : producer'[u] = producer[u]
  BY DEF Types
<1>2. Types'
  BY <1>1 DEF Types, ObjectsStay
<1>3. /\ Numbered' /\ Grouped' /\ OwnedByHandle' /\ Admitted' /\ Phased'
      /\ ThreadsEnd' /\ NoOrphanedPipeline' /\ NothingLeft'
  BY ProducerKeeps DEF Alike
<1>4. Clocked'
  <2>0. \A u \in Streams : streams[u] # None => streams[u] \in Objects
    BY DEF Types, Objects, None
  <2>1. \A u \in Streams : streams[u] # None =>
          /\ ObjectShape(object[streams[u]])
          /\ object'[streams[u]].pending = object[streams[u]].pending
          /\ object'[streams[u]].encoded = object[streams[u]].encoded
    BY <2>0 DEF Types, Alike
  <2>2. \A t \in Steppers : AtStream(t)' = AtStream(t)
    BY DEF AtStream
  <2>3. \A u \in Streams : producer[u].clock \in Nat /\ producer'[u].clock \in Nat
          /\ producer'[u].clock >= producer[u].clock
          /\ (producer'[u].pc = "latch" => producer'[u] = producer[u])
    BY <1>1 DEF Types, ProducerType
  <2>4. \A u \in Streams :
         LET q == producer'[u]
             r == object'[streams'[u]]
         IN  /\ q.pc = "latch" => q.clock > 0
             /\ streams'[u] # None =>
                  /\ r.pending <= q.clock /\ r.encoded <= q.clock
                  /\ q.pc = "latch" => r.pending < q.clock /\ r.encoded < q.clock
                  /\ r.pending # None => r.encoded < r.pending
    <3>1. SUFFICES ASSUME NEW u \in Streams
                   PROVE  LET q == producer'[u]
                              r == object'[streams[u]]
                          IN  /\ q.pc = "latch" => q.clock > 0
                              /\ streams[u] # None =>
                                   /\ r.pending <= q.clock /\ r.encoded <= q.clock
                                   /\ q.pc = "latch" => r.pending < q.clock /\ r.encoded < q.clock
                                   /\ r.pending # None => r.encoded < r.pending
      OBVIOUS
    <3> QED
      BY <2>1, <2>3 DEF Clocked, ObjectShape
  <2>5. \A t \in Steppers : stepper[t].pc = "encode" =>
         LET q == producer'[AtStream(t)]
             r == object'[stepper[t].object]
             f == stepper[t].frame
         IN  /\ r.encoded < f /\ f <= q.clock
             /\ q.pc = "latch" => f < q.clock
             /\ r.pending # None => f < r.pending
    <3>1. SUFFICES ASSUME NEW t \in Steppers, stepper[t].pc = "encode"
                   PROVE  LET q == producer'[AtStream(t)]
                              r == object'[stepper[t].object]
                              f == stepper[t].frame
                          IN  /\ r.encoded < f /\ f <= q.clock
                              /\ q.pc = "latch" => f < q.clock
                              /\ r.pending # None => f < r.pending
      OBVIOUS
    <3>2. /\ AtStream(t) \in Streams /\ stepper[t].frame \in Nat
          /\ object'[stepper[t].object].pending = object[stepper[t].object].pending
          /\ object'[stepper[t].object].encoded = object[stepper[t].object].encoded
      BY <3>1, AtWorkFacts DEF AtWork, Types, StepperShape, Alike
    <3> QED
      BY <2>3, <3>1, <3>2 DEF Clocked
  <2> QED
    BY <2>2, <2>4, <2>5 DEF Clocked
<1> QED
  BY <1>2, <1>3, <1>4

LEMMA SameForProducers ==
  ASSUME ManagedInv, object' = object
  PROVE  ObjectsStay /\ \A o \in Objects : Alike(object'[o], object[o])
BY SameObjects DEF ManagedInv, Types, ObjectsStay

LEMMA PushRejectKeeps ==
  ASSUME ManagedInv, NEW s \in Streams, PushReject(s)
  PROVE  ManagedInv'
<1> DEFINE p == [producer[s] EXCEPT !.pc = "idle"]
<1>1. p \in ProducerType /\ p.pc # "latch" /\ p.clock >= producer[s].clock
  <2>1. producer[s] \in ProducerType
    BY DEF ManagedInv, Types
  <2> QED
    BY <2>1 DEF ProducerType
<1>2. producer' = [producer EXCEPT ![s] = p]
  BY DEF PushReject
<1>3. UNCHANGED <<mode, life, access, streams, object, made, group, stepper, api>>
  BY DEF PushReject
<1> HIDE DEF p
<1> QED
  BY <1>1, <1>2, <1>3, SameForProducers, ProducerRests

\* The note marks at most the object that it was not made for.
LEMMA NotedObjects ==
  ASSUME Types, NEW s \in Streams, PushNote(s)
  PROVE  /\ ObjectsStay
         /\ \A o \in Objects : /\ Alike(object'[o], object[o])
                               /\ object'[o].registered = object[o].registered
<1> DEFINE n == producer[s].object
           k == object[n].missed + 1
<1>1. object' = object \/ object' = [object EXCEPT ![n].missed = k]
  BY DEF PushNote
<1>2. ASSUME NEW o \in Objects
      PROVE  /\ ObjectShape(object'[o]) /\ Alike(object'[o], object[o])
             /\ object'[o].registered = object[o].registered
  <2>1. ObjectShape(object[o])
    BY DEF Types
  <2>2. CASE object'[o] = object[o]
    BY <2>1, <2>2 DEF Alike
  <2>3. CASE object'[o] # object[o]
    <3>1. o = n /\ object'[o] = [object[o] EXCEPT !.missed = k]
      BY <1>1, <2>3 DEF Types
    <3>2. k \in Nat
      BY <2>1, <3>1 DEF ObjectShape
    <3> HIDE DEF k, n
    <3> QED
      BY <2>1, <3>1, <3>2 DEF ObjectShape, Alike
  <2> QED
    BY <2>2, <2>3
<1>3. object' = [o \in Objects |-> object'[o]]
  BY <1>1 DEF Types
<1> QED
  BY <1>2, <1>3 DEF ObjectsStay

LEMMA PushNoteKeeps ==
  ASSUME ManagedInv, NEW s \in Streams, PushNote(s)
  PROVE  ManagedInv'
<1> DEFINE pc == IF InCore(s) THEN "idle" ELSE "reject"
           p == [producer[s] EXCEPT !.pc = pc, !.object = None]
<1>1. p \in ProducerType /\ p.pc # "latch" /\ p.clock >= producer[s].clock
  <2>1. producer[s] \in ProducerType /\ pc \in {"idle", "reject"}
    BY DEF ManagedInv, Types
  <2> HIDE DEF pc
  <2>2. producer[s].clock \in Nat
    BY <2>1 DEF ProducerType
  <2>3. p \in ProducerType /\ p.pc = pc /\ p.clock = producer[s].clock
    BY <2>1 DEF ProducerType, None
  <2> HIDE DEF p
  <2> QED
    BY <2>1, <2>2, <2>3
<1>2. producer' = [producer EXCEPT ![s] = p]
  BY DEF PushNote
<1>3. UNCHANGED <<mode, life, access, streams, made, group, stepper, api>>
  BY DEF PushNote
<1> HIDE DEF p, pc
<1> QED
  BY <1>1, <1>2, <1>3, NotedObjects, ProducerRests DEF ManagedInv

LEMMA PushValidateKeeps ==
  ASSUME ManagedInv, NEW s \in Streams, PushValidate(s)
  PROVE  ManagedInv'
<1> USE DEF ManagedInv
<1>1. /\ UNCHANGED <<mode, life, access, streams, object, made, group, stepper, api>>
      /\ \E pc \in {"latch", "reject"} :
           producer' = [producer EXCEPT ![s].pc = pc, ![s].clock = @ + 1]
  BY DEF PushValidate
<1> DEFINE c == producer[s].clock + 1
<1>2. PICK p \in ProducerType : /\ producer' = [producer EXCEPT ![s] = p]
                               /\ p.clock = producer[s].clock + 1
  <2>1. producer[s] \in ProducerType
    BY DEF Types
  <2>2. c \in Nat
    BY <2>1 DEF ProducerType
  <2>3. PICK pc \in {"latch", "reject"} :
          producer' = [producer EXCEPT ![s].pc = pc, ![s].clock = c]
    BY <1>1
  <2> DEFINE q == [producer[s] EXCEPT !.pc = pc, !.clock = c]
  <2>4. producer' = [producer EXCEPT ![s] = q]
    BY <2>3
  <2> HIDE DEF c
  <2>5. q \in ProducerType /\ q.clock = c
    BY <2>1, <2>2 DEF ProducerType
  <2> HIDE DEF q
  <2> QED
    BY <2>4, <2>5 DEF c
<1> HIDE DEF c
<1>3. producer' \in [Streams -> ProducerType] /\ producer'[s] = p
      /\ \A u \in Streams \ {s} : producer'[u] = producer[u]
  BY <1>1, <1>2 DEF Types
<1>4. Types'
  BY <1>1, <1>3 DEF Types
<1>5. /\ Numbered' /\ Grouped' /\ OwnedByHandle' /\ Admitted' /\ Phased'
      /\ ThreadsEnd' /\ NoOrphanedPipeline' /\ NothingLeft'
  BY <1>1, ProducerKeeps
<1>6. Clocked'
  <2>1. \A u \in Streams : streams[u] # None => ObjectShape(object[streams[u]])
    BY DEF Types, Objects, None
  <2>2. \A t \in Steppers : AtStream(t)' = AtStream(t)
    BY <1>1 DEF AtStream
  <2>3. \A u \in Streams : /\ producer[u].clock \in Nat
          /\ \/ producer'[u] = producer[u]
             \/ producer'[u].clock = producer[u].clock + 1
    BY <1>2, <1>3 DEF Types, ProducerType
  <2>4. \A u \in Streams :
         LET q == producer'[u]
             r == object'[streams'[u]]
         IN  /\ q.pc = "latch" => q.clock > 0
             /\ streams'[u] # None =>
                  /\ r.pending <= q.clock /\ r.encoded <= q.clock
                  /\ q.pc = "latch" => r.pending < q.clock /\ r.encoded < q.clock
                  /\ r.pending # None => r.encoded < r.pending
    <3>1. SUFFICES ASSUME NEW u \in Streams
                   PROVE  LET q == producer'[u]
                              r == object[streams[u]]
                          IN  /\ q.pc = "latch" => q.clock > 0
                              /\ streams[u] # None =>
                                   /\ r.pending <= q.clock /\ r.encoded <= q.clock
                                   /\ q.pc = "latch" => r.pending < q.clock /\ r.encoded < q.clock
                                   /\ r.pending # None => r.encoded < r.pending
      BY <1>1
    <3> QED
      BY <2>1, <2>3 DEF Clocked, ObjectShape
  <2>5. \A t \in Steppers : stepper[t].pc = "encode" =>
         LET q == producer'[AtStream(t)]
             r == object[stepper[t].object]
             f == stepper[t].frame
         IN  /\ r.encoded < f /\ f <= q.clock
             /\ q.pc = "latch" => f < q.clock
             /\ r.pending # None => f < r.pending
    <3>1. SUFFICES ASSUME NEW t \in Steppers, stepper[t].pc = "encode"
                   PROVE  LET q == producer'[AtStream(t)]
                              r == object[stepper[t].object]
                              f == stepper[t].frame
                          IN  /\ r.encoded < f /\ f <= q.clock
                              /\ q.pc = "latch" => f < q.clock
                              /\ r.pending # None => f < r.pending
      OBVIOUS
    <3>2. AtStream(t) \in Streams /\ stepper[t].frame \in Nat
      BY <3>1, AtWorkFacts DEF AtWork, Types, StepperShape
    <3> QED
      BY <2>3, <3>1, <3>2 DEF Clocked
  <2> QED
    BY <1>1, <2>2, <2>4, <2>5 DEF Clocked
<1> QED
  BY <1>4, <1>5, <1>6

LEMMA PushLatchKeeps ==
  ASSUME ManagedInv, NEW s \in Streams, PushLatch(s)
  PROVE  ManagedInv'
<1> USE DEF ManagedInv
<1>1. CASE streams[s] = None
  <2> DEFINE p == [producer[s] EXCEPT !.pc = "idle"]
  <2>1. /\ UNCHANGED <<mode, life, access, streams, object, made, group, stepper, api>>
        /\ producer' = [producer EXCEPT ![s] = p]
    BY <1>1 DEF PushLatch
  <2>2. p \in ProducerType /\ p.pc # "latch" /\ p.clock >= producer[s].clock
    <3>1. producer[s] \in ProducerType
      BY DEF Types
    <3> QED
      BY <3>1 DEF ProducerType
  <2> HIDE DEF p
  <2> QED
    BY <2>1, <2>2, SameForProducers, ProducerRests
<1>2. CASE streams[s] # None
  <2> DEFINE n == streams[s]
             c == producer[s].clock
             p == [producer[s] EXCEPT !.pc = "note", !.object = n]
  <2>1. /\ UNCHANGED <<mode, life, access, streams, made, group, stepper, api>>
        /\ producer[s].pc = "latch"
        /\ producer' = [producer EXCEPT ![s] = p]
        /\ object' = [object EXCEPT ![n].pending = c]
    BY <1>2 DEF PushLatch, Latch
  <2>2. n \in Objects /\ n \in Nat /\ n <= made.objects /\ c \in Nat
    BY <1>2 DEF Types, Objects, None, Numbered, ProducerType
  <2>3. p \in ProducerType /\ p.pc = "note" /\ p.clock = c
    <3>1. producer[s] \in ProducerType
      BY DEF Types
    <3> QED
      BY <2>2, <3>1 DEF ProducerType
  <2>4. \A u \in Streams : streams[u] = n => u = s
    BY <1>2 DEF Numbered
  <2> HIDE DEF n, p, c
  <2>5. producer' \in [Streams -> ProducerType] /\ producer'[s] = p
        /\ \A u \in Streams \ {s} : producer'[u] = producer[u]
    BY <2>1, <2>3 DEF Types
  <2>6. /\ ObjectsStay
        /\ \A o \in Objects : /\ object'[o].owner = object[o].owner
                              /\ object'[o].encoded = object[o].encoded
                              /\ object'[o].pipeline = object[o].pipeline
                              /\ object'[o].handoff = object[o].handoff
                              /\ o # n => object'[o] = object[o]
        /\ object'[n].pending = c
    <3>1. ASSUME NEW o \in Objects
          PROVE  /\ ObjectShape(object'[o])
                 /\ object'[o].owner = object[o].owner
                 /\ object'[o].encoded = object[o].encoded
                 /\ object'[o].pipeline = object[o].pipeline
                 /\ object'[o].handoff = object[o].handoff
                 /\ o # n => object'[o] = object[o]
                 /\ o = n => object'[o].pending = c
      <4>1. ObjectShape(object[o])
        BY DEF Types
      <4>2. CASE o = n
        <5>1. object'[o] = [object[o] EXCEPT !.pending = c]
          BY <2>1, <4>2 DEF Types
        <5> QED
          BY <2>2, <4>1, <4>2, <5>1 DEF ObjectShape
      <4>3. CASE o # n
        <5>1. object'[o] = object[o]
          BY <2>1, <4>3 DEF Types
        <5> QED
          BY <4>1, <4>3, <5>1
      <4> QED
        BY <4>2, <4>3
    <3> QED
      BY <2>1, <2>2, <3>1 DEF ObjectsStay, Types
  <2>7. Types'
    BY <2>1, <2>5, <2>6 DEF Types, ObjectsStay
  <2>8. /\ Numbered' /\ Grouped' /\ OwnedByHandle' /\ Admitted' /\ Phased'
        /\ ThreadsEnd' /\ NoOrphanedPipeline' /\ NothingLeft'
    <3>1. \A o \in Objects : o > made.objects => object'[o].pending = object[o].pending
      BY <2>2, <2>6 DEF Objects, Types, MadeType
    <3> QED
      BY <2>1, <2>6, <3>1, ProducerKeeps
  <2>9. Clocked'
    <3>1. \A t \in Steppers : AtStream(t)' = AtStream(t)
      BY <2>1 DEF AtStream
    <3>2. \A u \in Streams :
           LET q == producer'[u]
               r == object'[streams'[u]]
           IN  /\ q.pc = "latch" => q.clock > 0
               /\ streams'[u] # None =>
                    /\ r.pending <= q.clock /\ r.encoded <= q.clock
                    /\ q.pc = "latch" => r.pending < q.clock /\ r.encoded < q.clock
                    /\ r.pending # None => r.encoded < r.pending
      <4>1. ASSUME NEW u \in Streams, u # s
            PROVE  LET q == producer'[u]
                       r == object[streams[u]]
                   IN  /\ q.pc = "latch" => q.clock > 0
                       /\ streams[u] # None =>
                            /\ r.pending <= q.clock /\ r.encoded <= q.clock
                            /\ q.pc = "latch" => r.pending < q.clock /\ r.encoded < q.clock
                            /\ r.pending # None => r.encoded < r.pending
        BY <2>5, <4>1 DEF Clocked
      <4>2. \A u \in Streams : u # s /\ streams[u] # None => object'[streams'[u]] = object[streams[u]]
        BY <2>1, <2>4, <2>6 DEF Types, Objects, None
      <4>3. /\ object[n].encoded < c
            /\ object'[n].encoded = object[n].encoded /\ streams'[s] = n
        BY <1>2, <2>1, <2>2, <2>6 DEF Clocked, n, c
      <4>4. object[n].encoded \in Nat
        BY <2>2 DEF Types, ObjectShape
      <4>5. LET q == producer'[s]
                r == object'[streams'[s]]
            IN  /\ q.pc # "latch"
                /\ r.pending <= q.clock /\ r.encoded <= q.clock
                /\ r.encoded < r.pending
        BY <2>2, <2>3, <2>5, <2>6, <4>3, <4>4
      <4> QED
        BY <2>1, <4>1, <4>2, <4>5
    <3>3. \A t \in Steppers : stepper[t].pc = "encode" =>
           LET q == producer'[AtStream(t)]
               r == object'[stepper[t].object]
               f == stepper[t].frame
           IN  /\ r.encoded < f /\ f <= q.clock
               /\ q.pc = "latch" => f < q.clock
               /\ r.pending # None => f < r.pending
      <4>1. SUFFICES ASSUME NEW t \in Steppers, stepper[t].pc = "encode"
                     PROVE  LET q == producer'[AtStream(t)]
                                r == object'[stepper[t].object]
                                f == stepper[t].frame
                            IN  /\ r.encoded < f /\ f <= q.clock
                                /\ q.pc = "latch" => f < q.clock
                                /\ r.pending # None => f < r.pending
        OBVIOUS
      <4>2. AtStream(t) \in Streams /\ stepper[t].object \in Objects
            /\ stepper[t].object = streams[AtStream(t)]
        BY <4>1, AtWorkFacts DEF AtWork
      <4>3. CASE AtStream(t) = s
        <5>1. stepper[t].object = n
          BY <4>2, <4>3 DEF n
        <5>2. object[n].encoded < stepper[t].frame /\ stepper[t].frame < c
          BY <2>1, <4>1, <4>3, <5>1 DEF Clocked, c
        <5>3. stepper[t].frame \in Nat
          BY DEF Types, StepperShape
        <5> QED
          BY <2>2, <2>3, <2>5, <2>6, <4>3, <5>1, <5>2, <5>3
      <4>4. CASE AtStream(t) # s
        <5>1. object'[stepper[t].object] = object[stepper[t].object]
          BY <2>4, <2>6, <4>2, <4>4
        <5> QED
          BY <2>5, <4>1, <4>2, <4>4, <5>1 DEF Clocked
      <4> QED
        BY <4>3, <4>4
    <3> QED
      BY <2>1, <3>1, <3>2, <3>3 DEF Clocked
  <2> QED
    BY <2>7, <2>8, <2>9
<1> QED
  BY <1>1, <1>2

-----------------------------------------------------------------------------
(* step_streams.                                                           *)

\* Groups exclude each other and a group admits one thread, so no two threads
\* work on the same stream.
LEMMA OneThreadPerObject ==
  ASSUME Types, Grouped, Admitted, NEW t \in Steppers, NEW u \in Steppers,
         AtWork(t), AtWork(u), stepper[t].object = stepper[u].object
  PROVE  t = u
<1> DEFINE g == stepper[t].handle
           h == stepper[u].handle
<1>1. /\ g \in Handles /\ object[stepper[t].object].owner = group[g].id
      /\ h \in Handles /\ object[stepper[u].object].owner = group[h].id
  BY AtWorkFacts
<1>2. group[g].id # 0
  BY DEF Admitted, AtWork
<1>3. g = h
  BY <1>1, <1>2 DEF Grouped
<1> QED
  BY <1>3 DEF Admitted, AtWork

\* A thread inside, alone, changes at most its stream's object, and not its owner.
LEMMA StepKeeps ==
  ASSUME ManagedInv, NEW t \in Steppers, Inside(t), Inside(t)',
         UNCHANGED <<mode, life, access, streams, made, group, producer, api>>,
         stepper' = [u \in Steppers |-> stepper'[u]],
         \A u \in Steppers : StepperShape(stepper'[u]),
         \A u \in Steppers \ {t} : stepper'[u] = stepper[u],
         ObjectsStay,
         \A o \in Objects : object'[o].owner = object[o].owner,
         \A o \in Objects : object'[o] = object[o] \/ \E s \in Streams : streams[s] = o,
         Admitted', Clocked'
  PROVE  ManagedInv'
<1> USE DEF ManagedInv
<1>1. Types'
  BY DEF Types, ObjectsStay
<1>2. Numbered'
  <2>1. \A o \in Objects : o > made.objects => object'[o] = object[o]
    BY DEF Numbered, Objects, Types, MadeType
  <2> QED
    BY <2>1, NumberedKeeps
<1>3. Grouped' /\ OwnedByHandle'
  BY GroupedKeeps, OwnedKeeps
<1>4. Phased'
  <2>1. \A u \in Steppers : Inside(u)' = Inside(u)
    BY DEF Inside
  <2> QED
    BY <2>1, PhasedKeeps
<1>5. ThreadsEnd'
  BY ThreadsKeep
<1>6. NoOrphanedPipeline'
  BY PipelinesKeep
<1>7. NothingLeft'
  BY DEF Phased, NothingLeft
<1> QED
  BY <1>1, <1>2, <1>3, <1>4, <1>5, <1>6, <1>7

LEMMA ClockedStep ==
  ASSUME Types, Grouped, Admitted, Clocked, streams' = streams, producer' = producer,
         \A u \in Steppers : stepper'[u].pc = "encode" => stepper'[u] = stepper[u],
         \A o \in Objects : /\ object'[o].pending = object[o].pending
                            /\ object'[o].encoded = object[o].encoded
  PROVE  Clocked'
<1>1. \A s \in Streams : streams[s] # None => streams[s] \in Objects
  BY DEF Types, Objects, None
<1>2. \A u \in Steppers : stepper'[u] = stepper[u] => AtStream(u)' = AtStream(u)
  BY DEF AtStream
<1>3. \A u \in Steppers : stepper[u].pc = "encode" => stepper[u].object \in Objects
  BY AtWorkFacts DEF AtWork
<1> QED
  BY <1>1, <1>2, <1>3 DEF Clocked

\* What is left to do after the first stream is still the handle's.
LEMMA TailFacts ==
  ASSUME NEW q \in Seq(Streams), q # <<>>
  PROVE  /\ Tail(q) \in Seq(Streams)
         /\ Len(q) > 1 => Tail(q) # <<>>
         /\ \A i \in DOMAIN Tail(q) : i + 1 \in DOMAIN q /\ Tail(q)[i] = q[i + 1]
         /\ 1 \in DOMAIN q /\ Head(q) = q[1] /\ Head(q) \in Streams
<1>1. Tail(q) \in Seq(Streams) /\ Len(Tail(q)) = Len(q) - 1
  OBVIOUS
<1>2. \A i \in DOMAIN Tail(q) : i + 1 \in DOMAIN q /\ Tail(q)[i] = q[i + 1]
  OBVIOUS
<1>3. Len(q) > 1 => Tail(q) # <<>>
  <2>1. Len(q) > 1 => Len(Tail(q)) # 0
    BY <1>1
  <2>2. Len(<<>>) = 0
    OBVIOUS
  <2> QED
    BY <2>1, <2>2, Zenon
<1>4. 1 \in DOMAIN q /\ Head(q) = q[1] /\ Head(q) \in Streams
  OBVIOUS
<1> QED
  BY <1>1, <1>2, <1>3, <1>4

\* The thread is through with a stream, or with the whole call.
Through(t) ==
  /\ stepper' = [u \in Steppers |-> stepper'[u]]
  /\ \A u \in Steppers : StepperShape(stepper'[u])
  /\ \A u \in Steppers \ {t} : stepper'[u] = stepper[u]
  /\ stepper'[t].pc \in {"lookup", "leave"}
  /\ Admitted'

LEMMA NextStreamThrough ==
  ASSUME Types, Admitted, NEW t \in Steppers, stepper[t].pc = "lookup" \/ AtWork(t),
         NextStream(t), streams' = streams, group' = group
  PROVE  Through(t)
<1> DEFINE q == stepper[t].todo
           r == [stepper[t] EXCEPT !.pc = IF Len(stepper[t].todo) > 1 THEN "lookup" ELSE "leave",
                                   !.todo = Tail(@), !.object = None,
                                   !.frame = None, !.gen = 0]
<1>1. stepper' = [stepper EXCEPT ![t] = r]
  BY DEF NextStream
<1>2. StepperShape(stepper[t]) /\ q \in Seq(Streams) /\ q # <<>> /\ stepper[t].pc # "idle"
  BY DEF Types, StepperShape, Admitted, AtWork
<1>3. /\ DOMAIN r = DOMAIN stepper[t] /\ r.handle = stepper[t].handle
      /\ r.pc = IF Len(q) > 1 THEN "lookup" ELSE "leave"
      /\ r.todo = Tail(q) /\ r.object = None /\ r.frame = None
  BY <1>2 DEF StepperShape
<1> HIDE DEF r
<1>4. Moves(t, r) /\ r.pc \in {"lookup", "leave"} /\ (r.pc = "lookup" => Len(q) > 1)
  BY <1>1, <1>2, <1>3, TailFacts DEF Moves, StepperShape, None
<1>5. r.pc = "lookup" => r.todo # <<>>
  BY <1>2, <1>3, <1>4, TailFacts
<1>6. \A h \in Handles : r.handle = h => \A i \in DOMAIN r.todo : r.todo[i] \in Members(h)
  <2>1. \A h \in Handles : stepper[t].handle = h => \A i \in DOMAIN q : q[i] \in Members(h)
    BY DEF Admitted
  <2> HIDE DEF q
  <2> QED
    BY <1>2, <1>3, <2>1, TailFacts
<1>7. Admitted'
  BY <1>2, <1>4, <1>5, <1>6, AdmittedMoves
<1>8. /\ stepper' = [u \in Steppers |-> stepper'[u]] /\ stepper'[t] = r
      /\ \A u \in Steppers \ {t} : stepper'[u] = stepper[u]
  BY <1>1 DEF Types
<1> QED
  BY <1>4, <1>7, <1>8 DEF Through, Moves, Types

LEMMA FailStepThrough ==
  ASSUME Types, Admitted, NEW t \in Steppers, stepper[t].pc = "lookup" \/ AtWork(t),
         FailStep(t), streams' = streams, group' = group
  PROVE  Through(t)
<1> DEFINE r == [stepper[t] EXCEPT !.pc = "leave", !.todo = <<>>,
                                   !.object = None, !.frame = None, !.gen = 0]
<1>1. stepper' = [stepper EXCEPT ![t] = r]
  BY DEF FailStep
<1>2. StepperShape(stepper[t]) /\ stepper[t].pc # "idle"
  BY DEF Types, AtWork
<1>3. /\ DOMAIN r = DOMAIN stepper[t] /\ r.handle = stepper[t].handle
      /\ r.pc = "leave" /\ r.todo = <<>> /\ r.object = None /\ r.frame = None
  BY <1>2 DEF StepperShape
<1> HIDE DEF r
<1>4. Moves(t, r)
  BY <1>1, <1>2, <1>3 DEF Moves, StepperShape, None
<1>5. Admitted'
  BY <1>2, <1>3, <1>4, AdmittedMoves
<1>6. /\ stepper' = [u \in Steppers |-> stepper'[u]] /\ stepper'[t] = r
      /\ \A u \in Steppers \ {t} : stepper'[u] = stepper[u]
  BY <1>1 DEF Types
<1> QED
  BY <1>3, <1>4, <1>5, <1>6 DEF Through, Moves, Types

\* A step that is through and leaves the objects as they are.
LEMMA ThroughKeeps ==
  ASSUME ManagedInv, NEW t \in Steppers, Inside(t), Through(t),
         UNCHANGED <<mode, life, access, streams, object, made, group, producer, api>>
  PROVE  ManagedInv'
<1> USE DEF ManagedInv
<1>1. ObjectsStay
  BY DEF ObjectsStay, Types
<1>2. Inside(t)'
  BY DEF Inside, Through
<1>3. Clocked'
  <2>1. \A u \in Steppers : stepper'[u].pc = "encode" => stepper'[u] = stepper[u]
    BY DEF Through
  <2> QED
    BY <2>1, ClockedStep
<1> QED
  BY <1>1, <1>2, <1>3, StepKeeps DEF Through

-----------------------------------------------------------------------------
(* The steps inside a call.                                                *)

\* One object changes, and keeps its owner.
LEMMA OneObjectChanges ==
  ASSUME Types, NEW n \in Objects, NEW r, ObjectShape(r), r.owner = object[n].owner,
         object' = [object EXCEPT ![n] = r]
  PROVE  /\ ObjectsStay /\ object'[n] = r
         /\ \A o \in Objects : object'[o].owner = object[o].owner
         /\ \A o \in Objects \ {n} : object'[o] = object[o]
<1>1. object'[n] = r /\ \A o \in Objects \ {n} : object'[o] = object[o]
  BY DEF Types
<1> QED
  BY <1>1 DEF Types, ObjectsStay

\* A step that changes the thread and, if anything, the object of its stream.
LEMMA MoveKeeps ==
  ASSUME ManagedInv, NEW t \in Steppers, AtWork(t), Inside(t)',
         UNCHANGED <<mode, life, access, streams, made, group, producer, api>>,
         stepper' = [u \in Steppers |-> stepper'[u]],
         \A u \in Steppers : StepperShape(stepper'[u]),
         \A u \in Steppers \ {t} : stepper'[u] = stepper[u],
         NEW r, ObjectShape(r), r.owner = object[stepper[t].object].owner,
         object' = [object EXCEPT ![stepper[t].object] = r],
         Admitted', Clocked'
  PROVE  ManagedInv'
<1>1. /\ stepper[t].object \in Objects /\ AtStream(t) \in Streams
      /\ streams[AtStream(t)] = stepper[t].object
  BY AtWorkFacts DEF ManagedInv
<1>2. /\ ObjectsStay
      /\ \A o \in Objects : object'[o].owner = object[o].owner
      /\ \A o \in Objects \ {stepper[t].object} : object'[o] = object[o]
  BY <1>1, OneObjectChanges DEF ManagedInv
<1>3. Inside(t)
  BY DEF Inside, AtWork
<1>4. \A o \in Objects : object'[o] = object[o] \/ \E s \in Streams : streams[s] = o
  BY <1>1, <1>2
<1> QED
  BY <1>2, <1>3, <1>4, StepKeeps

LEMMA StepLookupKeeps ==
  ASSUME ManagedInv, NEW t \in Steppers, StepLookup(t)
  PROVE  ManagedInv'
<1>1. /\ UNCHANGED <<mode, life, access, streams, object, made, group, producer, api>>
      /\ stepper[t].pc = "lookup" /\ Inside(t)
  BY DEF StepLookup, Inside
<1>2. CASE streams[AtStream(t)] = None
  <2>1. NextStream(t)
    BY <1>2 DEF StepLookup
  <2>2. Through(t)
    BY <1>1, <2>1, NextStreamThrough DEF ManagedInv
  <2> QED
    BY <1>1, <2>2, ThroughKeeps
<1>3. CASE streams[AtStream(t)] # None
  <2> DEFINE n == streams[AtStream(t)]
             r == [stepper[t] EXCEPT !.pc = "take", !.object = n]
  <2>1. stepper' = [stepper EXCEPT ![t] = r]
    BY <1>3 DEF StepLookup
  <2>2. StepperShape(stepper[t]) /\ stepper[t].todo \in Seq(Streams) /\ stepper[t].todo # <<>>
    BY <1>1 DEF ManagedInv, Types, StepperShape, Admitted
  <2>3. n \in Nat
    <3>1. Head(stepper[t].todo) \in Streams
      BY <2>2, TailFacts
    <3> QED
      BY <3>1 DEF ManagedInv, Types, AtStream
  <2>4. AtStream(t) = Head(stepper[t].todo)
    BY DEF AtStream
  <2> HIDE DEF n
  <2>5. /\ StepperShape(r) /\ r.handle = stepper[t].handle /\ r.pc = "take"
        /\ r.todo = stepper[t].todo /\ r.object = n
    BY <2>2, <2>3 DEF StepperShape
  <2> HIDE DEF r
  <2>6. Moves(t, r)
    BY <2>1, <2>5 DEF Moves
  <2>7. r.object = streams[Head(r.todo)]
    BY <2>4, <2>5 DEF n
  <2>8. \A h \in Handles : r.handle = h => \A i \in DOMAIN r.todo : r.todo[i] \in Members(h)
    BY <1>1, <2>5 DEF ManagedInv, Admitted
  <2>9. Admitted'
    BY <1>1, <2>2, <2>5, <2>6, <2>7, <2>8, AdmittedMoves DEF ManagedInv
  <2>10. /\ stepper' = [u \in Steppers |-> stepper'[u]] /\ stepper'[t] = r
         /\ \A u \in Steppers \ {t} : stepper'[u] = stepper[u]
         /\ \A u \in Steppers : StepperShape(stepper'[u])
    BY <2>1, <2>5 DEF ManagedInv, Types
  <2>11. Inside(t)'
    BY <2>5, <2>10 DEF Inside
  <2>12. Clocked'
    <3>1. \A u \in Steppers : stepper'[u].pc = "encode" => stepper'[u] = stepper[u]
      BY <2>5, <2>10
    <3> QED
      BY <1>1, <3>1, ClockedStep DEF ManagedInv
  <2>13. ObjectsStay
    BY <1>1 DEF ObjectsStay, ManagedInv, Types
  <2> QED
    BY <1>1, <2>9, <2>10, <2>11, <2>12, <2>13, StepKeeps
<1> QED
  BY <1>2, <1>3

LEMMA StepTakeKeeps ==
  ASSUME ManagedInv, NEW t \in Steppers, StepTake(t)
  PROVE  ManagedInv'
<1> DEFINE n == stepper[t].object
           f == object[n].pending
           g == core[AtStream(t)].gen
           d == IF core[AtStream(t)].interval > 0
                THEN object[n].pending + core[AtStream(t)].interval ELSE 0
           q == [object[n] EXCEPT !.pending = None, !.due = d]
           r == [stepper[t] EXCEPT !.pc = "encode", !.gen = g, !.frame = f]
<1>1. /\ UNCHANGED <<mode, life, access, streams, made, group, producer, api>>
      /\ stepper[t].pc = "take" /\ Inside(t) /\ AtWork(t)
  BY DEF StepTake, Inside, AtWork
<1>2. CASE object' = object /\ (NextStream(t) \/ FailStep(t))
  <2>1. Through(t)
    BY <1>1, <1>2, NextStreamThrough, FailStepThrough DEF ManagedInv
  <2> QED
    BY <1>1, <1>2, <2>1, ThroughKeeps
<1>3. CASE /\ f # None
           /\ object' = [object EXCEPT ![n] = q]
           /\ stepper' = [stepper EXCEPT ![t] = r]
  <2>1. /\ AtStream(t) \in Streams /\ n = streams[AtStream(t)] /\ n \in Objects
        /\ stepper[t].handle \in Handles
    BY <1>1, AtWorkFacts DEF ManagedInv
  <2>2. ObjectShape(object[n]) /\ StepperShape(stepper[t]) /\ f \in Nat
    BY <2>1 DEF ManagedInv, Types, ObjectShape
  <2> HIDE DEF d, f, g
  <2>3. /\ ObjectShape(q) /\ q.owner = object[n].owner /\ q.pending = None
        /\ q.encoded = object[n].encoded
    BY <2>2 DEF ObjectShape, None
  <2>4. /\ StepperShape(r) /\ r.handle = stepper[t].handle /\ r.pc = "encode"
        /\ r.todo = stepper[t].todo /\ r.object = n /\ r.frame = f
    BY <2>2 DEF StepperShape
  <2> HIDE DEF q, r
  <2>5. /\ object'[n] = q /\ \A o \in Objects \ {n} : object'[o] = object[o]
    BY <1>3, <2>1, <2>3, OneObjectChanges DEF ManagedInv
  <2>6. /\ stepper' = [u \in Steppers |-> stepper'[u]] /\ stepper'[t] = r
        /\ \A u \in Steppers \ {t} : stepper'[u] = stepper[u]
        /\ \A u \in Steppers : StepperShape(stepper'[u])
    BY <1>3, <2>4 DEF ManagedInv, Types
  <2>7. Admitted'
    <3>1. Moves(t, r)
      BY <1>3, <2>4 DEF Moves
    <3>2. r.todo # <<>>
      BY <1>1, <2>4 DEF ManagedInv, Admitted
    <3>3. r.object = streams[Head(r.todo)]
      BY <2>1, <2>4 DEF AtStream
    <3>4. \A h \in Handles : r.handle = h => \A i \in DOMAIN r.todo : r.todo[i] \in Members(h)
      BY <1>1, <2>4 DEF ManagedInv, Admitted
    <3> QED
      BY <1>1, <2>4, <3>1, <3>2, <3>3, <3>4, AdmittedMoves DEF ManagedInv
  <2>8. Clocked'
    <3>1. object[n].encoded < f /\ f <= producer[AtStream(t)].clock
          /\ (producer[AtStream(t)].pc = "latch" => f < producer[AtStream(t)].clock)
      BY <1>3, <2>1 DEF ManagedInv, Clocked, f, None, Objects
    <3>2. /\ \A u \in Steppers \ {t} : AtStream(u)' = AtStream(u)
          /\ AtStream(t)' = AtStream(t)
      BY <2>4, <2>6 DEF AtStream
    <3>3. ASSUME NEW u \in Steppers, stepper'[u].pc = "encode"
          PROVE  LET p == producer[AtStream(u)']
                     x == object'[stepper'[u].object]
                     e == stepper'[u].frame
                 IN  /\ x.encoded < e /\ e <= p.clock
                     /\ p.pc = "latch" => e < p.clock
                     /\ x.pending # None => e < x.pending
      <4>1. CASE u = t
        BY <2>3, <2>4, <2>5, <2>6, <3>1, <3>2, <4>1
      <4>2. CASE u # t
        <5>1. stepper'[u] = stepper[u] /\ stepper[u].pc = "encode" /\ AtWork(u)
          BY <2>6, <3>3, <4>2 DEF AtWork
        <5>2. stepper[u].object \in Objects /\ stepper[u].object # n
          BY <1>1, <4>2, <5>1, AtWorkFacts, OneThreadPerObject DEF ManagedInv
        <5>3. object'[stepper[u].object] = object[stepper[u].object]
          BY <2>5, <5>2
        <5> QED
          BY <3>2, <4>2, <5>1, <5>3 DEF ManagedInv, Clocked
      <4> QED
        BY <4>1, <4>2
    <3>4. ASSUME NEW s \in Streams
          PROVE  LET p == producer[s]
                     x == object'[streams[s]]
                 IN  /\ p.pc = "latch" => p.clock > 0
                     /\ streams[s] # None =>
                          /\ x.pending <= p.clock /\ x.encoded <= p.clock
                          /\ p.pc = "latch" => x.pending < p.clock /\ x.encoded < p.clock
                          /\ x.pending # None => x.encoded < x.pending
      <4>1. producer[s].clock \in Nat
        BY DEF ManagedInv, Types, ProducerType
      <4>2. CASE streams[s] = n
        BY <2>3, <2>5, <4>1, <4>2 DEF ManagedInv, Clocked, None
      <4>3. CASE streams[s] # n
        <5>1. streams[s] # None => object'[streams[s]] = object[streams[s]]
          BY <2>5, <4>3 DEF ManagedInv, Types, Objects, None
        <5> QED
          BY <5>1 DEF ManagedInv, Clocked
      <4> QED
        BY <4>2, <4>3
    <3> QED
      BY <1>1, <3>3, <3>4 DEF Clocked
  <2>9. Inside(t)'
    BY <2>4, <2>6 DEF Inside
  <2> QED
    BY <1>1, <1>3, <2>3, <2>6, <2>7, <2>8, <2>9, MoveKeeps
<1>4. \/ object' = object /\ (NextStream(t) \/ FailStep(t))
      \/ f # None /\ object' = [object EXCEPT ![n] = q] /\ stepper' = [stepper EXCEPT ![t] = r]
  BY DEF StepTake
<1> QED
  BY <1>2, <1>3, <1>4

LEMMA StepTransformFailsKeeps ==
  ASSUME ManagedInv, NEW t \in Steppers, StepTransformFails(t)
  PROVE  ManagedInv'
<1>1. /\ UNCHANGED <<mode, life, access, streams, object, made, group, producer, api>>
      /\ Inside(t) /\ AtWork(t) /\ NextStream(t)
  BY DEF StepTransformFails, Inside, AtWork
<1>2. Through(t)
  BY <1>1, NextStreamThrough DEF ManagedInv
<1> QED
  BY <1>1, <1>2, ThroughKeeps

LEMMA StepPublishKeeps ==
  ASSUME ManagedInv, NEW t \in Steppers, StepPublish(t)
  PROVE  ManagedInv'
<1>1. /\ UNCHANGED <<mode, life, access, streams, object, made, group, producer, api>>
      /\ Inside(t) /\ AtWork(t) /\ (NextStream(t) \/ FailStep(t))
  BY DEF StepPublish, Inside, AtWork
<1>2. Through(t)
  BY <1>1, NextStreamThrough, FailStepThrough DEF ManagedInv
<1> QED
  BY <1>1, <1>2, ThroughKeeps

\* A step that fails on the encoder leaves the frames of the stream alone.
LEMMA FailsKeeps ==
  ASSUME ManagedInv, NEW t \in Steppers, AtWork(t), FailStep(t),
         UNCHANGED <<mode, life, access, streams, made, group, producer, api>>,
         NEW r, ObjectShape(r), object' = [object EXCEPT ![stepper[t].object] = r],
         r.owner = object[stepper[t].object].owner,
         r.pending = object[stepper[t].object].pending,
         r.encoded = object[stepper[t].object].encoded
  PROVE  ManagedInv'
<1>1. Through(t)
  BY FailStepThrough DEF ManagedInv
<1>2. /\ stepper[t].object \in Objects /\ Inside(t)'
  BY <1>1, AtWorkFacts DEF ManagedInv, Through, Inside
<1>3. \A o \in Objects : /\ object'[o].pending = object[o].pending
                         /\ object'[o].encoded = object[o].encoded
  BY <1>2, OneObjectChanges DEF ManagedInv
<1>4. \A u \in Steppers : stepper'[u].pc = "encode" => stepper'[u] = stepper[u]
  BY <1>1 DEF Through
<1>5. Clocked'
  BY <1>3, <1>4, ClockedStep DEF ManagedInv
<1> QED
  BY <1>1, <1>2, <1>5, MoveKeeps DEF Through

LEMMA StepPipelineFailsKeeps ==
  ASSUME ManagedInv, NEW t \in Steppers, StepPipelineFails(t)
  PROVE  ManagedInv'
<1> DEFINE r == StopPipeline(object[stepper[t].object])
<1>1. /\ UNCHANGED <<mode, life, access, streams, made, group, producer, api>>
      /\ AtWork(t) /\ FailStep(t)
  BY DEF StepPipelineFails, AtWork
<1>2. object' = [object EXCEPT ![stepper[t].object] = r]
  BY DEF StepPipelineFails
<1>3. ObjectShape(object[stepper[t].object])
  BY <1>1, AtWorkFacts DEF ManagedInv, Types
<1>4. /\ ObjectShape(r) /\ r.owner = object[stepper[t].object].owner
      /\ r.pending = object[stepper[t].object].pending
      /\ r.encoded = object[stepper[t].object].encoded
  BY <1>3, StopPipelineShape
<1> HIDE DEF r
<1> QED
  BY <1>1, <1>2, <1>4, FailsKeeps

LEMMA StepEncodeFailsKeeps ==
  ASSUME ManagedInv, NEW t \in Steppers, StepEncodeFails(t)
  PROVE  ManagedInv'
<1> DEFINE e == EnsurePipeline(object[stepper[t].object], stepper[t].gen)
           r == [e EXCEPT !.pipeline.state = "failed", !.pipeline.held = <<>>]
<1>1. /\ UNCHANGED <<mode, life, access, streams, made, group, producer, api>>
      /\ AtWork(t) /\ FailStep(t)
  BY DEF StepEncodeFails, AtWork
<1>2. object' = [object EXCEPT ![stepper[t].object] = r]
  BY DEF StepEncodeFails
<1>3. ObjectShape(object[stepper[t].object])
  BY <1>1, AtWorkFacts DEF ManagedInv, Types
<1>4. /\ ObjectShape(e) /\ e.owner = object[stepper[t].object].owner
      /\ e.pending = object[stepper[t].object].pending
      /\ e.encoded = object[stepper[t].object].encoded
  BY <1>3, EnsurePipelineShape
<1> HIDE DEF e
<1>5. /\ ObjectShape(r) /\ r.owner = e.owner /\ r.pending = e.pending
      /\ r.encoded = e.encoded
  BY <1>4 DEF ObjectShape, PipelineShape
<1> HIDE DEF r
<1> QED
  BY <1>1, <1>2, <1>4, <1>5, FailsKeeps

\* What is encoded is newer than what has been, and older than what is waiting.
LEMMA StepEncodeFacts ==
  ASSUME ManagedInv, NEW t \in Steppers, NEW keep, NEW kind, StepEncode(t, keep, kind)
  PROVE  LET n == stepper[t].object IN
         /\ AtWork(t) /\ stepper[t].pc = "encode" /\ n \in Objects
         /\ ObjectsStay
         /\ \A o \in Objects : object'[o].owner = object[o].owner
         /\ \A o \in Objects \ {n} : object'[o] = object[o]
         /\ object'[n].pending = object[n].pending
         /\ object'[n].encoded = stepper[t].frame
         /\ object[n].encoded < stepper[t].frame
         /\ \E r : /\ ObjectShape(r) /\ r.owner = object[n].owner
                   /\ object' = [object EXCEPT ![n] = r]
<1> DEFINE n == stepper[t].object
           e == EnsurePipeline(object[n], stepper[t].gen)
           r == Encode(e, stepper[t].frame, keep, kind)
<1>1. /\ AtWork(t) /\ stepper[t].pc = "encode"
      /\ object' = [object EXCEPT ![n] = r]
  BY DEF StepEncode, AtWork
<1>2. n \in Objects /\ ObjectShape(object[n]) /\ stepper[t].frame \in Nat
  BY <1>1, AtWorkFacts DEF ManagedInv, Types, StepperShape
<1>3. /\ ObjectShape(e) /\ e.owner = object[n].owner /\ e.pending = object[n].pending
  BY <1>2, EnsurePipelineShape
<1> HIDE DEF e
<1>4. /\ ObjectShape(r) /\ r.owner = e.owner /\ r.pending = e.pending
      /\ r.encoded = stepper[t].frame
  BY <1>2, <1>3, EncodeShape
<1> HIDE DEF r
<1>5. /\ ObjectsStay /\ object'[n] = r
      /\ \A o \in Objects : object'[o].owner = object[o].owner
      /\ \A o \in Objects \ {n} : object'[o] = object[o]
  BY <1>1, <1>2, <1>3, <1>4, OneObjectChanges DEF ManagedInv
<1>6. object[n].encoded < stepper[t].frame
  BY <1>1 DEF ManagedInv, Clocked
<1> QED
  BY <1>1, <1>2, <1>3, <1>4, <1>5, <1>6

LEMMA StepEncodeKeeps ==
  ASSUME ManagedInv, NEW t \in Steppers, NEW keep, NEW kind, StepEncode(t, keep, kind)
  PROVE  ManagedInv'
<1> DEFINE n == stepper[t].object
           f == stepper[t].frame
           r == [stepper[t] EXCEPT !.pc = "publish"]
<1>1. /\ UNCHANGED <<mode, life, access, streams, made, group, producer, api>>
      /\ stepper' = [stepper EXCEPT ![t] = r]
  BY DEF StepEncode
<1>2. /\ AtWork(t) /\ stepper[t].pc = "encode" /\ n \in Objects
      /\ \A o \in Objects \ {n} : object'[o] = object[o]
      /\ object'[n].pending = object[n].pending
      /\ object'[n].encoded = f /\ object[n].encoded < f
  BY StepEncodeFacts
<1>3. PICK y : /\ ObjectShape(y) /\ y.owner = object[n].owner
               /\ object' = [object EXCEPT ![n] = y]
  BY StepEncodeFacts
<1>4. /\ StepperShape(stepper[t]) /\ f \in Nat /\ ObjectShape(object[n])
      /\ AtStream(t) \in Streams /\ n = streams[AtStream(t)]
  BY <1>2, AtWorkFacts DEF ManagedInv, Types, StepperShape
<1>5. /\ StepperShape(r) /\ r.handle = stepper[t].handle /\ r.pc = "publish"
      /\ r.todo = stepper[t].todo /\ r.object = n
  BY <1>4 DEF StepperShape
<1> HIDE DEF r
<1>6. /\ stepper' = [u \in Steppers |-> stepper'[u]] /\ stepper'[t] = r
      /\ \A u \in Steppers \ {t} : stepper'[u] = stepper[u]
      /\ \A u \in Steppers : StepperShape(stepper'[u])
  BY <1>1, <1>5 DEF ManagedInv, Types
<1>7. Admitted'
  <2>1. Moves(t, r)
    BY <1>1, <1>5 DEF Moves
  <2>2. r.todo # <<>>
    BY <1>2, <1>5 DEF ManagedInv, Admitted
  <2>3. r.object = streams[Head(r.todo)]
    BY <1>4, <1>5 DEF AtStream
  <2>4. \A h \in Handles : r.handle = h => \A i \in DOMAIN r.todo : r.todo[i] \in Members(h)
    BY <1>2, <1>5 DEF ManagedInv, Admitted
  <2> QED
    BY <1>1, <1>2, <1>5, <2>1, <2>2, <2>3, <2>4, AdmittedMoves DEF ManagedInv
<1>8. Clocked'
  <2>1. /\ f <= producer[AtStream(t)].clock
        /\ producer[AtStream(t)].pc = "latch" => f < producer[AtStream(t)].clock
        /\ object[n].pending # None => f < object[n].pending
    BY <1>2 DEF ManagedInv, Clocked
  <2>2. ASSUME NEW u \in Steppers, stepper'[u].pc = "encode"
        PROVE  LET p == producer[AtStream(u)']
                   x == object'[stepper'[u].object]
                   e == stepper'[u].frame
               IN  /\ x.encoded < e /\ e <= p.clock
                   /\ p.pc = "latch" => e < p.clock
                   /\ x.pending # None => e < x.pending
    <3>1. u # t
      BY <1>5, <1>6, <2>2
    <3>2. stepper'[u] = stepper[u] /\ stepper[u].pc = "encode" /\ AtWork(u)
      BY <1>6, <2>2, <3>1 DEF AtWork
    <3>3. stepper[u].object \in Objects /\ stepper[u].object # n
      BY <1>2, <3>1, <3>2, AtWorkFacts, OneThreadPerObject DEF ManagedInv
    <3>4. object'[stepper[u].object] = object[stepper[u].object]
      BY <1>2, <3>3
    <3>5. AtStream(u)' = AtStream(u)
      BY <3>2 DEF AtStream
    <3> QED
      BY <3>2, <3>4, <3>5 DEF ManagedInv, Clocked
  <2>3. ASSUME NEW s \in Streams
        PROVE  LET p == producer[s]
                   x == object'[streams[s]]
               IN  /\ p.pc = "latch" => p.clock > 0
                   /\ streams[s] # None =>
                        /\ x.pending <= p.clock /\ x.encoded <= p.clock
                        /\ p.pc = "latch" => x.pending < p.clock /\ x.encoded < p.clock
                        /\ x.pending # None => x.encoded < x.pending
    <3>1. CASE streams[s] = n
      <4>1. s = AtStream(t)
        BY <1>2, <1>4, <3>1 DEF ManagedInv, Numbered, Objects, None
      <4> QED
        BY <1>2, <1>4, <2>1, <3>1, <4>1 DEF ManagedInv, Clocked
    <3>2. CASE streams[s] # n
      <4>1. streams[s] # None => object'[streams[s]] = object[streams[s]]
        BY <1>2, <3>2 DEF ManagedInv, Types, Objects, None
      <4> QED
        BY <4>1 DEF ManagedInv, Clocked
    <3> QED
      BY <3>1, <3>2
  <2> QED
    BY <1>1, <2>2, <2>3 DEF Clocked
<1>9. Inside(t)'
  BY <1>5, <1>6 DEF Inside
<1> HIDE DEF n, f
<1> QED
  BY <1>1, <1>2, <1>3, <1>6, <1>7, <1>8, <1>9, MoveKeeps DEF n

-----------------------------------------------------------------------------
(* Into a call and out of it.                                              *)

\* What a thread keeps that only enters or leaves.
LEMMA GateKeeps ==
  ASSUME ManagedInv, UNCHANGED <<mode, life, streams, object, made, producer, api>>,
         access' \in AccessType, access'.shuttingDown = access.shuttingDown,
         group' \in [Handles -> GroupType],
         \A h \in Handles : group'[h].id = group[h].id /\ group'[h].streams = group[h].streams,
         stepper' = [u \in Steppers |-> stepper'[u]],
         \A u \in Steppers : StepperShape(stepper'[u]),
         \A u \in Steppers : stepper'[u].pc = "encode" => stepper'[u] = stepper[u],
         Admitted', Phased'
  PROVE  ManagedInv'
<1> USE DEF ManagedInv
<1>1. Types'
  BY DEF Types
<1>2. Numbered'
  BY NumberedKeeps
<1>3. Grouped' /\ OwnedByHandle'
  BY GroupedKeeps, OwnedKeeps
<1>4. ThreadsEnd'
  BY ThreadsKeep
<1>5. NoOrphanedPipeline'
  BY PipelinesKeep
<1>6. NothingLeft'
  BY DEF NothingLeft
<1>7. Clocked'
  BY ClockedStep
<1> QED
  BY <1>1, <1>2, <1>3, <1>4, <1>5, <1>6, <1>7

LEMMA IdleStepperShape ==
  /\ StepperShape(IdleStepper) /\ IdleStepper.pc = "idle"
  /\ \A h : LET r == [IdleStepper EXCEPT !.pc = "enter", !.handle = h]
            IN  StepperShape(r) /\ r.pc = "enter" /\ r.handle = h
BY DEF StepperShape, IdleStepper, None

\* Entering and leaving change a group's flag and nothing else of it.
LEMMA FlagChanges ==
  ASSUME Types, NEW h \in Handles, NEW b \in BOOLEAN, group' = [group EXCEPT ![h].stepping = b]
  PROVE  /\ group' \in [Handles -> GroupType] /\ group'[h].stepping = b
         /\ \A g \in Handles : group'[g].id = group[g].id /\ group'[g].streams = group[g].streams
         /\ \A g \in Handles \ {h} : group'[g] = group[g]
<1>1. ASSUME NEW g \in Handles
      PROVE  /\ group'[g] \in GroupType
             /\ group'[g].id = group[g].id /\ group'[g].streams = group[g].streams
             /\ g = h => group'[g].stepping = b
             /\ g # h => group'[g] = group[g]
  <2>1. group[g] \in GroupType
    BY DEF Types
  <2>2. CASE g = h
    <3>1. group'[g] = [group[g] EXCEPT !.stepping = b]
      BY <2>2 DEF Types
    <3> QED
      BY <2>1, <2>2, <3>1 DEF GroupType
  <2>3. CASE g # h
    <3>1. group'[g] = group[g]
      BY <2>3 DEF Types
    <3> QED
      BY <2>1, <2>3, <3>1
  <2> QED
    BY <2>2, <2>3
<1> QED
  BY <1>1 DEF Types

LEMMA StepBeginKeeps ==
  ASSUME ManagedInv, NEW t \in Steppers, NEW h \in Handles, StepBegin(t, h)
  PROVE  ManagedInv'
<1> DEFINE r == [IdleStepper EXCEPT !.pc = "enter", !.handle = h]
<1>1. /\ UNCHANGED <<mode, life, access, streams, object, made, producer, api>>
      /\ stepper[t].pc = "idle" /\ group[h].id # 0 /\ ~group[h].stepping
      /\ group' = [group EXCEPT ![h].stepping = TRUE]
      /\ stepper' = [stepper EXCEPT ![t] = r]
  BY DEF StepBegin, StepAdmitted
<1>2. StepperShape(r) /\ r.pc = "enter" /\ r.handle = h
  BY IdleStepperShape
<1> HIDE DEF r
<1>3. /\ group' \in [Handles -> GroupType] /\ group'[h].stepping
      /\ \A g \in Handles : group'[g].id = group[g].id /\ group'[g].streams = group[g].streams
      /\ \A g \in Handles \ {h} : group'[g] = group[g]
  BY <1>1, FlagChanges DEF ManagedInv
<1>4. /\ stepper' = [u \in Steppers |-> stepper'[u]] /\ stepper'[t] = r
      /\ \A u \in Steppers \ {t} : stepper'[u] = stepper[u]
      /\ \A u \in Steppers : StepperShape(stepper'[u])
  BY <1>1, <1>2 DEF ManagedInv, Types
<1>5. Admitted'
  <2>1. \A u \in Steppers : stepper[u].pc # "idle" => stepper[u].handle # h
    BY <1>1 DEF ManagedInv, Admitted
  <2>2. \A g \in Handles : Members(g)' = Members(g)
    BY <1>3 DEF Members
  <2>3. \A u \in Steppers : stepper'[u].pc # "idle" =>
          /\ stepper'[u].handle \in Handles
          /\ group'[stepper'[u].handle].id # 0 /\ group'[stepper'[u].handle].stepping
    BY <1>1, <1>2, <1>3, <1>4, <2>1 DEF ManagedInv, Admitted
  <2>4. \A u, v \in Steppers :
          stepper'[u].pc # "idle" /\ stepper'[v].pc # "idle" /\ stepper'[u].handle = stepper'[v].handle
            => u = v
    BY <1>2, <1>4, <2>1 DEF ManagedInv, Admitted
  <2>5. \A u \in Steppers :
          stepper'[u].pc = "lookup" \/ AtWork(u)' =>
            /\ stepper'[u] = stepper[u] /\ (stepper[u].pc = "lookup" \/ AtWork(u))
            /\ AtStream(u)' = AtStream(u)
    BY <1>2, <1>4 DEF AtWork, AtStream
  <2>6. \A u \in Steppers : stepper'[u].pc = "lookup" \/ AtWork(u)' => stepper'[u].todo # <<>>
    BY <2>5 DEF ManagedInv, Admitted
  <2>7. \A u \in Steppers, g \in Handles :
          (stepper'[u].pc = "lookup" \/ AtWork(u)') /\ stepper'[u].handle = g =>
            \A i \in DOMAIN stepper'[u].todo : stepper'[u].todo[i] \in Members(g)
    BY <2>5 DEF ManagedInv, Admitted
  <2>8. \A u \in Steppers : AtWork(u)' => stepper'[u].object = streams[AtStream(u)']
    <3>1. \A u \in Steppers : AtWork(u)' => AtWork(u)
      BY <1>2, <1>4 DEF AtWork
    <3> QED
      BY <2>5, <3>1 DEF ManagedInv, Admitted
  <2> QED
    BY <1>1, <2>2, <2>3, <2>4, <2>6, <2>7, <2>8 DEF Admitted
<1>6. Phased'
  <2>1. \A u \in Steppers : Inside(u)' = Inside(u)
    BY <1>1, <1>2, <1>4 DEF Inside
  <2> QED
    BY <1>1, <2>1, PhasedKeeps DEF ManagedInv
<1>7. \A u \in Steppers : stepper'[u].pc = "encode" => stepper'[u] = stepper[u]
  BY <1>2, <1>4
<1>8. access' \in AccessType
  BY <1>1 DEF ManagedInv, Types
<1> QED
  BY <1>1, <1>3, <1>4, <1>5, <1>6, <1>7, <1>8, GateKeeps

\* A thread that has left its handle to others.
LEMMA AdmittedLeaves ==
  ASSUME Types, Admitted, NEW t \in Steppers, stepper[t].pc # "idle", streams' = streams,
         stepper' = [stepper EXCEPT ![t] = IdleStepper],
         group' = [group EXCEPT ![stepper[t].handle].stepping = FALSE]
  PROVE  Admitted'
<1> DEFINE h == stepper[t].handle
<1>1. h \in Handles
  BY DEF Admitted
<1>2. /\ \A g \in Handles : group'[g].id = group[g].id /\ group'[g].streams = group[g].streams
      /\ \A g \in Handles \ {h} : group'[g] = group[g]
  BY <1>1, FlagChanges
<1>3. /\ stepper'[t].pc = "idle"
      /\ \A u \in Steppers \ {t} : stepper'[u] = stepper[u]
  BY IdleStepperShape DEF Types
<1>4. \A u \in Steppers \ {t} : stepper[u].pc # "idle" => stepper[u].handle # h
  BY DEF Admitted
<1>5. \A g \in Handles : Members(g)' = Members(g)
  BY <1>2 DEF Members
<1>6. \A u \in Steppers : stepper'[u].pc # "idle" =>
        /\ stepper'[u].handle \in Handles
        /\ group'[stepper'[u].handle].id # 0 /\ group'[stepper'[u].handle].stepping
  BY <1>2, <1>3, <1>4 DEF Admitted
<1>7. \A u, v \in Steppers :
        stepper'[u].pc # "idle" /\ stepper'[v].pc # "idle" /\ stepper'[u].handle = stepper'[v].handle
          => u = v
  BY <1>3 DEF Admitted
<1>8. \A u \in Steppers :
        stepper'[u].pc = "lookup" \/ AtWork(u)' =>
          /\ stepper'[u] = stepper[u] /\ (stepper[u].pc = "lookup" \/ AtWork(u))
          /\ AtStream(u)' = AtStream(u)
  BY <1>3 DEF AtWork, AtStream
<1>9. \A u \in Steppers : stepper'[u].pc = "lookup" \/ AtWork(u)' => stepper'[u].todo # <<>>
  BY <1>8 DEF Admitted
<1>10. \A u \in Steppers, g \in Handles :
        (stepper'[u].pc = "lookup" \/ AtWork(u)') /\ stepper'[u].handle = g =>
          \A i \in DOMAIN stepper'[u].todo : stepper'[u].todo[i] \in Members(g)
  BY <1>8 DEF Admitted
<1>11. \A u \in Steppers : AtWork(u)' => stepper'[u].object = streams[AtStream(u)']
  <2>1. \A u \in Steppers : AtWork(u)' => AtWork(u)
    BY <1>3 DEF AtWork
  <2> QED
    BY <1>8, <2>1 DEF Admitted
<1> QED
  BY <1>5, <1>6, <1>7, <1>9, <1>10, <1>11 DEF Admitted

\* The count follows the calls inside.
LEMMA CallsCounted ==
  ASSUME NEW t \in Steppers, \A u \in Steppers \ {t} : Inside(u)' = Inside(u)
  PROVE  /\ Cardinality({u \in Steppers : Inside(u)}) \in Nat
         /\ ~Inside(t) /\ Inside(t)' =>
              Cardinality({u \in Steppers : Inside(u)'}) =
                Cardinality({u \in Steppers : Inside(u)}) + 1
         /\ Inside(t) /\ ~Inside(t)' =>
              /\ Cardinality({u \in Steppers : Inside(u)}) > 0
              /\ Cardinality({u \in Steppers : Inside(u)'}) =
                   Cardinality({u \in Steppers : Inside(u)}) - 1
<1> DEFINE S == {u \in Steppers : Inside(u)}
           T == {u \in Steppers : Inside(u)'}
<1>1. IsFiniteSet(S) /\ IsFiniteSet(T)
  BY ManagedAssumption, FS_Subset DEF ManagedAssumption
<1>2. Cardinality(S) \in Nat /\ Cardinality(T) \in Nat
  BY <1>1, FS_CardinalityType
<1>3. ~Inside(t) /\ Inside(t)' => T = S \cup {t} /\ t \notin S
  OBVIOUS
<1>4. Inside(t) /\ ~Inside(t)' => S = T \cup {t} /\ t \notin T
  OBVIOUS
<1> HIDE DEF S, T
<1>5. ~Inside(t) /\ Inside(t)' => Cardinality(T) = Cardinality(S) + 1
  BY <1>1, <1>3, FS_AddElement
<1>6. Inside(t) /\ ~Inside(t)' => Cardinality(S) = Cardinality(T) + 1
  BY <1>1, <1>4, FS_AddElement
<1> QED
  BY <1>2, <1>5, <1>6 DEF S, T

LEMMA StepEnterKeeps ==
  ASSUME ManagedInv, NEW t \in Steppers, StepEnter(t)
  PROVE  ManagedInv'
<1>1. /\ UNCHANGED <<mode, life, streams, object, made, producer, api>>
      /\ stepper[t].pc = "enter" /\ ~Inside(t)
      /\ stepper[t].handle \in Handles /\ group[stepper[t].handle].id # 0
  BY DEF StepEnter, Inside, ManagedInv, Admitted
<1>2. CASE access.owner /\ ~access.shuttingDown
  <2> DEFINE h == stepper[t].handle
             q == group[h].streams
             n == access.activeCalls
             r == [stepper[t] EXCEPT !.pc = "lookup", !.todo = q]
  <2>1. /\ access' = [access EXCEPT !.activeCalls = @ + 1]
        /\ stepper' = [stepper EXCEPT ![t] = r] /\ group' = group
    BY <1>2 DEF StepEnter
  <2>2. /\ StepperShape(stepper[t]) /\ q \in Seq(Streams) /\ q # <<>>
        /\ \A i \in DOMAIN q : q[i] \in Members(h)
    BY <1>1 DEF ManagedInv, Types, GroupType, Grouped, Members
  <2> HIDE DEF q
  <2>3. /\ StepperShape(r) /\ r.handle = h /\ r.pc = "lookup" /\ r.todo = q
    BY <2>2 DEF StepperShape
  <2> HIDE DEF r
  <2>4. /\ stepper' = [u \in Steppers |-> stepper'[u]] /\ stepper'[t] = r
        /\ \A u \in Steppers \ {t} : stepper'[u] = stepper[u]
        /\ \A u \in Steppers : StepperShape(stepper'[u])
    BY <2>1, <2>3 DEF ManagedInv, Types
  <2>5. Admitted'
    <3>1. Moves(t, r)
      BY <2>1, <2>3 DEF Moves
    <3> QED
      BY <1>1, <2>1, <2>2, <2>3, <3>1, AdmittedMoves DEF ManagedInv
  <2>6. /\ access' \in AccessType /\ access'.activeCalls = n + 1
        /\ access'.shuttingDown = access.shuttingDown /\ access'.owner = access.owner
    <3>1. access \in AccessType
      BY DEF ManagedInv, Types
    <3> QED
      BY <2>1, <3>1 DEF AccessType
  <2>7. Phased'
    <3>1. Inside(t)' /\ \A u \in Steppers \ {t} : Inside(u)' = Inside(u)
      BY <2>3, <2>4 DEF Inside
    <3>2. n = Cardinality({u \in Steppers : Inside(u)})
      BY DEF ManagedInv, Phased
    <3>3. n + 1 = Cardinality({u \in Steppers : Inside(u)'})
      BY <1>1, <3>1, <3>2, CallsCounted
    <3>4. life.phase \notin {"lastStop", "destroyed"}
      BY <1>2 DEF ManagedInv, Phased
    <3>5. /\ access.shuttingDown <=> life.phase \in Gone
          /\ access.owner <=> life.phase \notin {"lastStop", "destroyed"}
      BY DEF ManagedInv, Phased
    <3> HIDE DEF n
    <3> QED
      BY <1>1, <2>6, <3>3, <3>4, <3>5 DEF Phased
  <2>8. \A u \in Steppers : stepper'[u].pc = "encode" => stepper'[u] = stepper[u]
    BY <2>3, <2>4
  <2>9. group' \in [Handles -> GroupType]
    BY <2>1 DEF ManagedInv, Types
  <2> QED
    BY <1>1, <2>1, <2>4, <2>5, <2>6, <2>7, <2>8, <2>9, GateKeeps
<1>3. CASE ~(access.owner /\ ~access.shuttingDown)
  <2>1. /\ access' = access /\ stepper' = [stepper EXCEPT ![t] = IdleStepper]
        /\ group' = [group EXCEPT ![stepper[t].handle].stepping = FALSE]
    BY <1>3 DEF StepEnter
  <2>2. /\ group' \in [Handles -> GroupType]
        /\ \A g \in Handles : group'[g].id = group[g].id /\ group'[g].streams = group[g].streams
    BY <1>1, <2>1, FlagChanges DEF ManagedInv
  <2>3. /\ stepper' = [u \in Steppers |-> stepper'[u]] /\ stepper'[t] = IdleStepper
        /\ \A u \in Steppers \ {t} : stepper'[u] = stepper[u]
        /\ \A u \in Steppers : StepperShape(stepper'[u])
    BY <2>1, IdleStepperShape DEF ManagedInv, Types
  <2>4. Admitted'
    BY <1>1, <2>1, AdmittedLeaves DEF ManagedInv
  <2>5. Phased'
    <3>1. \A u \in Steppers : Inside(u)' = Inside(u)
      BY <1>1, <2>3, IdleStepperShape DEF Inside
    <3> QED
      BY <1>1, <2>1, <3>1, PhasedKeeps DEF ManagedInv
  <2>6. \A u \in Steppers : stepper'[u].pc = "encode" => stepper'[u] = stepper[u]
    BY <2>3, IdleStepperShape
  <2>7. access' \in AccessType
    BY <2>1 DEF ManagedInv, Types
  <2> QED
    BY <1>1, <2>1, <2>2, <2>3, <2>4, <2>5, <2>6, <2>7, GateKeeps
<1> QED
  BY <1>2, <1>3

LEMMA StepLeaveKeeps ==
  ASSUME ManagedInv, NEW t \in Steppers, StepLeave(t)
  PROVE  ManagedInv'
<1> DEFINE n == access.activeCalls
<1>1. /\ UNCHANGED <<mode, life, streams, object, made, producer, api>>
      /\ stepper[t].pc = "leave" /\ Inside(t)
      /\ access' = [access EXCEPT !.activeCalls = @ - 1]
      /\ stepper' = [stepper EXCEPT ![t] = IdleStepper]
      /\ group' = [group EXCEPT ![stepper[t].handle].stepping = FALSE]
  BY DEF StepLeave, Inside
<1>2. stepper[t].handle \in Handles
  BY <1>1 DEF ManagedInv, Admitted
<1>3. /\ group' \in [Handles -> GroupType]
      /\ \A g \in Handles : group'[g].id = group[g].id /\ group'[g].streams = group[g].streams
  BY <1>1, <1>2, FlagChanges DEF ManagedInv
<1>4. /\ stepper' = [u \in Steppers |-> stepper'[u]] /\ stepper'[t] = IdleStepper
      /\ \A u \in Steppers \ {t} : stepper'[u] = stepper[u]
      /\ \A u \in Steppers : StepperShape(stepper'[u])
  BY <1>1, IdleStepperShape DEF ManagedInv, Types
<1>5. Admitted'
  BY <1>1, AdmittedLeaves DEF ManagedInv
<1>6. /\ ~Inside(t)' /\ \A u \in Steppers \ {t} : Inside(u)' = Inside(u)
  BY <1>4, IdleStepperShape DEF Inside
<1>7. n = Cardinality({u \in Steppers : Inside(u)})
  BY DEF ManagedInv, Phased
<1>8. n > 0 /\ n \in Nat /\ n - 1 = Cardinality({u \in Steppers : Inside(u)'})
  BY <1>1, <1>6, <1>7, CallsCounted
<1>9. /\ access' \in AccessType /\ access'.activeCalls = n - 1
      /\ access'.shuttingDown = access.shuttingDown /\ access'.owner = access.owner
  <2>1. access \in AccessType
    BY DEF ManagedInv, Types
  <2> QED
    BY <1>1, <1>8, <2>1 DEF AccessType
<1>10. Phased'
  <2>1. life.phase \notin {"lastStop", "destroyed"}
    BY <1>1 DEF ManagedInv, Phased
  <2>2. /\ access.shuttingDown <=> life.phase \in Gone
        /\ access.owner <=> life.phase \notin {"lastStop", "destroyed"}
    BY DEF ManagedInv, Phased
  <2> HIDE DEF n
  <2> QED
    BY <1>1, <1>8, <1>9, <2>1, <2>2 DEF Phased
<1>11. \A u \in Steppers : stepper'[u].pc = "encode" => stepper'[u] = stepper[u]
  BY <1>4, IdleStepperShape
<1> QED
  BY <1>1, <1>3, <1>4, <1>5, <1>9, <1>10, <1>11, GateKeeps

-----------------------------------------------------------------------------
(* The API step.                                                           *)

\* A thread in a step keeps the server from being destroyed.
LEMMA StepperOfApi ==
  ASSUME ThreadsEnd, NEW a \in ApiThreads, api[a].pc \in {"step", "serve"}
  PROVE  /\ ~Managed => life.phase \notin Gone
         /\ Managed => a = ApiWorker
         /\ life.phase # "destroyed"
BY DEF ThreadsEnd, Gone

\* What an API thread keeps that changes itself and, if anything, a handoff.
LEMMA ApiKeeps ==
  ASSUME ManagedInv,
         UNCHANGED <<mode, life, access, streams, made, group, producer, stepper>>,
         api' = [a \in ApiThreads |-> api'[a]],
         \A a \in ApiThreads : ApiShape(api'[a]),
         ObjectsStay,
         \A o \in Objects : /\ object'[o].owner = object[o].owner
                            /\ object'[o].pending = object[o].pending
                            /\ object'[o].encoded = object[o].encoded
                            /\ object'[o].pipeline = object[o].pipeline,
         object' = object \/ life.phase # "destroyed",
         ThreadsEnd'
  PROVE  ManagedInv'
<1> USE DEF ManagedInv
<1>1. Types'
  BY DEF Types, ObjectsStay
<1>2. Numbered'
  BY NumberedKeeps
<1>3. Grouped' /\ OwnedByHandle'
  BY GroupedKeeps, OwnedKeeps
<1>4. Admitted'
  BY AdmittedKeeps
<1>5. Phased'
  BY PhasedKeeps DEF Inside
<1>6. NoOrphanedPipeline'
  BY PipelinesKeep
<1>7. NothingLeft'
  BY DEF NothingLeft
<1>8. Clocked'
  BY ClockedKeeps
<1> QED
  BY <1>1, <1>2, <1>3, <1>4, <1>5, <1>6, <1>7, <1>8

\* One thread of the API moves.
LEMMA ApiMoves ==
  ASSUME Types, ThreadsEnd, mode' = mode, life' = life, NEW a \in ApiThreads, NEW r, ApiShape(r),
         api' = [api EXCEPT ![a] = r],
         ~Managed /\ life.phase \in Gone => r.pc = "idle",
         Managed => a = ApiWorker /\ life.phase # "destroyed"
  PROVE  /\ api' = [b \in ApiThreads |-> api'[b]]
         /\ \A b \in ApiThreads : ApiShape(api'[b])
         /\ ThreadsEnd'
<1>1. /\ api'[a] = r /\ \A b \in ApiThreads \ {a} : api'[b] = api[b]
      /\ api' = [b \in ApiThreads |-> api'[b]]
  BY DEF Types
<1>2. \A b \in ApiThreads : ApiShape(api'[b])
  BY <1>1 DEF Types
<1>3. Managed' = Managed
  BY DEF Managed
<1>4. ~Managed /\ life.phase \in Gone => \A b \in ApiThreads : api'[b].pc = "idle"
  BY <1>1 DEF ThreadsEnd
<1>5. Managed => \A b \in ApiThreads \ {ApiWorker} : api'[b].pc = "none"
  BY <1>1 DEF ThreadsEnd
<1> QED
  BY <1>1, <1>2, <1>3, <1>4, <1>5 DEF ThreadsEnd

LEMMA ObjectsAsTheyAre ==
  ASSUME Types, object' = object
  PROVE  /\ ObjectsStay
         /\ \A o \in Objects : /\ object'[o].owner = object[o].owner
                               /\ object'[o].pending = object[o].pending
                               /\ object'[o].encoded = object[o].encoded
                               /\ object'[o].pipeline = object[o].pipeline
BY DEF Types, ObjectsStay

LEMMA ApiBeginKeeps ==
  ASSUME ManagedInv, NEW a \in ApiThreads, ApiBegin(a)
  PROVE  ManagedInv'
<1> DEFINE todo == {<<s, streams[s]>> : s \in {u \in Streams : streams[u] # None}}
           r == [pc |-> "step", units |-> <<>>, todo |-> todo]
<1>1. /\ UNCHANGED <<mode, life, access, streams, object, made, group, producer, stepper>>
      /\ api[a].pc = "idle" /\ (IF Managed THEN a = ApiWorker ELSE Callable)
  BY DEF ApiBegin
<1>2. api' = [api EXCEPT ![a] = r]
  BY DEF ApiBegin
<1> HIDE DEF todo
<1>3. ApiShape(r)
  BY DEF ApiShape
<1> HIDE DEF r
<1>4. ~Managed => life.phase \notin Gone
  BY <1>1 DEF Callable, Gone
<1>5. Managed => a = ApiWorker /\ life.phase # "destroyed"
  BY <1>1 DEF ManagedInv, ThreadsEnd
<1>6. /\ api' = [b \in ApiThreads |-> api'[b]]
      /\ \A b \in ApiThreads : ApiShape(api'[b])
      /\ ThreadsEnd'
  BY <1>1, <1>2, <1>3, <1>4, <1>5, ApiMoves DEF ManagedInv
<1> QED
  BY <1>1, <1>6, ApiKeeps, ObjectsAsTheyAre DEF ManagedInv

LEMMA ApiDrainKeeps ==
  ASSUME ManagedInv, NEW a \in ApiThreads, NEW s \in Streams, NEW o \in Objects,
         ApiDrain(a, s, o)
  PROVE  ManagedInv'
<1> DEFINE todo == api[a].todo \ {<<s, o>>}
           units == api[a].units \o Tagged(s, o, DrainBatch(object[o].handoff))
           h == AfterDrain(object[o].handoff)
           r == [api[a] EXCEPT !.todo = todo, !.units = units]
           x == [object[o] EXCEPT !.handoff = h]
<1>1. /\ UNCHANGED <<mode, life, access, streams, made, group, producer, stepper>>
      /\ api[a].pc = "step"
  BY DEF ApiDrain
<1>2. api' = [api EXCEPT ![a] = r]
  BY DEF ApiDrain
<1>3. object' = [object EXCEPT ![o] = x]
  BY DEF ApiDrain
<1>4. ApiShape(api[a]) /\ ObjectShape(object[o])
  BY DEF ManagedInv, Types
<1> HIDE DEF todo, units, h
<1>5. ApiShape(r)
  BY <1>1, <1>4 DEF ApiShape
<1>6. /\ ObjectShape(x) /\ x.owner = object[o].owner /\ x.pending = object[o].pending
      /\ x.encoded = object[o].encoded /\ x.pipeline = object[o].pipeline
  BY <1>4 DEF ObjectShape
<1> HIDE DEF r, x
<1>7. /\ api' = [b \in ApiThreads |-> api'[b]]
      /\ \A b \in ApiThreads : ApiShape(api'[b])
      /\ ThreadsEnd' /\ life.phase # "destroyed"
  BY <1>1, <1>2, <1>5, StepperOfApi, ApiMoves DEF ManagedInv
<1>8. /\ ObjectsStay /\ object'[o] = x
      /\ \A n \in Objects \ {o} : object'[n] = object[n]
  BY <1>3, <1>6, OneObjectChanges DEF ManagedInv
<1>9. \A n \in Objects : /\ object'[n].owner = object[n].owner
                         /\ object'[n].pending = object[n].pending
                         /\ object'[n].encoded = object[n].encoded
                         /\ object'[n].pipeline = object[n].pipeline
  BY <1>6, <1>8
<1> QED
  BY <1>1, <1>7, <1>8, <1>9, ApiKeeps

\* The end of a step, which may be the end of the thread.
LEMMA EndApiStepKeeps ==
  ASSUME ManagedInv, NEW a \in ApiThreads, api[a].pc \in {"step", "serve"},
         NEW ok, EndApiStep(a, ok),
         UNCHANGED <<mode, life, access, streams, object, made, group, producer, stepper>>
  PROVE  ManagedInv'
<1> DEFINE pc == IF Managed /\ ~ok THEN "exited" ELSE "idle"
           r == [IdleApi EXCEPT !.pc = pc]
<1>1. api' = [api EXCEPT ![a] = r]
  BY DEF EndApiStep
<1>2. ApiShape(r)
  BY DEF ApiShape, IdleApi
<1> HIDE DEF r
<1>3. /\ api' = [b \in ApiThreads |-> api'[b]]
      /\ \A b \in ApiThreads : ApiShape(api'[b])
      /\ ThreadsEnd'
  BY <1>1, <1>2, StepperOfApi, ApiMoves DEF ManagedInv
<1> QED
  BY <1>3, ApiKeeps, ObjectsAsTheyAre DEF ManagedInv

LEMMA ApiDeliverKeeps ==
  ASSUME ManagedInv, NEW a \in ApiThreads, ApiDeliver(a)
  PROVE  ManagedInv'
<1>1. /\ UNCHANGED <<mode, life, access, streams, object, made, group, producer, stepper>>
      /\ api[a].pc = "step"
      /\ api' = [api EXCEPT ![a].units = Tail(@)] \/ EndApiStep(a, FALSE)
  BY DEF ApiDeliver
<1>2. CASE api' = [api EXCEPT ![a].units = Tail(@)]
  <2> DEFINE rest == Tail(api[a].units)
             r == [api[a] EXCEPT !.units = rest]
  <2>1. api' = [api EXCEPT ![a] = r]
    BY <1>2
  <2> HIDE DEF rest
  <2>2. ApiShape(r)
    BY DEF ManagedInv, Types, ApiShape
  <2> HIDE DEF r
  <2>3. /\ api' = [b \in ApiThreads |-> api'[b]]
        /\ \A b \in ApiThreads : ApiShape(api'[b])
        /\ ThreadsEnd'
    BY <1>1, <2>1, <2>2, StepperOfApi, ApiMoves DEF ManagedInv
  <2> QED
    BY <1>1, <2>3, ApiKeeps, ObjectsAsTheyAre DEF ManagedInv
<1>3. CASE EndApiStep(a, FALSE)
  BY <1>1, <1>3, EndApiStepKeeps
<1> QED
  BY <1>1, <1>2, <1>3

LEMMA ApiPumpKeeps ==
  ASSUME ManagedInv, NEW a \in ApiThreads, NEW ok, ApiPump(a, ok) \/ ApiServed(a, ok)
  PROVE  ManagedInv'
BY EndApiStepKeeps DEF ApiPump, ApiServed

LEMMA ApiAcceptKeeps ==
  ASSUME ManagedInv, NEW a \in ApiThreads, ApiAccept(a)
  PROVE  ManagedInv'
<1> DEFINE r == [api[a] EXCEPT !.pc = "serve"]
<1>1. /\ UNCHANGED <<mode, life, access, streams, object, made, group, producer, stepper>>
      /\ api[a].pc = "step"
  BY DEF ApiAccept
<1>2. api' = [api EXCEPT ![a] = r]
  BY DEF ApiAccept
<1>3. ApiShape(r)
  BY DEF ManagedInv, Types, ApiShape
<1> HIDE DEF r
<1>4. /\ api' = [b \in ApiThreads |-> api'[b]]
      /\ \A b \in ApiThreads : ApiShape(api'[b])
      /\ ThreadsEnd'
  BY <1>1, <1>2, <1>3, StepperOfApi, ApiMoves DEF ManagedInv
<1> QED
  BY <1>1, <1>4, ApiKeeps, ObjectsAsTheyAre DEF ManagedInv

LEMMA ApiExitKeeps ==
  ASSUME ManagedInv, ApiExit
  PROVE  ManagedInv'
<1> DEFINE r == [api[ApiWorker] EXCEPT !.pc = "exited"]
<1>1. /\ UNCHANGED <<mode, life, access, streams, object, made, group, producer, stepper>>
      /\ Managed /\ api[ApiWorker].pc = "idle"
  BY DEF ApiExit
<1>2. api' = [api EXCEPT ![ApiWorker] = r]
  BY DEF ApiExit
<1>3. ApiWorker \in ApiThreads
  BY ManagedAssumption DEF ManagedAssumption
<1>4. ApiShape(r)
  BY <1>3 DEF ManagedInv, Types, ApiShape
<1> HIDE DEF r
<1>5. life.phase # "destroyed"
  BY <1>1 DEF ManagedInv, ThreadsEnd
<1>6. /\ api' = [b \in ApiThreads |-> api'[b]]
      /\ \A b \in ApiThreads : ApiShape(api'[b])
      /\ ThreadsEnd'
  BY <1>1, <1>2, <1>3, <1>4, <1>5, ApiMoves DEF ManagedInv
<1> QED
  BY <1>1, <1>6, ApiKeeps, ObjectsAsTheyAre DEF ManagedInv

-----------------------------------------------------------------------------
(* The invariant holds.                                                    *)

LEMMA ManagedInit ==
  ASSUME Init
  PROVE  ManagedInv
<1>1. ObjectShape(NewObject) /\ NewObject.owner = 0 /\ NewObject.pending = None
      /\ NewObject.encoded = None /\ NewObject.pipeline.state = "none"
      /\ NewObject.handoff = EmptyHandoff
  BY DEF ObjectShape, PipelineShape, NewObject, NoPipeline, None
<1>2. Cardinality(Streams) \in Nat /\ MaxObjects \in Nat /\ Cardinality(Streams) <= MaxObjects
  BY ManagedAssumption, FS_CardinalityType DEF ManagedAssumption
<1>3. /\ life.phase = "calm" /\ life \in LifeType
      /\ access \in AccessType /\ access.owner /\ ~access.shuttingDown
      /\ access.activeCalls = 0
  BY DEF Init, LifeType, AccessType, Gone
<1>4. /\ made \in MadeType /\ made.objects = Cardinality(Streams) /\ made.groups = 0
  BY <1>2 DEF Init, MadeType
<1>5. /\ streams \in [Streams -> 1..Cardinality(Streams)]
      /\ \A s, t \in Streams : streams[s] = streams[t] => s = t
  BY DEF Init, InitialObjects
<1>6. \A s \in Streams : /\ streams[s] \in 0..MaxObjects /\ streams[s] \in Objects
                         /\ streams[s] <= made.objects
  BY <1>2, <1>4, <1>5 DEF Objects
<1>7. \A o \in Objects : object[o] = NewObject
  BY DEF Init
<1>8. /\ group \in [Handles -> GroupType]
      /\ \A h \in Handles : group[h].id = 0 /\ group[h].streams = <<>>
  BY DEF Init, GroupType, NoGroup
<1>9. \A t \in Steppers : stepper[t] = IdleStepper
  BY DEF Init
<1>10. \A s \in Streams : /\ producer[s] \in ProducerType /\ producer[s].pc = "idle"
                          /\ producer[s].clock = 0
  BY DEF Init, ProducerType, None
<1>11. /\ ~Managed => \A a \in ApiThreads : ApiShape(api[a]) /\ api[a].pc = "idle"
       /\ Managed => \A a \in ApiThreads : ApiShape(api[a]) /\ api[a].pc = "none"
  BY DEF Init, ApiShape, IdleApi, Managed
<1>12. Types
  <2>1. /\ streams \in [Streams -> 0..MaxObjects] /\ producer \in [Streams -> ProducerType]
        /\ object = [o \in Objects |-> object[o]] /\ stepper = [t \in Steppers |-> stepper[t]]
        /\ api = [a \in ApiThreads |-> api[a]]
    BY <1>5, <1>6, <1>10 DEF Init
  <2> QED
    BY <1>1, <1>3, <1>4, <1>7, <1>8, <1>9, <1>11, <2>1, IdleStepperShape DEF Types
<1>13. Numbered
  BY <1>1, <1>5, <1>6, <1>7 DEF Numbered
<1>14. \A h \in Handles : Members(h) = {}
  BY <1>8 DEF Members
<1>15. Grouped
  BY <1>4, <1>8, <1>14 DEF Grouped
<1>16. OwnedByHandle
  BY <1>1, <1>6, <1>7 DEF OwnedByHandle
<1>17. Admitted
  BY <1>9, IdleStepperShape DEF Admitted, AtWork
<1>18. Phased
  <2>1. {t \in Steppers : Inside(t)} = {}
    BY <1>9, IdleStepperShape DEF Inside
  <2> QED
    BY <1>3, <2>1, FS_EmptySet DEF Phased, Gone
<1>19. ThreadsEnd
  BY <1>3, <1>11 DEF ThreadsEnd, Gone
<1>20. NoOrphanedPipeline
  BY <1>1, <1>7 DEF NoOrphanedPipeline
<1>21. NothingLeft
  BY <1>3 DEF NothingLeft
<1>22. Clocked
  <2>1. \A s \in Streams : object[streams[s]].pending = None /\ object[streams[s]].encoded = None
    BY <1>1, <1>6, <1>7
  <2>2. \A t \in Steppers : stepper[t].pc # "encode"
    BY <1>9, IdleStepperShape
  <2> QED
    BY <1>10, <2>1, <2>2 DEF Clocked, None
<1> QED
  BY <1>12, <1>13, <1>15, <1>16, <1>17, <1>18, <1>19, <1>20, <1>21, <1>22 DEF ManagedInv

LEMMA OwnerStepKeeps ==
  ASSUME ManagedInv, OwnerStep
  PROVE  ManagedInv'
<1>1. CASE \E opened \in BOOLEAN : Start(opened)
  BY <1>1, StartKeeps
<1>2. CASE UnwindStart \/ StopBegin \/ StopFinish \/ DestroyBegin \/ DestroyDrained
  BY <1>2, UnwindStartKeeps, StopBeginKeeps, StopFinishKeeps, DestroyBeginKeeps,
     DestroyDrainedKeeps
<1>3. CASE \E s \in Streams : RegisterStream(s) \/ RemoveStream(s)
  BY <1>3, RegisterStreamKeeps, RemoveStreamKeeps
<1>4. CASE \E h \in Handles : \E list \in GroupLists : RegisterStreams(h, list)
  BY <1>4, RegisterStreamsKeeps
<1>5. CASE \E h \in Handles : ReleaseStreamGroup(h)
  BY <1>5, ReleaseStreamGroupKeeps
<1>6. CASE \E s \in Streams : \E interval \in {0, 2} : SetOutputConfig(s, interval)
  BY <1>6, SetOutputConfigKeeps
<1> QED
  BY <1>1, <1>2, <1>3, <1>4, <1>5, <1>6 DEF OwnerStep

LEMMA StepperStepKeeps ==
  ASSUME ManagedInv, NEW t \in Steppers, StepperStep(t)
  PROVE  ManagedInv'
<1>1. CASE StepEnter(t) \/ StepLeave(t)
  BY <1>1, StepEnterKeeps, StepLeaveKeeps
<1>2. CASE StepLookup(t) \/ StepTake(t) \/ StepTransformFails(t)
  BY <1>2, StepLookupKeeps, StepTakeKeeps, StepTransformFailsKeeps
<1>3. CASE \E keep \in 0..EncoderDelay, kind \in LaterKinds : StepEncode(t, keep, kind)
  BY <1>3, StepEncodeKeeps
<1>4. CASE StepPipelineFails(t) \/ StepEncodeFails(t) \/ StepPublish(t)
  BY <1>4, StepPipelineFailsKeeps, StepEncodeFailsKeeps, StepPublishKeeps
<1> QED
  BY <1>1, <1>2, <1>3, <1>4 DEF StepperStep

LEMMA ApiTurnKeeps ==
  ASSUME ManagedInv, NEW a \in ApiThreads, ApiTurn(a)
  PROVE  ManagedInv'
<1>1. CASE ApiBegin(a)
  BY <1>1, ApiBeginKeeps
<1>2. CASE \E s \in Streams, o \in Objects : ApiDrain(a, s, o)
  BY <1>2, ApiDrainKeeps
<1>3. CASE ApiDeliver(a)
  BY <1>3, ApiDeliverKeeps
<1>4. CASE \E ok \in PumpResults : ApiPump(a, ok) \/ ApiServed(a, ok)
  BY <1>4, ApiPumpKeeps
<1>5. CASE ApiAccept(a)
  BY <1>5, ApiAcceptKeeps
<1> QED
  BY <1>1, <1>2, <1>3, <1>4, <1>5 DEF ApiTurn, ApiStep

LEMMA StutterKeeps ==
  ASSUME ManagedInv, UNCHANGED vars
  PROVE  ManagedInv'
<1>1. /\ UNCHANGED <<mode, life, access, streams, object, made, group>>
      /\ UNCHANGED <<producer, stepper, api>>
  BY DEF vars
<1>2. access' \in AccessType /\ group' \in [Handles -> GroupType]
  BY <1>1 DEF ManagedInv, Types
<1>3. /\ stepper' = [u \in Steppers |-> stepper'[u]]
      /\ \A u \in Steppers : StepperShape(stepper'[u])
  BY <1>1 DEF ManagedInv, Types
<1>4. Admitted' /\ Phased'
  BY <1>1, AdmittedKeeps, PhasedKeeps DEF ManagedInv, Inside
<1> QED
  BY <1>1, <1>2, <1>3, <1>4, GateKeeps

LEMMA ManagedInductive ==
  ASSUME ManagedInv, [Next]_vars
  PROVE  ManagedInv'
<1>1. CASE OwnerStep
  BY <1>1, OwnerStepKeeps
<1>2. CASE \E s \in Sources : PushValidate(s) \/ PushReject(s) \/ PushLatch(s) \/ PushNote(s)
  BY <1>2, ManagedAssumption, PushValidateKeeps, PushRejectKeeps, PushLatchKeeps, PushNoteKeeps
     DEF ManagedAssumption
<1>3. CASE \E t \in Steppers : (\E h \in Handles : StepBegin(t, h)) \/ StepperStep(t)
  BY <1>3, StepBeginKeeps, StepperStepKeeps
<1>4. CASE \E a \in ApiThreads : ApiTurn(a)
  BY <1>4, ApiTurnKeeps
<1>5. CASE ApiExit
  BY <1>5, ApiExitKeeps
<1>6. CASE UNCHANGED vars
  BY <1>6, StutterKeeps
<1> QED
  BY <1>1, <1>2, <1>3, <1>4, <1>5, <1>6 DEF Next

LEMMA ManagedInvariant == Spec => []ManagedInv
<1>1. Init => ManagedInv
  BY ManagedInit
<1>2. ManagedInv /\ [Next]_vars => ManagedInv'
  BY ManagedInductive
<1> QED
  BY <1>1, <1>2, PTL DEF Spec

-----------------------------------------------------------------------------
(* The theorems.                                                           *)

\* register_streams, ~StreamGroupHandle and remove_stream: a stream belongs to
\* at most one group, and a group's streams stay registered while its handle
\* lives, for any number of streams, groups and threads.
THEOREM StreamsBelongToOneGroup == Spec => []OwnershipExact
<1>1. ManagedInv => OwnershipExact
  BY DEF ManagedInv, OwnershipExact, Grouped, OwnedByHandle
<1> QED
  BY <1>1, ManagedInvariant, PTL

\* remove_stream, stop and process_stream: a pipeline is only ever that of a
\* registered stream.
THEOREM NoPipelineLeftBehind == Spec => []NoOrphanedPipeline
<1>1. ManagedInv => NoOrphanedPipeline
  BY DEF ManagedInv
<1> QED
  BY <1>1, ManagedInvariant, PTL

\* ~ManagedVideoServer: it waits for every step_streams call, and then nothing
\* of the server runs or is left.
THEOREM DestructionIsSafe == Spec => []DestructionSafe
<1>1. ASSUME ManagedInv
      PROVE  DestructionSafe
  <2>1. life.phase \in {"lastStop", "destroyed"} =>
          \A t \in Steppers : stepper[t].pc \in {"idle", "enter"}
    BY <1>1 DEF ManagedInv, Phased, Inside
  <2> QED
    BY <1>1, <2>1 DEF ManagedInv, DestructionSafe, NothingLeft, ThreadsEnd
<1> QED
  BY <1>1, ManagedInvariant, PTL

-----------------------------------------------------------------------------
(* The order of the frames.                                                *)

\* Nobody but the encoder's step touches what a pipeline has seen.
LEMMA OwnersEncodeNothing ==
  ASSUME ManagedInv, OwnerStep, NEW o \in Objects
  PROVE  object'[o].encoded = object[o].encoded
<1>1. ObjectShape(object[o])
  BY DEF ManagedInv, Types
<1>2. CASE \E opened \in BOOLEAN : Start(opened)
  BY <1>2, RegisterAllAlike DEF Start, Alike, ManagedInv
<1>3. CASE StopFinish
  BY <1>3, StopFinishObjects DEF ManagedInv
<1>4. CASE UnwindStart \/ StopBegin \/ DestroyBegin \/ DestroyDrained
  BY <1>4 DEF UnwindStart, StopBegin, DestroyBegin, DestroyDrained
<1>5. ASSUME NEW s \in Streams, RegisterStream(s)
      PROVE  object'[o].encoded = object[o].encoded
  <2>1. object' = [object EXCEPT ![made.objects + 1].registered = life.started]
    BY <1>5 DEF RegisterStream
  <2>2. object'[o] = object[o] \/ object'[o] = [object[o] EXCEPT !.registered = life.started]
    BY <2>1 DEF ManagedInv, Types
  <2> QED
    BY <1>1, <2>2 DEF ObjectShape
<1>6. ASSUME NEW s \in Streams, RemoveStream(s)
      PROVE  object'[o].encoded = object[o].encoded
  <2>1. object' = [object EXCEPT ![streams[s]] = StopPipeline(object[streams[s]])]
    BY <1>6 DEF RemoveStream
  <2>2. object'[o] = object[o] \/ object'[o] = StopPipeline(object[o])
    BY <2>1 DEF ManagedInv, Types
  <2> QED
    BY <1>1, <2>2, StopPipelineShape
<1>7. ASSUME NEW h \in Handles, NEW list \in GroupLists, RegisterStreams(h, list)
      PROVE  object'[o].encoded = object[o].encoded
  <2>1. object' = [n \in Objects |->
                     IF \E i \in DOMAIN list : streams[list[i]] = n
                     THEN [object[n] EXCEPT !.owner = made.groups + 1] ELSE object[n]]
    BY <1>7 DEF RegisterStreams
  <2>2. object'[o] = object[o] \/ object'[o] = [object[o] EXCEPT !.owner = made.groups + 1]
    BY <2>1
  <2> QED
    BY <1>1, <2>2 DEF ObjectShape
<1>8. ASSUME NEW h \in Handles, ReleaseStreamGroup(h)
      PROVE  object'[o].encoded = object[o].encoded
  <2>1. object'[o] = object[o] \/ object'[o] = [object[o] EXCEPT !.owner = 0]
    BY <1>8 DEF ReleaseStreamGroup
  <2> QED
    BY <1>1, <2>1 DEF ObjectShape
<1>9. CASE \E s \in Streams : \E interval \in {0, 2} : SetOutputConfig(s, interval)
  BY <1>9 DEF SetOutputConfig
<1> QED
  BY <1>2, <1>3, <1>4, <1>5, <1>6, <1>7, <1>8, <1>9 DEF OwnerStep

LEMMA ProducersEncodeNothing ==
  ASSUME ManagedInv, NEW s \in Streams, NEW o \in Objects,
         PushValidate(s) \/ PushReject(s) \/ PushLatch(s) \/ PushNote(s)
  PROVE  object'[o].encoded = object[o].encoded
<1>1. CASE object' = object \/ PushNote(s)
  BY <1>1, NotedObjects DEF Alike, ManagedInv
<1>2. CASE object' = [object EXCEPT ![streams[s]].pending = producer[s].clock]
  <2>1. object'[o] = object[o] \/ object'[o] = [object[o] EXCEPT !.pending = producer[s].clock]
    BY <1>2 DEF ManagedInv, Types
  <2>2. ObjectShape(object[o])
    BY DEF ManagedInv, Types
  <2> QED
    BY <2>1, <2>2 DEF ObjectShape
<1> QED
  BY <1>1, <1>2 DEF PushValidate, PushReject, PushLatch, Latch

LEMMA ApiEncodesNothing ==
  ASSUME ManagedInv, NEW a \in ApiThreads, NEW o \in Objects, ApiTurn(a)
  PROVE  object'[o].encoded = object[o].encoded
<1>1. CASE \/ ApiBegin(a) \/ ApiDeliver(a) \/ ApiAccept(a)
           \/ \E ok \in PumpResults : ApiPump(a, ok) \/ ApiServed(a, ok)
  BY <1>1 DEF ApiBegin, ApiDeliver, ApiAccept, ApiPump, ApiServed
<1>2. ASSUME NEW s \in Streams, NEW n \in Objects, ApiDrain(a, s, n)
      PROVE  object'[o].encoded = object[o].encoded
  <2> DEFINE h == AfterDrain(object[n].handoff)
  <2>1. object' = [object EXCEPT ![n].handoff = h]
    BY <1>2 DEF ApiDrain
  <2> HIDE DEF h
  <2>2. object'[o] = object[o] \/ object'[o] = [object[o] EXCEPT !.handoff = h]
    BY <2>1 DEF ManagedInv, Types
  <2>3. ObjectShape(object[o])
    BY DEF ManagedInv, Types
  <2> QED
    BY <2>2, <2>3 DEF ObjectShape
<1> QED
  BY <1>1, <1>2 DEF ApiTurn, ApiStep

\* Of a step's parts, only the encoder's.
LEMMA StepsEncodeForward ==
  ASSUME ManagedInv, NEW t \in Steppers, StepperStep(t), NEW o \in Objects,
         object'[o].encoded # object[o].encoded
  PROVE  object'[o].encoded > object[o].encoded
<1>1. ObjectShape(object[o])
  BY DEF ManagedInv, Types
<1>2. CASE \/ StepEnter(t) \/ StepLookup(t) \/ StepTransformFails(t) \/ StepPublish(t)
           \/ StepLeave(t)
  BY <1>2 DEF StepEnter, StepLookup, StepTransformFails, StepPublish, StepLeave
<1>3. CASE StepTake(t)
  <2> DEFINE n == stepper[t].object
             d == IF core[AtStream(t)].interval > 0
                  THEN object[n].pending + core[AtStream(t)].interval ELSE 0
  <2>1. object' = object \/ object' = [object EXCEPT ![n].pending = None, ![n].due = d]
    BY <1>3 DEF StepTake
  <2> HIDE DEF d
  <2>2. object'[o] = object[o] \/ object'[o] = [object[o] EXCEPT !.pending = None, !.due = d]
    BY <2>1 DEF ManagedInv, Types
  <2> QED
    BY <1>1, <2>2 DEF ObjectShape
<1>4. CASE StepPipelineFails(t)
  <2>1. object' = [object EXCEPT ![stepper[t].object] = StopPipeline(@)]
    BY <1>4 DEF StepPipelineFails
  <2>2. object'[o] = object[o] \/ object'[o] = StopPipeline(object[o])
    BY <2>1 DEF ManagedInv, Types
  <2> QED
    BY <1>1, <2>2, StopPipelineShape
<1>5. CASE StepEncodeFails(t)
  <2> DEFINE e == EnsurePipeline(object[stepper[t].object], stepper[t].gen)
             r == [e EXCEPT !.pipeline.state = "failed", !.pipeline.held = <<>>]
  <2>1. object' = [object EXCEPT ![stepper[t].object] = r]
    BY <1>5 DEF StepEncodeFails
  <2> HIDE DEF r
  <2>2. object'[o] = object[o] \/ (o = stepper[t].object /\ object'[o] = r)
    BY <2>1 DEF ManagedInv, Types
  <2>3. o = stepper[t].object => ObjectShape(e) /\ e.encoded = object[o].encoded
    BY <1>1, EnsurePipelineShape
  <2> HIDE DEF e
  <2>4. o = stepper[t].object => r.encoded = e.encoded
    BY <2>3 DEF r, ObjectShape, PipelineShape
  <2> QED
    BY <2>2, <2>3, <2>4
<1>6. CASE \E keep \in 0..EncoderDelay, kind \in LaterKinds : StepEncode(t, keep, kind)
  <2>1. PICK keep \in 0..EncoderDelay, kind \in LaterKinds : StepEncode(t, keep, kind)
    BY <1>6
  <2>2. /\ stepper[t].object \in Objects
        /\ \A n \in Objects \ {stepper[t].object} : object'[n] = object[n]
        /\ object'[stepper[t].object].encoded = stepper[t].frame
        /\ object[stepper[t].object].encoded < stepper[t].frame
    BY <2>1, StepEncodeFacts
  <2>3. stepper[t].frame \in Nat /\ object[o].encoded \in Nat
    BY <1>1 DEF ManagedInv, Types, StepperShape, ObjectShape
  <2> QED
    BY <2>2, <2>3
<1> QED
  BY <1>2, <1>3, <1>4, <1>5, <1>6 DEF StepperStep

LEMMA EncodedOnlyGrows ==
  ASSUME ManagedInv, [Next]_vars, NEW o \in Objects, object'[o].encoded # object[o].encoded
  PROVE  object'[o].encoded > object[o].encoded
<1>1. CASE OwnerStep
  BY <1>1, OwnersEncodeNothing
<1>2. CASE \E s \in Sources : PushValidate(s) \/ PushReject(s) \/ PushLatch(s) \/ PushNote(s)
  BY <1>2, ManagedAssumption, ProducersEncodeNothing DEF ManagedAssumption
<1>3. CASE \E t \in Steppers : (\E h \in Handles : StepBegin(t, h)) \/ StepperStep(t)
  BY <1>3, StepsEncodeForward DEF StepBegin
<1>4. CASE \E a \in ApiThreads : ApiTurn(a)
  BY <1>4, ApiEncodesNothing
<1>5. CASE ApiExit \/ UNCHANGED vars
  BY <1>5 DEF ApiExit, vars
<1> QED
  BY <1>1, <1>2, <1>3, <1>4, <1>5 DEF Next

\* process_stream under stepping_ and push_frame: a stream's pipeline never sees
\* a frame again, or one older than the last, however the threads interleave.
THEOREM FramesEncodedInOrder == Spec => EncodedInOrder
<1>1. ManagedInv /\ [Next]_vars =>
        [\A o \in Objects :
           object'[o].encoded # object[o].encoded => object'[o].encoded > object[o].encoded]_vars
  BY EncodedOnlyGrows
<1> QED
  BY <1>1, ManagedInvariant, PTL DEF Spec, EncodedInOrder

-----------------------------------------------------------------------------
(* The leases, step by step.                                               *)

\* What a step must leave alone to change nothing a group or a worker sees.
LEMMA SameEnrolled ==
  ASSUME streams' = streams
  PROVE  Enrolled' = Enrolled
BY DEF Enrolled

LEMMA SameGroups ==
  ASSUME \A h \in Handles : group'[h].streams = group[h].streams
  PROVE  GroupStreams' = GroupStreams
<1>1. \A h \in Handles : Members(h)' = Members(h)
  BY DEF Members
<1> QED
  BY <1>1 DEF GroupStreams

LEMMA SameHands ==
  ASSUME \A t \in Steppers : InHand(t)' = InHand(t)
  PROVE  InHands' = InHands
BY DEF InHands

LEMMA RestingHands ==
  ASSUME stepper' = stepper
  PROVE  InHands' = InHands
<1>1. \A t \in Steppers : InHand(t)' = InHand(t)
  BY DEF InHand, AtStream
<1> QED
  BY <1>1, SameHands

LEMMA SamePipelines ==
  ASSUME Types, streams' = streams,
         \A o \in Objects : object'[o].pipeline.state = "none" <=> object[o].pipeline.state = "none"
  PROVE  WithPipeline' = WithPipeline
<1>1. Enrolled' = Enrolled
  BY SameEnrolled
<1>2. \A s \in Enrolled : streams[s] \in Objects
  BY DEF Enrolled, Types, Objects, None
<1>3. \A s \in Enrolled : object'[streams'[s]].pipeline.state # "none"
                          <=> object[streams[s]].pipeline.state # "none"
  BY <1>2
<1> QED
  BY <1>1, <1>3 DEF WithPipeline

LEMMA Unseen ==
  ASSUME Enrolled' = Enrolled, GroupStreams' = GroupStreams, InHands' = InHands,
         WithPipeline' = WithPipeline, access'.owner = access.owner
  PROVE  UNCHANGED Leases!leaseVars
BY DEF Leases!leaseVars

\* A step of nobody's but the producers', the API's or the owner's, on objects
\* whose pipelines stay.
LEMMA QuietUnseen ==
  ASSUME Types, streams' = streams, group' = group, stepper' = stepper,
         access'.owner = access.owner,
         \A o \in Objects : object'[o].pipeline = object[o].pipeline
  PROVE  UNCHANGED Leases!leaseVars
<1>1. WithPipeline' = WithPipeline
  BY SamePipelines
<1> QED
  BY <1>1, SameEnrolled, SameGroups, RestingHands, Unseen

\* The server is open while the destructor has not passed its wait.
LEMMA OpenWhileCallable ==
  ASSUME Phased, Callable
  PROVE  access.owner
BY DEF Phased, Callable

\* A thread has something in hand only at work, and it is a stream of its handle.
LEMMA HandFacts ==
  ASSUME ManagedInv, NEW t \in Steppers
  PROVE  /\ InHands[t] = InHand(t)
         /\ ~AtWork(t) => InHand(t) = {}
         /\ AtWork(t) => InHand(t) = {AtStream(t)}
         /\ AtWork(t) => /\ AtStream(t) \in Streams /\ stepper[t].handle \in Handles
                         /\ AtStream(t) \in Members(stepper[t].handle)
                         /\ streams[AtStream(t)] = stepper[t].object
                         /\ stepper[t].object \in Objects
                         /\ access.owner
<1>1. InHands[t] = InHand(t)
  BY DEF InHands
<1>2. (~AtWork(t) => InHand(t) = {}) /\ (AtWork(t) => InHand(t) = {AtStream(t)})
  BY DEF AtWork, InHand
<1>3. AtWork(t) => /\ AtStream(t) \in Streams /\ stepper[t].handle \in Handles
                   /\ AtStream(t) \in Members(stepper[t].handle)
                   /\ streams[AtStream(t)] = stepper[t].object
                   /\ stepper[t].object \in Objects
  BY AtWorkFacts DEF ManagedInv
<1>4. AtWork(t) => access.owner
  BY DEF AtWork, ManagedInv, Phased, Inside
<1> QED
  BY <1>1, <1>2, <1>3, <1>4

\* No two groups have a stream in common.
LEMMA GroupsApart ==
  ASSUME ManagedInv, NEW g \in Handles, NEW h \in Handles, NEW s,
         s \in Members(g), s \in Members(h)
  PROVE  g = h
<1>1. /\ object[streams[s]].owner = group[g].id
      /\ object[streams[s]].owner = group[h].id
  BY DEF ManagedInv, Grouped
<1>2. group[g].streams # <<>>
  BY DEF Members
<1>3. group[g].id # 0
  BY <1>2 DEF ManagedInv, Grouped
<1> QED
  BY <1>1, <1>3 DEF ManagedInv, Grouped

\* A group has streams exactly when it has been made, and they are registered.
LEMMA MemberFacts ==
  ASSUME ManagedInv, NEW h \in Handles
  PROVE  /\ GroupStreams[h] = Members(h) /\ Members(h) \subseteq Enrolled
         /\ group[h].id # 0 <=> Members(h) # {}
         /\ \A s \in Members(h) : /\ s \in Streams /\ streams[s] \in Objects
                                  /\ object[streams[s]].owner = group[h].id
                                  /\ group[h].id # 0
<1>1. GroupStreams[h] = Members(h)
  BY DEF GroupStreams
<1>2. group[h].streams \in Seq(Streams)
  BY DEF ManagedInv, Types, GroupType
<1>3. Members(h) \subseteq Streams
  BY <1>2 DEF Members
<1>4. \A s \in Members(h) : streams[s] # None /\ object[streams[s]].owner = group[h].id
  BY DEF ManagedInv, Grouped
<1>5. Members(h) \subseteq Enrolled
  BY <1>3, <1>4 DEF Enrolled
<1>6. \A s \in Streams : streams[s] # None => streams[s] \in Objects
  BY DEF ManagedInv, Types, Objects, None
<1>7. group[h].streams = <<>> <=> Members(h) = {}
  <2>1. ASSUME group[h].streams # <<>>
        PROVE  Members(h) # {}
    <3>1. 1 \in DOMAIN group[h].streams
      BY <1>2, <2>1
    <3>2. group[h].streams[1] \in Members(h)
      BY <3>1 DEF Members
    <3> QED
      BY <3>2
  <2>2. ASSUME group[h].streams = <<>>
        PROVE  Members(h) = {}
    <3>1. DOMAIN group[h].streams = {}
      BY <2>2
    <3> QED
      BY <3>1 DEF Members
  <2> QED
    BY <2>1, <2>2
<1>8. group[h].id # 0 <=> Members(h) # {}
  BY <1>7 DEF ManagedInv, Grouped
<1> QED
  BY <1>1, <1>3, <1>4, <1>5, <1>6, <1>8

-----------------------------------------------------------------------------
(* What the owner does.                                                    *)

LEMMA OwnerUnseen ==
  ASSUME ManagedInv,
         \/ \E opened \in BOOLEAN : Start(opened)
         \/ UnwindStart \/ StopBegin \/ DestroyBegin
         \/ \E s \in Streams : \E interval \in {0, 2} : SetOutputConfig(s, interval)
  PROVE  UNCHANGED Leases!leaseVars
<1>1. CASE \E opened \in BOOLEAN : Start(opened)
  BY <1>1, RegisterAllAlike, QuietUnseen DEF Start, Alike, ManagedInv
<1>2. CASE UnwindStart \/ StopBegin
           \/ \E s \in Streams : \E interval \in {0, 2} : SetOutputConfig(s, interval)
  BY <1>2, QuietUnseen DEF UnwindStart, StopBegin, SetOutputConfig, ManagedInv
<1>3. CASE DestroyBegin
  <2>1. access'.owner = access.owner
    BY <1>3 DEF DestroyBegin, ManagedInv, Types, AccessType
  <2> QED
    BY <1>3, <2>1, QuietUnseen DEF DestroyBegin, ManagedInv
<1> QED
  BY <1>1, <1>2, <1>3

\* stop() leaves no registered stream with a pipeline.
LEMMA StoppingStops ==
  ASSUME ManagedInv, StopFinish
  PROVE  Leases!StopEncoders
<1>1. /\ streams' = streams /\ group' = group /\ stepper' = stepper
      /\ access' = access
  BY DEF StopFinish
<1>2. \A s \in Enrolled : streams[s] \in Objects
  BY DEF Enrolled, ManagedInv, Types, Objects, None
<1>3. ASSUME NEW s \in Enrolled
      PROVE  object'[streams[s]].pipeline.state = "none"
  <2> DEFINE o == streams[s]
  <2>1. o \in Objects /\ \E u \in Streams : streams[u] = o
    BY <1>2, <1>3 DEF Enrolled
  <2> QED
    BY <2>1, StopFinishObjects DEF ManagedInv
<1>4. Enrolled' = Enrolled
  BY <1>1, SameEnrolled
<1>5. WithPipeline' = {}
  BY <1>1, <1>3, <1>4 DEF WithPipeline
<1>6. GroupStreams' = GroupStreams /\ InHands' = InHands
  BY <1>1, SameGroups, RestingHands
<1> QED
  BY <1>1, <1>4, <1>5, <1>6 DEF Leases!StopEncoders

\* The destructor passes its wait when no thread has anything in hand.
LEMMA DrainedCloses ==
  ASSUME ManagedInv, DestroyDrained
  PROVE  Leases!Close
<1>1. /\ streams' = streams /\ group' = group /\ stepper' = stepper /\ object' = object
      /\ life.phase = "draining" /\ access.activeCalls = 0
      /\ access' = [access EXCEPT !.owner = FALSE]
  BY DEF DestroyDrained, NoActiveCalls
<1>2. access.owner /\ ~access'.owner
  BY <1>1 DEF ManagedInv, Phased, Types, AccessType
<1>3. \A t \in Steppers : InHands[t] = {}
  <2>1. \A t \in Steppers : ~Inside(t)
    BY <1>1, NobodyInside DEF ManagedInv
  <2> QED
    BY <2>1 DEF Inside, InHands, InHand
<1>4. Enrolled' = Enrolled /\ GroupStreams' = GroupStreams /\ InHands' = InHands
  BY <1>1, SameEnrolled, SameGroups, RestingHands
<1>5. WithPipeline' = WithPipeline
  BY <1>1, SamePipelines DEF ManagedInv
<1> QED
  BY <1>2, <1>3, <1>4, <1>5 DEF Leases!Close

\* A new registration starts without a pipeline.
LEMMA RegisteringEnrols ==
  ASSUME ManagedInv, NEW s \in Streams, RegisterStream(s)
  PROVE  Leases!Enrol(s)
<1> DEFINE o == made.objects + 1
<1>1. /\ UNCHANGED <<access, group, stepper>> /\ Callable
      /\ streams[s] = None /\ streams' = [streams EXCEPT ![s] = o]
      /\ object' = [object EXCEPT ![o].registered = life.started]
      /\ made.objects < MaxObjects
  BY DEF RegisterStream
<1>2. o \in Objects /\ o > made.objects /\ o # None
  BY <1>1, ManagedAssumption DEF ManagedInv, Types, MadeType, Objects, None, ManagedAssumption
<1>3. object[o].pipeline.state = "none"
  BY <1>2 DEF ManagedInv, Numbered
<1> HIDE DEF o
<1>4. \A n \in Objects : object'[n].pipeline = object[n].pipeline
  <2>1. \A n \in Objects : ObjectShape(object[n])
    BY DEF ManagedInv, Types
  <2>2. \A n \in Objects : \/ object'[n] = object[n]
                           \/ object'[n] = [object[n] EXCEPT !.registered = life.started]
    BY <1>1 DEF ManagedInv, Types
  <2> QED
    BY <2>1, <2>2 DEF ObjectShape
<1>5. streams'[s] = o /\ \A u \in Streams \ {s} : streams'[u] = streams[u]
  BY <1>1 DEF ManagedInv, Types
<1>6. s \notin Enrolled /\ Enrolled' = Enrolled \cup {s}
  BY <1>1, <1>2, <1>5 DEF Enrolled
<1>7. \A u \in Enrolled : streams[u] \in Objects /\ streams'[u] = streams[u]
  BY <1>5, <1>6 DEF Enrolled, ManagedInv, Types, Objects, None
<1>8. WithPipeline' = WithPipeline
  <2>1. \A u \in Enrolled : object'[streams'[u]].pipeline.state = object[streams[u]].pipeline.state
    BY <1>4, <1>7
  <2>2. object'[streams'[s]].pipeline.state = "none"
    BY <1>2, <1>3, <1>4, <1>5
  <2> QED
    BY <1>6, <2>1, <2>2 DEF WithPipeline
<1>9. GroupStreams' = GroupStreams /\ InHands' = InHands
  BY <1>1, SameGroups, RestingHands
<1>10. access.owner
  BY <1>1, OpenWhileCallable DEF ManagedInv
<1> QED
  BY <1>1, <1>6, <1>8, <1>9, <1>10 DEF Leases!Enrol

\* What is removed belongs to no group, and its pipeline goes with it.
LEMMA RemovalWithdraws ==
  ASSUME ManagedInv, NEW s \in Streams, RemoveStream(s)
  PROVE  Leases!Withdraw(s)
<1>1. /\ UNCHANGED <<access, group, stepper>> /\ Callable
      /\ streams[s] # None /\ object[streams[s]].owner = 0
      /\ streams' = [streams EXCEPT ![s] = None]
      /\ object' = [object EXCEPT ![streams[s]] = StopPipeline(object[streams[s]])]
  BY DEF RemoveStream, Removable
<1>2. streams'[s] = None /\ \A u \in Streams \ {s} : streams'[u] = streams[u]
  BY <1>1 DEF ManagedInv, Types
<1>3. s \in Enrolled /\ Enrolled' = Enrolled \ {s}
  BY <1>1, <1>2 DEF Enrolled
<1>4. \A h \in Handles : s \notin GroupStreams[h]
  BY <1>1, MemberFacts
<1>5. ASSUME NEW u \in Enrolled, u # s
      PROVE  object'[streams'[u]] = object[streams[u]]
  <2>1. u \in Streams /\ streams[u] # None /\ streams'[u] = streams[u]
    BY <1>2, <1>5 DEF Enrolled
  <2>2. streams[u] \in Objects /\ streams[u] # streams[s]
    BY <1>1, <1>5, <2>1 DEF ManagedInv, Types, Numbered, Objects, None
  <2> QED
    BY <1>1, <2>1, <2>2 DEF ManagedInv, Types
<1>6. WithPipeline' = WithPipeline \ {s}
  BY <1>3, <1>5 DEF WithPipeline
<1>7. GroupStreams' = GroupStreams /\ InHands' = InHands
  BY <1>1, SameGroups, RestingHands
<1>8. access.owner
  BY <1>1, OpenWhileCallable DEF ManagedInv
<1> QED
  BY <1>1, <1>3, <1>4, <1>6, <1>7, <1>8 DEF Leases!Withdraw

\* register_streams leases the streams of its list, all of which are free.
LEMMA GroupLeases ==
  ASSUME ManagedInv, NEW h \in Handles, NEW list \in GroupLists, RegisterStreams(h, list)
  PROVE  \E ss \in SUBSET Enrolled : Leases!Lease(h, ss)
<1> DEFINE id == made.groups + 1
           ss == {list[i] : i \in DOMAIN list}
           listed(o) == \E i \in DOMAIN list : streams[list[i]] = o
<1>1. /\ UNCHANGED <<access, streams, stepper>> /\ Callable /\ group[h].id = 0
      /\ \A i \in DOMAIN list : streams[list[i]] # None /\ object[streams[list[i]]].owner = 0
      /\ group' = [group EXCEPT ![h] = [id |-> id, streams |-> list, stepping |-> FALSE]]
      /\ object' = [o \in Objects |->
                      IF listed(o) THEN [object[o] EXCEPT !.owner = id] ELSE object[o]]
  BY DEF RegisterStreams, Assignable
<1>2. list \in Seq(Streams) /\ list # <<>>
  BY GroupListFacts
<1>3. /\ group'[h] = [id |-> id, streams |-> list, stepping |-> FALSE]
      /\ \A g \in Handles \ {h} : group'[g] = group[g]
  BY <1>1 DEF ManagedInv, Types
<1> HIDE DEF id
<1>4. \A o \in Objects : object'[o].pipeline = object[o].pipeline
  <2>1. \A o \in Objects : ObjectShape(object[o])
    BY DEF ManagedInv, Types
  <2>2. \A o \in Objects : object'[o] = object[o] \/ object'[o] = [object[o] EXCEPT !.owner = id]
    BY <1>1
  <2> QED
    BY <2>1, <2>2 DEF ObjectShape
<1> HIDE DEF listed
<1>5. ss # {} /\ ss \subseteq Enrolled
  <2>1. 1 \in DOMAIN list
    BY <1>2
  <2>2. \A i \in DOMAIN list : list[i] \in Streams
    BY <1>2
  <2> QED
    BY <1>1, <2>1, <2>2 DEF Enrolled
<1>6. Members(h)' = ss
  BY <1>3 DEF Members
<1>7. \A g \in Handles \ {h} : Members(g)' = Members(g)
  BY <1>3 DEF Members
<1>8. GroupStreams[h] = {}
  BY <1>1, MemberFacts
<1>9. \A g \in Handles : GroupStreams[g] \cap ss = {}
  BY <1>1, MemberFacts
<1> HIDE DEF ss
<1>10. GroupStreams' = [GroupStreams EXCEPT ![h] = ss]
  BY <1>6, <1>7 DEF GroupStreams
<1>11. Enrolled' = Enrolled /\ WithPipeline' = WithPipeline /\ InHands' = InHands
  BY <1>1, <1>4, SameEnrolled, SamePipelines, RestingHands DEF ManagedInv
<1>12. access.owner
  BY <1>1, OpenWhileCallable DEF ManagedInv
<1>13. Leases!Lease(h, ss)
  BY <1>1, <1>5, <1>8, <1>9, <1>10, <1>11, <1>12 DEF Leases!Lease
<1> QED
  BY <1>5, <1>13

\* A handle is released when no thread uses it, and its streams are free again.
LEMMA ReleaseReturns ==
  ASSUME ManagedInv, NEW h \in Handles, ReleaseStreamGroup(h)
  PROVE  Leases!Return(h)
<1>1. /\ UNCHANGED <<access, streams, stepper>> /\ group[h].id # 0
      /\ \A t \in Steppers : stepper[t].handle # h
      /\ group' = [group EXCEPT ![h] = NoGroup]
  BY DEF ReleaseStreamGroup
<1>2. \A o \in Objects : object'[o].pipeline = object[o].pipeline
  <2>1. \A o \in Objects : ObjectShape(object[o])
    BY DEF ManagedInv, Types
  <2>2. \A o \in Objects : object'[o] = object[o] \/ object'[o] = [object[o] EXCEPT !.owner = 0]
    BY DEF ReleaseStreamGroup
  <2> QED
    BY <2>1, <2>2 DEF ObjectShape
<1>3. /\ group'[h] = NoGroup /\ \A g \in Handles \ {h} : group'[g] = group[g]
  BY <1>1 DEF ManagedInv, Types
<1>4. Members(h)' = {} /\ \A g \in Handles \ {h} : Members(g)' = Members(g)
  BY <1>3 DEF Members, NoGroup
<1>5. GroupStreams' = [GroupStreams EXCEPT ![h] = {}]
  BY <1>4 DEF GroupStreams
<1>6. GroupStreams[h] = Members(h) /\ Members(h) # {}
  BY <1>1, MemberFacts
<1>7. \A t \in Steppers : InHands[t] \cap GroupStreams[h] = {}
  <2>1. ASSUME NEW t \in Steppers, AtWork(t)
        PROVE  AtStream(t) \notin Members(h)
    BY <1>1, <2>1, HandFacts, GroupsApart
  <2> QED
    BY <1>6, <2>1, HandFacts
<1>8. Enrolled' = Enrolled /\ WithPipeline' = WithPipeline /\ InHands' = InHands
  BY <1>1, <1>2, SameEnrolled, SamePipelines, RestingHands DEF ManagedInv
<1> QED
  BY <1>1, <1>5, <1>6, <1>7, <1>8 DEF Leases!Return, Leases!Free

-----------------------------------------------------------------------------
(* What the producers and the API do shows nothing.                        *)

LEMMA ProducersUnseen ==
  ASSUME ManagedInv, NEW s \in Streams,
         PushValidate(s) \/ PushReject(s) \/ PushLatch(s) \/ PushNote(s)
  PROVE  UNCHANGED Leases!leaseVars
<1>1. UNCHANGED <<access, streams, group, stepper>>
  BY DEF PushValidate, PushReject, PushLatch, PushNote
<1>2. \/ object' = object \/ PushNote(s)
      \/ object' = [object EXCEPT ![streams[s]].pending = producer[s].clock]
  BY DEF PushValidate, PushReject, PushLatch, Latch
<1>3. CASE PushNote(s)
  BY <1>1, <1>3, NotedObjects, QuietUnseen DEF ManagedInv, Alike
<1>4. CASE ~PushNote(s)
  <2>1. \A o \in Objects : \/ object'[o] = object[o]
                           \/ object'[o] = [object[o] EXCEPT !.pending = producer[s].clock]
    BY <1>2, <1>4 DEF ManagedInv, Types
  <2>2. \A o \in Objects : ObjectShape(object[o])
    BY DEF ManagedInv, Types
  <2>3. \A o \in Objects : object'[o].pipeline = object[o].pipeline
    BY <2>1, <2>2 DEF ObjectShape
  <2> QED
    BY <1>1, <2>3, QuietUnseen DEF ManagedInv
<1> QED
  BY <1>3, <1>4

LEMMA ApiUnseen ==
  ASSUME ManagedInv, ApiExit \/ \E a \in ApiThreads : ApiTurn(a)
  PROVE  UNCHANGED Leases!leaseVars
<1>1. CASE \/ ApiExit
           \/ \E a \in ApiThreads :
                \/ ApiBegin(a) \/ ApiDeliver(a) \/ ApiAccept(a)
                \/ \E ok \in PumpResults : ApiPump(a, ok) \/ ApiServed(a, ok)
  BY <1>1, QuietUnseen
     DEF ApiExit, ApiBegin, ApiDeliver, ApiAccept, ApiPump, ApiServed, ManagedInv
<1>2. ASSUME NEW a \in ApiThreads, NEW s \in Streams, NEW n \in Objects, ApiDrain(a, s, n)
      PROVE  UNCHANGED Leases!leaseVars
  <2> DEFINE h == AfterDrain(object[n].handoff)
  <2>1. /\ object' = [object EXCEPT ![n].handoff = h]
        /\ UNCHANGED <<access, streams, group, stepper>>
    BY <1>2 DEF ApiDrain
  <2> HIDE DEF h
  <2>2. \A o \in Objects : object'[o] = object[o] \/ object'[o] = [object[o] EXCEPT !.handoff = h]
    BY <2>1 DEF ManagedInv, Types
  <2>3. \A o \in Objects : ObjectShape(object[o])
    BY DEF ManagedInv, Types
  <2>4. \A o \in Objects : object'[o].pipeline = object[o].pipeline
    BY <2>2, <2>3 DEF ObjectShape
  <2> QED
    BY <2>1, <2>4, QuietUnseen DEF ManagedInv
<1> QED
  BY <1>1, <1>2 DEF ApiTurn, ApiStep

-----------------------------------------------------------------------------
(* What a stepping thread does.                                            *)

\* A thread that does not get to a stream, or stays at its stream, shows nothing.
LEMMA SameStreamInHand ==
  ASSUME Types, NEW t \in Steppers, NEW r, stepper' = [stepper EXCEPT ![t] = r],
         IF AtWork(t)
         THEN r.pc \in {"take", "encode", "publish"} /\ r.todo = stepper[t].todo
         ELSE r.pc \notin {"take", "encode", "publish"}
  PROVE  InHands' = InHands
<1>1. stepper'[t] = r /\ \A u \in Steppers \ {t} : stepper'[u] = stepper[u]
  BY DEF Types
<1>2. \A u \in Steppers \ {t} : InHand(u)' = InHand(u)
  BY <1>1 DEF InHand, AtStream
<1>3. InHand(t)' = InHand(t)
  BY <1>1 DEF InHand, AtStream, AtWork
<1> QED
  BY <1>2, <1>3, SameHands

LEMMA EnteringUnseen ==
  ASSUME ManagedInv, NEW t \in Steppers,
         StepEnter(t) \/ StepLeave(t) \/ \E h \in Handles : StepBegin(t, h)
  PROVE  UNCHANGED Leases!leaseVars
<1>1. UNCHANGED <<streams, object>> /\ ~AtWork(t)
  BY DEF StepEnter, StepLeave, StepBegin, AtWork
<1>2. access'.owner = access.owner
  BY DEF StepEnter, StepLeave, StepBegin, ManagedInv, Types, AccessType
<1>3. GroupStreams' = GroupStreams
  <2>1. \/ group' = group
        \/ \E h \in Handles, b \in BOOLEAN : group' = [group EXCEPT ![h].stepping = b]
    BY DEF StepEnter, StepLeave, StepBegin, ManagedInv, Admitted
  <2>2. \A h \in Handles : group'[h].streams = group[h].streams
    BY <2>1, FlagChanges DEF ManagedInv
  <2> QED
    BY <2>2, SameGroups
<1>4. InHands' = InHands
  <2>1. PICK r : /\ stepper' = [stepper EXCEPT ![t] = r]
                 /\ r.pc \notin {"take", "encode", "publish"}
    <3>1. CASE StepLeave(t)
      BY <3>1, IdleStepperShape DEF StepLeave
    <3>2. CASE StepEnter(t)
      <4>1. StepperShape(stepper[t])
        BY DEF ManagedInv, Types
      <4> DEFINE q == group[stepper[t].handle].streams
                 r == [stepper[t] EXCEPT !.pc = "lookup", !.todo = q]
      <4>2. stepper' = [stepper EXCEPT ![t] = IdleStepper] \/ stepper' = [stepper EXCEPT ![t] = r]
        BY <3>2 DEF StepEnter
      <4> HIDE DEF q
      <4>3. r.pc = "lookup"
        BY <4>1 DEF StepperShape
      <4> HIDE DEF r
      <4> QED
        BY <4>2, <4>3, IdleStepperShape
    <3>3. ASSUME NEW h \in Handles, StepBegin(t, h)
          PROVE  \E r : /\ stepper' = [stepper EXCEPT ![t] = r]
                        /\ r.pc \notin {"take", "encode", "publish"}
      <4> DEFINE r == [IdleStepper EXCEPT !.pc = "enter", !.handle = h]
      <4>1. stepper' = [stepper EXCEPT ![t] = r]
        BY <3>3 DEF StepBegin
      <4>2. r.pc = "enter"
        BY IdleStepperShape
      <4> HIDE DEF r
      <4> QED
        BY <4>1, <4>2
    <3> QED
      BY <3>1, <3>2, <3>3
  <2> QED
    BY <1>1, <2>1, SameStreamInHand DEF ManagedInv
<1>5. WithPipeline' = WithPipeline /\ Enrolled' = Enrolled
  BY <1>1, SamePipelines, SameEnrolled DEF ManagedInv
<1> QED
  BY <1>2, <1>3, <1>4, <1>5, Unseen

\* A step that changes at most the object in the thread's hand leaves every other
\* stream's pipeline alone.
LEMMA OwnPipelineOnly ==
  ASSUME ManagedInv, NEW t \in Steppers, AtWork(t), streams' = streams,
         \A o \in Objects \ {stepper[t].object} : object'[o] = object[o]
  PROVE  Leases!Leaves(t)
<1> DEFINE s == AtStream(t)
           ss == IF s \in WithPipeline' THEN {s} ELSE {}
<1>1. InHands[t] = {s} /\ streams[s] = stepper[t].object /\ s \in Streams
  BY HandFacts
<1>2. Enrolled' = Enrolled
  BY SameEnrolled
<1>3. ASSUME NEW u \in Enrolled, u # s
      PROVE  object'[streams'[u]] = object[streams[u]]
  <2>1. u \in Streams /\ streams[u] \in Objects /\ streams[u] # None
    BY DEF Enrolled, ManagedInv, Types, Objects, None
  <2>2. streams[u] # streams[s]
    BY <1>1, <1>3, <2>1 DEF ManagedInv, Numbered
  <2> QED
    BY <1>1, <2>1, <2>2
<1>4. \A u : u # s => (u \in WithPipeline' <=> u \in WithPipeline)
  BY <1>2, <1>3 DEF WithPipeline
<1> HIDE DEF s
<1>5. ss \in SUBSET {s} /\ WithPipeline' = (WithPipeline \ {s}) \cup ss
  BY <1>4
<1> HIDE DEF ss
<1> QED
  BY <1>1, <1>5 DEF Leases!Leaves

\* The lookup of a registered stream takes it in hand: nobody else of the group
\* has one, and no other group has the stream.
LEMMA LookupTakesUp ==
  ASSUME ManagedInv, NEW t \in Steppers, StepLookup(t)
  PROVE  \/ UNCHANGED Leases!leaseVars
         \/ \E g \in Handles : \E s \in GroupStreams[g] : Leases!TakeUp(t, g, s)
<1>1. /\ UNCHANGED <<access, streams, object, group>>
      /\ stepper[t].pc = "lookup" /\ ~AtWork(t) /\ Inside(t)
  BY DEF StepLookup, AtWork, Inside
<1>2. Enrolled' = Enrolled /\ GroupStreams' = GroupStreams /\ WithPipeline' = WithPipeline
  BY <1>1, SameEnrolled, SameGroups, SamePipelines DEF ManagedInv
<1>3. StepperShape(stepper[t])
  BY DEF ManagedInv, Types
<1>4. CASE streams[AtStream(t)] = None
  <2>1. NextStream(t)
    BY <1>4 DEF StepLookup
  <2>2. Through(t)
    BY <1>1, <2>1, NextStreamThrough DEF ManagedInv
  <2>3. \A u \in Steppers \ {t} : InHand(u)' = InHand(u)
    BY <2>2 DEF Through, InHand, AtStream
  <2>4. InHand(t) = {} /\ InHand(t)' = {}
    BY <1>1, <2>2 DEF Through, InHand
  <2>5. InHands' = InHands
    BY <2>3, <2>4, SameHands
  <2> QED
    BY <1>1, <1>2, <2>5, Unseen
<1>5. CASE streams[AtStream(t)] # None
  <2> DEFINE n == streams[AtStream(t)]
             r == [stepper[t] EXCEPT !.pc = "take", !.object = n]
             g == stepper[t].handle
             s == AtStream(t)
  <2>1. stepper' = [stepper EXCEPT ![t] = r]
    BY <1>5 DEF StepLookup
  <2> HIDE DEF n
  <2>2. r.pc = "take" /\ r.todo = stepper[t].todo
    BY <1>3 DEF StepperShape
  <2> HIDE DEF r
  <2>3. stepper'[t] = r /\ \A u \in Steppers \ {t} : stepper'[u] = stepper[u]
    BY <2>1 DEF ManagedInv, Types
  <2>4. \A u \in Steppers \ {t} : InHand(u)' = InHand(u)
    BY <2>3 DEF InHand, AtStream
  <2>5. InHand(t) = {} /\ InHand(t)' = {s}
    BY <1>1, <2>2, <2>3 DEF InHand, AtStream
  <2>6. InHands' = [InHands EXCEPT ![t] = {s}]
    BY <2>4, <2>5 DEF InHands
  <2>7. g \in Handles /\ stepper[t].todo \in Seq(Streams) /\ stepper[t].todo # <<>>
    BY <1>1, <1>3 DEF ManagedInv, Admitted, StepperShape
  <2>8. 1 \in DOMAIN stepper[t].todo /\ s = stepper[t].todo[1]
    BY <2>7, TailFacts DEF AtStream
  <2>9. s \in Members(g)
    BY <1>1, <2>7, <2>8 DEF ManagedInv, Admitted
  <2> HIDE DEF s
  <2>10. s \in GroupStreams[g]
    BY <2>7, <2>9, MemberFacts
  <2>11. \A u \in Steppers : InHands[u] \cap GroupStreams[g] = {}
    <3>1. ASSUME NEW u \in Steppers, AtWork(u)
          PROVE  AtStream(u) \notin Members(g)
      <4>1. CASE AtStream(u) \in Members(g)
        <5>1. stepper[u].handle = g
          BY <2>7, <3>1, <4>1, HandFacts, GroupsApart
        <5>2. stepper[u].pc # "idle" /\ stepper[t].pc # "idle"
          BY <1>1, <3>1 DEF AtWork
        <5>3. u = t
          BY <5>1, <5>2 DEF ManagedInv, Admitted
        <5> QED
          BY <1>1, <3>1, <5>3
      <4> QED
        BY <4>1
    <3> QED
      BY <2>7, <3>1, HandFacts, MemberFacts
  <2>12. access.owner
    BY <1>1 DEF ManagedInv, Phased
  <2>13. InHands[t] = {}
    BY <2>5, HandFacts
  <2>14. Leases!TakeUp(t, g, s)
    BY <1>1, <1>2, <2>6, <2>10, <2>11, <2>12, <2>13 DEF Leases!TakeUp, Leases!Free
  <2> QED
    BY <2>7, <2>10, <2>14
<1> QED
  BY <1>4, <1>5

\* A thread that is through with its stream lays it down.
LEMMA ThroughLaysDown ==
  ASSUME ManagedInv, NEW t \in Steppers, AtWork(t), Through(t),
         UNCHANGED <<access, streams, group>>, Leases!Leaves(t)
  PROVE  Leases!LayDown(t)
<1>1. InHands[t] = {AtStream(t)}
  BY HandFacts
<1>2. \A u \in Steppers \ {t} : InHand(u)' = InHand(u)
  BY DEF Through, InHand, AtStream
<1>3. InHand(t)' = {}
  BY DEF Through, InHand
<1>4. InHands' = [InHands EXCEPT ![t] = {}]
  BY <1>2, <1>3 DEF InHands
<1>5. Enrolled' = Enrolled /\ GroupStreams' = GroupStreams
  BY SameEnrolled, SameGroups
<1> QED
  BY <1>1, <1>4, <1>5 DEF Leases!LayDown

\* The ends of process_stream: idle, refused, failed, or published.
LEMMA EndsLayDown ==
  ASSUME ManagedInv, NEW t \in Steppers,
         \/ StepTransformFails(t) \/ StepPublish(t)
         \/ StepPipelineFails(t) \/ StepEncodeFails(t)
  PROVE  Leases!LayDown(t)
<1>1. /\ UNCHANGED <<access, streams, group>> /\ AtWork(t)
      /\ NextStream(t) \/ FailStep(t)
  BY DEF StepTransformFails, StepPublish, StepPipelineFails, StepEncodeFails, AtWork
<1>2. Through(t)
  BY <1>1, NextStreamThrough, FailStepThrough DEF ManagedInv
<1>3. \A o \in Objects \ {stepper[t].object} : object'[o] = object[o]
  <2>1. CASE StepTransformFails(t) \/ StepPublish(t)
    BY <2>1 DEF StepTransformFails, StepPublish
  <2>2. CASE StepPipelineFails(t)
    <3> DEFINE r == StopPipeline(object[stepper[t].object])
    <3>1. object' = [object EXCEPT ![stepper[t].object] = r]
      BY <2>2 DEF StepPipelineFails
    <3> HIDE DEF r
    <3> QED
      BY <3>1 DEF ManagedInv, Types
  <2>3. CASE StepEncodeFails(t)
    <3> DEFINE e == EnsurePipeline(object[stepper[t].object], stepper[t].gen)
               r == [e EXCEPT !.pipeline.state = "failed", !.pipeline.held = <<>>]
    <3>1. object' = [object EXCEPT ![stepper[t].object] = r]
      BY <2>3 DEF StepEncodeFails
    <3> HIDE DEF r
    <3> QED
      BY <3>1 DEF ManagedInv, Types
  <2> QED
    BY <2>1, <2>2, <2>3
<1>4. Leases!Leaves(t)
  BY <1>1, <1>3, OwnPipelineOnly
<1> QED
  BY <1>1, <1>2, <1>4, ThroughLaysDown

LEMMA TakingStaysOrLaysDown ==
  ASSUME ManagedInv, NEW t \in Steppers, StepTake(t)
  PROVE  UNCHANGED Leases!leaseVars \/ Leases!LayDown(t)
<1> DEFINE n == stepper[t].object
           f == object[n].pending
           g == core[AtStream(t)].gen
           d == IF core[AtStream(t)].interval > 0
                THEN object[n].pending + core[AtStream(t)].interval ELSE 0
           r == [stepper[t] EXCEPT !.pc = "encode", !.gen = g, !.frame = f]
<1>1. UNCHANGED <<access, streams, group>> /\ AtWork(t)
  BY DEF StepTake, AtWork
<1>2. CASE object' = object /\ (NextStream(t) \/ FailStep(t))
  <2>1. Through(t)
    BY <1>1, <1>2, NextStreamThrough, FailStepThrough DEF ManagedInv
  <2>2. Leases!Leaves(t)
    BY <1>1, <1>2, OwnPipelineOnly
  <2> QED
    BY <1>1, <2>1, <2>2, ThroughLaysDown
<1>3. CASE /\ object' = [object EXCEPT ![n].pending = None, ![n].due = d]
           /\ stepper' = [stepper EXCEPT ![t] = r]
  <2> HIDE DEF d, f, g
  <2>1. \A o \in Objects : \/ object'[o] = object[o]
                           \/ object'[o] = [object[o] EXCEPT !.pending = None, !.due = d]
    BY <1>3 DEF ManagedInv, Types
  <2>2. \A o \in Objects : ObjectShape(object[o])
    BY DEF ManagedInv, Types
  <2>3. \A o \in Objects : object'[o].pipeline = object[o].pipeline
    BY <2>1, <2>2 DEF ObjectShape
  <2>4. StepperShape(stepper[t])
    BY DEF ManagedInv, Types
  <2>5. r.pc = "encode" /\ r.todo = stepper[t].todo
    BY <2>4 DEF StepperShape
  <2> HIDE DEF r
  <2>6. InHands' = InHands
    BY <1>1, <1>3, <2>5, SameStreamInHand DEF ManagedInv
  <2>7. /\ Enrolled' = Enrolled /\ GroupStreams' = GroupStreams
        /\ WithPipeline' = WithPipeline
    BY <1>1, <2>3, SameEnrolled, SameGroups, SamePipelines DEF ManagedInv
  <2> QED
    BY <1>1, <2>6, <2>7, Unseen
<1>4. \/ object' = object /\ (NextStream(t) \/ FailStep(t))
      \/ /\ object' = [object EXCEPT ![n].pending = None, ![n].due = d]
         /\ stepper' = [stepper EXCEPT ![t] = r]
  BY DEF StepTake
<1> QED
  BY <1>2, <1>3, <1>4

\* Encoding may build the pipeline of the stream in hand, or build it anew.
LEMMA EncodingWorks ==
  ASSUME ManagedInv, NEW t \in Steppers, NEW keep, NEW kind, StepEncode(t, keep, kind)
  PROVE  Leases!Works(t)
<1> DEFINE r == [stepper[t] EXCEPT !.pc = "publish"]
<1>1. /\ UNCHANGED <<access, streams, group>>
      /\ stepper' = [stepper EXCEPT ![t] = r]
  BY DEF StepEncode
<1>2. AtWork(t) /\ \A o \in Objects \ {stepper[t].object} : object'[o] = object[o]
  BY StepEncodeFacts
<1>3. r.pc = "publish" /\ r.todo = stepper[t].todo
  <2>1. StepperShape(stepper[t])
    BY DEF ManagedInv, Types
  <2> QED
    BY <2>1 DEF StepperShape
<1> HIDE DEF r
<1>4. InHands' = InHands
  BY <1>1, <1>2, <1>3, SameStreamInHand DEF ManagedInv
<1>5. Leases!Leaves(t)
  BY <1>1, <1>2, OwnPipelineOnly
<1>6. InHands[t] # {}
  BY <1>2, HandFacts
<1>7. Enrolled' = Enrolled /\ GroupStreams' = GroupStreams
  BY <1>1, SameEnrolled, SameGroups
<1> QED
  BY <1>1, <1>4, <1>5, <1>6, <1>7 DEF Leases!Works

-----------------------------------------------------------------------------
(* The refinement.                                                         *)

LEMMA LeasesStart ==
  ASSUME Init
  PROVE  Leases!LeasesInit
<1>1. ManagedInv
  BY ManagedInit
<1>2. \A h \in Handles : Members(h) = {}
  BY DEF Init, NoGroup, Members
<1>3. \A t \in Steppers : InHand(t) = {}
  BY DEF Init, IdleStepper, InHand
<1>4. \A s \in Streams : streams[s] \in InitialObjects
  BY DEF Init
<1>5. Enrolled = Streams
  <2>1. \A s \in Streams : streams[s] # None
    BY <1>4 DEF InitialObjects, None
  <2> QED
    BY <2>1 DEF Enrolled
<1>6. WithPipeline = {}
  <2>1. \A s \in Streams : streams[s] # None => streams[s] \in Objects
    BY <1>1 DEF ManagedInv, Types, Objects, None
  <2>2. \A o \in Objects : object[o].pipeline.state = "none"
    BY DEF Init, NewObject, NoPipeline
  <2> QED
    BY <2>1, <2>2 DEF WithPipeline, Enrolled
<1>7. access.owner = TRUE
  BY DEF Init
<1> QED
  BY <1>2, <1>3, <1>5, <1>6, <1>7 DEF Leases!LeasesInit, GroupStreams, InHands

LEMMA StepperLeases ==
  ASSUME ManagedInv, NEW t \in Steppers,
         (\E h \in Handles : StepBegin(t, h)) \/ StepperStep(t)
  PROVE  Leases!LeasesNext \/ UNCHANGED Leases!leaseVars
<1>1. CASE StepEnter(t) \/ StepLeave(t) \/ \E h \in Handles : StepBegin(t, h)
  BY <1>1, EnteringUnseen
<1>2. CASE StepLookup(t)
  <2>1. ASSUME NEW g \in Handles, NEW s \in GroupStreams[g], Leases!TakeUp(t, g, s)
        PROVE  Leases!LeasesNext
    BY <2>1 DEF Leases!LeasesNext
  <2> QED
    BY <1>2, <2>1, LookupTakesUp
<1>3. CASE StepTake(t)
  <2>1. Leases!LayDown(t) => Leases!LeasesNext
    BY DEF Leases!LeasesNext
  <2> QED
    BY <1>3, <2>1, TakingStaysOrLaysDown
<1>4. CASE \E keep \in 0..EncoderDelay, kind \in LaterKinds : StepEncode(t, keep, kind)
  <2>1. Leases!Works(t)
    BY <1>4, EncodingWorks
  <2> QED
    BY <2>1 DEF Leases!LeasesNext
<1>5. CASE \/ StepTransformFails(t) \/ StepPublish(t)
           \/ StepPipelineFails(t) \/ StepEncodeFails(t)
  <2>1. Leases!LayDown(t)
    BY <1>5, EndsLayDown
  <2> QED
    BY <2>1 DEF Leases!LeasesNext
<1> QED
  BY <1>1, <1>2, <1>3, <1>4, <1>5 DEF StepperStep

LEMMA OwnerLeases ==
  ASSUME ManagedInv, OwnerStep
  PROVE  Leases!LeasesNext \/ UNCHANGED Leases!leaseVars
<1>1. CASE \/ \E opened \in BOOLEAN : Start(opened)
           \/ UnwindStart \/ StopBegin \/ DestroyBegin
           \/ \E s \in Streams : \E interval \in {0, 2} : SetOutputConfig(s, interval)
  BY <1>1, OwnerUnseen
<1>2. CASE StopFinish
  BY <1>2, StoppingStops DEF Leases!LeasesNext
<1>3. CASE DestroyDrained
  BY <1>3, DrainedCloses DEF Leases!LeasesNext
<1>4. ASSUME NEW s \in Streams, RegisterStream(s) \/ RemoveStream(s)
      PROVE  Leases!LeasesNext
  <2>1. Leases!Enrol(s) \/ Leases!Withdraw(s)
    BY <1>4, RegisteringEnrols, RemovalWithdraws
  <2> QED
    BY <2>1 DEF Leases!LeasesNext
<1>5. ASSUME NEW h \in Handles, NEW list \in GroupLists, RegisterStreams(h, list)
      PROVE  Leases!LeasesNext
  <2>1. \E ss \in SUBSET Enrolled : Leases!Lease(h, ss)
    BY <1>5, GroupLeases
  <2> QED
    BY <2>1 DEF Leases!LeasesNext
<1>6. ASSUME NEW h \in Handles, ReleaseStreamGroup(h)
      PROVE  Leases!LeasesNext
  <2>1. Leases!Return(h)
    BY <1>6, ReleaseReturns
  <2> QED
    BY <2>1 DEF Leases!LeasesNext
<1> QED
  BY <1>1, <1>2, <1>3, <1>4, <1>5, <1>6 DEF OwnerStep

LEMMA LeasesStep ==
  ASSUME ManagedInv, [Next]_vars
  PROVE  [Leases!LeasesNext]_(Leases!leaseVars)
<1>1. CASE OwnerStep
  BY <1>1, OwnerLeases
<1>2. CASE \E s \in Sources : PushValidate(s) \/ PushReject(s) \/ PushLatch(s) \/ PushNote(s)
  BY <1>2, ManagedAssumption, ProducersUnseen DEF ManagedAssumption
<1>3. CASE \E t \in Steppers : (\E h \in Handles : StepBegin(t, h)) \/ StepperStep(t)
  BY <1>3, StepperLeases
<1>4. CASE ApiExit \/ \E a \in ApiThreads : ApiTurn(a)
  BY <1>4, ApiUnseen
<1>5. CASE UNCHANGED vars
  BY <1>5, QuietUnseen DEF vars, ManagedInv
<1> QED
  BY <1>1, <1>2, <1>3, <1>4, <1>5 DEF Next

\* register_streams, step_streams, remove_stream and the destructor, for any number
\* of streams, groups and threads: every critical section is a step that the
\* contract of StreamLeases allows, or shows nothing of it.
THEOREM ManagedImplementsLeases == Spec => ImplementsLeases
<1>1. Init => Leases!LeasesInit
  BY LeasesStart
<1>2. ManagedInv /\ [Next]_vars => [Leases!LeasesNext]_(Leases!leaseVars)
  BY LeasesStep
<1> QED
  BY <1>1, <1>2, ManagedInvariant, PTL DEF Spec, ImplementsLeases, Leases!LeasesSpec
=============================================================================
