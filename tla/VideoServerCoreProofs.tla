------------------------- MODULE VideoServerCoreProofs -------------------------
(***************************************************************************)
(* The throttle and the counters of VideoServerCore for any number of      *)
(* streams, threads, frames and reconfigurations.                          *)
(***************************************************************************)
EXTENDS VideoServerCore, FiniteSetTheorems, TLAPS

USE DEF None

-----------------------------------------------------------------------------
(* Types.                                                                  *)

\* The initial state has its type.
LEMMA TypeInit == Init => TypeOK
  BY CoreAssumption
     DEF Init, TypeOK, Absent, NoGhost, Idle, StreamState, PusherState, GhostState

\* Writing one stream, one thread or one ghost keeps the type of all of them.
LEMMA TypeOfUpdates ==
  ASSUME TypeOK, NEW s \in Streams, NEW p \in Pushers,
         NEW c \in StreamState, NEW f \in PusherState, NEW g \in GhostState
  PROVE  /\ [stream EXCEPT ![s] = c] \in [Streams -> StreamState]
         /\ [pusher EXCEPT ![p] = f] \in [Pushers -> PusherState]
         /\ [ghost EXCEPT ![s] = g] \in [Streams -> GhostState]
         /\ (f.pc = "idle" \/ f.stream \in Streams) =>
              \A q \in Pushers : [pusher EXCEPT ![p] = f][q].pc # "idle" =>
                                   [pusher EXCEPT ![p] = f][q].stream \in Streams
  BY DEF TypeOK

\* What is written into a stream, a thread or a ghost is one.
LEMMA TypeOfWrites ==
  ASSUME NEW c \in StreamState, NEW f \in PusherState, NEW g \in GhostState,
         NEW interval \in Nat, clock \in Nat
  PROVE  /\ Reconfigured(c, interval) \in StreamState
         /\ Dropped(c) \in StreamState
         /\ Received(c) \in StreamState
         /\ Published(c, f) \in StreamState
         /\ Refreshed(g) \in GhostState
         /\ [g EXCEPT !.rejected = @ + 1] \in GhostState
         /\ [g EXCEPT !.foreign = @ + 1] \in GhostState
         /\ [f EXCEPT !.pc = "transform", !.life = c.life] \in PusherState
         /\ [f EXCEPT !.pc = "transform", !.life = c.life].stream = f.stream
<1>1. Reconfigured(c, interval) \in StreamState
  <2> DEFINE n == c.gen + 1
             z == 0
             c1 == [c EXCEPT !.gen = n, !.interval = interval]
  <2>1. n \in Nat /\ z \in Nat
    BY DEF StreamState
  <2>2. Reconfigured(c, interval) = [c1 EXCEPT !.next = z, !.latest = z, !.latestGen = z]
    BY DEF Reconfigured
  <2> HIDE DEF n, z
  <2>3. c1 \in StreamState
    BY <2>1 DEF StreamState
  <2> HIDE DEF c1
  <2> QED
    BY <2>1, <2>2, <2>3 DEF StreamState
<1>2. Dropped(c) \in StreamState
  BY DEF Dropped, StreamState
<1>3. Received(c) \in StreamState
  BY DEF Received, StreamState
<1>4. Published(c, f) \in StreamState
  <2> DEFINE n == c.transformed + 1
             t == f.ts
             h == f.gen
  <2>1. n \in Nat /\ t \in Nat /\ h \in Nat
    BY DEF StreamState, PusherState
  <2>2. Published(c, f) = [c EXCEPT !.latest = t, !.latestGen = h, !.transformed = n]
    BY DEF Published
  <2> HIDE DEF n, t, h
  <2> QED
    BY <2>1, <2>2 DEF StreamState
<1>5. Refreshed(g) \in GhostState
  BY DEF Refreshed, GhostState
<1>6. [g EXCEPT !.rejected = @ + 1] \in GhostState
  BY DEF GhostState
<1>7. [g EXCEPT !.foreign = @ + 1] \in GhostState
  BY DEF GhostState
<1>8. /\ [f EXCEPT !.pc = "transform", !.life = c.life] \in PusherState
      /\ [f EXCEPT !.pc = "transform", !.life = c.life].stream = f.stream
  BY DEF PusherState, StreamState
<1> QED
  BY <1>1, <1>2, <1>3, <1>4, <1>5, <1>6, <1>7, <1>8

\* What an admitted frame leaves in its stream and in the ghost.
LEMMA AdmittedFacts ==
  ASSUME NEW c \in StreamState, NEW f \in PusherState, NEW g \in GhostState
  PROVE  /\ Admitted(c, f) \in StreamState
         /\ Admitted(c, f).life = c.life /\ Admitted(c, f).gen = c.gen
         /\ Admitted(c, f).interval = c.interval
         /\ f.interval > 0 => Admitted(c, f).next = f.ts + f.interval
         /\ ~(f.interval > 0) => Admitted(c, f).next = c.next
         /\ Remembered(g, c, f) \in GhostState
         /\ Current(f, c) => Remembered(g, c, f).admitted = f.ts
         /\ ~Current(f, c) => Remembered(g, c, f).admitted = g.admitted
         /\ Remembered(g, c, f).stray <=> g.stray \/ (~Current(f, c) /\ f.interval > 0)
         /\ Remembered(g, c, f).since = g.since
<1> DEFINE n == IF f.interval > 0 THEN NextAllowed(f) ELSE c.next
           a == IF Current(f, c) THEN f.ts ELSE g.admitted
           r == g.stray \/ (~Current(f, c) /\ f.interval > 0)
<1>1. /\ n \in Nat /\ a \in Nat /\ r \in BOOLEAN
      /\ f.interval > 0 => n = f.ts + f.interval
      /\ ~(f.interval > 0) => n = c.next
      /\ Current(f, c) => a = f.ts
      /\ ~Current(f, c) => a = g.admitted
  BY DEF NextAllowed, StreamState, PusherState, GhostState
<1>2. /\ Admitted(c, f) = [Received(c) EXCEPT !.next = n]
      /\ Received(c) \in StreamState
      /\ Received(c) = [c EXCEPT !.received = c.received + 1]
  BY DEF Admitted, Received, StreamState
<1>3. Remembered(g, c, f) = [g EXCEPT !.admitted = a, !.stray = r]
  BY DEF Remembered
<1> HIDE DEF n, a, r
<1>4. /\ Admitted(c, f) \in StreamState /\ Admitted(c, f).next = n
      /\ Admitted(c, f).life = c.life /\ Admitted(c, f).gen = c.gen
      /\ Admitted(c, f).interval = c.interval
  BY <1>1, <1>2 DEF StreamState
<1>5. /\ Remembered(g, c, f) \in GhostState
      /\ Remembered(g, c, f).admitted = a /\ Remembered(g, c, f).stray = r
      /\ Remembered(g, c, f).since = g.since
  BY <1>1, <1>3 DEF GhostState
<1> QED
  BY <1>1, <1>4, <1>5 DEF r

\* Registration, removal and reconfiguration keep the types.
LEMMA TypeRegistry ==
  ASSUME TypeOK, NEW s \in Streams,
         \/ RegisterStream(s) \/ RemoveStream(s)
         \/ \E interval \in Intervals : SetOutputConfig(s, interval)
  PROVE  TypeOK'
<1>1. CASE RegisterStream(s)
  BY <1>1 DEF RegisterStream, TypeOK, Absent, NoGhost, StreamState, PusherState, GhostState
<1>2. CASE RemoveStream(s)
  BY <1>2 DEF RemoveStream, TypeOK, Absent, StreamState, PusherState
<1>3. ASSUME NEW interval \in Intervals, SetOutputConfig(s, interval) PROVE TypeOK'
  <2>0. interval \in Nat
    BY CoreAssumption
  <2>1. /\ Reconfigured(stream[s], interval) \in StreamState
        /\ Refreshed(ghost[s]) \in GhostState
    BY <2>0, TypeOfWrites, Idle \in PusherState DEF TypeOK, PusherState, Idle
  <2>2. made' \in [lives : Nat, configs : Nat]
    BY <1>3 DEF SetOutputConfig, TypeOK
  <2> QED
    BY <1>3, <2>1, <2>2 DEF SetOutputConfig, TypeOK
<1> QED
  BY <1>1, <1>2, <1>3

\* The first critical section of push_frame keeps the types.
LEMMA TypeValidate ==
  ASSUME TypeOK, NEW p \in Pushers, NEW s \in Streams, NEW fits \in BOOLEAN,
         PushValidate(p, s, fits)
  PROVE  TypeOK'
  BY DEF PushValidate, TypeOK, StreamState, PusherState

\* A thread that returns is idle, and only the ghosts change with it.
LEMMA TypeReturns ==
  ASSUME TypeOK, NEW p \in Pushers, pusher[p].stream \in Streams, PushReturns(p)
  PROVE  /\ pusher' \in [Pushers -> PusherState]
         /\ \A q \in Pushers : pusher'[q].pc # "idle" => pusher'[q].stream \in Streams
         /\ ghost' \in [Streams -> GhostState]
         /\ UNCHANGED <<clock, made>>
<1> DEFINE s == pusher[p].stream
           g == [ghost[s] EXCEPT !.foreign = @ + 1]
<1>1. g \in GhostState /\ Idle \in PusherState /\ Idle.pc = "idle"
  BY DEF TypeOK, GhostState, PusherState, Idle
<1>2. /\ pusher' = [pusher EXCEPT ![p] = Idle] /\ UNCHANGED <<clock, made>>
      /\ ghost' = [ghost EXCEPT ![s] = g] \/ ghost' = ghost
  BY DEF PushReturns
<1> HIDE DEF g
<1> QED
  BY <1>1, <1>2 DEF TypeOK

\* The other critical sections keep the types.
LEMMA TypePush ==
  ASSUME TypeOK, NEW p \in Pushers, PushStep(p)
  PROVE  TypeOK'
<1> DEFINE s == pusher[p].stream
           c == stream[s]
           f == pusher[p]
<1>1. /\ s \in Streams /\ f \in PusherState /\ c \in StreamState
      /\ ghost[s] \in GhostState /\ f.stream = s
  BY DEF PushStep, PushReject, PushVanished, PushThrottled, PushAdmitted,
         PushTransformFails, PushPublish, TypeOK
<1>2. Idle \in PusherState /\ Idle.pc = "idle"
  BY DEF PusherState, Idle
<1>3. /\ Dropped(c) \in StreamState /\ Dropped(Received(c)) \in StreamState
      /\ Published(c, f) \in StreamState /\ clock \in Nat
  BY <1>1, TypeOfWrites DEF TypeOK
<1>4. CASE PushReject(p)
  <2> DEFINE g1 == [ghost[s] EXCEPT !.rejected = @ + 1]
  <2>1. g1 \in GhostState
    BY <1>1 DEF GhostState
  <2>2. /\ \/ stream' = [stream EXCEPT ![s] = Dropped(c)] /\ ghost' = [ghost EXCEPT ![s] = g1]
           \/ UNCHANGED <<stream, ghost>>
        /\ pusher' = [pusher EXCEPT ![p] = Idle] /\ UNCHANGED <<clock, made>>
    BY <1>4 DEF PushReject
  <2> HIDE DEF g1, s, c
  <2> QED
    BY <1>1, <1>2, <1>3, <2>1, <2>2 DEF TypeOK
<1>5. CASE PushVanished(p)
  BY <1>1, <1>2, <1>5 DEF PushVanished, TypeOK
<1>6. CASE PushThrottled(p)
  <2>1. /\ stream' = [stream EXCEPT ![s] = Dropped(Received(c))]
        /\ pusher' = [pusher EXCEPT ![p] = Idle] /\ UNCHANGED <<clock, made, ghost>>
    BY <1>6 DEF PushThrottled
  <2> HIDE DEF s, c
  <2> QED
    BY <1>1, <1>2, <1>3, <2>1 DEF TypeOK
<1>7. CASE PushAdmitted(p)
  <2> DEFINE f1 == [f EXCEPT !.pc = "transform", !.life = c.life]
  <2>0. f1 \in PusherState /\ f1.stream = s
    BY <1>1 DEF PusherState, StreamState
  <2> HIDE DEF f1
  <2>1. /\ f1 \in PusherState /\ f1.stream = s
        /\ Admitted(c, f) \in StreamState /\ Remembered(ghost[s], c, f) \in GhostState
    BY <1>1, <2>0, AdmittedFacts
  <2>2. /\ stream' = [stream EXCEPT ![s] = Admitted(c, f)]
        /\ ghost' = [ghost EXCEPT ![s] = Remembered(ghost[s], c, f)]
        /\ pusher' = [pusher EXCEPT ![p] = f1] /\ UNCHANGED <<clock, made>>
    BY <1>7 DEF PushAdmitted, f1
  <2> HIDE DEF s, c, f
  <2> QED
    BY <1>1, <2>1, <2>2 DEF TypeOK
<1>8. CASE PushTransformFails(p)
  <2>1. PushReturns(p) /\ (stream' = [stream EXCEPT ![s] = Dropped(c)] \/ stream' = stream)
    BY <1>8 DEF PushTransformFails
  <2> QED
    BY <1>1, <1>3, <2>1, TypeReturns DEF TypeOK
<1>9. CASE PushPublish(p)
  <2>1. PushReturns(p) /\ (stream' = [stream EXCEPT ![s] = Published(c, f)] \/ stream' = stream)
    BY <1>9 DEF PushPublish
  <2> QED
    BY <1>1, <1>3, <2>1, TypeReturns DEF TypeOK
<1> QED
  BY <1>4, <1>5, <1>6, <1>7, <1>8, <1>9 DEF PushStep

\* Every step keeps the types.
LEMMA TypeStep == TypeOK /\ [Next]_vars => TypeOK'
<1> SUFFICES ASSUME TypeOK, [Next]_vars PROVE TypeOK'
  OBVIOUS
<1>1. CASE \E s \in Streams :
             \/ RegisterStream(s) \/ RemoveStream(s)
             \/ \E interval \in Intervals : SetOutputConfig(s, interval)
  BY <1>1, TypeRegistry
<1>2. CASE \E s \in Streams, p \in Pushers : \E fits \in BOOLEAN : PushValidate(p, s, fits)
  BY <1>2, TypeValidate
<1>3. CASE \E p \in Pushers : PushStep(p)
  BY <1>3, TypePush
<1>4. CASE UNCHANGED vars
  BY <1>4 DEF vars, TypeOK
<1> QED
  BY <1>1, <1>2, <1>3, <1>4 DEF Next

\* The core keeps the types of its state, whoever calls what and when.
THEOREM CoreTypeCorrect == Spec => []TypeOK
<1>1. Init => TypeOK
  BY TypeInit
<1>2. TypeOK /\ [Next]_vars => TypeOK'
  BY TypeStep
<1> QED
  BY <1>1, <1>2, PTL DEF Spec

-----------------------------------------------------------------------------
(* The throttle.                                                           *)

\* Is a frame under way that was checked against a stream that was there?
Holds(f) == f.pc \in {"count", "transform"}

\* The intervals a configuration can have.
Cadences == Intervals \cup {0}

\* A frame that carries the registration and the generation in force goes by
\* the interval in force, any other is no younger than the configuration in
\* force: `c` is its stream with ghost `g`, `lives` the registrations so far.
Faithful(f, c, g, lives, now) ==
  /\ f.from # None /\ f.from <= lives /\ f.ts > 0 /\ f.ts <= now
  /\ f.interval \in Cadences
  /\ f.from = c.life =>
       f.gen <= c.gen /\ (f.gen = c.gen => f.interval = c.interval)
  /\ c.life # None /\ ~Current(f, c) => f.ts <= g.since

\* The next frame allowed is an interval past the newest one admitted, and only
\* a frame of another configuration takes it further.
Spaced(c, g) ==
  /\ g.admitted # None /\ c.interval > 0 => c.next >= g.admitted + c.interval
  /\ \/ c.next = 0
     \/ g.admitted # None /\ c.interval > 0 /\ c.next <= g.admitted + c.interval
     \/ g.stray /\ \E i \in Intervals : c.next <= g.since + i

Regular(c, g, lives) == c.life <= lives /\ c.interval \in Cadences /\ Spaced(c, g)

\* The throttle is written by calls with old snapshots too; that it still keeps
\* the interval rests on what a snapshot says and on what is in `next`.
ThrottleInv ==
  /\ TypeOK
  /\ \A s \in Streams : Regular(stream[s], ghost[s], made.lives)
  /\ \A p \in Pushers : Holds(pusher[p]) =>
       Faithful(pusher[p], stream[pusher[p].stream], ghost[pusher[p].stream],
                made.lives, clock)

\* Nothing is admitted and nobody is inside push_frame at first.
LEMMA ThrottleInit == Init => ThrottleInv
<1> SUFFICES ASSUME Init PROVE ThrottleInv
  OBVIOUS
<1>1. TypeOK
  BY TypeInit
<1>2. \A s \in Streams : Regular(stream[s], ghost[s], made.lives)
  BY DEF Init, Regular, Spaced, Absent, NoGhost, Cadences
<1>3. \A p \in Pushers : ~Holds(pusher[p])
  BY DEF Init, Idle, Holds
<1> QED
  BY <1>1, <1>2, <1>3 DEF ThrottleInv

SameConfig(c, d) == c.life = d.life /\ c.gen = d.gen /\ c.interval = d.interval
SameSnapshot(f, e) ==
  /\ f.stream = e.stream /\ f.from = e.from /\ f.gen = e.gen
  /\ f.interval = e.interval /\ f.ts = e.ts
SameGhost(g, h) ==
  g.admitted = h.admitted /\ g.stray = h.stray /\ g.since = h.since
SameThrottle(c, d, g, h) == c.next = d.next /\ SameGhost(g, h)

\* Counting or publishing a frame leaves configuration and throttle alone.
LEMMA CountsOnly ==
  ASSUME NEW c \in StreamState, NEW f \in PusherState, NEW g \in GhostState
  PROVE  /\ SameConfig(Dropped(c), c) /\ Dropped(c).next = c.next
         /\ SameConfig(Received(c), c) /\ Received(c).next = c.next
         /\ SameConfig(Dropped(Received(c)), c) /\ Dropped(Received(c)).next = c.next
         /\ SameConfig(Published(c, f), c) /\ Published(c, f).next = c.next
<1>1. SameConfig(Dropped(c), c) /\ Dropped(c).next = c.next
  BY DEF SameConfig, Dropped, StreamState
<1>2. SameConfig(Received(c), c) /\ Received(c).next = c.next
  BY DEF SameConfig, Received, StreamState
<1>3. Received(c) \in StreamState
  BY DEF Received, StreamState
<1>4. SameConfig(Dropped(Received(c)), c) /\ Dropped(Received(c)).next = c.next
  BY <1>2, <1>3 DEF SameConfig, Dropped, StreamState
<1>5. SameConfig(Published(c, f), c) /\ Published(c, f).next = c.next
  BY DEF SameConfig, Published, StreamState
<1> QED
  BY <1>1, <1>2, <1>4, <1>5

\* What a thread inside push_frame can do to anyone's configuration, snapshot
\* and throttle: nothing, unless it admits its frame.
LEMMA PushEffect ==
  ASSUME TypeOK, NEW p \in Pushers, PushStep(p)
  PROVE  /\ made' = made /\ clock' = clock
         /\ \A q \in Pushers : Holds(pusher'[q]) =>
              Holds(pusher[q]) /\ SameSnapshot(pusher'[q], pusher[q])
         /\ \A t \in Streams : SameConfig(stream'[t], stream[t])
         /\ \/ \A t \in Streams : SameThrottle(stream'[t], stream[t], ghost'[t], ghost[t])
            \/ PushAdmitted(p)
<1> DEFINE s == pusher[p].stream
           c == stream[s]
           f == pusher[p]
           Quiet == \A t \in Streams :
                      /\ SameConfig(stream'[t], stream[t])
                      /\ SameThrottle(stream'[t], stream[t], ghost'[t], ghost[t])
           Snapshots == \A q \in Pushers : Holds(pusher'[q]) =>
                          Holds(pusher[q]) /\ SameSnapshot(pusher'[q], pusher[q])
<1>1. /\ s \in Streams /\ f \in PusherState /\ c \in StreamState
      /\ ghost[s] \in GhostState /\ f.stream = s /\ f.pc # "idle"
  BY DEF PushStep, PushReject, PushVanished, PushThrottled, PushAdmitted,
         PushTransformFails, PushPublish, TypeOK
<1>2. Idle.pc = "idle"
  BY DEF Idle
<1>3. pusher' = [pusher EXCEPT ![p] = Idle] => Snapshots
  BY <1>2 DEF TypeOK, SameSnapshot, Holds
<1>4. /\ stream' = stream => \A t \in Streams :
           SameConfig(stream'[t], stream[t]) /\ stream'[t].next = stream[t].next
      /\ \A d : stream' = [stream EXCEPT ![s] = d] /\ SameConfig(d, c) /\ d.next = c.next =>
           \A t \in Streams :
             SameConfig(stream'[t], stream[t]) /\ stream'[t].next = stream[t].next
  BY <1>1 DEF TypeOK, SameConfig
<1>5. /\ ghost' = ghost => \A t \in Streams :
           SameGhost(ghost'[t], ghost[t])
      /\ ghost' = [ghost EXCEPT ![s].rejected = @ + 1] => \A t \in Streams :
           SameGhost(ghost'[t], ghost[t])
      /\ ghost' = [ghost EXCEPT ![s].foreign = @ + 1] => \A t \in Streams :
           SameGhost(ghost'[t], ghost[t])
  BY <1>1 DEF TypeOK, GhostState, SameGhost
<1>6. CASE PushReject(p)
  <2>1. made' = made /\ clock' = clock /\ pusher' = [pusher EXCEPT ![p] = Idle]
    BY <1>6 DEF PushReject
  <2>2. \/ stream' = [stream EXCEPT ![s] = Dropped(c)]
        \/ stream' = stream
    BY <1>6 DEF PushReject
  <2>3. \/ ghost' = [ghost EXCEPT ![s].rejected = @ + 1]
        \/ ghost' = ghost
    BY <1>6 DEF PushReject
  <2> QED
    BY <1>1, <1>3, <1>4, <1>5, <2>1, <2>2, <2>3, CountsOnly DEF SameThrottle
<1>7. CASE PushVanished(p)
  BY <1>3, <1>4, <1>5, <1>7 DEF PushVanished, SameThrottle
<1>8. CASE PushThrottled(p)
  BY <1>1, <1>3, <1>4, <1>5, <1>8, CountsOnly DEF PushThrottled, SameThrottle
<1>9. CASE PushAdmitted(p)
  <2>1. /\ stream' = [stream EXCEPT ![s] = Admitted(c, f)]
        /\ made' = made /\ clock' = clock
        /\ pusher' = [pusher EXCEPT ![p] = [f EXCEPT !.pc = "transform", !.life = c.life]]
    BY <1>9 DEF PushAdmitted
  <2>2. SameConfig(Admitted(c, f), c)
    BY <1>1, AdmittedFacts DEF SameConfig
  <2>3. \A t \in Streams : SameConfig(stream'[t], stream[t])
    BY <1>1, <2>1, <2>2 DEF TypeOK, SameConfig
  <2>4. SameSnapshot([f EXCEPT !.pc = "transform", !.life = c.life], f)
    BY <1>1 DEF SameSnapshot, PusherState
  <2>5. Snapshots
    BY <1>1, <1>9, <2>1, <2>4 DEF TypeOK, SameSnapshot, Holds, PushAdmitted
  <2> QED
    BY <1>9, <2>1, <2>3, <2>5
<1>10. CASE PushTransformFails(p)
  <2>1. /\ made' = made /\ clock' = clock /\ pusher' = [pusher EXCEPT ![p] = Idle]
        /\ stream' = [stream EXCEPT ![s] = Dropped(c)] \/ stream' = stream
        /\ ghost' = [ghost EXCEPT ![s].foreign = @ + 1] \/ ghost' = ghost
    BY <1>10 DEF PushTransformFails, PushReturns
  <2> QED
    BY <1>1, <1>3, <1>4, <1>5, <2>1, CountsOnly DEF SameThrottle
<1>11. CASE PushPublish(p)
  <2>1. /\ made' = made /\ clock' = clock /\ pusher' = [pusher EXCEPT ![p] = Idle]
        /\ stream' = [stream EXCEPT ![s] = Published(c, f)] \/ stream' = stream
        /\ ghost' = [ghost EXCEPT ![s].foreign = @ + 1] \/ ghost' = ghost
    BY <1>11 DEF PushPublish, PushReturns
  <2> QED
    BY <1>1, <1>3, <1>4, <1>5, <2>1, CountsOnly DEF SameThrottle
<1> QED
  BY <1>6, <1>7, <1>8, <1>9, <1>10, <1>11 DEF PushStep

\* Registering, removing and reconfiguring a stream restart its throttle, and
\* leave no snapshot that could be taken for the new configuration.
LEMMA ThrottleRegistry ==
  ASSUME ThrottleInv, NEW s \in Streams,
         \/ RegisterStream(s) \/ RemoveStream(s)
         \/ \E interval \in Intervals : SetOutputConfig(s, interval)
  PROVE  ThrottleInv'
<1>1. TypeOK'
  BY TypeRegistry DEF ThrottleInv
<1>2. /\ stream[s] \in StreamState /\ ghost[s] \in GhostState /\ made.lives \in Nat
      /\ \A p \in Pushers : pusher[p] \in PusherState
  BY DEF ThrottleInv, TypeOK
<1>3. CASE RegisterStream(s)
  <2> DEFINE c == [Absent EXCEPT !.life = made.lives + 1]
  <2>1. /\ stream' = [stream EXCEPT ![s] = c] /\ ghost' = [ghost EXCEPT ![s] = NoGhost]
        /\ pusher' = pusher /\ made'.lives = made.lives + 1 /\ clock' = clock
    BY <1>3 DEF RegisterStream, ThrottleInv, TypeOK
  <2>2. /\ c.life = made.lives + 1 /\ c.interval \in Cadences
        /\ Spaced(c, NoGhost) /\ NoGhost.since = clock
    BY DEF Spaced, Absent, NoGhost, Cadences
  <2> HIDE DEF c
  <2>3. \A t \in Streams : Regular(stream'[t], ghost'[t], made'.lives)
    BY <1>2, <2>1, <2>2 DEF ThrottleInv, Regular, TypeOK, StreamState
  <2>4. ASSUME NEW p \in Pushers, Holds(pusher'[p])
        PROVE  Faithful(pusher'[p], stream'[pusher'[p].stream],
                        ghost'[pusher'[p].stream], made'.lives, clock')
    <3>1. /\ pusher[p].stream \in Streams
          /\ Faithful(pusher[p], stream[pusher[p].stream], ghost[pusher[p].stream],
                      made.lives, clock)
      BY <2>1, <2>4 DEF ThrottleInv, TypeOK, Holds
    <3>2. CASE pusher[p].stream = s
      BY <1>2, <2>1, <2>2, <3>1, <3>2 DEF ThrottleInv, TypeOK, Faithful, PusherState
    <3>3. CASE pusher[p].stream # s
      BY <1>2, <2>1, <3>1, <3>3 DEF ThrottleInv, TypeOK, Faithful, PusherState
    <3> QED
      BY <3>2, <3>3
  <2> QED
    BY <1>1, <2>3, <2>4 DEF ThrottleInv
<1>4. CASE RemoveStream(s)
  <2>1. /\ stream' = [stream EXCEPT ![s] = Absent] /\ UNCHANGED <<ghost, pusher, made, clock>>
    BY <1>4 DEF RemoveStream
  <2>2. Absent.life = 0 /\ Absent.interval \in Cadences /\ Spaced(Absent, ghost[s])
    BY <1>2 DEF Spaced, Absent, Cadences, GhostState
  <2>3. \A t \in Streams : Regular(stream'[t], ghost'[t], made'.lives)
    BY <1>2, <2>1, <2>2 DEF ThrottleInv, Regular, TypeOK
  <2>4. ASSUME NEW p \in Pushers, Holds(pusher'[p])
        PROVE  Faithful(pusher'[p], stream'[pusher'[p].stream],
                        ghost'[pusher'[p].stream], made'.lives, clock')
    <3>1. /\ pusher[p].stream \in Streams
          /\ Faithful(pusher[p], stream[pusher[p].stream], ghost[pusher[p].stream],
                      made.lives, clock)
      BY <2>1, <2>4 DEF ThrottleInv, TypeOK, Holds
    <3>2. CASE pusher[p].stream = s
      BY <1>2, <2>1, <2>2, <3>1, <3>2 DEF ThrottleInv, TypeOK, Faithful, PusherState
    <3>3. CASE pusher[p].stream # s
      BY <1>2, <2>1, <3>1, <3>3 DEF ThrottleInv, TypeOK, Faithful, PusherState
    <3> QED
      BY <3>2, <3>3
  <2> QED
    BY <1>1, <2>3, <2>4 DEF ThrottleInv
<1>5. ASSUME NEW interval \in Intervals, SetOutputConfig(s, interval) PROVE ThrottleInv'
  <2> DEFINE c == Reconfigured(stream[s], interval)
             g == Refreshed(ghost[s])
  <2>1. /\ stream' = [stream EXCEPT ![s] = c] /\ ghost' = [ghost EXCEPT ![s] = g]
        /\ pusher' = pusher /\ made'.lives = made.lives /\ clock' = clock
    BY <1>5 DEF SetOutputConfig, ThrottleInv, TypeOK
  <2>2. /\ c.life = stream[s].life /\ c.gen = stream[s].gen + 1 /\ c.next = 0
        /\ c.interval \in Cadences
    BY <1>2 DEF Reconfigured, StreamState, Cadences
  <2>3. g.admitted = None /\ g.since = clock
    BY <1>2 DEF Refreshed, GhostState
  <2> HIDE DEF c, g
  <2>4. \A t \in Streams : Regular(stream'[t], ghost'[t], made'.lives)
    BY <1>2, <2>1, <2>2, <2>3 DEF ThrottleInv, TypeOK, Spaced, Regular
  <2>5. ASSUME NEW p \in Pushers, Holds(pusher'[p])
        PROVE  Faithful(pusher'[p], stream'[pusher'[p].stream],
                        ghost'[pusher'[p].stream], made'.lives, clock')
    <3>1. pusher[p].gen \in Nat /\ stream[s].gen \in Nat
      BY <1>2 DEF PusherState, StreamState
    <3>2. /\ pusher[p].stream \in Streams
          /\ Faithful(pusher[p], stream[pusher[p].stream], ghost[pusher[p].stream],
                      made.lives, clock)
      BY <2>1, <2>5 DEF ThrottleInv, TypeOK, Holds
    <3>3. CASE pusher[p].stream = s
      BY <2>1, <2>2, <2>3, <3>1, <3>2, <3>3 DEF Faithful, Current, ThrottleInv, TypeOK
    <3>4. CASE pusher[p].stream # s
      BY <2>1, <3>2, <3>4 DEF Faithful, ThrottleInv, TypeOK
    <3> QED
      BY <3>3, <3>4
  <2> QED
    BY <1>1, <2>4, <2>5 DEF ThrottleInv
<1> QED
  BY <1>3, <1>4, <1>5

\* A snapshot that has just been taken is the configuration in force.
LEMMA ThrottleValidate ==
  ASSUME ThrottleInv, NEW p \in Pushers, NEW s \in Streams, NEW fits \in BOOLEAN,
         PushValidate(p, s, fits)
  PROVE  ThrottleInv'
<1>1. TypeOK'
  BY TypeValidate DEF ThrottleInv
<1>2. /\ UNCHANGED <<stream, made, ghost>> /\ stream[s] \in StreamState
      /\ clock' = clock + 1 /\ clock \in Nat
      /\ Holds(pusher'[p]) => stream[s].life # None
  BY DEF PushValidate, ThrottleInv, TypeOK, Present, Holds
<1>3. /\ pusher'[p].stream = s /\ pusher'[p].from = stream[s].life
      /\ pusher'[p].gen = stream[s].gen /\ pusher'[p].interval = stream[s].interval
      /\ pusher'[p].ts = clock + 1
      /\ \A q \in Pushers : q # p => pusher'[q] = pusher[q]
  BY DEF PushValidate, ThrottleInv, TypeOK
<1>4. Holds(pusher'[p]) => Faithful(pusher'[p], stream[s], ghost[s], made.lives, clock')
  BY <1>2, <1>3 DEF Faithful, Current, ThrottleInv, Regular, StreamState
<1>5. ASSUME NEW q \in Pushers, Holds(pusher'[q])
      PROVE  Faithful(pusher'[q], stream'[pusher'[q].stream], ghost'[pusher'[q].stream],
                      made'.lives, clock')
  <2>1. CASE q = p
    BY <1>2, <1>3, <1>4, <1>5, <2>1
  <2>2. CASE q # p
    <3>1. /\ Faithful(pusher[q], stream[pusher[q].stream], ghost[pusher[q].stream],
                      made.lives, clock)
          /\ pusher[q].ts \in Nat /\ pusher'[q] = pusher[q]
      BY <1>3, <1>5, <2>2 DEF ThrottleInv, TypeOK, PusherState
    <3> QED
      BY <1>2, <3>1 DEF Faithful
  <2> QED
    BY <2>1, <2>2
<1> QED
  BY <1>1, <1>2, <1>5 DEF ThrottleInv

\* An admitted frame is past `next`, and what it writes there is past itself.
LEMMA AdmittedSpaced ==
  ASSUME NEW c \in StreamState, NEW f \in PusherState, NEW g \in GhostState,
         NEW lives \in Nat, NEW now \in Nat, c.life # None,
         Faithful(f, c, g, lives, now), Spaced(c, g), ~Throttled(c, f)
  PROVE  /\ Spaced(Admitted(c, f), Remembered(g, c, f))
         /\ LET a == g.admitted
                b == Remembered(g, c, f).admitted
            IN  a # None /\ a # b /\ c.interval > 0 => b >= a + c.interval
<1> DEFINE d == Admitted(c, f)
           h == Remembered(g, c, f)
<1>1. /\ c.interval \in Nat /\ c.next \in Nat /\ f.interval \in Nat /\ f.ts \in Nat
      /\ g.admitted \in Nat /\ g.stray \in BOOLEAN /\ g.since \in Nat
  BY DEF StreamState, PusherState, GhostState
<1>2. /\ Current(f, c) => f.interval = c.interval
      /\ ~Current(f, c) => f.ts <= g.since
      /\ f.interval > 0 => f.interval \in Intervals
      /\ f.ts > 0
  BY <1>1 DEF Current, Faithful, Cadences
<1>3. f.interval > 0 /\ c.next > 0 => f.ts >= c.next
  BY <1>1 DEF Throttled
<1>4. /\ g.admitted # 0 /\ c.interval > 0 => c.next >= g.admitted + c.interval
      /\ \/ c.next = 0
         \/ g.admitted # 0 /\ c.interval > 0 /\ c.next <= g.admitted + c.interval
         \/ g.stray /\ \E i \in Intervals : c.next <= g.since + i
  BY DEF Spaced
<1>5. /\ d.interval = c.interval
      /\ f.interval > 0 => d.next = f.ts + f.interval
      /\ ~(f.interval > 0) => d.next = c.next
      /\ Current(f, c) => h.admitted = f.ts
      /\ ~Current(f, c) => h.admitted = g.admitted
      /\ h.stray <=> g.stray \/ (~Current(f, c) /\ f.interval > 0)
      /\ h.since = g.since
  BY AdmittedFacts
<1>6. Intervals \subseteq Nat
  BY CoreAssumption
<1> HIDE DEF d, h
<1>7. CASE Current(f, c)
  <2>1. h.admitted # 0 /\ d.interval > 0 => d.next >= h.admitted + d.interval
    BY <1>1, <1>2, <1>5, <1>7
  <2>2. \/ d.next = 0
        \/ h.admitted # 0 /\ d.interval > 0 /\ d.next <= h.admitted + d.interval
        \/ h.stray /\ \E i \in Intervals : d.next <= h.since + i
    <3>1. CASE f.interval > 0
      BY <1>1, <1>2, <1>5, <1>7, <3>1
    <3>2. CASE ~(f.interval > 0)
      BY <1>1, <1>2, <1>4, <1>5, <1>7, <3>2
    <3> QED
      BY <1>1, <3>1, <3>2
  <2>3. g.admitted # 0 /\ g.admitted # h.admitted /\ c.interval > 0 =>
          h.admitted >= g.admitted + c.interval
    BY <1>1, <1>2, <1>3, <1>4, <1>5, <1>7
  <2> QED
    BY <2>1, <2>2, <2>3 DEF Spaced, d, h
<1>8. CASE ~Current(f, c)
  <2>1. h.admitted # 0 /\ d.interval > 0 => d.next >= h.admitted + d.interval
    BY <1>1, <1>3, <1>4, <1>5, <1>8
  <2>2. \/ d.next = 0
        \/ h.admitted # 0 /\ d.interval > 0 /\ d.next <= h.admitted + d.interval
        \/ h.stray /\ \E i \in Intervals : d.next <= h.since + i
    <3>1. CASE f.interval > 0
      <4>1. h.stray /\ f.interval \in Intervals /\ d.next <= h.since + f.interval
        BY <1>1, <1>2, <1>5, <1>8, <3>1
      <4> QED
        BY <4>1
    <3>2. CASE ~(f.interval > 0)
      BY <1>4, <1>5, <1>8, <3>2
    <3> QED
      BY <3>1, <3>2
  <2> QED
    BY <1>5, <1>8, <2>1, <2>2 DEF Spaced, d, h
<1> QED
  BY <1>7, <1>8

\* The streams and the ghosts of a step that admits a frame.
LEMMA AdmittedStep ==
  ASSUME ThrottleInv, NEW p \in Pushers, PushAdmitted(p)
  PROVE  LET s == pusher[p].stream IN
         /\ s \in Streams
         /\ stream'[s] = Admitted(stream[s], pusher[p])
         /\ ghost'[s] = Remembered(ghost[s], stream[s], pusher[p])
         /\ \A t \in Streams : t # s => stream'[t] = stream[t] /\ ghost'[t] = ghost[t]
         /\ stream[s] \in StreamState /\ pusher[p] \in PusherState
         /\ ghost[s] \in GhostState /\ made.lives \in Nat /\ clock \in Nat
         /\ stream[s].life # None
         /\ Faithful(pusher[p], stream[s], ghost[s], made.lives, clock)
         /\ Spaced(stream[s], ghost[s]) /\ ~Throttled(stream[s], pusher[p])
  BY DEF PushAdmitted, ThrottleInv, Regular, Holds, Present, TypeOK

\* A thread inside push_frame keeps the invariant.
LEMMA ThrottlePush ==
  ASSUME ThrottleInv, NEW p \in Pushers, PushStep(p)
  PROVE  ThrottleInv'
<1>1. TypeOK /\ TypeOK'
  BY TypePush DEF ThrottleInv
<1>2. ASSUME NEW q \in Pushers, Holds(pusher'[q])
      PROVE  Faithful(pusher'[q], stream'[pusher'[q].stream], ghost'[pusher'[q].stream],
                      made'.lives, clock')
  <2>1. /\ Holds(pusher[q]) /\ SameSnapshot(pusher'[q], pusher[q])
        /\ made' = made /\ clock' = clock
        /\ \A t \in Streams : SameConfig(stream'[t], stream[t])
    BY <1>1, <1>2, PushEffect
  <2>2. /\ pusher[q].stream \in Streams
        /\ Faithful(pusher[q], stream[pusher[q].stream], ghost[pusher[q].stream],
                    made.lives, clock)
    BY <2>1 DEF ThrottleInv, TypeOK, Holds
  <2>3. \A t \in Streams : ghost'[t].since = ghost[t].since
    <3>1. CASE \A t \in Streams : SameThrottle(stream'[t], stream[t], ghost'[t], ghost[t])
      BY <3>1 DEF SameThrottle, SameGhost
    <3>2. CASE PushAdmitted(p)
      BY <3>2, AdmittedStep, AdmittedFacts
    <3> QED
      BY <1>1, <3>1, <3>2, PushEffect
  <2> QED
    BY <2>1, <2>2, <2>3 DEF Faithful, Current, SameSnapshot, SameConfig
<1>3. ASSUME NEW t \in Streams
      PROVE  Regular(stream'[t], ghost'[t], made'.lives)
  <2>1. made' = made /\ SameConfig(stream'[t], stream[t])
    BY <1>1, PushEffect
  <2>2. stream'[t].life <= made'.lives /\ stream'[t].interval \in Cadences
    BY <2>1 DEF SameConfig, ThrottleInv, Regular
  <2>3. Spaced(stream[t], ghost[t])
    BY DEF ThrottleInv, Regular
  <2>4. CASE SameThrottle(stream'[t], stream[t], ghost'[t], ghost[t])
    BY <2>1, <2>2, <2>3, <2>4 DEF Spaced, SameConfig, SameThrottle, SameGhost, Regular
  <2>5. CASE PushAdmitted(p)
    <3>1. CASE t = pusher[p].stream
      BY <2>2, <2>5, <3>1, AdmittedStep, AdmittedSpaced DEF Regular
    <3>2. CASE t # pusher[p].stream
      BY <2>2, <2>3, <2>5, <3>2, AdmittedStep DEF Regular
    <3> QED
      BY <3>1, <3>2
  <2> QED
    BY <1>1, <2>4, <2>5, PushEffect
<1> QED
  BY <1>1, <1>2, <1>3 DEF ThrottleInv

\* Every step keeps the invariant.
LEMMA ThrottleStep == ThrottleInv /\ [Next]_vars => ThrottleInv'
<1> SUFFICES ASSUME ThrottleInv, [Next]_vars PROVE ThrottleInv'
  OBVIOUS
<1>1. CASE \E s \in Streams :
             \/ RegisterStream(s) \/ RemoveStream(s)
             \/ \E interval \in Intervals : SetOutputConfig(s, interval)
  BY <1>1, ThrottleRegistry
<1>2. CASE \E s \in Streams, p \in Pushers : \E fits \in BOOLEAN : PushValidate(p, s, fits)
  BY <1>2, ThrottleValidate
<1>3. CASE \E p \in Pushers : PushStep(p)
  BY <1>3, ThrottlePush
<1>4. CASE UNCHANGED vars
  BY <1>4 DEF vars, ThrottleInv, TypeOK
<1> QED
  BY <1>1, <1>2, <1>3, <1>4 DEF Next

\* Any step that is taken where the invariant holds keeps the interval.
Honoured ==
  \A s \in Streams :
    LET a == ghost[s].admitted
        b == ghost'[s].admitted
    IN  a # None /\ b # None /\ a # b /\ stream[s].interval > 0 =>
          b >= a + stream[s].interval

\* Only an admission moves `admitted` to another frame.
LEMMA HonouredStep == ThrottleInv /\ [Next]_vars => Honoured
<1> SUFFICES ASSUME ThrottleInv, [Next]_vars PROVE Honoured
  OBVIOUS
<1>1. ASSUME NEW s \in Streams, RegisterStream(s) PROVE Honoured
  BY <1>1 DEF RegisterStream, NoGhost, Honoured, ThrottleInv, TypeOK
<1>2. ASSUME NEW s \in Streams, RemoveStream(s) PROVE Honoured
  BY <1>2 DEF RemoveStream, Honoured
<1>3. ASSUME NEW s \in Streams, NEW interval \in Intervals, SetOutputConfig(s, interval)
      PROVE  Honoured
  <2>1. ghost' = [ghost EXCEPT ![s] = Refreshed(ghost[s])] /\ ghost[s] \in GhostState
    BY <1>3 DEF SetOutputConfig, ThrottleInv, TypeOK
  <2>2. Refreshed(ghost[s]).admitted = None
    BY <2>1 DEF Refreshed, GhostState
  <2> QED
    BY <2>1, <2>2 DEF Honoured, ThrottleInv, TypeOK
<1>4. ASSUME NEW s \in Streams, NEW p \in Pushers, NEW fits \in BOOLEAN,
             PushValidate(p, s, fits)
      PROVE  Honoured
  BY <1>4 DEF PushValidate, Honoured
<1>5. ASSUME NEW p \in Pushers, PushStep(p) PROVE Honoured
  <2>1. CASE \A t \in Streams : SameThrottle(stream'[t], stream[t], ghost'[t], ghost[t])
    BY <2>1 DEF SameThrottle, SameGhost, Honoured
  <2>2. CASE PushAdmitted(p)
    <3> SUFFICES ASSUME NEW t \in Streams,
                        ghost[t].admitted # None, ghost[t].admitted # ghost'[t].admitted,
                        stream[t].interval > 0
                 PROVE  ghost'[t].admitted >= ghost[t].admitted + stream[t].interval
      BY DEF Honoured
    <3>1. t = pusher[p].stream
      BY <2>2, AdmittedStep
    <3> QED
      BY <2>2, <3>1, AdmittedStep, AdmittedSpaced
  <2> QED
    BY <1>5, <2>1, <2>2, PushEffect DEF ThrottleInv
<1>6. CASE UNCHANGED vars
  BY <1>6 DEF vars, Honoured
<1> QED
  BY <1>1, <1>2, <1>3, <1>4, <1>5, <1>6 DEF Next

\* The throttle invariant holds in every reachable state.
THEOREM CoreThrottleInv == Spec => []ThrottleInv
<1>1. Init => ThrottleInv
  BY ThrottleInit
<1>2. ThrottleInv /\ [Next]_vars => ThrottleInv'
  BY ThrottleStep
<1> QED
  BY <1>1, <1>2, PTL DEF Spec

\* A frame of the configuration in force that is dropped for its cadence.
ForCause ==
  \A p \in Pushers :
    LET f == pusher[p]
        g == ghost[f.stream]
    IN  PushThrottled(p) /\ Current(f, stream[f.stream]) =>
          \/ g.admitted # None /\ f.ts < g.admitted + f.interval
          \/ g.stray /\ \E i \in Intervals : f.ts < g.since + i

\* What stands in `next` was put there by a frame of the same configuration or
\* by one that is older than the configuration.
LEMMA ForCauseHolds == ThrottleInv => ForCause
<1> SUFFICES ASSUME ThrottleInv, NEW p \in Pushers, PushThrottled(p),
                    Current(pusher[p], stream[pusher[p].stream])
             PROVE  LET f == pusher[p]
                        g == ghost[f.stream]
                    IN  \/ g.admitted # None /\ f.ts < g.admitted + f.interval
                        \/ g.stray /\ \E i \in Intervals : f.ts < g.since + i
  BY DEF ForCause
<1> DEFINE f == pusher[p]
           c == stream[f.stream]
           g == ghost[f.stream]
<1>1. /\ f.stream \in Streams /\ f \in PusherState /\ c \in StreamState
      /\ g \in GhostState /\ Throttled(c, f)
      /\ Faithful(f, c, g, made.lives, clock) /\ Spaced(c, g)
  BY DEF PushThrottled, ThrottleInv, Regular, TypeOK, Holds
<1>2. f.interval = c.interval /\ f.ts < c.next /\ c.next > 0
  BY <1>1 DEF Faithful, Current, Throttled
<1>3. /\ f.ts \in Nat /\ c.next \in Nat /\ c.interval \in Nat
      /\ g.admitted \in Nat /\ g.since \in Nat /\ Intervals \subseteq Nat
  BY <1>1, CoreAssumption DEF PusherState, StreamState, GhostState
<1>4. \/ g.admitted # None /\ c.next <= g.admitted + c.interval
      \/ g.stray /\ \E i \in Intervals : c.next <= g.since + i
  BY <1>1, <1>2, <1>3 DEF Spaced
<1> HIDE DEF f, c, g
<1>5. CASE g.admitted # None /\ c.next <= g.admitted + c.interval
  BY <1>2, <1>3, <1>5 DEF f, c, g
<1>6. ASSUME g.stray, NEW i \in Intervals, c.next <= g.since + i
      PROVE  g.stray /\ \E k \in Intervals : f.ts < g.since + k
  <2>1. f.ts < g.since + i
    BY <1>2, <1>3, <1>6
  <2> QED
    BY <1>6, <2>1
<1> QED
  BY <1>4, <1>5, <1>6 DEF f, c, g

\* A frame of the configuration in force is dropped for its cadence only if an
\* admitted frame of the configuration, or within an interval of the reset a
\* call begun before it, is the cause: for any number of threads and changes.
THEOREM CoreThrottledForCause == Spec => ThrottledForCause
<1>1. ThrottleInv => [ForCause]_vars
  BY ForCauseHolds
<1>2. [ForCause]_vars => [\A p \in Pushers :
        LET f == pusher[p]
            g == ghost[f.stream]
        IN  PushThrottled(p) /\ Current(f, stream[f.stream]) =>
              \/ g.admitted # None /\ f.ts < g.admitted + f.interval
              \/ g.stray /\ \E i \in Intervals : f.ts < g.since + i]_vars
  BY DEF ForCause
<1> QED
  BY <1>1, <1>2, CoreThrottleInv, PTL DEF ThrottledForCause

\* Of the frames admitted under the configuration in force, no two are closer
\* than its interval, for any number of pushing threads.
THEOREM CoreThrottleHonoured == Spec => ThrottleHonoured
<1>1. ThrottleInv /\ [Next]_vars => [Honoured]_vars
  BY HonouredStep
<1>2. [Honoured]_vars => [\A s \in Streams :
        LET a == ghost[s].admitted
            b == ghost'[s].admitted
        IN  a # None /\ b # None /\ a # b /\ stream[s].interval > 0 =>
              b >= a + stream[s].interval]_vars
  BY DEF Honoured
<1> QED
  BY <1>1, <1>2, CoreThrottleInv, PTL DEF Spec, ThrottleHonoured

-----------------------------------------------------------------------------
(* The counters.                                                           *)

\* The counters of a stream and its ghost, with n frames in flight.
Balanced(c, g, n) ==
  c.received + g.rejected + g.foreign = c.transformed + c.dropped + n

\* A frame in flight was counted for a registration that has been made, so a
\* new registration starts with none.
AccountInv ==
  /\ TypeOK
  /\ \A s \in Streams : stream[s].life <= made.lives
  /\ \A p \in Pushers : pusher[p].pc = "transform" =>
       pusher[p].life # None /\ pusher[p].life <= made.lives
  /\ FramesAccounted

\* The frames in flight can be counted.
LEMMA InFlightFinite ==
  ASSUME NEW s
  PROVE  /\ IsFiniteSet(InFlight(s)) /\ Cardinality(InFlight(s)) \in Nat
         /\ InFlight(s) \subseteq Pushers
<1>1. InFlight(s) \subseteq Pushers
  BY DEF InFlight
<1> QED
  BY <1>1, CoreAssumption, FS_Subset, FS_CardinalityType

\* Every counter is a number.
LEMMA CountersAreNumbers ==
  ASSUME TypeOK, NEW s \in Streams
  PROVE  /\ stream[s] \in StreamState /\ ghost[s] \in GhostState
         /\ stream[s].received \in Nat /\ stream[s].transformed \in Nat
         /\ stream[s].dropped \in Nat /\ ghost[s].rejected \in Nat
         /\ ghost[s].foreign \in Nat /\ stream[s].life \in Nat
  BY DEF TypeOK, StreamState, GhostState

\* What each write does to the counters.
LEMMA CountersWritten ==
  ASSUME NEW c \in StreamState, NEW f \in PusherState, NEW g \in GhostState,
         NEW n \in Nat, NEW interval \in Nat, Balanced(c, g, n)
  PROVE  /\ Balanced(Reconfigured(c, interval), Refreshed(g), n)
         /\ Balanced(Dropped(c), [g EXCEPT !.rejected = @ + 1], n)
         /\ Balanced(Dropped(Received(c)), g, n)
         /\ Balanced(Admitted(c, f), Remembered(g, c, f), n + 1)
         /\ Balanced(Dropped(c), [g EXCEPT !.foreign = @ + 1], n)
         /\ Balanced(Published(c, f), [g EXCEPT !.foreign = @ + 1], n)
         /\ n > 0 => /\ Balanced(Dropped(c), g, n - 1)
                     /\ Balanced(Published(c, f), g, n - 1)
<1>1. /\ c.received \in Nat /\ c.transformed \in Nat /\ c.dropped \in Nat
      /\ g.rejected \in Nat /\ g.foreign \in Nat
  BY DEF StreamState, GhostState
<1>2. /\ Reconfigured(c, interval).received = c.received
      /\ Reconfigured(c, interval).transformed = c.transformed
      /\ Reconfigured(c, interval).dropped = c.dropped
  BY DEF Reconfigured, StreamState
<1>3. /\ Dropped(c).received = c.received /\ Dropped(c).transformed = c.transformed
      /\ Dropped(c).dropped = c.dropped + 1
  BY DEF Dropped, StreamState
<1>4. /\ Received(c).received = c.received + 1
      /\ Received(c).transformed = c.transformed /\ Received(c).dropped = c.dropped
      /\ Received(c) \in StreamState
  BY DEF Received, StreamState
<1>5. /\ Dropped(Received(c)).received = c.received + 1
      /\ Dropped(Received(c)).transformed = c.transformed
      /\ Dropped(Received(c)).dropped = c.dropped + 1
  BY <1>4 DEF Dropped, StreamState
<1>6. /\ Published(c, f).received = c.received /\ Published(c, f).dropped = c.dropped
      /\ Published(c, f).transformed = c.transformed + 1
  BY DEF Published, StreamState
<1>7. /\ Admitted(c, f).received = c.received + 1
      /\ Admitted(c, f).transformed = c.transformed /\ Admitted(c, f).dropped = c.dropped
  BY <1>4 DEF Admitted, StreamState
<1>8. /\ Refreshed(g).rejected = g.rejected /\ Refreshed(g).foreign = g.foreign
      /\ Remembered(g, c, f).rejected = g.rejected
      /\ Remembered(g, c, f).foreign = g.foreign
  BY DEF Refreshed, Remembered, GhostState
<1>9. /\ [g EXCEPT !.rejected = @ + 1].rejected = g.rejected + 1
      /\ [g EXCEPT !.rejected = @ + 1].foreign = g.foreign
      /\ [g EXCEPT !.foreign = @ + 1].rejected = g.rejected
      /\ [g EXCEPT !.foreign = @ + 1].foreign = g.foreign + 1
  BY DEF GhostState
<1>10. c.received + g.rejected + g.foreign = c.transformed + c.dropped + n
  BY DEF Balanced
<1>11. Balanced(Reconfigured(c, interval), Refreshed(g), n)
  BY <1>2, <1>8, <1>10 DEF Balanced
<1>12. Balanced(Dropped(c), [g EXCEPT !.rejected = @ + 1], n)
  <2> DEFINE h == [g EXCEPT !.rejected = @ + 1]
  <2>1. h.rejected = g.rejected + 1 /\ h.foreign = g.foreign
    BY <1>9
  <2> HIDE DEF h
  <2> QED
    BY <1>1, <1>3, <1>10, <2>1 DEF Balanced
<1>13. Balanced(Dropped(Received(c)), g, n)
  BY <1>1, <1>5, <1>10 DEF Balanced
<1>14. Balanced(Admitted(c, f), Remembered(g, c, f), n + 1)
  BY <1>1, <1>7, <1>8, <1>10 DEF Balanced
<1>15. /\ Balanced(Dropped(c), [g EXCEPT !.foreign = @ + 1], n)
       /\ Balanced(Published(c, f), [g EXCEPT !.foreign = @ + 1], n)
  <2> DEFINE h == [g EXCEPT !.foreign = @ + 1]
  <2>1. h.rejected = g.rejected /\ h.foreign = g.foreign + 1
    BY <1>9
  <2> HIDE DEF h
  <2>2. Balanced(Dropped(c), h, n)
    BY <1>1, <1>3, <1>10, <2>1 DEF Balanced
  <2>3. Balanced(Published(c, f), h, n)
    BY <1>1, <1>6, <1>10, <2>1 DEF Balanced
  <2> QED
    BY <2>2, <2>3 DEF h
<1>16. n > 0 => Balanced(Dropped(c), g, n - 1)
  BY <1>1, <1>3, <1>10 DEF Balanced
<1>17. n > 0 => Balanced(Published(c, f), g, n - 1)
  BY <1>1, <1>6, <1>10 DEF Balanced
<1> QED
  BY <1>11, <1>12, <1>13, <1>14, <1>15, <1>16, <1>17

\* FramesAccounted, one stream at a time.
LEMMA AccountedIsBalanced ==
  FramesAccounted <=>
    \A s \in Streams : Present(s) =>
      Balanced(stream[s], ghost[s], Cardinality(InFlight(s)))
  BY DEF FramesAccounted, Balanced

\* Nothing is counted at first.
LEMMA AccountInit == Init => AccountInv
  BY TypeInit DEF Init, AccountInv, FramesAccounted, Present, Absent, Idle

\* Registration, removal and reconfiguration keep the account.
LEMMA AccountRegistry ==
  ASSUME AccountInv, NEW s \in Streams,
         \/ RegisterStream(s) \/ RemoveStream(s)
         \/ \E interval \in Intervals : SetOutputConfig(s, interval)
  PROVE  AccountInv'
<1>1. TypeOK /\ TypeOK' /\ made.lives \in Nat
  BY TypeRegistry DEF AccountInv, TypeOK
<1>2. pusher' = pusher /\ \A t \in Streams : t # s => stream'[t] = stream[t] /\ ghost'[t] = ghost[t]
  BY <1>1 DEF RegisterStream, RemoveStream, SetOutputConfig, TypeOK
<1>3. \A t \in Streams : t # s => InFlight(t)' = InFlight(t)
  BY <1>2 DEF InFlight
<1>4. \A t \in Streams : t # s /\ Present(t)' =>
        Balanced(stream'[t], ghost'[t], Cardinality(InFlight(t)'))
  BY <1>2, <1>3, AccountedIsBalanced DEF AccountInv, Present
<1>5. ASSUME /\ Present(s)' => Balanced(stream'[s], ghost'[s], Cardinality(InFlight(s)'))
             /\ made.lives <= made'.lives /\ made'.lives \in Nat
             /\ stream'[s].life <= made'.lives
      PROVE  AccountInv'
  <2>1. FramesAccounted'
    BY <1>4, <1>5 DEF FramesAccounted, Balanced, Present
  <2>2. \A t \in Streams : stream'[t].life <= made'.lives
    BY <1>1, <1>2, <1>5, CountersAreNumbers DEF AccountInv
  <2>3. \A p \in Pushers : pusher'[p].pc = "transform" =>
          pusher'[p].life # None /\ pusher'[p].life <= made'.lives
    BY <1>1, <1>2, <1>5 DEF AccountInv, TypeOK, PusherState
  <2> QED
    BY <1>1, <2>1, <2>2, <2>3 DEF AccountInv
<1>6. CASE RegisterStream(s)
  <2>1. /\ made'.lives = made.lives + 1 /\ ghost'[s] = NoGhost
        /\ stream'[s] = [Absent EXCEPT !.life = made.lives + 1]
    BY <1>1, <1>6 DEF RegisterStream, TypeOK
  <2>2. stream'[s].life = made.lives + 1
    BY <2>1 DEF Absent
  <2>3. InFlight(s)' = {}
    BY <1>1, <1>2, <2>2 DEF InFlight, AccountInv, TypeOK, PusherState
  <2>4. Balanced(stream'[s], ghost'[s], Cardinality(InFlight(s)'))
    BY <2>1, <2>3, FS_EmptySet DEF Balanced, Absent, NoGhost
  <2> QED
    BY <1>1, <1>5, <2>1, <2>2, <2>4
<1>7. CASE RemoveStream(s)
  <2>1. made' = made /\ stream'[s] = Absent
    BY <1>1, <1>7 DEF RemoveStream, TypeOK
  <2> QED
    BY <1>1, <1>5, <2>1 DEF Absent, Present
<1>8. ASSUME NEW interval \in Intervals, SetOutputConfig(s, interval) PROVE AccountInv'
  <2>1. /\ made'.lives = made.lives /\ stream'[s] = Reconfigured(stream[s], interval)
        /\ ghost'[s] = Refreshed(ghost[s]) /\ Present(s) /\ interval \in Nat
    BY <1>1, <1>8, CoreAssumption DEF SetOutputConfig, TypeOK
  <2>2. stream'[s].life = stream[s].life
    BY <1>1, <2>1 DEF Reconfigured, TypeOK, StreamState
  <2>3. InFlight(s)' = InFlight(s)
    BY <1>2, <2>2 DEF InFlight
  <2>4. Balanced(stream[s], ghost[s], Cardinality(InFlight(s)))
    BY <2>1, AccountedIsBalanced DEF AccountInv
  <2>5. Idle \in PusherState
    BY DEF PusherState, Idle
  <2>6. Balanced(stream'[s], ghost'[s], Cardinality(InFlight(s)))
    BY <1>1, <2>1, <2>4, <2>5, CountersAreNumbers, CountersWritten, InFlightFinite
  <2> QED
    BY <1>1, <1>5, <2>1, <2>2, <2>3, <2>6 DEF AccountInv
<1> QED
  BY <1>6, <1>7, <1>8

\* A frame that has only been validated is not counted yet.
LEMMA AccountValidate ==
  ASSUME AccountInv, NEW p \in Pushers, NEW s \in Streams, NEW fits \in BOOLEAN,
         PushValidate(p, s, fits)
  PROVE  AccountInv'
<1>1. TypeOK /\ TypeOK'
  BY TypeValidate DEF AccountInv
<1>2. /\ UNCHANGED <<stream, made, ghost>> /\ pusher[p].pc = "idle"
      /\ pusher'[p].pc # "transform"
      /\ \A q \in Pushers : q # p => pusher'[q] = pusher[q]
  BY <1>1 DEF PushValidate, TypeOK
<1>3. \A t \in Streams : InFlight(t)' = InFlight(t)
  BY <1>2 DEF InFlight
<1>4. FramesAccounted'
  BY <1>2, <1>3 DEF AccountInv, FramesAccounted, Present
<1> QED
  BY <1>1, <1>2, <1>4 DEF AccountInv

\* If thread p's step leaves the other streams alone, balances its own and
\* keeps its registration, the account is kept.
LEMMA AccountOfStep ==
  ASSUME AccountInv, NEW p \in Pushers, PushStep(p), NEW s \in Streams,
         pusher[p].stream = s,
         \A t \in Streams : t # s => stream'[t] = stream[t] /\ ghost'[t] = ghost[t],
         \A q \in Pushers : q # p => pusher'[q] = pusher[q],
         pusher'[p].pc = "transform" =>
           /\ pusher'[p].stream = s
           /\ pusher'[p].life # None /\ pusher'[p].life <= made.lives,
         Present(s) => Balanced(stream'[s], ghost'[s], Cardinality(InFlight(s)'))
  PROVE  AccountInv'
<1>1. /\ TypeOK /\ TypeOK' /\ made' = made
      /\ \A t \in Streams : stream'[t].life = stream[t].life
  BY TypePush, PushEffect DEF AccountInv, SameConfig
<1>2. \A t \in Streams : t # s => InFlight(t)' = InFlight(t)
  <2> SUFFICES ASSUME NEW t \in Streams, t # s PROVE InFlight(t)' = InFlight(t)
    OBVIOUS
  <2>1. p \notin InFlight(t) /\ p \notin InFlight(t)'
    BY DEF InFlight
  <2>2. \A q \in Pushers : q # p => (q \in InFlight(t)' <=> q \in InFlight(t))
    BY <1>1 DEF InFlight
  <2>3. InFlight(t) \subseteq Pushers /\ InFlight(t)' \subseteq Pushers
    BY DEF InFlight
  <2> QED
    BY <2>1, <2>2, <2>3
<1>3. FramesAccounted'
  <2> SUFFICES ASSUME NEW t \in Streams, Present(t)'
               PROVE  Balanced(stream'[t], ghost'[t], Cardinality(InFlight(t)'))
    BY DEF FramesAccounted, Balanced
  <2>1. Present(t)
    BY <1>1 DEF Present
  <2>2. CASE t = s
    BY <2>1, <2>2
  <2>3. CASE t # s
    BY <1>2, <2>1, <2>3, AccountedIsBalanced DEF AccountInv
  <2> QED
    BY <2>2, <2>3
<1>4. \A t \in Streams : stream'[t].life <= made'.lives
  BY <1>1 DEF AccountInv
<1>5. \A q \in Pushers : pusher'[q].pc = "transform" =>
        pusher'[q].life # None /\ pusher'[q].life <= made'.lives
  BY <1>1 DEF AccountInv
<1> QED
  BY <1>1, <1>3, <1>4, <1>5 DEF AccountInv

\* What thread p's step makes of the frames in flight of its own stream s.
LEMMA InFlightOfStep ==
  ASSUME AccountInv, NEW p \in Pushers, PushStep(p), NEW s \in Streams,
         pusher[p].stream = s,
         \A q \in Pushers : q # p => pusher'[q] = pusher[q]
  PROVE  /\ pusher'[p].pc # "transform" => InFlight(s)' = InFlight(s) \ {p}
         /\ /\ pusher'[p].pc = "transform" /\ pusher'[p].stream = s
            /\ pusher'[p].life = stream[s].life
            => InFlight(s)' = InFlight(s) \cup {p}
<1>1. stream'[s].life = stream[s].life
  BY PushEffect DEF SameConfig, AccountInv
<1>2. \A q \in Pushers : q # p => (q \in InFlight(s)' <=> q \in InFlight(s))
  BY <1>1 DEF InFlight
<1>3. InFlight(s) \subseteq Pushers /\ InFlight(s)' \subseteq Pushers
  BY DEF InFlight
<1>4. pusher'[p].pc # "transform" => p \notin InFlight(s)'
  BY DEF InFlight
<1>5. /\ pusher'[p].pc = "transform" /\ pusher'[p].stream = s
      /\ pusher'[p].life = stream[s].life
      => p \in InFlight(s)'
  BY <1>1 DEF InFlight
<1> QED
  BY <1>2, <1>3, <1>4, <1>5

\* A thread whose frame was in flight and that returns takes one frame off the
\* account of its registration, or leaves a foreign one behind.
LEMMA AccountReturns ==
  ASSUME AccountInv, NEW p \in Pushers, PushStep(p), PushReturns(p),
         pusher[p].pc = "transform", NEW s \in Streams, pusher[p].stream = s, NEW d,
         d = Dropped(stream[s]) \/ d = Published(stream[s], pusher[p]),
         stream' = IF Present(s) THEN [stream EXCEPT ![s] = d] ELSE stream
  PROVE  AccountInv'
<1> DEFINE n == Cardinality(InFlight(s))
<1>1. /\ TypeOK /\ pusher[p] \in PusherState
      /\ stream[s] \in StreamState /\ ghost[s] \in GhostState
  BY DEF AccountInv, TypeOK
<1>2. pusher' = [pusher EXCEPT ![p] = Idle] /\ Idle.pc = "idle"
  BY DEF PushReturns, Idle
<1>3. (\A q \in Pushers : q # p => pusher'[q] = pusher[q]) /\ pusher'[p].pc = "idle"
  BY <1>1, <1>2 DEF TypeOK
<1>4. \A t \in Streams : t # s => stream'[t] = stream[t] /\ ghost'[t] = ghost[t]
  BY <1>1 DEF PushReturns, TypeOK
<1>5. InFlight(s)' = InFlight(s) \ {p}
  BY <1>3, InFlightOfStep
<1>6. ASSUME Present(s)
      PROVE  Balanced(stream'[s], ghost'[s], Cardinality(InFlight(s)'))
  <2>1. stream'[s] = d
    BY <1>1, <1>6 DEF TypeOK
  <2>2. Balanced(stream[s], ghost[s], n) /\ n \in Nat /\ IsFiniteSet(InFlight(s))
    BY <1>1, <1>6, AccountedIsBalanced, InFlightFinite DEF AccountInv
  <2>3. CASE Foreign(p)
    <3> DEFINE g == [ghost[s] EXCEPT !.foreign = @ + 1]
    <3>1. ghost'[s] = g
      BY <1>1, <1>6, <2>3 DEF PushReturns, TypeOK
    <3>2. p \notin InFlight(s)
      BY <2>3 DEF InFlight, Foreign
    <3>3. InFlight(s)' = InFlight(s)
      BY <1>5, <3>2
    <3>4. Balanced(Dropped(stream[s]), g, n) /\ Balanced(Published(stream[s], pusher[p]), g, n)
      BY <1>1, <2>2, CountersWritten, 0 \in Nat
    <3> HIDE DEF g
    <3> QED
      BY <2>1, <3>1, <3>3, <3>4
  <2>4. CASE ~Foreign(p)
    <3>1. ghost'[s] = ghost[s]
      BY <1>1, <2>4 DEF PushReturns
    <3>2. p \in InFlight(s)
      BY <2>4 DEF InFlight, Foreign
    <3>3. Cardinality(InFlight(s)') = n - 1 /\ n > 0
      BY <1>5, <2>2, <3>2, FS_RemoveElement, FS_EmptySet
    <3>4. /\ Balanced(Dropped(stream[s]), ghost[s], n - 1)
          /\ Balanced(Published(stream[s], pusher[p]), ghost[s], n - 1)
      BY <1>1, <2>2, <3>3, CountersWritten, 0 \in Nat
    <3> QED
      BY <2>1, <3>1, <3>3, <3>4
  <2> QED
    BY <2>3, <2>4
<1> QED
  BY <1>3, <1>4, <1>6, AccountOfStep

\* A thread inside push_frame keeps the account.
LEMMA AccountPush ==
  ASSUME AccountInv, NEW p \in Pushers, PushStep(p)
  PROVE  AccountInv'
<1>0. pusher[p].stream \in Streams
  BY DEF PushStep, PushReject, PushVanished, PushThrottled, PushAdmitted,
         PushTransformFails, PushPublish, AccountInv, TypeOK
<1> PICK s \in Streams : pusher[p].stream = s
  BY <1>0
<1> DEFINE n == Cardinality(InFlight(s))
<1>1. /\ TypeOK /\ pusher[p] \in PusherState
      /\ stream[s] \in StreamState /\ ghost[s] \in GhostState
  BY DEF AccountInv, TypeOK
<1>2. Present(s) => Balanced(stream[s], ghost[s], n)
  BY <1>1, AccountedIsBalanced DEF AccountInv
<1>3. n \in Nat /\ IsFiniteSet(InFlight(s)) /\ 0 \in Nat
  BY InFlightFinite
<1>4. ASSUME pusher' = [pusher EXCEPT ![p] = Idle], pusher[p].pc # "transform"
      PROVE  /\ \A q \in Pushers : q # p => pusher'[q] = pusher[q]
             /\ pusher'[p].pc # "transform" /\ InFlight(s)' = InFlight(s)
  <2>1. /\ \A q \in Pushers : q # p => pusher'[q] = pusher[q]
        /\ pusher'[p].pc # "transform"
    BY <1>1, <1>4 DEF TypeOK, Idle
  <2>2. p \notin InFlight(s)
    BY <1>4 DEF InFlight
  <2>3. InFlight(s)' = InFlight(s) \ {p}
    BY <2>1, InFlightOfStep
  <2>4. InFlight(s)' = InFlight(s)
    BY <2>2, <2>3
  <2> QED
    BY <2>1, <2>4
<1>5. CASE PushReject(p)
  <2> DEFINE g == [ghost[s] EXCEPT !.rejected = @ + 1]
  <2>1. pusher' = [pusher EXCEPT ![p] = Idle] /\ pusher[p].pc # "transform"
    BY <1>5 DEF PushReject
  <2>2. \A t \in Streams : t # s => stream'[t] = stream[t] /\ ghost'[t] = ghost[t]
    BY <1>1, <1>5 DEF PushReject, TypeOK
  <2>3. Present(s) => stream'[s] = Dropped(stream[s]) /\ ghost'[s] = g
    BY <1>1, <1>5 DEF PushReject, TypeOK
  <2>4. Present(s) => Balanced(Dropped(stream[s]), g, n)
    BY <1>1, <1>2, <1>3, CountersWritten
  <2> HIDE DEF g
  <2>5. Present(s) => Balanced(stream'[s], ghost'[s], n)
    BY <2>3, <2>4
  <2> QED
    BY <1>4, <2>1, <2>2, <2>5, AccountOfStep
<1>6. CASE PushVanished(p)
  <2>1. /\ pusher' = [pusher EXCEPT ![p] = Idle] /\ pusher[p].pc # "transform"
        /\ UNCHANGED <<stream, ghost>>
    BY <1>6 DEF PushVanished
  <2> QED
    BY <1>2, <1>4, <2>1, AccountOfStep
<1>7. CASE PushThrottled(p)
  <2>1. /\ pusher' = [pusher EXCEPT ![p] = Idle] /\ pusher[p].pc # "transform"
        /\ ghost' = ghost /\ Present(s)
        /\ stream' = [stream EXCEPT ![s] = Dropped(Received(stream[s]))]
    BY <1>7 DEF PushThrottled
  <2>2. /\ \A t \in Streams : t # s => stream'[t] = stream[t] /\ ghost'[t] = ghost[t]
        /\ stream'[s] = Dropped(Received(stream[s])) /\ ghost'[s] = ghost[s]
    BY <1>1, <2>1 DEF TypeOK
  <2>3. Balanced(stream'[s], ghost'[s], n)
    BY <1>1, <1>2, <1>3, <2>1, <2>2, CountersWritten
  <2> QED
    BY <1>4, <2>1, <2>2, <2>3, AccountOfStep
<1>8. CASE PushAdmitted(p)
  <2>1. /\ Present(s) /\ pusher[p].pc = "count"
        /\ stream'[s] = Admitted(stream[s], pusher[p])
        /\ ghost'[s] = Remembered(ghost[s], stream[s], pusher[p])
        /\ \A t \in Streams : t # s => stream'[t] = stream[t] /\ ghost'[t] = ghost[t]
        /\ \A q \in Pushers : q # p => pusher'[q] = pusher[q]
    BY <1>1, <1>8 DEF PushAdmitted, TypeOK
  <2>2. pusher'[p] = [pusher[p] EXCEPT !.pc = "transform", !.life = stream[s].life]
    BY <1>1, <1>8 DEF PushAdmitted, TypeOK
  <2>3. /\ pusher'[p].pc = "transform" /\ pusher'[p].stream = s
        /\ pusher'[p].life = stream[s].life
    BY <1>1, <2>2 DEF PusherState
  <2>4. pusher'[p].life # None /\ pusher'[p].life <= made.lives
    BY <1>1, <2>1, <2>3 DEF Present, AccountInv
  <2>5. p \notin InFlight(s)
    BY <2>1 DEF InFlight
  <2>6. InFlight(s)' = InFlight(s) \cup {p}
    BY <2>1, <2>3, InFlightOfStep
  <2>7. Cardinality(InFlight(s)') = n + 1
    BY <1>3, <2>5, <2>6, FS_AddElement
  <2>8. Balanced(Admitted(stream[s], pusher[p]), Remembered(ghost[s], stream[s], pusher[p]), n + 1)
    BY <1>1, <1>2, <1>3, <2>1, CountersWritten
  <2> QED
    BY <2>1, <2>3, <2>4, <2>7, <2>8, AccountOfStep
<1>9. CASE PushTransformFails(p)
  BY <1>9, AccountReturns DEF PushTransformFails
<1>10. CASE PushPublish(p)
  BY <1>10, AccountReturns DEF PushPublish
<1> QED
  BY <1>5, <1>6, <1>7, <1>8, <1>9, <1>10 DEF PushStep

\* The public counters add up in every reachable state, for any number of
\* threads and however often the stream is reconfigured or replaced.
THEOREM CoreFramesAccounted == Spec => []FramesAccounted
<1>1. Init => AccountInv
  BY AccountInit
<1>2. AccountInv /\ [Next]_vars => AccountInv'
  <2> SUFFICES ASSUME AccountInv, [Next]_vars PROVE AccountInv'
    OBVIOUS
  <2>1. CASE \E s \in Streams :
               \/ RegisterStream(s) \/ RemoveStream(s)
               \/ \E interval \in Intervals : SetOutputConfig(s, interval)
    BY <2>1, AccountRegistry
  <2>2. CASE \E s \in Streams, p \in Pushers : \E fits \in BOOLEAN : PushValidate(p, s, fits)
    BY <2>2, AccountValidate
  <2>3. CASE \E p \in Pushers : PushStep(p)
    BY <2>3, AccountPush
  <2>4. CASE UNCHANGED vars
    BY <2>4 DEF vars, AccountInv, TypeOK, FramesAccounted, InFlight, Present
  <2> QED
    BY <2>1, <2>2, <2>3, <2>4 DEF Next
<1>3. AccountInv => FramesAccounted
  BY DEF AccountInv
<1> QED
  BY <1>1, <1>2, <1>3, PTL DEF Spec
=============================================================================
