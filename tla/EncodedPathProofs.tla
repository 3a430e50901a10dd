--------------------------- MODULE EncodedPathProofs ---------------------------
(***************************************************************************)
(* First the encoded handoff, for every capacity and every number of       *)
(* pushed units.  The operators of HandoffOps are described pointwise      *)
(* (which unit stands where afterwards); the invariance proof then never   *)
(* looks inside SubSeq or \o again.  The overflow loop of push is followed  *)
(* turn by turn and comes to what PushDelta does at once.                  *)
(*                                                                         *)
(* Then what a raw pipeline promises, for every frame rate, clock          *)
(* resolution, set of linked encoders and encoder delay.  The              *)
(* strengthening (PipelineInv): the pipeline runs exactly while its        *)
(* encoder is open; an encoder that was never fed holds nothing; the       *)
(* decimation clock is the last admitted frame plus an interval; and what  *)
(* ended the last run is told by failed_ and failure_error_.               *)
(*                                                                         *)
(* Then the composition: with a pipeline in front of it the handoff still  *)
(* does what EncodedHandoff allows, and bound to a handoff or to the       *)
(* server the pipeline does what RawPipeline allows.  So everything proved *)
(* of the parts holds of the whole.                                        *)
(***************************************************************************)
EXTENDS EncodedPath, SequenceTheorems, WellFoundedInduction, TLAPS

-----------------------------------------------------------------------------
(* The encoded handoff.                                                    *)

USE MaxUnitsAssumption, MaxPushedAssumption

\* The constructor's clamp makes every capacity positive.
LEMMA CapacityPositive == Capacity \in Nat \ {0}
BY DEF Capacity

\* Making room in a full backlog removes exactly its oldest inter unit: the
\* front one, or the second one when a keyframe is in front
\* (encoded_access_unit_handoff.h:47-61).
LEMMA MakeRoomEffect ==
  ASSUME NEW h \in Handoff,
         Len(h.backlog) = Capacity,
         ~KeyframeFillsCapacity(h)
  PROVE  /\ MakeRoom(h) \in Handoff
         /\ MakeRoom(h).config = h.config
         /\ MakeRoom(h).dropped = h.dropped + 1
         /\ Len(MakeRoom(h).backlog) = Capacity - 1
         /\ h.backlog[1].kind = "key" =>
              /\ MakeRoom(h).backlog[1] = h.backlog[1]
              /\ \A i \in 2..(Capacity - 1) :
                   MakeRoom(h).backlog[i] = h.backlog[i + 1]
         /\ h.backlog[1].kind # "key" =>
              \A i \in 1..(Capacity - 1) :
                   MakeRoom(h).backlog[i] = h.backlog[i + 1]
<1> DEFINE b == h.backlog
           front == SubSeq(b, 2, Len(b))
           behind == <<b[1]>> \o SubSeq(b, 3, Len(b))
<1>1. b \in Seq(Unit) /\ h.config \in Seq(Unit) /\ h.dropped \in Nat
  BY DEF Handoff
<1>2. Capacity \in Nat /\ Capacity >= 1 /\ Len(b) = Capacity
  BY CapacityPositive
<1>3. \A i \in 1..Len(b) : b[i] \in Unit
  BY <1>1, ElementOfSeq
<1>4. /\ Len(b) - Capacity + 1 = 1
      /\ 1 + 2 = 3 /\ 1 + 1 = 2
  BY <1>2
<1>5. CASE b[1].kind = "key"
  <2>1. Capacity > 1
    BY <1>2, <1>5 DEF KeyframeFillsCapacity
  <2>2. MakeRoom(h) = [h EXCEPT !.backlog = behind, !.dropped = h.dropped + 1]
    BY <1>4, <1>5, Zenon DEF MakeRoom
  <2>3. \A i \in 3..Len(b) : b[i] \in Unit
    BY <1>3
  <2>4. /\ SubSeq(b, 3, Len(b)) \in Seq(Unit)
        /\ Len(SubSeq(b, 3, Len(b))) = Capacity - 2
        /\ \A i \in 1..(Capacity - 2) : SubSeq(b, 3, Len(b))[i] = b[i + 2]
    <3> DEFINE tail == SubSeq(b, 3, Len(b))
    <3>1. /\ tail \in Seq(Unit)
          /\ Len(tail) = IF 3 <= Len(b) THEN Len(b) - 3 + 1 ELSE 0
          /\ \A i \in 1 .. Len(b) - 3 + 1 : tail[i] = b[3 + i - 1]
      BY <2>3, <1>2, SubSeqProperties
    <3> HIDE DEF tail
    <3>2. QED
      BY <3>1, <1>2, <2>1 DEF tail
  <2>5. <<b[1]>> \in Seq(Unit) /\ Len(<<b[1]>>) = 1 /\ <<b[1]>>[1] = b[1]
    BY <1>2, <1>3
  <2>6. /\ behind \in Seq(Unit)
        /\ Len(behind) = Capacity - 1
        /\ behind[1] = b[1]
        /\ \A i \in 2..(Capacity - 1) : behind[i] = b[i + 1]
    <3> DEFINE s == <<b[1]>>  t == SubSeq(b, 3, Len(b))
    <3>1. s \in Seq(Unit) /\ Len(s) = 1 /\ s[1] = b[1]
      BY <2>5
    <3>2. t \in Seq(Unit) /\ Len(t) = Capacity - 2
          /\ \A i \in 1..(Capacity - 2) : t[i] = b[i + 2]
      BY <2>4
    <3> HIDE DEF s, t
    <3>3. /\ s \o t \in Seq(Unit)
          /\ Len(s \o t) = Len(s) + Len(t)
          /\ \A i \in 1 .. Len(s) + Len(t) :
               (s \o t)[i] = IF i <= Len(s) THEN s[i] ELSE t[i - Len(s)]
      BY <3>1, <3>2, ConcatProperties
    <3>4. \A i \in 2..(Capacity - 1) : (s \o t)[i] = b[i + 1]
      <4> TAKE i \in 2..(Capacity - 1)
      <4>1. (s \o t)[i] = t[i - 1]
        BY <3>1, <3>2, <3>3, <1>2
      <4>2. i - 1 \in 1..(Capacity - 2) /\ (i - 1) + 2 = i + 1
        BY <1>2
      <4>3. QED
        BY <4>1, <4>2, <3>2
    <3>5. (s \o t)[1] = b[1]
      BY <3>1, <3>2, <3>3, <1>2, <2>1
    <3>6. QED
      BY <3>1, <3>2, <3>3, <3>4, <3>5, <1>2 DEF s, t
  <2> HIDE DEF behind
  <2>7. /\ MakeRoom(h) \in Handoff
        /\ MakeRoom(h).config = h.config
        /\ MakeRoom(h).dropped = h.dropped + 1
        /\ MakeRoom(h).backlog = behind
    <3> DEFINE n == h.dropped + 1
    <3>1. n \in Nat /\ MakeRoom(h) = [h EXCEPT !.backlog = behind, !.dropped = n]
      BY <1>1, <2>2
    <3> HIDE DEF n
    <3>2. MakeRoom(h) \in Handoff /\ MakeRoom(h).config = h.config
          /\ MakeRoom(h).backlog = behind /\ MakeRoom(h).dropped = n
      BY <2>6, <3>1 DEF Handoff
    <3>3. QED
      BY <3>2 DEF n
  <2>8. QED
    BY <1>5, <2>6, <2>7
<1>6. CASE b[1].kind # "key"
  <2>1. MakeRoom(h) = [h EXCEPT !.backlog = front, !.dropped = h.dropped + 1]
    BY <1>4, <1>6, Zenon DEF MakeRoom
  <2>2. \A i \in 2..Len(b) : b[i] \in Unit
    BY <1>3
  <2>3. /\ front \in Seq(Unit)
        /\ Len(front) = Capacity - 1
        /\ \A i \in 1..(Capacity - 1) : front[i] = b[i + 1]
    <3>1. /\ front \in Seq(Unit)
          /\ Len(front) = IF 2 <= Len(b) THEN Len(b) - 2 + 1 ELSE 0
          /\ \A i \in 1 .. Len(b) - 2 + 1 : front[i] = b[2 + i - 1]
      BY <2>2, <1>2, SubSeqProperties
    <3> HIDE DEF front
    <3>2. QED
      BY <3>1, <1>2
  <2> HIDE DEF front
  <2>4. /\ MakeRoom(h) \in Handoff
        /\ MakeRoom(h).config = h.config
        /\ MakeRoom(h).dropped = h.dropped + 1
        /\ MakeRoom(h).backlog = front
    <3> DEFINE n == h.dropped + 1
    <3>1. n \in Nat /\ MakeRoom(h) = [h EXCEPT !.backlog = front, !.dropped = n]
      BY <1>1, <2>1
    <3> HIDE DEF n
    <3>2. MakeRoom(h) \in Handoff /\ MakeRoom(h).config = h.config
          /\ MakeRoom(h).backlog = front /\ MakeRoom(h).dropped = n
      BY <2>3, <3>1 DEF Handoff
    <3>3. QED
      BY <3>2 DEF n
  <2>5. QED
    BY <1>6, <2>3, <2>4
<1>7. QED
  BY <1>5, <1>6

\* The three things a pushed inter unit can do to the backlog.
AppendedTo(b, u, q) ==
  /\ Len(q) = Len(b) + 1
  /\ \A i \in 1..Len(b) : q[i] = b[i]
  /\ q[Len(q)] = u

ReplacedOldest(b, u, q) ==
  /\ Len(q) = Len(b)
  /\ b[1].kind = "key" => q[1] = b[1] /\ \A i \in 2..(Len(b) - 1) : q[i] = b[i + 1]
  /\ b[1].kind # "key" => \A i \in 1..(Len(b) - 1) : q[i] = b[i + 1]
  /\ b[1].kind = "key" => Len(b) > 1
  /\ q[Len(q)] = u

TurnedAway(b, q) ==
  Len(b) = 1 /\ Len(q) = 1 /\ q[1] = b[1] /\ b[1].kind = "key"

\* push() of an inter unit on a backlog within its capacity: it is appended, or
\* replaces the oldest inter unit, or is turned away by a keyframe that fills
\* the capacity; in the last two cases the drop counter rises by one.
LEMMA PushDeltaEffect ==
  ASSUME NEW h \in Handoff, NEW u \in Unit, Len(h.backlog) <= Capacity
  PROVE  LET r == PushDelta(h, u) IN
         /\ r \in Handoff /\ r.config = h.config
         /\ Len(r.backlog) \in 1..Capacity
         /\ \/ AppendedTo(h.backlog, u, r.backlog) /\ r.dropped = h.dropped
            \/ ReplacedOldest(h.backlog, u, r.backlog) /\ r.dropped = h.dropped + 1
            \/ TurnedAway(h.backlog, r.backlog) /\ r.dropped = h.dropped + 1
<1> DEFINE b == h.backlog
           r == PushDelta(h, u)
<1>1. /\ b \in Seq(Unit) /\ Len(b) \in Nat /\ h.dropped \in Nat
      /\ \A i \in 1..Len(b) : b[i] \in Unit
  BY LenProperties, ElementOfSeq DEF Handoff
<1>2. Capacity \in Nat /\ Capacity >= 1
  BY CapacityPositive
<1>3. CASE Len(b) < Capacity
  <2> DEFINE q == Append(b, u)
  <2>1. q \in Seq(Unit) /\ AppendedTo(b, u, q)
    BY <1>1, AppendProperties DEF AppendedTo
  <2>2. r = [h EXCEPT !.backlog = q]
    BY <1>3 DEF PushDelta
  <2> HIDE DEF q, r
  <2>3. r \in Handoff /\ r.config = h.config /\ r.backlog = q /\ r.dropped = h.dropped
    BY <2>1, <2>2 DEF Handoff
  <2>4. Len(q) \in 1..Capacity
    BY <2>1, <1>1, <1>2, <1>3 DEF AppendedTo
  <2>5. QED
    BY <2>1, <2>3, <2>4 DEF r
<1>4. CASE Len(b) = Capacity /\ KeyframeFillsCapacity(h)
  <2> DEFINE q == <<b[1]>>
             n == h.dropped + 1
  <2>1. Len(b) = 1 /\ b[1].kind = "key"
    BY <1>4 DEF KeyframeFillsCapacity
  <2>2. q \in Seq(Unit) /\ Len(q) = 1 /\ q[1] = b[1]
    BY <1>1, <2>1
  <2>3. r = [h EXCEPT !.backlog = q, !.dropped = n]
    BY <1>4, <2>1 DEF PushDelta
  <2>4. n \in Nat
    BY <1>1
  <2> HIDE DEF q, n, r
  <2>5. r \in Handoff /\ r.config = h.config /\ r.backlog = q /\ r.dropped = n
    BY <2>2, <2>3, <2>4 DEF Handoff
  <2>6. TurnedAway(b, q) /\ Len(q) \in 1..Capacity
    BY <2>1, <2>2, <1>2 DEF TurnedAway
  <2>7. QED
    BY <2>5, <2>6 DEF n, r
<1>5. CASE Len(b) = Capacity /\ ~KeyframeFillsCapacity(h)
  <2> DEFINE m == MakeRoom(h)
             q == Append(m.backlog, u)
  <2>1. /\ m \in Handoff /\ m.config = h.config /\ m.dropped = h.dropped + 1
        /\ Len(m.backlog) = Capacity - 1
        /\ b[1].kind = "key" =>
             /\ m.backlog[1] = b[1]
             /\ \A i \in 2..(Capacity - 1) : m.backlog[i] = b[i + 1]
        /\ b[1].kind # "key" =>
             \A i \in 1..(Capacity - 1) : m.backlog[i] = b[i + 1]
    BY <1>5, MakeRoomEffect
  <2>2. r = [m EXCEPT !.backlog = q]
    BY <1>5, <1>2 DEF PushDelta
  <2> HIDE DEF m
  <2>3. m.backlog \in Seq(Unit)
    BY <2>1 DEF Handoff
  <2>4. /\ q \in Seq(Unit) /\ Len(q) = Capacity /\ q[Capacity] = u
        /\ \A i \in 1..(Capacity - 1) : q[i] = m.backlog[i]
    BY <2>1, <2>3, <1>2, AppendProperties
  <2>5. b[1].kind = "key" => Capacity > 1
    BY <1>5, <1>2 DEF KeyframeFillsCapacity
  <2> HIDE DEF q, r
  <2>6. r \in Handoff /\ r.config = h.config /\ r.backlog = q
        /\ r.dropped = h.dropped + 1
    BY <2>1, <2>2, <2>4 DEF Handoff
  <2>7. ReplacedOldest(b, u, q)
    BY <1>5, <1>2, <2>1, <2>4, <2>5 DEF ReplacedOldest
  <2>8. QED
    BY <1>2, <2>4, <2>6, <2>7 DEF r
<1>6. QED
  BY <1>1, <1>2, <1>3, <1>4, <1>5

-----------------------------------------------------------------------------
\* The inductive invariant holds of a freshly constructed handoff.
LEMMA InvInit == Init => HandoffInv
<1> SUFFICES ASSUME Init PROVE HandoffInv
  OBVIOUS
<1>1. /\ handoff.config = <<>> /\ handoff.backlog = <<>> /\ handoff.dropped = 0
      /\ handoff \in Handoff
  BY DEF Init, EmptyHandoff, Handoff
<1>2. QED
  BY <1>1, CapacityPositive
     DEF Init, HandoffInv, TypeOK, BacklogBounded, NewestPending,
         NewestKeyframeKept, UnitsAccounted, OneConfigCached, BatchStartsSafe

\* What the type invariant says of the sequences, in the form the steps use.
LEMMA TypeFacts ==
  ASSUME TypeOK
  PROVE  /\ handoff \in Handoff
         /\ handoff.backlog \in Seq(Unit) /\ handoff.config \in Seq(Unit)
         /\ Len(handoff.backlog) \in Nat /\ handoff.dropped \in Nat
         /\ DOMAIN handoff.backlog = 1..Len(handoff.backlog)
         /\ \A i \in 1..Len(handoff.backlog) :
              handoff.backlog[i] \in Unit /\ handoff.backlog[i].seq \in Nat
         /\ pushed \in Nat /\ drained \in Nat /\ discarded \in Nat
         /\ delivered \in Nat /\ spanKey \in Nat /\ batch \in Seq(Unit)
<1>1. handoff.backlog \in Seq(Unit)
  BY DEF TypeOK, Handoff
<1>2. \A i \in 1..Len(handoff.backlog) : handoff.backlog[i] \in Unit
  BY <1>1, ElementOfSeq
<1>3. QED
  BY <1>1, <1>2, LenProperties DEF TypeOK, Handoff, Unit

\* Each of the three outcomes of PushDeltaEffect keeps the backlog a keyframe
\* (or nothing) followed by the newest inter units.
LEMMA NewestAfterDelta ==
  ASSUME NEW b \in Seq(Unit), NEW q \in Seq(Unit), NEW u \in Unit,
         NEW d \in Nat, NEW p \in Nat,
         NEW m \in Nat, NEW n \in Nat, m = Len(b), n = Len(q),
         d <= p, NewestPending(b, d, p), u.kind = "delta", u.seq = p + 1,
         AppendedTo(b, u, q) \/ ReplacedOldest(b, u, q) \/ TurnedAway(b, q),
         n >= 1
  PROVE  NewestPending(q, d, p + 1)
<1>1. /\ \A i \in 2..m : b[i].kind = "delta" /\ b[i].seq = p - (m - i)
      /\ m >= 1 => d < b[1].seq
      /\ m >= 1 => \/ b[1].kind = "delta" /\ b[1].seq = p - (m - 1)
                   \/ b[1].kind = "key" /\ b[1].seq <= p - (m - 1)
  BY DEF NewestPending
<1>2. m >= 1 => b[1].seq \in Nat
  <2>1. ASSUME m >= 1 PROVE b[1] \in Unit
    BY <2>1, ElementOfSeq
  <2>2. QED
    BY <2>1 DEF Unit
<1>3. SUFFICES
        /\ \A i \in 2..n : q[i].kind = "delta" /\ q[i].seq = p + 1 - (n - i)
        /\ d < q[1].seq
        /\ \/ q[1].kind = "delta" /\ q[1].seq = p + 1 - (n - 1)
           \/ q[1].kind = "key" /\ q[1].seq <= p + 1 - (n - 1)
  BY DEF NewestPending
<1>4. CASE AppendedTo(b, u, q)
  <2>1. n = m + 1 /\ q[n] = u /\ \A i \in 1..m : q[i] = b[i]
    BY <1>4 DEF AppendedTo
  <2>2. CASE m = 0
    BY <2>1, <2>2
  <2>3. CASE m >= 1
    <3>1. \A i \in 2..m : q[i].kind = "delta" /\ q[i].seq = p - (m - i)
      BY <1>1, <2>1
    <3>2. \A i \in 2..m : p - (m - i) = p + 1 - (n - i)
      BY <2>1
    <3>3. q[n].kind = "delta" /\ q[n].seq = p + 1 - (n - n)
      BY <2>1
    <3>4. \A i \in 2..n : q[i].kind = "delta" /\ q[i].seq = p + 1 - (n - i)
      <4> TAKE i \in 2..n
      <4>1. i = n \/ i \in 2..m
        BY <2>1
      <4>2. QED
        BY <4>1, <3>1, <3>2, <3>3
    <3>5. q[1] = b[1] /\ p - (m - 1) = p + 1 - (n - 1)
      BY <2>1, <2>3
    <3>6. QED
      BY <1>1, <1>2, <2>3, <3>4, <3>5
  <2>4. QED
    BY <2>2, <2>3
<1>5. CASE ReplacedOldest(b, u, q) /\ b[1].kind = "key"
  <2>1. /\ n = m /\ q[1] = b[1] /\ q[n] = u /\ m > 1
        /\ \A i \in 2..(m - 1) : q[i] = b[i + 1]
    BY <1>5 DEF ReplacedOldest
  <2>2. \A i \in 2..(m - 1) : q[i].kind = "delta" /\ q[i].seq = p + 1 - (n - i)
    <3> TAKE i \in 2..(m - 1)
    <3>1. q[i] = b[i + 1] /\ i + 1 \in 2..m
      BY <2>1
    <3>2. QED
      BY <3>1, <1>1, <2>1
  <2>3. q[n].kind = "delta" /\ q[n].seq = p + 1 - (n - n)
    BY <2>1
  <2>4. \A i \in 2..n : q[i].kind = "delta" /\ q[i].seq = p + 1 - (n - i)
    <3> TAKE i \in 2..n
    <3>1. i = n \/ i \in 2..(m - 1)
      BY <2>1
    <3>2. QED
      BY <3>1, <2>2, <2>3
  <2>5. q[1].kind = "key" /\ d < q[1].seq
    BY <1>1, <1>5, <2>1
  <2>6. q[1].seq <= p + 1 - (n - 1)
    BY <1>1, <1>2, <1>5, <2>1
  <2>7. QED
    BY <2>4, <2>5, <2>6
<1>6. CASE ReplacedOldest(b, u, q) /\ b[1].kind # "key"
  <2>1. n = m /\ q[n] = u /\ \A i \in 1..(m - 1) : q[i] = b[i + 1]
    BY <1>6 DEF ReplacedOldest
  <2>2. \A i \in 1..(m - 1) : q[i].kind = "delta" /\ q[i].seq = p + 1 - (n - i)
    <3> TAKE i \in 1..(m - 1)
    <3>1. q[i] = b[i + 1] /\ i + 1 \in 2..m
      BY <2>1
    <3>2. QED
      BY <3>1, <1>1, <2>1
  <2>3. CASE n = 1
    BY <2>1, <2>3
  <2>4. CASE n > 1
    <3>1. q[n].kind = "delta" /\ q[n].seq = p + 1 - (n - n)
      BY <2>1
    <3>2. \A i \in 1..n : q[i].kind = "delta" /\ q[i].seq = p + 1 - (n - i)
      BY <2>1, <2>2, <3>1
    <3>3. b[1].seq = p - (m - 1) /\ d < b[1].seq /\ q[1].seq = p + 1 - (n - 1)
      BY <1>1, <1>6, <2>1, <2>4, <3>2
    <3>4. d < q[1].seq /\ q[1].kind = "delta"
      <4>1. 1 \in 1..n
        BY <2>4
      <4>2. q[1].kind = "delta"
        BY <3>2, <4>1
      <4>3. d < p - (m - 1)
        BY <3>3
      <4>4. q[1].seq = p + 1 - (m - 1)
        BY <2>1, <3>3
      <4>5. d < p + 1 - (m - 1)
        BY <4>3
      <4> QED
        BY <4>2, <4>4, <4>5
    <3>5. QED
      BY <2>4, <3>2, <3>3, <3>4
  <2>5. QED
    BY <2>3, <2>4
<1>7. CASE TurnedAway(b, q)
  BY <1>1, <1>2, <1>7 DEF TurnedAway
<1>8. QED
  BY <1>4, <1>5, <1>6, <1>7

\* A codec configuration replaces the cached one and touches nothing else.
LEMMA InvPushConfig == HandoffInv /\ PushConfig => HandoffInv'
<1> SUFFICES ASSUME HandoffInv, PushConfig PROVE HandoffInv'
  OBVIOUS
<1>0. TypeOK
  BY DEF HandoffInv
<1> DEFINE u == [seq |-> pushed, kind |-> "config"]
<1>1. u \in Unit /\ u.kind = "config"
  BY <1>0, TypeFacts DEF Unit, Kind
<1>2. <<u>> \in Seq(Unit) /\ Len(<<u>>) = 1 /\ <<u>>[1] = u /\ DOMAIN <<u>> = {1}
  BY <1>1
<1>3. handoff' = [handoff EXCEPT !.config = <<u>>]
  BY <1>1 DEF PushConfig, AfterPush
<1> HIDE DEF u
<1>4. /\ handoff' \in Handoff
      /\ handoff'.backlog = handoff.backlog /\ handoff'.dropped = handoff.dropped
      /\ handoff'.config = <<u>>
  BY <1>2, <1>3 DEF HandoffInv, TypeOK, Handoff
<1>5. OneConfigCached'
  BY <1>1, <1>2, <1>4 DEF OneConfigCached
<1>6. UNCHANGED <<pushed, drained, discarded, delivered, spanKey, batch>>
  BY DEF PushConfig
<1>7. TypeOK'
  BY <1>0, <1>4, <1>6 DEF TypeOK
<1>8. BacklogBounded' /\ UnitsAccounted'
  BY <1>4, <1>6 DEF HandoffInv, BacklogBounded, UnitsAccounted
<1>9. NewestPending(handoff.backlog, delivered, pushed)' /\ (delivered <= pushed)'
  BY <1>4, <1>6 DEF HandoffInv
<1>10. NewestKeyframeKept'
  BY <1>4, <1>6 DEF HandoffInv, NewestKeyframeKept
<1>11. BatchStartsSafe'
  BY <1>6 DEF HandoffInv, BatchStartsSafe
<1>12. QED
  BY <1>5, <1>7, <1>8, <1>9, <1>10, <1>11 DEF HandoffInv

\* A keyframe becomes the whole backlog; what it supersedes is counted.
LEMMA InvPushKeyframe == HandoffInv /\ PushFrame("key") => HandoffInv'
<1> SUFFICES ASSUME HandoffInv, PushFrame("key") PROVE HandoffInv'
  OBVIOUS
<1>0. TypeOK
  BY DEF HandoffInv
<1> USE <1>0, TypeFacts
<1> DEFINE u == [seq |-> pushed + 1, kind |-> "key"]
           n == handoff.dropped + Len(handoff.backlog)
<1>1. u \in Unit /\ u.kind = "key" /\ u.seq = pushed + 1
  BY DEF Unit, Kind
<1>2. <<u>> \in Seq(Unit) /\ Len(<<u>>) = 1 /\ <<u>>[1] = u /\ <<u>> # <<>>
  BY <1>1
<1>3. handoff' = [handoff EXCEPT !.backlog = <<u>>, !.dropped = n]
  BY <1>1 DEF PushFrame, AfterPush, PushKeyframe
<1>4. n \in Nat
  OBVIOUS
<1> HIDE DEF n
<1>5. /\ handoff' \in Handoff /\ handoff'.backlog = <<u>>
      /\ handoff'.dropped = n /\ handoff'.config = handoff.config
  BY <1>2, <1>3, <1>4 DEF Handoff
<1>6. NewestKeyframeKept'
  <2>1. spanKey' = pushed + 1 /\ u = [seq |-> spanKey', kind |-> "key"]
    BY DEF PushFrame
  <2> HIDE DEF u
  <2>2. handoff'.backlog # <<>> /\ handoff'.backlog[1] = u
    BY <1>2, <1>5
  <2>3. QED
    BY <2>1, <2>2 DEF NewestKeyframeKept
<1> HIDE DEF u
<1>7. TypeOK' /\ BacklogBounded'
  <2>1. TypeOK'
    BY <1>5 DEF PushFrame, TypeOK
  <2>2. 1 <= Capacity
    BY CapacityPositive
  <2>3. QED
    BY <1>2, <1>5, <2>1, <2>2 DEF BacklogBounded
<1>8. NewestPending(handoff.backlog, delivered, pushed)' /\ (delivered <= pushed)'
  <2>1. delivered <= pushed
    BY DEF HandoffInv
  <2>2. NewestPending(<<u>>, delivered, pushed + 1)
    BY <1>1, <1>2, <2>1 DEF NewestPending
  <2>3. delivered' = delivered /\ pushed' = pushed + 1
    BY DEF PushFrame
  <2>4. QED
    BY <1>5, <2>1, <2>2, <2>3
<1>9. UnitsAccounted'
  <2>1. Len(handoff'.backlog) = 1 /\ handoff'.dropped = n
    BY <1>2, <1>5
  <2>2. pushed = drained + discarded + n
    BY DEF HandoffInv, UnitsAccounted, n
  <2>3. pushed + 1 = drained + discarded + n + 1
    BY <1>4, <2>2
  <2>4. QED
    BY <2>1, <2>3 DEF PushFrame, UnitsAccounted
<1>10. BatchStartsSafe' /\ OneConfigCached'
  BY <1>5 DEF PushFrame, HandoffInv, BatchStartsSafe, OneConfigCached
<1>11. QED
  BY <1>6, <1>7, <1>8, <1>9, <1>10 DEF HandoffInv

\* An inter unit: each of the three outcomes of PushDeltaEffect keeps the
\* backlog a keyframe (or nothing) followed by the newest inter units.
LEMMA InvPushDelta == HandoffInv /\ PushFrame("delta") => HandoffInv'
<1> SUFFICES ASSUME HandoffInv, PushFrame("delta") PROVE HandoffInv'
  OBVIOUS
<1>0. TypeOK
  BY DEF HandoffInv
<1> DEFINE u == [seq |-> pushed + 1, kind |-> "delta"]
           b == handoff.backlog
           q == handoff'.backlog
<1>1. u \in Unit /\ u.kind = "delta" /\ u.seq = pushed + 1
  BY <1>0, TypeFacts DEF Unit, Kind
<1>2. handoff' = PushDelta(handoff, u)
  BY <1>1 DEF PushFrame, AfterPush
<1>3. handoff \in Handoff /\ Len(b) <= Capacity
  BY DEF HandoffInv, TypeOK, BacklogBounded
<1>4. /\ handoff' \in Handoff /\ handoff'.config = handoff.config
      /\ Len(q) \in 1..Capacity
      /\ \/ AppendedTo(b, u, q) /\ handoff'.dropped = handoff.dropped
         \/ ReplacedOldest(b, u, q) /\ handoff'.dropped = handoff.dropped + 1
         \/ TurnedAway(b, q) /\ handoff'.dropped = handoff.dropped + 1
  BY <1>1, <1>2, <1>3, PushDeltaEffect
<1>5. /\ pushed' = pushed + 1 /\ spanKey' = spanKey
      /\ UNCHANGED <<drained, discarded, delivered, batch>>
  BY DEF PushFrame
<1> HIDE DEF u
<1>6. TypeOK' /\ BacklogBounded'
  BY <1>0, <1>4, <1>5, CapacityPositive DEF TypeOK, BacklogBounded
<1>7. NewestPending(handoff.backlog, delivered, pushed)' /\ (delivered <= pushed)'
  <2>1. b \in Seq(Unit) /\ q \in Seq(Unit)
    BY <1>3, <1>4 DEF Handoff
  <2>2. delivered \in Nat /\ pushed \in Nat
    BY <1>0, TypeFacts
  <2> DEFINE m == Len(b)
             n == Len(q)
  <2>4. m \in Nat /\ n \in Nat /\ n >= 1
    BY <1>0, <1>4, TypeFacts, CapacityPositive
  <2>3. delivered <= pushed /\ NewestPending(b, delivered, pushed)
    BY DEF HandoffInv
  <2> HIDE DEF b, q
  <2>5. NewestPending(q, delivered, pushed + 1)
    BY <1>1, <1>4, <2>1, <2>2, <2>3, <2>4, NewestAfterDelta
  <2>6. QED
    BY <2>2, <2>3, <2>5, <1>5 DEF q
<1>8. NewestKeyframeKept'
  <2>1. CASE spanKey = 0
    BY <2>1, <1>5 DEF NewestKeyframeKept
  <2>2. CASE spanKey # 0
    <3>1. b # <<>> /\ b[1] = [seq |-> spanKey, kind |-> "key"]
      BY <2>2 DEF HandoffInv, NewestKeyframeKept
    <3>2. b[1].kind = "key" /\ Len(b) \in Nat /\ Len(b) >= 1
      BY <3>1, <1>0, TypeFacts, EmptySeq
    <3>3. q[1] = b[1]
      BY <3>2, <1>4 DEF AppendedTo, ReplacedOldest, TurnedAway
    <3>4. q # <<>>
      BY <1>4, CapacityPositive
    <3>5. QED
      BY <3>1, <3>3, <3>4, <1>5 DEF NewestKeyframeKept
  <2>3. QED
    BY <2>1, <2>2
<1>9. UnitsAccounted'
  <2>1. Len(q) + handoff'.dropped = Len(b) + handoff.dropped + 1
    <3>1. Len(b) \in Nat /\ handoff.dropped \in Nat
      BY <1>0, TypeFacts
    <3> HIDE DEF b, q
    <3>2. QED
      BY <3>1, <1>4 DEF AppendedTo, ReplacedOldest, TurnedAway
  <2>2. Len(q) \in Nat /\ handoff'.dropped \in Nat
    BY <1>4, CapacityPositive DEF Handoff
  <2>3. Len(b) \in Nat /\ handoff.dropped \in Nat /\ drained + discarded \in Nat
    BY <1>0, TypeFacts
  <2>4. pushed = drained + discarded + handoff.dropped + Len(b)
    BY DEF HandoffInv, UnitsAccounted
  <2> HIDE DEF b, q
  <2>5. pushed + 1 = drained + discarded + handoff'.dropped + Len(q)
    <3> DEFINE out == drained + discarded
               m == Len(b)
               n == Len(q)
               before == handoff.dropped
               after == handoff'.dropped
    <3>1. /\ out \in Nat /\ m \in Nat /\ n \in Nat
          /\ before \in Nat /\ after \in Nat
      BY <2>2, <2>3
    <3>2. pushed = out + before + m /\ n + after = m + before + 1
      BY <2>1, <2>4
    <3> HIDE DEF out, m, n, before, after
    <3>3. pushed + 1 = out + after + n
      BY <3>1, <3>2
    <3>4. QED
      BY <3>3 DEF out, n, after
  <2>6. QED
    BY <2>5, <1>5 DEF UnitsAccounted, q
<1>10. BatchStartsSafe' /\ OneConfigCached'
  BY <1>4, <1>5 DEF HandoffInv, BatchStartsSafe, OneConfigCached
<1>11. QED
  BY <1>6, <1>7, <1>8, <1>9, <1>10 DEF HandoffInv

\* A drain hands out the whole backlog, led by the configuration it needs.
LEMMA InvDrain == HandoffInv /\ Drain => HandoffInv'
<1> SUFFICES ASSUME HandoffInv, Drain PROVE HandoffInv'
  OBVIOUS
<1>0. TypeOK
  BY DEF HandoffInv
<1> DEFINE b == handoff.backlog
           c == handoff.config
           m == Len(b)
<1>1. /\ b \in Seq(Unit) /\ c \in Seq(Unit) /\ m \in Nat
      /\ \A i \in 1..m : b[i] \in Unit /\ b[i].seq \in Nat
  BY <1>0, TypeFacts
<1>2. /\ handoff' \in Handoff /\ handoff'.backlog = <<>>
      /\ handoff'.config = c /\ handoff'.dropped = handoff.dropped
  <2>1. handoff \in Handoff /\ <<>> \in Seq(Unit)
    BY <1>0, EmptySeq DEF TypeOK
  <2>2. handoff' = [handoff EXCEPT !.backlog = <<>>]
    BY DEF Drain, AfterDrain
  <2>3. QED
    BY <2>1, <2>2 DEF Handoff
<1>3. /\ delivered <= pushed /\ NewestPending(b, delivered, pushed)
      /\ delivered \in Nat /\ pushed \in Nat
  BY <1>0, TypeFacts DEF HandoffInv
<1>4. delivered' \in Nat /\ delivered' <= pushed
  <2>1. CASE b = <<>>
    BY <2>1, <1>3 DEF Drain
  <2>2. CASE b # <<>>
    <3>1. delivered' = b[m].seq
      BY <2>2 DEF Drain
    <3>2. m >= 1
      BY <1>1, <2>2, EmptySeq
    <3> HIDE DEF m, b
    <3>3. m = 1 \/ m \in 2..m
      BY <1>1, <3>2
    <3>4. b[m].seq \in Nat
      BY <1>1, <3>2
    <3>5. b[m].seq <= pushed
      <4>1. CASE m = 1
        <5>1. \/ b[1].seq = pushed - (m - 1)
              \/ b[1].seq <= pushed - (m - 1)
          BY <1>3, <3>2 DEF NewestPending, m
        <5>2. QED
          BY <5>1, <4>1, <1>3, <3>4
      <4>2. CASE m \in 2..m
        <5>1. b[m].seq = pushed - (m - m)
          BY <1>3, <4>2 DEF NewestPending, m
        <5>2. QED
          BY <5>1, <1>1, <1>3
      <4>3. QED
        BY <3>3, <4>1, <4>2
    <3>6. QED
      BY <3>1, <3>4, <3>5
  <2>3. QED
    BY <2>1, <2>2
<1>5. batch' \in Seq(Unit) /\ BatchStartsSafe'
  <2>1. /\ DOMAIN b = 1..m
        /\ \A i \in 2..m : b[i].kind = "delta"
        /\ m >= 1 => b[1].kind \in {"delta", "key"}
    BY <1>1, <1>3, LenProperties DEF NewestPending
  <2>2. \A i \in 1..m : b[i].kind # "config" /\ (b[i].kind = "key" => i = 1)
    <3> HIDE DEF m, b
    <3> TAKE i \in 1..m
    <3>1. i = 1 \/ i \in 2..m
      BY <1>1
    <3>2. QED
      BY <1>1, <2>1, <3>1
  <2>3. CASE ~HasKeyframe(b)
    <3>1. batch' = b
      BY <2>3 DEF Drain, DrainBatch
    <3> HIDE DEF b
    <3>2. QED
      BY <1>1, <2>1, <2>2, <2>3, <3>1 DEF BatchStartsSafe, HasKeyframe
  <2>4. CASE HasKeyframe(b)
    <3> DEFINE s == c \o b
               k == Len(c)
    <3>1. batch' = s
      BY <2>4 DEF Drain, DrainBatch
    <3>2. k \in Nat /\ k <= 1 /\ \A i \in 1..k : c[i].kind = "config"
      BY <1>1, LenProperties DEF HandoffInv, OneConfigCached
    <3>3. /\ s \in Seq(Unit) /\ Len(s) = k + m
          /\ \A i \in 1..(k + m) : s[i] = IF i <= k THEN c[i] ELSE b[i - k]
      BY <1>1, ConcatProperties
    <3>4. DOMAIN s = 1..(k + m)
      BY <3>3, LenProperties
    <3>5. PICK w \in 1..m : b[w].kind = "key"
      BY <2>1, <2>4 DEF HasKeyframe
    <3> HIDE DEF s, k, m, b, c
    <3>6. w = 1 /\ m >= 1
      BY <1>1, <2>2, <3>5
    <3>7. \A i \in 1..(k + m) : i <= k => i = 1 /\ s[i].kind = "config"
      BY <1>1, <3>2, <3>3
    <3>8. \A i \in 1..(k + m) :
            ~(i <= k) => s[i].kind # "config" /\ (s[i].kind = "key" => i = k + 1)
      <4> TAKE i \in 1..(k + m)
      <4> HAVE ~(i <= k)
      <4>1. i - k \in 1..m /\ s[i] = b[i - k]
        BY <1>1, <3>2, <3>3
      <4>2. QED
        BY <4>1, <2>2, <1>1, <3>2
    <3>9. s[k + 1].kind = "key" /\ k + 1 \in 1..(k + m)
      <4>1. k + 1 \in 1..(k + m) /\ ~(k + 1 <= k) /\ (k + 1) - k = 1
        BY <1>1, <3>2, <3>6
      <4>2. QED
        BY <4>1, <3>3, <3>5, <3>6
    <3>10. HasKeyframe(s)
      BY <3>4, <3>9 DEF HasKeyframe
    <3>11. \A i \in 1..(k + m) : s[i].kind = "key" =>
             \A j \in 1..(i - 1) : s[j].kind = "config"
      <4> TAKE i \in 1..(k + m)
      <4> HAVE s[i].kind = "key"
      <4>1. i = k + 1
        BY <3>7, <3>8
      <4>2. QED
        BY <4>1, <3>2, <3>7, <1>1, <3>6
    <3>12. \A i \in 1..(k + m) : s[i].kind = "config" => i = 1
      BY <3>7, <3>8
    <3>13. QED
      BY <3>1, <3>3, <3>4, <3>10, <3>11, <3>12 DEF BatchStartsSafe
  <2>5. QED
    BY <2>3, <2>4
<1>6. TypeOK'
  <2>1. drained' \in Nat
    BY <1>0, <1>1, TypeFacts DEF Drain
  <2>2. QED
    BY <2>1, <1>0, <1>2, <1>4, <1>5 DEF Drain, TypeOK
<1>7. BacklogBounded' /\ NewestPending(handoff.backlog, delivered, pushed)'
  BY <1>2, CapacityPositive DEF BacklogBounded, NewestPending
<1>8. NewestKeyframeKept' /\ OneConfigCached'
  BY <1>2 DEF Drain, HandoffInv, NewestKeyframeKept, OneConfigCached
<1>9. UnitsAccounted'
  <2> DEFINE out == handoff.dropped
  <2>1. /\ drained \in Nat /\ discarded \in Nat /\ out \in Nat /\ pushed \in Nat
        /\ pushed = drained + discarded + out + m
    BY <1>0, TypeFacts DEF HandoffInv, UnitsAccounted
  <2>2. Len(handoff'.backlog) = 0 /\ handoff'.dropped = out
    BY <1>2
  <2>3. drained' = drained + m /\ discarded' = discarded /\ pushed' = pushed
    BY DEF Drain
  <2> HIDE DEF out, m
  <2>4. pushed = (drained + m) + discarded + out + 0
    BY <2>1, <1>1
  <2>5. QED
    BY <2>2, <2>3, <2>4 DEF UnitsAccounted
<1>10. (delivered <= pushed)'
  BY <1>4 DEF Drain
<1>11. QED
  BY <1>5, <1>6, <1>7, <1>8, <1>9, <1>10 DEF HandoffInv

\* clear() forgets the backlog and the configuration; the backlog is accounted
\* as discarded.
LEMMA InvClear == HandoffInv /\ Clear => HandoffInv'
<1> SUFFICES ASSUME HandoffInv, Clear PROVE HandoffInv'
  OBVIOUS
<1>0. TypeOK
  BY DEF HandoffInv
<1> DEFINE m == Len(handoff.backlog)
<1>1. /\ handoff' \in Handoff /\ handoff'.backlog = <<>>
      /\ handoff'.config = <<>> /\ handoff'.dropped = handoff.dropped
  <2>1. handoff \in Handoff /\ <<>> \in Seq(Unit)
    BY <1>0, EmptySeq DEF TypeOK
  <2>2. handoff' = [EmptyHandoff EXCEPT !.dropped = handoff.dropped]
    BY DEF Clear, AfterClear
  <2>3. QED
    BY <2>1, <2>2 DEF Handoff, EmptyHandoff
<1>2. /\ spanKey' = 0 /\ discarded' = discarded + m
      /\ UNCHANGED <<pushed, drained, delivered, batch>>
  BY DEF Clear
<1>3. TypeOK'
  BY <1>0, <1>1, <1>2, TypeFacts DEF TypeOK
<1>4. BacklogBounded' /\ NewestPending(handoff.backlog, delivered, pushed)'
  BY <1>1, CapacityPositive DEF BacklogBounded, NewestPending
<1>5. NewestKeyframeKept' /\ OneConfigCached'
  BY <1>1, <1>2 DEF NewestKeyframeKept, OneConfigCached
<1>6. UnitsAccounted'
  <2> DEFINE out == handoff.dropped
  <2>1. /\ drained \in Nat /\ discarded \in Nat /\ out \in Nat /\ m \in Nat
        /\ pushed = drained + discarded + out + m
    BY <1>0, TypeFacts DEF HandoffInv, UnitsAccounted
  <2>2. Len(handoff'.backlog) = 0 /\ handoff'.dropped = out
    BY <1>1
  <2> HIDE DEF out, m
  <2>3. pushed = drained + (discarded + m) + out + 0
    BY <2>1
  <2>4. QED
    BY <2>2, <2>3, <1>2 DEF UnitsAccounted
<1>7. BatchStartsSafe' /\ (delivered <= pushed)'
  BY <1>2 DEF HandoffInv, BatchStartsSafe
<1>8. QED
  BY <1>3, <1>4, <1>5, <1>6, <1>7 DEF HandoffInv

\* HandoffInv is an invariant of the handoff, for every capacity.
THEOREM HandoffInvariant == Spec => []HandoffInv
<1>1. HandoffInv /\ [Next]_vars => HandoffInv'
  <2> SUFFICES ASSUME HandoffInv, [Next]_vars PROVE HandoffInv'
    OBVIOUS
  <2>1. CASE PushConfig
    BY <2>1, InvPushConfig
  <2>2. CASE PushFrame("key")
    BY <2>2, InvPushKeyframe
  <2>3. CASE PushFrame("delta")
    BY <2>3, InvPushDelta
  <2>4. CASE Drain
    BY <2>4, InvDrain
  <2>5. CASE Clear
    BY <2>5, InvClear
  <2>6. CASE UNCHANGED vars
    BY <2>6 DEF vars, HandoffInv, TypeOK, BacklogBounded, NewestPending,
       NewestKeyframeKept, UnitsAccounted, OneConfigCached, BatchStartsSafe
  <2>7. QED
    BY <2>1, <2>2, <2>3, <2>4, <2>5, <2>6 DEF Next
<1>2. QED
  BY InvInit, <1>1, PTL DEF Spec

\* The state of the handoff is always well formed (class members of
\* encoded_access_unit_handoff.h:96-99).
THEOREM HandoffTypeCorrect == Spec => []TypeOK
<1>1. HandoffInv => TypeOK
  BY DEF HandoffInv
<1>2. QED
  BY <1>1, HandoffInvariant, PTL

\* No interleaving of push, drain and clear makes the backlog outgrow its
\* capacity or evicts the newest keyframe (encoded_access_unit_handoff.h:25-63).
THEOREM HandoffSafe == Spec => [](BacklogBounded /\ NewestKeyframeKept)
<1>1. HandoffInv => BacklogBounded /\ NewestKeyframeKept
  BY DEF HandoffInv
<1>2. QED
  BY <1>1, HandoffInvariant, PTL

\* Every unit that was pushed is pending, was handed out or was counted as dropped
\* (encoded_access_unit_handoff.h:25-63).
THEOREM EveryUnitAccounted == Spec => []UnitsAccounted
<1>1. HandoffInv => UnitsAccounted
  BY DEF HandoffInv
<1>2. QED
  BY <1>1, HandoffInvariant, PTL

\* Every batch drain() returns starts in a decoder-safe state if it has a
\* keyframe, with the configuration in front of it
\* (encoded_access_unit_handoff.h:65-84).
THEOREM BatchesStartSafe == Spec => []BatchStartsSafe
<1>1. HandoffInv => BatchStartsSafe
  BY DEF HandoffInv
<1>2. QED
  BY <1>1, HandoffInvariant, PTL

\* What is pending behind the front is always the gapless run of the newest
\* inter units: overflow drops the stale ones first
\* (encoded_access_unit_handoff.h:47-61).
THEOREM StaleUnitsGoFirst == Spec => [](StaleDroppedFirst /\ KeyframeLeads)
<1>1. HandoffInv => StaleDroppedFirst /\ KeyframeLeads
  <2> SUFFICES ASSUME HandoffInv PROVE StaleDroppedFirst /\ KeyframeLeads
    OBVIOUS
  <2>0. TypeOK
    BY DEF HandoffInv
  <2> DEFINE b == handoff.backlog
             n == Len(b)
  <2>1. n \in Nat /\ DOMAIN b = 1..n /\ pushed \in Nat
    BY <2>0, TypeFacts
  <2>2. /\ \A i \in 2..n : b[i].kind = "delta" /\ b[i].seq = pushed - (n - i)
        /\ n >= 1 => \/ b[1].kind = "delta" /\ b[1].seq = pushed - (n - 1)
                     \/ b[1].kind = "key" /\ b[1].seq <= pushed - (n - 1)
    BY DEF HandoffInv, NewestPending
  <2> HIDE DEF n, b
  <2>3. \A i \in 2..(n - 1) : b[i + 1].seq = b[i].seq + 1
    <3> TAKE i \in 2..(n - 1)
    <3>1. i \in 2..n /\ i + 1 \in 2..n
      BY <2>1
    <3>2. b[i].seq = pushed - (n - i) /\ b[i + 1].seq = pushed - (n - (i + 1))
      BY <2>2, <3>1
    <3>3. QED
      BY <2>1, <3>2
  <2>4. n > 1 /\ b[1].kind # "key" => b[2].seq = b[1].seq + 1
    <3> SUFFICES ASSUME n > 1, b[1].kind # "key" PROVE b[2].seq = b[1].seq + 1
      OBVIOUS
    <3>1. b[1].seq = pushed - (n - 1) /\ b[2].seq = pushed - (n - 2)
      BY <2>1, <2>2
    <3>2. QED
      BY <2>1, <3>1
  <2>5. n > 1 => b[n].seq = pushed
    <3> SUFFICES ASSUME n > 1 PROVE b[n].seq = pushed
      OBVIOUS
    <3>1. n \in 2..n
      BY <2>1
    <3>2. b[n].seq = pushed - (n - n)
      BY <2>2, <3>1
    <3>3. QED
      BY <2>1, <3>2
  <2>6. \A i \in 1..n : b[i].kind = "key" => i = 1
    <3> TAKE i \in 1..n
    <3>1. i = 1 \/ i \in 2..n
      BY <2>1
    <3>2. QED
      BY <2>2, <3>1
  <2>7. QED
    BY <2>1, <2>3, <2>4, <2>5, <2>6 DEF StaleDroppedFirst, KeyframeLeads, b, n
<1>2. QED
  BY <1>1, HandoffInvariant, PTL

-----------------------------------------------------------------------------
(* The overflow loop of push, turn by turn.                                *)

LEMMA Least ==
  ASSUME NEW T, T \subseteq Nat, T # {}
  PROVE  \E x \in T : \A y \in T : ~(y < x)
<1>1. IsWellFoundedOn(OpToRel(<, Nat), Nat)
  BY NatLessThanWellFounded
<1>2. \E x \in T : \A y \in T : ~(<<y, x>> \in OpToRel(<, Nat))
  BY <1>1, WFMin
<1> QED
  BY <1>2 DEF OpToRel

\* Induction over the turns of a loop, with the property written as a set.
LEMMA Induction ==
  ASSUME NEW S, 0 \in S, \A n \in Nat : n \in S => n + 1 \in S
  PROVE  Nat \subseteq S
<1> DEFINE T == {n \in Nat : n \notin S}
<1>1. SUFFICES ASSUME T # {} PROVE FALSE
  OBVIOUS
<1>2. PICK x \in T : \A y \in T : ~(y < x)
  BY <1>1, Least
<1>3. x # 0 /\ x \in Nat
  BY <1>2
<1>4. x - 1 \in Nat /\ x - 1 \in S
  BY <1>2, <1>3
<1> QED
  BY <1>3, <1>4

\* A backlog without its n oldest units, a keyframe in front left out of account.
Cut(b, n) ==
  IF b[1].kind = "key" THEN <<b[1]>> \o SubSeq(b, n + 2, Len(b))
  ELSE SubSeq(b, n + 1, Len(b))

\* The handoff after n turns of the loop, and how many turns it takes.
AfterTurns(h, n) ==
  [h EXCEPT !.backlog = Cut(h.backlog, n), !.dropped = h.dropped + n]

Turns(h) ==
  IF Len(h.backlog) < Capacity THEN 0
  ELSE IF KeyframeFillsCapacity(h) THEN Len(h.backlog) - 1
  ELSE Len(h.backlog) - Capacity + 1

\* Only the front unit can be a keyframe.
KeyOnlyFirst(b) == \A i \in 1..Len(b) : b[i].kind = "key" => i = 1

\* Where the units of a cut backlog come from, a keyframe in front.
LEMMA CutBehindKey ==
  ASSUME NEW b \in Seq(Unit), b # <<>>, b[1].kind = "key", NEW n \in 0..(Len(b) - 1)
  PROVE  /\ Cut(b, n) \in Seq(Unit) /\ Len(Cut(b, n)) = Len(b) - n
         /\ Cut(b, n)[1] = b[1]
         /\ \A i \in 2..(Len(b) - n) : Cut(b, n)[i] = b[i + n]
<1> DEFINE s == <<b[1]>>
           t == SubSeq(b, n + 2, Len(b))
<1>1. Len(b) \in Nat \ {0} /\ \A i \in 1..Len(b) : b[i] \in Unit
  BY ElementOfSeq
<1>2. s \in Seq(Unit) /\ Len(s) = 1 /\ s[1] = b[1]
  BY <1>1
<1>3. /\ t \in Seq(Unit) /\ Len(t) = Len(b) - n - 1
      /\ \A i \in 1..(Len(b) - n - 1) : t[i] = b[i + n + 1]
  <2>1. \A i \in (n + 2)..Len(b) : b[i] \in Unit
    BY <1>1
  <2>2. /\ t \in Seq(Unit)
        /\ Len(t) = IF n + 2 <= Len(b) THEN Len(b) - (n + 2) + 1 ELSE 0
        /\ \A i \in 1..(Len(b) - (n + 2) + 1) : t[i] = b[n + 2 + i - 1]
    BY <1>1, <2>1, SubSeqProperties
  <2> HIDE DEF t
  <2>3. Len(t) = Len(b) - n - 1
    BY <1>1, <2>2
  <2>4. ASSUME NEW i \in 1..(Len(b) - n - 1) PROVE t[i] = b[i + n + 1]
    <3>1. i \in 1..(Len(b) - (n + 2) + 1) /\ n + 2 + i - 1 = i + n + 1
      BY <1>1
    <3> QED
      BY <2>2, <3>1
  <2> QED
    BY <2>2, <2>3, <2>4
<1>4. Cut(b, n) = s \o t
  BY DEF Cut
<1> HIDE DEF s, t
<1>5. /\ s \o t \in Seq(Unit) /\ Len(s \o t) = Len(s) + Len(t)
      /\ \A i \in 1 .. Len(s) + Len(t) :
           (s \o t)[i] = IF i <= Len(s) THEN s[i] ELSE t[i - Len(s)]
  BY <1>2, <1>3, ConcatProperties
<1>6. Len(s \o t) = Len(b) - n
  BY <1>1, <1>2, <1>3, <1>5
<1>7. (s \o t)[1] = b[1]
  BY <1>1, <1>2, <1>3, <1>5
<1>8. ASSUME NEW i \in 2..(Len(b) - n) PROVE (s \o t)[i] = b[i + n]
  <2>1. (s \o t)[i] = t[i - 1]
    BY <1>1, <1>2, <1>3, <1>5
  <2>2. i - 1 \in 1..(Len(b) - n - 1) /\ (i - 1) + n + 1 = i + n
    BY <1>1
  <2> QED
    BY <1>3, <2>1, <2>2
<1> QED
  BY <1>4, <1>5, <1>6, <1>7, <1>8

\* Where they come from without one.
LEMMA CutAtFront ==
  ASSUME NEW b \in Seq(Unit), b # <<>>, b[1].kind # "key", NEW n \in 0..Len(b)
  PROVE  /\ Cut(b, n) \in Seq(Unit) /\ Len(Cut(b, n)) = Len(b) - n
         /\ \A i \in 1..(Len(b) - n) : Cut(b, n)[i] = b[i + n]
<1> DEFINE t == SubSeq(b, n + 1, Len(b))
<1>1. Len(b) \in Nat \ {0} /\ \A i \in 1..Len(b) : b[i] \in Unit
  BY ElementOfSeq
<1>2. \A i \in (n + 1)..Len(b) : b[i] \in Unit
  BY <1>1
<1>3. /\ t \in Seq(Unit)
      /\ Len(t) = IF n + 1 <= Len(b) THEN Len(b) - (n + 1) + 1 ELSE 0
      /\ \A i \in 1..(Len(b) - (n + 1) + 1) : t[i] = b[n + 1 + i - 1]
  BY <1>1, <1>2, SubSeqProperties
<1>4. Cut(b, n) = t
  BY DEF Cut
<1> HIDE DEF t
<1>5. Len(t) = Len(b) - n
  BY <1>1, <1>3
<1>6. ASSUME NEW i \in 1..(Len(b) - n) PROVE t[i] = b[i + n]
  <2>1. i \in 1..(Len(b) - (n + 1) + 1) /\ n + 1 + i - 1 = i + n
    BY <1>1
  <2> QED
    BY <1>3, <2>1
<1> QED
  BY <1>3, <1>4, <1>5, <1>6

\* Nothing cut is everything left.
LEMMA CutNothing ==
  ASSUME NEW b \in Seq(Unit), b # <<>>
  PROVE  Cut(b, 0) = b
<1>1. Len(b) \in Nat \ {0} /\ 0 \in 0..(Len(b) - 1) /\ 0 \in 0..Len(b)
  OBVIOUS
<1>2. /\ Cut(b, 0) \in Seq(Unit) /\ Len(Cut(b, 0)) = Len(b)
      /\ \A i \in 1..Len(b) : Cut(b, 0)[i] = b[i]
  <2>1. CASE b[1].kind = "key"
    <3>1. /\ Cut(b, 0) \in Seq(Unit) /\ Len(Cut(b, 0)) = Len(b) - 0
          /\ Cut(b, 0)[1] = b[1]
          /\ \A i \in 2..(Len(b) - 0) : Cut(b, 0)[i] = b[i + 0]
      BY <1>1, <2>1, CutBehindKey
    <3>2. ASSUME NEW i \in 1..Len(b) PROVE Cut(b, 0)[i] = b[i]
      <4>1. i = 1 \/ (i \in 2..(Len(b) - 0) /\ i + 0 = i)
        BY <1>1
      <4> QED
        BY <3>1, <4>1
    <3> QED
      BY <1>1, <3>1, <3>2
  <2>2. CASE b[1].kind # "key"
    <3>1. /\ Cut(b, 0) \in Seq(Unit) /\ Len(Cut(b, 0)) = Len(b) - 0
          /\ \A i \in 1..(Len(b) - 0) : Cut(b, 0)[i] = b[i + 0]
      BY <1>1, <2>2, CutAtFront
    <3>2. ASSUME NEW i \in 1..Len(b) PROVE Cut(b, 0)[i] = b[i]
      <4>1. i \in 1..(Len(b) - 0) /\ i + 0 = i
        BY <1>1
      <4> QED
        BY <3>1, <4>1
    <3> QED
      BY <1>1, <3>1, <3>2
  <2> QED
    BY <2>1, <2>2
<1> QED
  BY <1>2, SeqEqual

\* Cutting one more: while more than a keyframe in front is left, or anything at
\* all when no keyframe is in front.
LEMMA CutOneMore ==
  ASSUME NEW b \in Seq(Unit), b # <<>>, KeyOnlyFirst(b), NEW n \in 0..(Len(b) - 1),
         b[1].kind = "key" => n < Len(b) - 1
  PROVE  /\ Cut(b, n) # <<>>
         /\ (Cut(b, n)[1].kind = "key") = (b[1].kind = "key")
         /\ Cut(Cut(b, n), 1) = Cut(b, n + 1)
<1> DEFINE c == Cut(b, n)
<1>1. /\ Len(b) \in Nat \ {0} /\ n \in Nat /\ n \in 0..Len(b) /\ n + 1 \in 0..Len(b)
      /\ b[1].kind = "key" => n + 1 \in 0..(Len(b) - 1)
  OBVIOUS
<1>2. CASE b[1].kind = "key"
  <2>1. /\ c \in Seq(Unit) /\ Len(c) = Len(b) - n /\ c[1] = b[1]
        /\ \A i \in 2..(Len(b) - n) : c[i] = b[i + n]
    BY <1>2, CutBehindKey
  <2> DEFINE d == Cut(b, n + 1)
             e == Cut(c, 1)
  <2>2. /\ d \in Seq(Unit) /\ Len(d) = Len(b) - (n + 1) /\ d[1] = b[1]
        /\ \A i \in 2..(Len(b) - (n + 1)) : d[i] = b[i + (n + 1)]
    BY <1>1, <1>2, CutBehindKey
  <2> HIDE DEF c
  <2>3. c # <<>> /\ c[1].kind = "key" /\ 1 \in 0..(Len(c) - 1)
    BY <1>1, <1>2, <2>1
  <2>4. /\ e \in Seq(Unit) /\ Len(e) = Len(c) - 1 /\ e[1] = c[1]
        /\ \A i \in 2..(Len(c) - 1) : e[i] = c[i + 1]
    BY <2>1, <2>3, CutBehindKey
  <2> HIDE DEF d, e
  <2>5. Len(e) = Len(d) /\ Len(d) = Len(b) - n - 1
    BY <1>1, <2>1, <2>2, <2>4
  <2>6. ASSUME NEW i \in 1..Len(e) PROVE e[i] = d[i]
    <3>1. CASE i = 1
      BY <2>1, <2>2, <2>4, <3>1
    <3>2. CASE i # 1
      <4>1. /\ i \in 2..(Len(c) - 1) /\ i + 1 \in 2..(Len(b) - n)
            /\ i \in 2..(Len(b) - (n + 1)) /\ (i + 1) + n = i + (n + 1)
        BY <1>1, <2>1, <2>5, <3>2
      <4>2. e[i] = c[i + 1] /\ c[i + 1] = b[(i + 1) + n] /\ d[i] = b[i + (n + 1)]
        BY <2>1, <2>2, <2>4, <4>1
      <4> QED
        BY <4>1, <4>2
    <3> QED
      BY <3>1, <3>2
  <2>7. e = d
    BY <2>2, <2>4, <2>5, <2>6, SeqEqual
  <2> QED
    BY <1>2, <2>3, <2>7 DEF c, d, e
<1>3. CASE b[1].kind # "key"
  <2>1. /\ c \in Seq(Unit) /\ Len(c) = Len(b) - n
        /\ \A i \in 1..(Len(b) - n) : c[i] = b[i + n]
    BY <1>1, <1>3, CutAtFront
  <2> DEFINE d == Cut(b, n + 1)
             e == Cut(c, 1)
  <2>2. /\ d \in Seq(Unit) /\ Len(d) = Len(b) - (n + 1)
        /\ \A i \in 1..(Len(b) - (n + 1)) : d[i] = b[i + (n + 1)]
    BY <1>1, <1>3, CutAtFront
  <2> HIDE DEF c
  <2>3. c # <<>> /\ c[1].kind # "key" /\ 1 \in 0..Len(c)
    <3>1. 1 \in 1..(Len(b) - n) /\ 1 + n \in 1..Len(b)
      BY <1>1
    <3>2. b[1 + n].kind # "key"
      BY <1>1, <1>3, <3>1 DEF KeyOnlyFirst
    <3> QED
      BY <1>1, <2>1, <3>1, <3>2
  <2>4. /\ e \in Seq(Unit) /\ Len(e) = Len(c) - 1
        /\ \A i \in 1..(Len(c) - 1) : e[i] = c[i + 1]
    BY <2>1, <2>3, CutAtFront
  <2> HIDE DEF d, e
  <2>5. Len(e) = Len(d) /\ Len(d) = Len(b) - n - 1
    BY <1>1, <2>1, <2>2, <2>4
  <2>6. ASSUME NEW i \in 1..Len(e) PROVE e[i] = d[i]
    <3>1. /\ i \in 1..(Len(c) - 1) /\ i + 1 \in 1..(Len(b) - n)
          /\ i \in 1..(Len(b) - (n + 1)) /\ (i + 1) + n = i + (n + 1)
      BY <1>1, <2>1, <2>5
    <3>2. e[i] = c[i + 1] /\ c[i + 1] = b[(i + 1) + n] /\ d[i] = b[i + (n + 1)]
      BY <2>1, <2>2, <2>4, <3>1
    <3> QED
      BY <3>1, <3>2
  <2>7. e = d
    BY <2>2, <2>4, <2>5, <2>6, SeqEqual
  <2> QED
    BY <1>3, <2>3, <2>7 DEF c, d, e
<1> QED
  BY <1>2, <1>3

\* The handoff after some turns, member by member.
LEMMA AfterTurnsShape ==
  ASSUME NEW h \in Handoff, NEW n \in Nat
  PROVE  /\ AfterTurns(h, n).backlog = Cut(h.backlog, n)
         /\ AfterTurns(h, n).dropped = h.dropped + n
         /\ AfterTurns(h, n).config = h.config
         /\ \A q, d : [AfterTurns(h, n) EXCEPT !.backlog = q, !.dropped = d]
                        = [h EXCEPT !.backlog = q, !.dropped = d]
BY DEF AfterTurns, Handoff

\* How far the loop goes: never past the backlog, and never past a keyframe in front.
LEMMA TurnsBounds ==
  ASSUME NEW h \in Handoff, Len(h.backlog) >= Capacity
  PROVE  /\ h.backlog \in Seq(Unit) /\ h.backlog # <<>> /\ h.dropped \in Nat
         /\ Turns(h) \in 0..Len(h.backlog)
         /\ h.backlog[1].kind = "key" => Turns(h) \in 0..(Len(h.backlog) - 1)
<1>1. /\ h.backlog \in Seq(Unit) /\ h.dropped \in Nat /\ Len(h.backlog) \in Nat
  BY DEF Handoff
<1>2. Capacity \in Nat \ {0}
  BY CapacityPositive
<1>3. h.backlog # <<>>
  BY <1>1, <1>2
<1>4. KeyframeFillsCapacity(h) => Capacity = 1
  BY DEF KeyframeFillsCapacity
<1>5. h.backlog[1].kind = "key" => KeyframeFillsCapacity(h) \/ Capacity # 1
  BY DEF KeyframeFillsCapacity
<1> QED
  BY <1>1, <1>2, <1>3, <1>4, <1>5 DEF Turns

\* While turns are left the loop goes on, and the next turn cuts one unit more.
LEMMA NextTurn ==
  ASSUME NEW h \in Handoff, KeyOnlyFirst(h.backlog), Len(h.backlog) >= Capacity,
         NEW n \in Nat, n < Turns(h)
  PROVE  /\ ~LoopEnds(AfterTurns(h, n))
         /\ LoopTurn(AfterTurns(h, n)) = AfterTurns(h, n + 1)
<1> DEFINE b == h.backlog
           c == Cut(b, n)
           a == AfterTurns(h, n)
<1>1. /\ b \in Seq(Unit) /\ b # <<>> /\ h.dropped \in Nat /\ Len(b) \in Nat
      /\ Turns(h) \in 0..Len(b)
      /\ b[1].kind = "key" => Turns(h) \in 0..(Len(b) - 1)
  BY TurnsBounds
<1>2. Capacity \in Nat \ {0}
  BY CapacityPositive
<1>3. n \in 0..(Len(b) - 1) /\ (b[1].kind = "key" => n < Len(b) - 1)
  BY <1>1
<1>4. c # <<>> /\ (c[1].kind = "key") = (b[1].kind = "key") /\ Cut(c, 1) = Cut(b, n + 1)
  BY <1>1, <1>3, CutOneMore
<1>5. c \in Seq(Unit) /\ Len(c) = Len(b) - n
  <2>1. n \in 0..Len(b)
    BY <1>3, <1>1
  <2> QED
    BY <1>1, <1>3, <2>1, CutBehindKey, CutAtFront
<1>6. a.backlog = c /\ a.dropped = h.dropped + n
  BY AfterTurnsShape
<1>7. Len(b) - n >= Capacity /\ ~(Len(b) - n = 1 /\ b[1].kind = "key")
  <2>1. CASE KeyframeFillsCapacity(h)
    BY <1>1, <1>2, <2>1 DEF Turns, KeyframeFillsCapacity
  <2>2. CASE ~KeyframeFillsCapacity(h)
    <3>1. Turns(h) = Len(b) - Capacity + 1
      BY <1>1, <1>2, <2>2 DEF Turns
    <3>2. b[1].kind = "key" => Capacity # 1
      BY <2>2 DEF KeyframeFillsCapacity
    <3> HIDE DEF b
    <3> QED
      BY <1>1, <1>2, <3>1, <3>2
  <2> QED
    BY <2>1, <2>2
<1> HIDE DEF a, b, c
<1>8. ~LoopEnds(a)
  <2>1. Len(a.backlog) = Len(b) - n
    BY <1>5, <1>6
  <2>2. ~(Len(a.backlog) < Capacity)
    BY <1>1, <1>2, <1>7, <2>1
  <2>3. ~(Len(a.backlog) = 1 /\ a.backlog[1].kind = "key")
    BY <1>4, <1>6, <1>7, <2>1
  <2> QED
    BY <2>2, <2>3 DEF LoopEnds
<1>9. (IF c[1].kind = "key" THEN <<c[1]>> \o SubSeq(c, 3, Len(c)) ELSE Tail(c)) = Cut(c, 1)
  <2>1. Tail(c) = SubSeq(c, 2, Len(c))
    BY <1>4, <1>5, TailIsSubSeq
  <2>2. 1 + 2 = 3 /\ 1 + 1 = 2
    OBVIOUS
  <2> QED
    BY <2>1, <2>2, Zenon DEF Cut
<1>10. LoopTurn(a) = [a EXCEPT !.backlog = Cut(c, 1), !.dropped = h.dropped + n + 1]
  BY <1>6, <1>9, Zenon DEF LoopTurn
<1>11. h.dropped + n + 1 = h.dropped + (n + 1)
  BY <1>1
<1>12. LoopTurn(a) = [h EXCEPT !.backlog = Cut(b, n + 1), !.dropped = h.dropped + (n + 1)]
  <2>1. \A q, d : [a EXCEPT !.backlog = q, !.dropped = d]
                    = [h EXCEPT !.backlog = q, !.dropped = d]
    BY AfterTurnsShape, Zenon DEF a
  <2> QED
    BY <1>4, <1>10, <1>11, <2>1, Zenon
<1> QED
  BY <1>8, <1>12 DEF AfterTurns, a, b

\* When they are used up the loop ends.
LEMMA LastTurn ==
  ASSUME NEW h \in Handoff, KeyOnlyFirst(h.backlog), Len(h.backlog) >= Capacity
  PROVE  /\ LoopEnds(AfterTurns(h, Turns(h)))
         /\ Len(AfterTurns(h, Turns(h)).backlog) = Len(h.backlog) - Turns(h)
<1> DEFINE b == h.backlog
           n == Turns(h)
           c == Cut(b, n)
<1>1. /\ b \in Seq(Unit) /\ b # <<>> /\ Len(b) \in Nat \ {0}
      /\ n \in 0..Len(b) /\ (b[1].kind = "key" => n \in 0..(Len(b) - 1))
  BY TurnsBounds
<1>2. Capacity \in Nat \ {0}
  BY CapacityPositive
<1>3. /\ Len(c) = Len(b) - n
      /\ b[1].kind = "key" => c[1] = b[1]
  BY <1>1, CutBehindKey, CutAtFront
<1>4. AfterTurns(h, n).backlog = c
  <2>1. n \in Nat
    BY <1>1
  <2> QED
    BY <2>1, AfterTurnsShape
<1>5. \/ Len(b) - n < Capacity
      \/ Len(b) - n = 1 /\ b[1].kind = "key"
  <2>1. CASE KeyframeFillsCapacity(h)
    <3>1. Capacity = 1 /\ b[1].kind = "key" /\ ~(Len(b) < Capacity)
      BY <1>1, <2>1 DEF KeyframeFillsCapacity
    <3>2. n = Len(b) - 1
      BY <2>1, <3>1 DEF Turns
    <3> HIDE DEF n, b
    <3> QED
      BY <1>1, <3>1, <3>2
  <2>2. CASE ~KeyframeFillsCapacity(h)
    <3>1. n = Len(b) - Capacity + 1
      BY <1>1, <1>2, <2>2 DEF Turns
    <3> HIDE DEF n, b
    <3> QED
      BY <1>1, <1>2, <3>1
  <2> QED
    BY <2>1, <2>2
<1> HIDE DEF b, n, c
<1> QED
  BY <1>3, <1>4, <1>5 DEF LoopEnds, b, n

\* The function that OverflowLoop defines by recursion has one solution: the first
\* turns, and then no more.
Rounds(h, f) ==
  [n \in 0..Len(h.backlog) |->
     IF n = 0 THEN h
     ELSE IF LoopEnds(f[n - 1]) THEN f[n - 1] ELSE LoopTurn(f[n - 1])]

LEMMA LoopRuns ==
  ASSUME NEW h \in Handoff, KeyOnlyFirst(h.backlog), Len(h.backlog) >= Capacity
  PROVE  \E f : /\ f = Rounds(h, f)
                /\ f[Len(h.backlog)] = AfterTurns(h, Turns(h))
<1> DEFINE L == Len(h.backlog)
           T == Turns(h)
           f == [n \in 0..L |-> IF n <= T THEN AfterTurns(h, n) ELSE AfterTurns(h, T)]
<1>1. L \in Nat /\ T \in 0..L
  BY TurnsBounds
<1>2. AfterTurns(h, 0) = h
  <2>1. Cut(h.backlog, 0) = h.backlog /\ h.dropped + 0 = h.dropped
    BY TurnsBounds, CutNothing
  <2> QED
    BY <2>1 DEF AfterTurns, Handoff
<1>3. ASSUME NEW n \in 0..L PROVE f[n] = Rounds(h, f)[n]
  <2>1. CASE n = 0
    BY <1>1, <1>2, <2>1 DEF Rounds
  <2>2. CASE n # 0
    <3>1. n - 1 \in 0..L /\ n - 1 \in Nat /\ (n - 1) + 1 = n
      BY <1>1, <2>2
    <3>2. Rounds(h, f)[n] = IF LoopEnds(f[n - 1]) THEN f[n - 1] ELSE LoopTurn(f[n - 1])
      BY <2>2 DEF Rounds
    <3>3. CASE n <= T
      <4>1. n - 1 < T
        BY <1>1, <3>1, <3>3
      <4>2. f[n - 1] = AfterTurns(h, n - 1) /\ f[n] = AfterTurns(h, n)
        BY <1>1, <3>1, <3>3, <4>1
      <4>3. /\ ~LoopEnds(AfterTurns(h, n - 1))
            /\ LoopTurn(AfterTurns(h, n - 1)) = AfterTurns(h, n)
        BY <3>1, <4>1, NextTurn
      <4> HIDE DEF f
      <4> QED
        BY <3>2, <4>2, <4>3
    <3>4. CASE ~(n <= T)
      <4>1. n - 1 <= T => n - 1 = T
        BY <1>1, <3>1, <3>4
      <4>2. f[n - 1] = AfterTurns(h, T) /\ f[n] = AfterTurns(h, T)
        BY <1>1, <3>1, <3>4, <4>1
      <4>3. LoopEnds(AfterTurns(h, T))
        BY LastTurn
      <4> HIDE DEF f
      <4> QED
        BY <3>2, <4>2, <4>3
    <3> QED
      BY <3>3, <3>4
  <2> QED
    BY <2>1, <2>2
<1>4. f = Rounds(h, f)
  <2>1. f = [n \in 0..L |-> f[n]] /\ Rounds(h, f) = [n \in 0..L |-> Rounds(h, f)[n]]
    BY DEF Rounds
  <2> HIDE DEF f
  <2> QED
    BY <1>3, <2>1
<1>5. f[L] = AfterTurns(h, T)
  <2>1. L <= T => L = T
    BY <1>1
  <2>2. L \in 0..L
    BY <1>1
  <2> QED
    BY <2>1, <2>2
<1> HIDE DEF f
<1> QED
  BY <1>4, <1>5

LEMMA RoundsUnique ==
  ASSUME NEW h \in Handoff, NEW f, NEW g, f = Rounds(h, f), g = Rounds(h, g)
  PROVE  f[Len(h.backlog)] = g[Len(h.backlog)]
<1> DEFINE L == Len(h.backlog)
           S == {n \in Nat : n \in 0..L => f[n] = g[n]}
<1>1. L \in Nat
  BY DEF Handoff
<1>2. 0 \in S
  <2>1. 0 \in 0..L
    BY <1>1
  <2>2. f[0] = h /\ g[0] = h
    BY <2>1 DEF Rounds
  <2> QED
    BY <2>2
<1>3. ASSUME NEW n \in Nat, n \in S PROVE n + 1 \in S
  <2> SUFFICES ASSUME n + 1 \in 0..L PROVE f[n + 1] = g[n + 1]
    OBVIOUS
  <2>1. n \in 0..L /\ n + 1 # 0 /\ (n + 1) - 1 = n
    BY <1>1
  <2>2. f[n] = g[n]
    BY <1>3, <2>1
  <2>3. f[n + 1] = IF LoopEnds(f[n]) THEN f[n] ELSE LoopTurn(f[n])
    BY <2>1 DEF Rounds
  <2>4. g[n + 1] = IF LoopEnds(g[n]) THEN g[n] ELSE LoopTurn(g[n])
    BY <2>1 DEF Rounds
  <2> QED
    BY <2>2, <2>3, <2>4
<1> HIDE DEF S
<1>4. Nat \subseteq S
  BY <1>2, <1>3, Induction
<1> QED
  BY <1>1, <1>4 DEF S

\* What the loop leaves, before the new unit comes in.
LEMMA LoopLeaves ==
  ASSUME NEW h \in Handoff, NEW u, KeyOnlyFirst(h.backlog), Len(h.backlog) >= Capacity
  PROVE  LET e == AfterTurns(h, Turns(h)) IN
         OverflowLoop(h, u) =
           IF Len(e.backlog) < Capacity THEN [e EXCEPT !.backlog = Append(@, u)]
           ELSE [e EXCEPT !.dropped = @ + 1]
<1> DEFINE F(f) == [n \in 0..Len(h.backlog) |->
                      IF n = 0 THEN h
                      ELSE IF LoopEnds(f[n - 1]) THEN f[n - 1] ELSE LoopTurn(f[n - 1])]
           after == CHOOSE f : f = F(f)
<1>1. PICK f : f = Rounds(h, f) /\ f[Len(h.backlog)] = AfterTurns(h, Turns(h))
  BY LoopRuns
<1>2. f = F(f)
  BY <1>1 DEF Rounds
<1>3. after = F(after)
  <2> HIDE DEF F
  <2> QED
    BY <1>2
<1>4. after = Rounds(h, after)
  <2> HIDE DEF after
  <2> QED
    BY <1>3 DEF Rounds
<1>5. OverflowLoop(h, u) =
        LET end == after[Len(h.backlog)] IN
        IF Len(end.backlog) < Capacity THEN [end EXCEPT !.backlog = Append(@, u)]
        ELSE [end EXCEPT !.dropped = @ + 1]
  BY DEF OverflowLoop
<1> HIDE DEF after
<1>6. after[Len(h.backlog)] = AfterTurns(h, Turns(h))
  BY <1>1, <1>4, RoundsUnique
<1> QED
  BY <1>5, <1>6

\* With room from the start the loop does not turn at all.
LEMMA LoopWithRoom ==
  ASSUME NEW h \in Handoff, NEW u, Len(h.backlog) < Capacity
  PROVE  OverflowLoop(h, u) = [h EXCEPT !.backlog = Append(@, u)]
<1> DEFINE L == Len(h.backlog)
           f == [n \in 0..L |-> h]
           after == CHOOSE g : g = [n \in 0..L |->
                      IF n = 0 THEN h
                      ELSE IF LoopEnds(g[n - 1]) THEN g[n - 1] ELSE LoopTurn(g[n - 1])]
<1>1. L \in Nat /\ LoopEnds(h)
  BY DEF LoopEnds, Handoff
<1>2. ASSUME NEW n \in 0..L PROVE f[n] = Rounds(h, f)[n]
  <2>1. n # 0 => n - 1 \in 0..L
    BY <1>1
  <2>2. n # 0 => f[n - 1] = h
    BY <2>1
  <2>3. Rounds(h, f)[n] = IF n = 0 THEN h
                          ELSE IF LoopEnds(f[n - 1]) THEN f[n - 1] ELSE LoopTurn(f[n - 1])
    BY DEF Rounds
  <2>4. f[n] = h
    OBVIOUS
  <2> HIDE DEF f
  <2> QED
    BY <1>1, <2>2, <2>3, <2>4
<1>3. f = Rounds(h, f)
  <2>1. f = [n \in 0..L |-> f[n]] /\ Rounds(h, f) = [n \in 0..L |-> Rounds(h, f)[n]]
    BY DEF Rounds
  <2> HIDE DEF f
  <2> QED
    BY <1>2, <2>1
<1>4. f[L] = h
  BY <1>1
<1>5. OverflowLoop(h, u) =
        LET end == after[L] IN
        IF Len(end.backlog) < Capacity THEN [end EXCEPT !.backlog = Append(@, u)]
        ELSE [end EXCEPT !.dropped = @ + 1]
  BY DEF OverflowLoop
<1>6. after = Rounds(h, after)
  <2> HIDE DEF f
  <2> QED
    BY <1>3 DEF Rounds
<1> HIDE DEF after, f
<1>7. after[L] = h
  BY <1>3, <1>4, <1>6, RoundsUnique
<1> QED
  BY <1>5, <1>7

\* On every handoff whose only keyframe, if any, is in front, whether within its
\* capacity or far above it, the loop of push does what PushDelta says at once
\* (encoded_access_unit_handoff.h:41-62).
LEMMA LoopIsPushDelta ==
  ASSUME NEW h \in Handoff, NEW u, KeyOnlyFirst(h.backlog)
  PROVE  PushDelta(h, u) = OverflowLoop(h, u)
<1> DEFINE b == h.backlog
           L == Len(b)
           e == AfterTurns(h, Turns(h))
<1>1. /\ L \in Nat /\ b \in Seq(Unit) /\ h.dropped \in Nat
      /\ Capacity \in Nat \ {0}
  BY CapacityPositive DEF Handoff
<1>2. CASE L < Capacity
  BY <1>1, <1>2, LoopWithRoom DEF PushDelta
<1>3. CASE L >= Capacity /\ KeyframeFillsCapacity(h)
  <2>1. /\ Capacity = 1 /\ b[1].kind = "key" /\ ~(L < Capacity) /\ b # <<>>
        /\ L - 1 \in 0..(L - 1) /\ L - 1 \in Nat
    BY <1>1, <1>3 DEF KeyframeFillsCapacity
  <2>2. Turns(h) = L - 1
    BY <1>3, <2>1 DEF Turns
  <2>3. /\ Cut(b, L - 1) \in Seq(Unit) /\ Len(Cut(b, L - 1)) = L - (L - 1)
        /\ Cut(b, L - 1)[1] = b[1]
    BY <1>1, <2>1, CutBehindKey
  <2>4. Cut(b, L - 1) = <<b[1]>>
    <3>1. Len(Cut(b, L - 1)) = 1
      BY <1>1, <2>3
    <3> QED
      BY <2>3, <3>1
  <2>5. e = [h EXCEPT !.backlog = <<b[1]>>, !.dropped = h.dropped + (L - 1)]
    BY <2>2, <2>4 DEF AfterTurns
  <2>6. e.backlog = <<b[1]>> /\ Len(e.backlog) = 1 /\ e.dropped = h.dropped + (L - 1)
    <3>1. e.backlog = <<b[1]>> /\ e.dropped = h.dropped + (L - 1)
      BY <2>5 DEF Handoff
    <3> QED
      BY <3>1
  <2>7. OverflowLoop(h, u) = [e EXCEPT !.dropped = @ + 1]
    <3>1. ~(Len(e.backlog) < Capacity)
      BY <2>1, <2>6
    <3> QED
      BY <1>3, <3>1, LoopLeaves, Zenon
  <2>8. h.dropped + (L - 1) + 1 = h.dropped + L
    BY <1>1
  <2> HIDE DEF L, b
  <2>9. OverflowLoop(h, u) = [h EXCEPT !.backlog = <<b[1]>>, !.dropped = h.dropped + L]
    BY <2>5, <2>6, <2>7, <2>8 DEF Handoff
  <2>10. PushDelta(h, u) = [h EXCEPT !.backlog = <<b[1]>>, !.dropped = h.dropped + L]
    BY <1>3, <2>1 DEF PushDelta, L, b
  <2> QED
    BY <2>9, <2>10
<1>4. CASE L >= Capacity /\ ~KeyframeFillsCapacity(h)
  <2>1. ~(L < Capacity) /\ Turns(h) = L - Capacity + 1 /\ L - (L - Capacity + 1) < Capacity
    BY <1>1, <1>4 DEF Turns
  <2>2. Len(e.backlog) < Capacity
    BY <1>4, <2>1, LastTurn
  <2>3. OverflowLoop(h, u) = [e EXCEPT !.backlog = Append(@, u)]
    BY <1>4, <2>2, LoopLeaves
  <2>4. e = MakeRoom(h)
    BY <2>1, Zenon DEF MakeRoom, AfterTurns, Cut
  <2>5. PushDelta(h, u) = [MakeRoom(h) EXCEPT !.backlog = Append(@, u)]
    BY <1>4, <2>1, Zenon DEF PushDelta
  <2> QED
    BY <2>3, <2>4, <2>5
<1> QED
  BY <1>1, <1>2, <1>3, <1>4

\* Inter units behind a backlog leave it a backlog, with no keyframe further back.
LEMMA BehindIsBacklog ==
  ASSUME TypeOK, KeyframeLeads, NEW n \in Nat
  PROVE  LET h == [handoff EXCEPT !.backlog = @ \o Waiting(n)] IN
         h \in Handoff /\ KeyOnlyFirst(h.backlog)
<1> DEFINE b == handoff.backlog
           t == Waiting(n)
           h == [handoff EXCEPT !.backlog = b \o t]
<1>1. /\ b \in Seq(Unit) /\ Len(b) \in Nat /\ DOMAIN b = 1..Len(b)
      /\ handoff \in Handoff /\ pushed \in Nat
  BY DEF TypeOK, Handoff
<1>2. t \in Seq(Unit) /\ Len(t) = n /\ \A i \in 1..n : t[i].kind = "delta"
  <2>1. ASSUME NEW i \in 1..n PROVE [seq |-> pushed + i, kind |-> "delta"] \in Unit
    BY <1>1 DEF Unit, Kind
  <2>2. t = [i \in 1..n |-> [seq |-> pushed + i, kind |-> "delta"]]
    BY DEF Waiting
  <2>3. \A i \in 1..n : t[i].kind = "delta"
    BY <2>2
  <2>4. t \in [1..n -> Unit]
    BY <2>1, <2>2
  <2> QED
    BY <2>3, <2>4
<1> HIDE DEF b, t
<1>3. /\ b \o t \in Seq(Unit) /\ Len(b \o t) = Len(b) + n
      /\ \A i \in 1..(Len(b) + n) : (b \o t)[i] = IF i <= Len(b) THEN b[i] ELSE t[i - Len(b)]
  BY <1>1, <1>2, ConcatProperties
<1>4. ASSUME NEW i \in 1..Len(b \o t), (b \o t)[i].kind = "key" PROVE i = 1
  <2>1. CASE i <= Len(b)
    BY <1>1, <1>3, <1>4, <2>1 DEF KeyframeLeads, b
  <2>2. CASE ~(i <= Len(b))
    <3>1. i - Len(b) \in 1..n /\ (b \o t)[i] = t[i - Len(b)]
      BY <1>1, <1>3, <2>2
    <3> QED
      BY <1>2, <1>4, <3>1
  <2> QED
    BY <2>1, <2>2
<1>5. h \in Handoff /\ h.backlog = b \o t
  BY <1>1, <1>3 DEF Handoff
<1> QED
  BY <1>4, <1>5 DEF KeyOnlyFirst, b, t

\* What push makes of an inter unit is what its loop does, turn by turn
\* (encoded_access_unit_handoff.h:47-62), whatever the capacity.
THEOREM OverflowIsTheLoop == Spec => []OverflowLoopAgrees
<1>1. TypeOK /\ KeyframeLeads => OverflowLoopAgrees
  <2> SUFFICES ASSUME TypeOK, KeyframeLeads, NEW n \in 0..MaxUnits
               PROVE  LET h == [handoff EXCEPT !.backlog = @ \o Waiting(n)]
                          u == [seq |-> pushed + n + 1, kind |-> "delta"]
                      IN  PushDelta(h, u) = OverflowLoop(h, u)
    BY DEF OverflowLoopAgrees
  <2> DEFINE h == [handoff EXCEPT !.backlog = @ \o Waiting(n)]
  <2>1. h \in Handoff /\ KeyOnlyFirst(h.backlog)
    <3>1. n \in Nat
      OBVIOUS
    <3> QED
      BY <3>1, BehindIsBacklog
  <2> HIDE DEF h
  <2>2. \A u : PushDelta(h, u) = OverflowLoop(h, u)
    BY <2>1, LoopIsPushDelta
  <2> QED
    BY <2>2 DEF h
<1> QED
  BY <1>1, HandoffTypeCorrect, StaleUnitsGoFirst, PTL

-----------------------------------------------------------------------------
(* The channel that the handoff implements.                                *)

\* Where a pending unit stands says how new it is.
LEMMA PendingOrder ==
  ASSUME HandoffInv
  PROVE  DeliveredInOrder
<1>0. TypeOK
  BY DEF HandoffInv
<1> DEFINE b == handoff.backlog
           n == Len(b)
<1>1. /\ n \in Nat /\ DOMAIN b = 1..n /\ pushed \in Nat /\ delivered \in Nat
      /\ \A i \in 1..n : b[i].seq \in Nat
  BY <1>0, TypeFacts
<1>2. /\ \A i \in 2..n : b[i].seq = pushed - (n - i)
      /\ n >= 1 => /\ delivered < b[1].seq
                   /\ b[1].seq = pushed - (n - 1) \/ b[1].seq <= pushed - (n - 1)
  BY DEF HandoffInv, NewestPending
<1> HIDE DEF n, b
<1>3. \A i \in 1..n : b[1].seq <= b[i].seq /\ b[i].seq <= pushed
  <2> TAKE i \in 1..n
  <2>1. n >= 1 /\ b[1].seq <= pushed - (n - 1) /\ b[1].seq \in Nat
    BY <1>1, <1>2
  <2>2. CASE i = 1
    BY <1>1, <2>1, <2>2
  <2>3. CASE i \in 2..n
    <3>1. b[i].seq = pushed - (n - i)
      BY <1>2, <2>3
    <3>2. QED
      BY <1>1, <2>1, <2>3, <3>1
  <2>4. QED
    BY <1>1, <2>2, <2>3
<1>4. \A i \in 1..n : delivered < b[i].seq
  <2> TAKE i \in 1..n
  <2>1. delivered < b[1].seq /\ b[1].seq \in Nat /\ b[i].seq \in Nat
    BY <1>1, <1>2
  <2>2. QED
    BY <1>1, <1>3, <2>1
<1>5. \A i, j \in 1..n : i < j => b[i].seq < b[j].seq
  <2> TAKE i, j \in 1..n
  <2> HAVE i < j
  <2>1. b[j].seq = pushed - (n - j)
    BY <1>1, <1>2
  <2>2. CASE i = 1
    <3>1. b[1].seq <= pushed - (n - 1) /\ b[1].seq \in Nat
      BY <1>1, <1>2
    <3>2. QED
      BY <1>1, <2>1, <2>2, <3>1
  <2>3. CASE i \in 2..n
    <3>1. b[i].seq = pushed - (n - i)
      BY <1>2, <2>3
    <3>2. QED
      BY <1>1, <2>1, <3>1
  <2>4. QED
    BY <1>1, <2>2, <2>3
<1>6. QED
  BY <1>1, <1>3, <1>4, <1>5 DEF DeliveredInOrder, b

\* Units leave the handoff in the order in which they were pushed, each at most
\* once, across any number of drains (encoded_access_unit_handoff.h:65-84).
THEOREM UnitsLeaveInOrder == Spec => []DeliveredInOrder
<1>1. HandoffInv => DeliveredInOrder
  BY PendingOrder
<1>2. QED
  BY <1>1, HandoffInvariant, PTL

\* A pushed frame unit is one send on the abstract channel.
LEMMA PushIsSend ==
  ASSUME HandoffInv, HandoffInv', NEW kind \in {"key", "delta"}, PushFrame(kind)
  PROVE  Channel!Send(kind = "key")
<1> DEFINE u == [seq |-> pushed + 1, kind |-> kind]
           b == handoff.backlog
           q == handoff'.backlog
<1>0. TypeOK /\ TypeOK'
  BY DEF HandoffInv
<1>1. b \in Seq(Unit) /\ q \in Seq(Unit)
  BY <1>0 DEF TypeOK, Handoff
<1>2. u \in Unit /\ u.seq = pushed + 1 /\ u.kind = kind
  BY <1>0, TypeFacts DEF Unit, Kind
<1>3. \A i \in DOMAIN q : q[i] = u \/ \E j \in DOMAIN b : q[i] = b[j]
  <2>1. CASE kind = "key"
    <3>1. handoff' = [handoff EXCEPT !.backlog = <<u>>,
                                     !.dropped = handoff.dropped + Len(b)]
      BY <2>1, <1>2 DEF PushFrame, AfterPush, PushKeyframe
    <3>2. q = <<u>>
      BY <3>1, <1>0 DEF TypeOK, Handoff
    <3> HIDE DEF u, q
    <3>3. QED
      BY <3>2
  <2>2. CASE kind = "delta"
    <3>1. handoff' = PushDelta(handoff, u)
      BY <2>2, <1>2 DEF PushFrame, AfterPush
    <3>2. handoff \in Handoff /\ Len(b) <= Capacity
      BY <1>0 DEF HandoffInv, TypeOK, BacklogBounded
    <3>3. AppendedTo(b, u, q) \/ ReplacedOldest(b, u, q) \/ TurnedAway(b, q)
      BY <1>2, <3>1, <3>2, PushDeltaEffect
    <3> DEFINE m == Len(b)
               n == Len(q)
    <3>4. m \in Nat /\ n \in Nat /\ DOMAIN b = 1..m /\ DOMAIN q = 1..n
      BY <1>1, LenProperties
    <3>5. /\ AppendedTo(b, u, q) =>
               n = m + 1 /\ q[n] = u /\ \A i \in 1..m : q[i] = b[i]
          /\ TurnedAway(b, q) => n = 1 /\ m = 1 /\ q[1] = b[1]
          /\ ReplacedOldest(b, u, q) =>
               /\ n = m /\ q[n] = u
               /\ b[1].kind = "key" => q[1] = b[1] /\ \A i \in 2..(m - 1) : q[i] = b[i + 1]
               /\ b[1].kind # "key" => \A i \in 1..(m - 1) : q[i] = b[i + 1]
      BY DEF AppendedTo, ReplacedOldest, TurnedAway
    <3> HIDE DEF u, b, q, m, n
    <3> TAKE i \in DOMAIN q
    <3>6. CASE i = n /\ ~TurnedAway(b, q)
      BY <3>3, <3>5, <3>6
    <3>7. CASE i = 1 /\ i \in 1..m
      <4>1. q[1] = u \/ q[1] = b[1] \/ (2 \in 1..m /\ q[1] = b[2])
        <5>1. CASE AppendedTo(b, u, q) \/ TurnedAway(b, q)
          BY <5>1, <3>5, <3>7
        <5>2. CASE ReplacedOldest(b, u, q)
          <6>1. CASE m = 1
            BY <5>2, <6>1, <3>5
          <6>2. CASE m > 1
            <7>1. 1 \in 1..(m - 1) /\ 2 \in 1..m /\ 1 + 1 = 2
              BY <6>2, <3>4
            <7>2. QED
              BY <5>2, <7>1, <3>5
          <6>3. QED
            BY <6>1, <6>2, <3>4, <3>7
        <5>3. QED
          BY <3>3, <5>1, <5>2
      <4>2. QED
        BY <4>1, <3>4, <3>7
    <3>8. CASE i \in 2..m /\ i < n
      <4>1. q[i] = b[i] \/ (i + 1 \in 1..m /\ q[i] = b[i + 1])
        BY <3>3, <3>4, <3>5, <3>8
      <4>2. QED
        BY <4>1, <3>4, <3>8
    <3>9. i = n \/ (i = 1 /\ i \in 1..m) \/ (i \in 2..m /\ i < n)
      BY <3>3, <3>4, <3>5
    <3>10. i = n /\ TurnedAway(b, q) => i = 1 /\ i \in 1..m
      BY <3>5
    <3>11. QED
      BY <3>6, <3>7, <3>8, <3>9, <3>10
  <2>3. QED
    BY <2>1, <2>2
<1>4. PendingSeqs' \subseteq PendingSeqs \cup {pushed + 1}
  <2> HIDE DEF u
  <2> SUFFICES ASSUME NEW s \in PendingSeqs'
               PROVE  s \in PendingSeqs \cup {pushed + 1}
    OBVIOUS
  <2>1. PICK i \in DOMAIN q : s = q[i].seq
    BY DEF PendingSeqs
  <2>2. CASE q[i] = u
    BY <2>1, <2>2, <1>2
  <2>3. CASE \E j \in DOMAIN b : q[i] = b[j]
    BY <2>1, <2>3 DEF PendingSeqs
  <2>4. QED
    BY <1>3, <2>1, <2>2, <2>3
<1>5. Channel!Owed(PendingSeqs', spanKey')
  <2> SUFFICES ASSUME spanKey' # 0 PROVE spanKey' \in PendingSeqs'
    BY DEF Channel!Owed
  <2>1. q # <<>> /\ q[1] = [seq |-> spanKey', kind |-> "key"]
    BY DEF HandoffInv, NewestKeyframeKept
  <2>2. q[1].seq = spanKey' /\ 1 \in DOMAIN q
    <3>1. q[1].seq = spanKey'
      BY <2>1
    <3> HIDE DEF q
    <3>2. Len(q) \in Nat \ {0} /\ DOMAIN q = 1..Len(q)
      BY <1>1, <2>1, EmptySeq, LenProperties
    <3>3. QED
      BY <3>1, <3>2
  <2>3. QED
    BY <2>2 DEF PendingSeqs
<1>6. QED
  BY <1>4, <1>5 DEF PushFrame, Channel!Send

\* A drain is one take on the abstract channel.
LEMMA DrainIsTake == HandoffInv /\ HandoffInv' /\ Drain => Channel!Take
<1> SUFFICES ASSUME HandoffInv, HandoffInv', Drain PROVE Channel!Take
  OBVIOUS
<1>0. TypeOK /\ TypeOK' /\ DeliveredInOrder
  BY PendingOrder DEF HandoffInv
<1> DEFINE b == handoff.backlog
           m == Len(b)
<1>1. b \in Seq(Unit) /\ m \in Nat /\ DOMAIN b = 1..m
      /\ \A i \in 1..m : b[i].seq \in Nat
  BY <1>0, TypeFacts
<1>2. handoff'.backlog = <<>>
  BY <1>0 DEF Drain, AfterDrain, TypeOK, Handoff
<1>3. PendingSeqs' = {}
  BY <1>2 DEF PendingSeqs
<1>4. CASE b = <<>>
  <2>1. PendingSeqs = {}
    BY <1>4 DEF PendingSeqs
  <2>2. delivered' = delivered /\ spanKey' = 0 /\ UNCHANGED pushed
    BY <1>4 DEF Drain
  <2>3. QED
    BY <1>3, <2>1, <2>2 DEF Channel!Take
<1>5. CASE b # <<>>
  <2>1. delivered' = b[m].seq
    BY <1>5 DEF Drain
  <2>2. /\ \A i \in 1..m : delivered < b[i].seq
        /\ \A i, j \in 1..m : i < j => b[i].seq < b[j].seq
    BY <1>0, <1>1 DEF DeliveredInOrder
  <2>3. m >= 1
    BY <1>1, <1>5, EmptySeq
  <2>4. PendingSeqs = {b[i].seq : i \in 1..m}
    BY <1>1 DEF PendingSeqs
  <2> HIDE DEF b, m
  <2>5. m \in 1..m
    BY <1>1, <2>3
  <2>6. \A i \in 1..m : b[i].seq <= b[m].seq
    <3> TAKE i \in 1..m
    <3>1. CASE i = m
      BY <3>1, <1>1
    <3>2. CASE i < m
      BY <3>2, <1>1, <2>2, <2>5
    <3>3. QED
      BY <1>1, <3>1, <3>2
  <2>7. delivered' \in PendingSeqs /\ delivered' > delivered
    <3>1. b[m].seq \in PendingSeqs
      BY <2>4, <2>5
    <3>2. delivered < b[m].seq
      BY <2>2, <2>5
    <3>3. delivered \in Nat /\ b[m].seq \in Nat
      BY <1>0, <1>1, <2>5 DEF TypeOK
    <3>4. QED
      BY <2>1, <3>1, <3>2, <3>3
  <2>8. \A s \in PendingSeqs : s > delivered /\ s <= delivered'
    <3> TAKE s \in PendingSeqs
    <3>1. PICK i \in 1..m : s = b[i].seq
      BY <2>4
    <3>2. delivered < b[i].seq /\ b[i].seq <= b[m].seq
      BY <2>2, <2>6
    <3>3. delivered \in Nat /\ b[i].seq \in Nat
      BY <1>0, <1>1 DEF TypeOK
    <3>4. QED
      BY <2>1, <3>1, <3>2, <3>3
  <2>9. QED
    BY <1>3, <2>7, <2>8 DEF Drain, Channel!Take
<1>6. QED
  BY <1>4, <1>5

\* The handoff implements the abstract channel: whatever it loses under load, it
\* behaves as an ordered, at-most-once channel that keeps the newest keyframe.
THEOREM HandoffImplementsChannel == Spec => ImplementsChannel
<1>1. Init => Channel!ChannelInit
  <2> SUFFICES ASSUME Init PROVE Channel!ChannelInit
    OBVIOUS
  <2>1. handoff.backlog = <<>>
    BY DEF Init, EmptyHandoff
  <2>2. PendingSeqs = {}
    BY <2>1 DEF PendingSeqs
  <2>3. QED
    BY <2>2 DEF Init, Channel!ChannelInit
<1>2. HandoffInv /\ HandoffInv' /\ [Next]_vars
        => [Channel!ChannelNext]_(Channel!channelVars)
  <2> SUFFICES ASSUME HandoffInv, HandoffInv', [Next]_vars
               PROVE  [Channel!ChannelNext]_(Channel!channelVars)
    OBVIOUS
  <2>0. TypeOK /\ TypeOK'
    BY DEF HandoffInv
  <2>1. CASE PushConfig
    <3>1. handoff' = [handoff EXCEPT !.config = <<[seq |-> pushed, kind |-> "config"]>>]
      BY <2>1 DEF PushConfig, AfterPush
    <3>2. handoff'.backlog = handoff.backlog
      BY <2>0, <3>1 DEF TypeOK, Handoff
    <3>3. PendingSeqs' = PendingSeqs
      BY <3>2 DEF PendingSeqs
    <3>4. QED
      BY <2>1, <3>3 DEF PushConfig, Channel!channelVars
  <2>2. CASE PushFrame("key")
    <3>1. Channel!Send("key" = "key")
      BY <2>2, PushIsSend
    <3>2. QED
      BY <3>1 DEF Channel!ChannelNext
  <2>3. CASE PushFrame("delta")
    <3>1. Channel!Send("delta" = "key")
      BY <2>3, PushIsSend
    <3>2. Channel!Send(FALSE)
      BY <3>1
    <3>3. QED
      BY <3>2 DEF Channel!ChannelNext
  <2>4. CASE Drain
    BY <2>4, DrainIsTake DEF Channel!ChannelNext
  <2>5. CASE Clear
    <3>1. handoff'.backlog = <<>>
      BY <2>0, <2>5 DEF Clear, AfterClear, EmptyHandoff, TypeOK, Handoff
    <3>2. PendingSeqs' = {}
      BY <3>1 DEF PendingSeqs
    <3>3. Channel!Reset
      BY <2>5, <3>2 DEF Clear, Channel!Reset
    <3>4. QED
      BY <3>3 DEF Channel!ChannelNext
  <2>6. CASE UNCHANGED vars
    BY <2>6 DEF vars, PendingSeqs, Channel!channelVars
  <2>7. QED
    BY <2>1, <2>2, <2>3, <2>4, <2>5, <2>6 DEF Next
<1>3. QED
  BY <1>1, <1>2, HandoffInvariant, PTL DEF Spec, ImplementsChannel, Channel!ChannelSpec

-----------------------------------------------------------------------------
(* The raw pipeline.                                                       *)

RunsWhileOpen ==
  /\ pipeline.running <=> encoder.open
  /\ call # "none" => pipeline.running
  /\ ~encoder.fed => encoder.held = <<>>

ClockFollows ==
  pipeline.running =>
    /\ admitted = None => pipeline.next = 0
    /\ admitted # None => /\ Decimating
                          /\ pipeline.next = admitted + Interval(config)

CauseKept ==
  /\ pipeline.running => ~pipeline.failed /\ pipeline.failure = "EncoderFailure"
  /\ pipeline.failed <=> ending # "none"
  /\ pipeline.failed =>
       pipeline.failure = IF ending = "sink" THEN "SinkRejected" ELSE "EncoderFailure"

PipelineInv == PipelineTypeOK /\ RunsWhileOpen /\ ClockFollows /\ CauseKept

-----------------------------------------------------------------------------
(* Arithmetic of the clock and the grid.                                   *)

\* What rounding down to a multiple of b means.
LEMMA QuotientBounds ==
  ASSUME NEW a \in Nat, NEW b \in Nat \ {0}
  PROVE  /\ a \div b \in Nat
         /\ b * (a \div b) <= a
         /\ a < b * (a \div b) + b
  BY SMT

LEMMA ProductGap ==
  ASSUME NEW b \in Nat \ {0}, NEW p \in Nat, NEW q \in Nat, b * p < b * q + b
  PROVE  p <= q
<1> SUFFICES ASSUME p >= q + 1 PROVE FALSE
  OBVIOUS
<1>2. b * p >= b * (q + 1)
  OBVIOUS
<1>3. b * (q + 1) = b * q + b
  OBVIOUS
<1> QED
  BY <1>2, <1>3

\* A quotient follows its dividend, and moves when the dividend moves by b.
LEMMA QuotientMonotone ==
  ASSUME NEW x \in Nat, NEW y \in Nat, NEW b \in Nat \ {0}, x <= y
  PROVE  x \div b <= y \div b
<1> DEFINE p == x \div b
           q == y \div b
<1>1. p \in Nat /\ q \in Nat /\ b * p <= x /\ y < b * q + b
  BY QuotientBounds
<1>2. b * p \in Nat /\ b * q \in Nat
  BY <1>1
<1> HIDE DEF p, q
<1>3. b * p < b * q + b
  BY <1>1, <1>2
<1>4. p <= q
  BY <1>1, <1>3, ProductGap
<1> QED
  BY <1>4 DEF p, q

LEMMA QuotientAdvances ==
  ASSUME NEW x \in Nat, NEW y \in Nat, NEW b \in Nat \ {0}, x + b <= y
  PROVE  x \div b < y \div b
<1> DEFINE p == x \div b
           q == y \div b
<1>1. p \in Nat /\ q \in Nat /\ b * p <= x /\ y < b * q + b
  BY QuotientBounds
<1>2. b * p \in Nat /\ b * q \in Nat /\ b * (p + 1) = b * p + b
  BY <1>1
<1> HIDE DEF p, q
<1>3. b * (p + 1) < b * q + b
  BY <1>1, <1>2
<1>4. p + 1 <= q
  BY <1>1, <1>3, ProductGap
<1> QED
  BY <1>1, <1>4 DEF p, q

LEMMA ConfigsAreRates ==
  ASSUME NEW c \in Configs
  PROVE  c.fps \in Nat /\ c.fps <= Second /\ Second \in Nat \ {0}
  BY PipelineAssumption DEF Config

\* fps_filter_interval_ns_ is a number of nanoseconds.
LEMMA IntervalIsNat ==
  ASSUME NEW c \in Configs
  PROVE  Interval(c) \in Nat
<1>1. c.fps \in Nat /\ Second \in Nat \ {0}
  BY ConfigsAreRates
<1>2. CASE c.fps = 0
  BY <1>2 DEF Interval
<1>3. CASE c.fps # 0
  <2>1. 2 * Second + c.fps \in Nat /\ 2 * c.fps \in Nat \ {0}
    BY <1>1, <1>3
  <2> QED
    BY <2>1, <1>3, QuotientBounds DEF Interval
<1> QED
  BY <1>2, <1>3

\* The time of a unit is a point of the grid.
LEMMA UnitTimeIsNat ==
  ASSUME NEW c \in Configs, NEW ts \in Nat
  PROVE  UnitTime(c, ts) \in Nat
<1>1. c.fps \in Nat /\ Second \in Nat \ {0}
  BY ConfigsAreRates
<1>2. ts * c.fps \in Nat
  BY <1>1
<1>3. 2 * ts * c.fps + Second \in Nat /\ 2 * Second \in Nat \ {0}
  BY <1>1, <1>2
<1> QED
  BY <1>3, QuotientBounds DEF UnitTime

-----------------------------------------------------------------------------
(* The inductive invariant.                                                *)

LEMMA InitEstablishes == PipelineInit => PipelineInv
  BY DEF PipelineInit, PipelineInv, PipelineTypeOK, RunsWhileOpen, ClockFollows, CauseKept,
         NewPipeline, ClosedEncoder, None

\* start(): a new run starts with the clock and the failure of a new pipeline.
LEMMA StartPreserves ==
  ASSUME PipelineInv, NEW usable \in SUBSET (Hardware \cap Linked),
         StartFails(usable) \/ StartOpens(usable)
  PROVE  PipelineInv'
<1>1. /\ config' = config /\ call' = call
      /\ Linked \subseteq Encoders /\ Hardware \subseteq Encoders
  BY PipelineAssumption DEF StartFails, StartOpens, Encoders
<1>2. CASE StartFails(usable)
  <2>1. /\ UNCHANGED <<pipeline, admitted, recent, ending>>
        /\ ~pipeline.running /\ call = "none"
    BY <1>2 DEF StartFails, Startable
  <2>2. PICK active \in Encoders \cup {"none"} :
          encoder' = [ClosedEncoder EXCEPT !.active = active]
    BY <1>1, <1>2 DEF StartFails
  <2>3. encoder' = [open |-> FALSE, active |-> active, fed |-> FALSE, held |-> <<>>]
    BY <2>2 DEF ClosedEncoder
  <2> QED
    BY <1>1, <2>1, <2>3
    DEF PipelineInv, PipelineTypeOK, RunsWhileOpen, ClockFollows, CauseKept
<1>3. CASE StartOpens(usable)
  <2>1. PICK active \in Encoders :
          encoder' = [open |-> TRUE, active |-> active, fed |-> FALSE, held |-> <<>>]
    BY <1>1, <1>3 DEF StartOpens, ClosedEncoder
  <2>2. /\ pipeline' = [running |-> TRUE, failed |-> FALSE, failure |-> "EncoderFailure",
                        next |-> 0]
        /\ admitted' = None /\ recent' = <<>> /\ ending' = "none" /\ call = "none"
    BY <1>3 DEF StartOpens, NewPipeline, Startable
  <2> QED
    BY <1>1, <2>1, <2>2
    DEF PipelineInv, PipelineTypeOK, RunsWhileOpen, ClockFollows, CauseKept, None
<1> QED
  BY <1>2, <1>3

\* push_frame: an admitted frame moves the clock and enters the encoder.
LEMMA PushPreserves ==
  ASSUME PipelineInv, NEW ts \in Times, PushFrameBegins(ts)
  PROVE  PipelineInv'
<1>1. config \in Configs /\ config' = config /\ Decimating' = Decimating
  BY DEF PipelineInv, PipelineTypeOK, PushFrameBegins, Decimating, Interval
<1>2. ts \in Nat /\ Interval(config) \in Nat /\ UnitTime(config, ts) \in Nat
  <2>1. ts \in Nat
    BY PipelineAssumption DEF Times
  <2> QED
    BY <1>1, <2>1, IntervalIsNat, UnitTimeIsNat
<1>3. /\ pipeline.running /\ call = "none" /\ call' = "push_frame"
      /\ UNCHANGED <<recent, ending>>
  BY DEF PushFrameBegins, PushRefusal, PipelineInv, PipelineTypeOK
<1>4. /\ pipeline' = [pipeline EXCEPT !.next = IF Decimating THEN ts + Interval(config) ELSE 0]
      /\ encoder' = [encoder EXCEPT !.fed = TRUE,
                                    !.held = Append(encoder.held, UnitTime(config, ts))]
      /\ admitted' = IF Decimating THEN ts ELSE None
  BY DEF PushFrameBegins
<1>5. PipelineTypeOK'
  <2>1. Append(encoder.held, UnitTime(config, ts)) \in Seq(Nat)
    BY <1>2 DEF PipelineInv, PipelineTypeOK
  <2>2. encoder' \in [open : BOOLEAN, active : Encoders \cup {"none"}, fed : BOOLEAN,
                     held : Seq(Nat)]
    BY <1>4, <2>1 DEF PipelineInv, PipelineTypeOK
  <2>3. (IF Decimating THEN ts + Interval(config) ELSE 0) \in Nat
    BY <1>2
  <2>4. pipeline' \in [running : BOOLEAN, failed : BOOLEAN,
                      failure : {"EncoderFailure", "SinkRejected"}, next : Nat]
    BY <1>4, <2>3 DEF PipelineInv, PipelineTypeOK
  <2>5. admitted' \in Nat \cup {None}
    BY <1>2, <1>4
  <2> QED
    BY <1>1, <1>3, <2>2, <2>4, <2>5 DEF PipelineInv, PipelineTypeOK
<1>6. RunsWhileOpen'
  BY <1>1, <1>2, <1>3, <1>4 DEF PipelineInv, PipelineTypeOK, RunsWhileOpen
<1>7. ClockFollows'
  <2>1. Interval(config)' = Interval(config)
    BY <1>1 DEF Interval
  <2> QED
    BY <1>1, <1>2, <1>3, <1>4, <2>1 DEF PipelineInv, PipelineTypeOK, ClockFollows, None
<1>8. CauseKept'
  BY <1>1, <1>3, <1>4 DEF PipelineInv, PipelineTypeOK, CauseKept
<1> QED
  BY <1>5, <1>6, <1>7, <1>8 DEF PipelineInv

\* Steps that neither admit a frame nor end a run.
LEMMA QuietPreserves ==
  ASSUME PipelineInv,
         UNCHANGED <<config, pipeline, admitted, ending>>,
         encoder'.open = encoder.open, encoder'.fed = encoder.fed,
         encoder' \in [open : BOOLEAN, active : Encoders \cup {"none"}, fed : BOOLEAN,
                      held : Seq(Nat)],
         ~encoder.fed => encoder'.held = <<>>,
         call' \in {"none", "push_frame", "stop"}, call' # "none" => pipeline.running,
         recent' \in Seq(Nat), Len(recent') <= 2
  PROVE  PipelineInv'
<1>1. PipelineTypeOK' /\ RunsWhileOpen' /\ CauseKept'
  BY DEF PipelineInv, PipelineTypeOK, RunsWhileOpen, CauseKept
<1>2. ClockFollows'
  BY DEF PipelineInv, ClockFollows, Decimating, Interval
<1> QED
  BY <1>1, <1>2 DEF PipelineInv

\* drain_encoder: units leave the encoder, or frames give none.
LEMMA UnitPreserves ==
  ASSUME PipelineInv, PushFrameEnds \/ UnitTaken \/ FrameSkipped \/ StopFlushes
  PROVE  PipelineInv'
<1> USE DEF PipelineInv, PipelineTypeOK, RunsWhileOpen
<1>1. CASE PushFrameEnds
  BY <1>1, QuietPreserves DEF PushFrameEnds
<1>2. CASE StopFlushes
  BY <1>2, QuietPreserves DEF StopFlushes
<1>3. CASE UnitTaken
  <2>1. /\ encoder' = [encoder EXCEPT !.held = Tail(encoder.held)]
        /\ encoder.held # <<>> /\ encoder.held \in Seq(Nat)
        /\ UNCHANGED <<config, pipeline, call, admitted, ending>>
    BY <1>3 DEF UnitTaken
  <2>2. Head(encoder.held) \in Nat /\ Tail(encoder.held) \in Seq(Nat)
    BY <2>1
  <2>3. recent' \in Seq(Nat) /\ Len(recent') <= 2
    <3>1. recent \in Seq(Nat) /\ Len(recent) \in Nat /\ Len(recent) <= 2
      OBVIOUS
    <3>2. CASE ~Decimating
      BY <1>3, <3>2 DEF UnitTaken, Remember
    <3>3. CASE Decimating /\ Len(recent) < 2
      BY <1>3, <2>2, <3>1, <3>3 DEF UnitTaken, Remember
    <3>4. CASE Decimating /\ ~(Len(recent) < 2)
      <4>1. recent[2] \in Nat
        BY <3>1, <3>4
      <4>2. recent' = <<recent[2], Head(encoder.held)>>
        BY <1>3, <3>4 DEF UnitTaken, Remember
      <4> QED
        BY <2>2, <4>1, <4>2
    <3> QED
      BY <3>2, <3>3, <3>4
  <2>4. encoder.fed
    BY <2>1
  <2> QED
    BY <2>1, <2>2, <2>3, <2>4, QuietPreserves
<1>4. CASE FrameSkipped
  <2>1. /\ encoder' = [encoder EXCEPT !.held = Tail(encoder.held)]
        /\ encoder.held # <<>> /\ encoder.held \in Seq(Nat)
        /\ UNCHANGED <<config, pipeline, call, admitted, recent, ending>>
    BY <1>4 DEF FrameSkipped
  <2>2. Tail(encoder.held) \in Seq(Nat) /\ encoder.fed
    BY <2>1
  <2> QED
    BY <2>1, <2>2, QuietPreserves
<1> QED
  BY <1>1, <1>2, <1>3, <1>4

\* A step that closes the encoder and ends the run as `failed` and `failure` say.
LEMMA ClosePreserves ==
  ASSUME PipelineInv,
         encoder' = ClosedEncoder, call' = "none", config' \in Configs,
         pipeline' \in [running : BOOLEAN, failed : BOOLEAN,
                       failure : {"EncoderFailure", "SinkRejected"}, next : Nat],
         ~pipeline'.running,
         admitted' \in Nat \cup {None}, recent' \in Seq(Nat), Len(recent') <= 2,
         ending' \in {"none", "sink", "encoder", "flush"},
         pipeline'.failed <=> ending' # "none",
         pipeline'.failed => pipeline'.failure = IF ending' = "sink" THEN "SinkRejected"
                                                 ELSE "EncoderFailure"
  PROVE  PipelineInv'
<1>1. encoder' = [open |-> FALSE, active |-> "none", fed |-> FALSE, held |-> <<>>]
  BY DEF ClosedEncoder
<1>2. PipelineTypeOK'
  BY <1>1 DEF PipelineTypeOK
<1>3. RunsWhileOpen' /\ ClockFollows' /\ CauseKept'
  BY <1>1 DEF RunsWhileOpen, ClockFollows, CauseKept
<1> QED
  BY <1>2, <1>3 DEF PipelineInv

\* stop(), a failure and a new pipeline close the encoder.
LEMMA EndPreserves ==
  ASSUME PipelineInv,
         \/ StopAtOnce \/ StopEnds
         \/ \E cause \in {"sink", "encoder"} : CallFails(cause)
         \/ \E c \in Configs : Rebuild(c)
  PROVE  PipelineInv'
<1> USE DEF PipelineInv, PipelineTypeOK
<1>1. CASE StopAtOnce \/ StopEnds
  <2>1. /\ encoder' = ClosedEncoder /\ call' = "none"
        /\ pipeline' = [pipeline EXCEPT !.running = FALSE]
        /\ UNCHANGED <<config, admitted, recent, ending>>
    BY <1>1 DEF StopAtOnce, StopEnds
  <2>2. /\ pipeline'.failed = pipeline.failed /\ pipeline'.failure = pipeline.failure
        /\ ~pipeline'.running
    BY <2>1
  <2> QED
    BY <2>1, <2>2, ClosePreserves DEF CauseKept
<1>2. ASSUME NEW cause \in {"sink", "encoder"}, CallFails(cause)
      PROVE  PipelineInv'
  <2>1. /\ encoder' = ClosedEncoder /\ call # "none" /\ call' = "none"
        /\ pipeline' = [pipeline EXCEPT !.running = FALSE, !.failed = TRUE,
                                        !.failure = FailureKind(cause)]
        /\ ending' = IF call = "stop" THEN "flush" ELSE cause
        /\ UNCHANGED <<config, admitted, recent>>
    BY <1>2 DEF CallFails
  <2>2. pipeline.failure = "EncoderFailure"
    BY <2>1 DEF RunsWhileOpen, CauseKept
  <2>3. /\ FailureKind(cause) = IF ending' = "sink" THEN "SinkRejected" ELSE "EncoderFailure"
        /\ FailureKind(cause) \in {"EncoderFailure", "SinkRejected"}
        /\ ending' \in {"sink", "encoder", "flush"}
    BY <1>2, <2>1, <2>2 DEF FailureKind
  <2>4. /\ ~pipeline'.running /\ pipeline'.failed
        /\ pipeline'.failure = FailureKind(cause)
    BY <2>1
  <2>5. pipeline' \in [running : BOOLEAN, failed : BOOLEAN,
                      failure : {"EncoderFailure", "SinkRejected"}, next : Nat]
    BY <2>1, <2>3
  <2> QED
    BY <2>1, <2>3, <2>4, <2>5, ClosePreserves
<1>3. ASSUME NEW c \in Configs, Rebuild(c)
      PROVE  PipelineInv'
  <2>1. /\ encoder' = ClosedEncoder /\ call' = "none" /\ config' = c
        /\ pipeline' = [running |-> FALSE, failed |-> FALSE, failure |-> "EncoderFailure",
                        next |-> 0]
        /\ admitted' = None /\ recent' = <<>> /\ ending' = "none"
    BY <1>3 DEF Rebuild, NewPipeline
  <2> QED
    BY <2>1, ClosePreserves
<1> QED
  BY <1>1, <1>2, <1>3

LEMMA StepPreserves ==
  ASSUME PipelineInv, [PipelineNext]_pipelineVars
  PROVE  PipelineInv'
<1>1. CASE UNCHANGED pipelineVars
  BY <1>1 DEF pipelineVars, PipelineInv, PipelineTypeOK, RunsWhileOpen, ClockFollows,
              CauseKept, Decimating, Interval
<1>2. CASE Start
  BY <1>2, StartPreserves DEF Start
<1>3. CASE PushFrameCall
  BY <1>3, PushPreserves, UnitPreserves DEF PushFrameCall
<1>4. CASE Stop
  BY <1>4, EndPreserves, UnitPreserves DEF Stop
<1>5. CASE UnitTaken \/ FrameSkipped
  BY <1>5, UnitPreserves
<1>6. CASE Fail \/ \E c \in Configs : Rebuild(c)
  BY <1>6, EndPreserves DEF Fail
<1> QED
  BY <1>1, <1>2, <1>3, <1>4, <1>5, <1>6 DEF PipelineNext

\* The strengthening holds of every reachable state of a pipeline.
THEOREM PipelineInvariant == PipelineSpec => []PipelineInv
<1>1. PipelineInit => PipelineInv
  BY InitEstablishes
<1>2. PipelineInv /\ [PipelineNext]_pipelineVars => PipelineInv'
  BY StepPreserves
<1> QED
  BY <1>1, <1>2, PTL DEF PipelineSpec

\* A frame is dropped exactly when it comes within an interval of the frame last
\* admitted since start(), for every frame rate and every sequence of time stamps.
THEOREM DecimationIsExact == PipelineSpec => []DecimationExact
<1>1. PipelineInv => DecimationExact
  <2> SUFFICES ASSUME PipelineInv, pipeline.running, NEW ts \in Times
               PROVE  ShouldDrop(ts) <=> /\ Decimating /\ admitted # None
                                         /\ ts < admitted + Interval(config)
    BY DEF DecimationExact
  <2>1. CASE admitted = None
    BY <2>1 DEF PipelineInv, ClockFollows, ShouldDrop
  <2>2. CASE admitted # None
    <3>1. /\ admitted \in Nat /\ pipeline.next = admitted + Interval(config) /\ Decimating
      BY <2>2 DEF PipelineInv, PipelineTypeOK, ClockFollows
    <3>2. Interval(config) \in Nat /\ Interval(config) > 0
      BY <3>1, IntervalIsNat DEF PipelineInv, PipelineTypeOK, Decimating
    <3> HIDE DEF Interval
    <3>3. pipeline.next # 0
      BY <3>1, <3>2
    <3> QED
      BY <2>2, <3>1, <3>3 DEF ShouldDrop
  <2> QED
    BY <2>1, <2>2
<1> QED
  BY <1>1, PipelineInvariant, PTL

\* A pipeline that failed refuses every frame and names what ended its run.
THEOREM FailureIsTold == PipelineSpec => []FailureTold
<1>1. PipelineInv => FailureTold
  BY DEF PipelineInv, PipelineTypeOK, RunsWhileOpen, CauseKept, FailureTold, PushRefusal
<1> QED
  BY <1>1, PipelineInvariant, PTL

\* An encoder is closed with frames inside only by a failure.
THEOREM NothingIsLostQuietly == PipelineSpec => NothingLostQuietly
<1>1. PipelineInv /\ [PipelineNext]_pipelineVars =>
        [encoder.open /\ ~encoder'.open /\ encoder.held # <<>> => pipeline'.failed]_pipelineVars
  <2> SUFFICES ASSUME PipelineInv, PipelineNext,
                      encoder.open, ~encoder'.open, encoder.held # <<>>
               PROVE  pipeline'.failed
    BY DEF pipelineVars
  <2> USE DEF PipelineInv, PipelineTypeOK, RunsWhileOpen
  <2>1. CASE Start
    BY <2>1 DEF Start, StartFails, StartOpens, Startable, ClosedEncoder
  <2>2. CASE PushFrameCall
    BY <2>2 DEF PushFrameCall, PushFrameBegins, PushFrameEnds
  <2>3. CASE Stop
    BY <2>3 DEF Stop, StopAtOnce, StopFlushes, StopEnds, Flushed
  <2>4. CASE UnitTaken \/ FrameSkipped
    BY <2>4 DEF UnitTaken, FrameSkipped
  <2>5. CASE Fail
    BY <2>5 DEF Fail, CallFails
  <2>6. CASE \E c \in Configs : Rebuild(c)
    BY <2>6 DEF Rebuild
  <2> QED
    BY <2>1, <2>2, <2>3, <2>4, <2>5, <2>6 DEF PipelineNext
<1> QED
  BY <1>1, PipelineInvariant, PTL DEF PipelineSpec, NothingLostQuietly

-----------------------------------------------------------------------------
(* Units on the grid of the time base.  The units a decimated stream has   *)
(* emitted or holds back are in order; none but the newest is as late as   *)
(* the next frame's unit can be, so that three of them never coincide.     *)

InOrder(times) ==
  \A i, j \in 1..Len(times) : /\ i <= j => times[i] <= times[j]
                              /\ i + 2 <= j => times[i] < times[j]

\* None is behind `newest`, and all but the last are before `following`.
Behind(times, newest, following) ==
  \A i \in 1..Len(times) : /\ times[i] <= newest
                           /\ i < Len(times) => times[i] < following

OnGrid(times) ==
  /\ InOrder(times)
  /\ admitted = None => times = <<>>
  /\ admitted # None =>
       Behind(times, UnitTime(config, admitted), UnitTime(config, admitted + Interval(config)))

UnitTimes == recent \o encoder.held
GridInv == Decimating => OnGrid(UnitTimes)

LEMMA UnitTimeMonotone ==
  ASSUME NEW c \in Configs, NEW a \in Nat, NEW b \in Nat, a <= b
  PROVE  UnitTime(c, a) <= UnitTime(c, b)
<1>1. c.fps \in Nat /\ Second \in Nat \ {0}
  BY ConfigsAreRates
<1> DEFINE f == c.fps
<1> HIDE DEF f
<1>2. f \in Nat
  BY <1>1 DEF f
<1>3. 2 * a * f <= 2 * b * f /\ 2 * a * f \in Nat /\ 2 * b * f \in Nat
  BY <1>2
<1>4. (2 * a * f + Second) \div (2 * Second) <= (2 * b * f + Second) \div (2 * Second)
  <2>1. /\ 2 * a * f + Second \in Nat /\ 2 * b * f + Second \in Nat
        /\ 2 * Second \in Nat \ {0} /\ 2 * a * f + Second <= 2 * b * f + Second
    BY <1>1, <1>3
  <2> QED
    BY <2>1, QuotientMonotone
<1> QED
  BY <1>4 DEF UnitTime, f

\* Rounded down, an interval may be shorter than a frame; two of them are not
\* shorter than the step of the grid.
LEMMA TwoIntervalsAdvance ==
  ASSUME NEW c \in Configs, c.fps # 0, NEW a \in Nat, NEW b \in Nat,
         a + Interval(c) + Interval(c) <= b
  PROVE  UnitTime(c, a) < UnitTime(c, b)
<1>1. c.fps \in Nat /\ c.fps <= Second /\ Second \in Nat \ {0} /\ Interval(c) \in Nat
  BY ConfigsAreRates, IntervalIsNat
<1> DEFINE f == c.fps
           n == Interval(c)
<1>2. f \in Nat \ {0} /\ f <= Second /\ n \in Nat /\ a + n + n <= b
  BY <1>1
<1>3. 2 * Second + f < (2 * f) * n + 2 * f
  <2>1. n = (2 * Second + f) \div (2 * f)
    BY DEF Interval
  <2>2. 2 * Second + f \in Nat /\ 2 * f \in Nat \ {0}
    BY <1>1, <1>2
  <2> QED
    BY <2>1, <2>2, QuotientBounds
<1> HIDE DEF f, n
<1>4. f * n \in Nat /\ f * a \in Nat /\ (2 * f) * n = 2 * (f * n)
  BY <1>2
<1>5. 2 * Second <= 4 * (f * n)
  BY <1>1, <1>2, <1>3, <1>4
<1>6. 2 * a * f + 4 * (f * n) <= 2 * b * f
  <2>1. 2 * (a + n + n) * f <= 2 * b * f
    BY <1>2
  <2>2. 2 * (a + n + n) * f = 2 * a * f + 4 * (f * n)
    BY <1>2
  <2> QED
    BY <2>1, <2>2
<1>7. 2 * a * f \in Nat /\ 2 * b * f \in Nat
  BY <1>2
<1>8. (2 * a * f + Second) \div (2 * Second) < (2 * b * f + Second) \div (2 * Second)
  <2>1. /\ 2 * a * f + Second \in Nat /\ 2 * b * f + Second \in Nat
        /\ 2 * Second \in Nat \ {0}
        /\ (2 * a * f + Second) + 2 * Second <= 2 * b * f + Second
    BY <1>1, <1>4, <1>5, <1>6, <1>7
  <2> QED
    BY <2>1, QuotientAdvances
<1> QED
  BY <1>8 DEF UnitTime, f

\* A new unit that is behind none of its predecessors and, but for one, after them.
LEMMA AppendInOrder ==
  ASSUME NEW times \in Seq(Nat), NEW newest \in Nat, NEW following \in Nat,
         NEW time \in Nat, NEW next \in Nat,
         InOrder(times), Behind(times, newest, following),
         newest <= time, following <= time, newest < next
  PROVE  InOrder(Append(times, time)) /\ Behind(Append(times, time), time, next)
<1> DEFINE longer == Append(times, time)
<1>1. /\ Len(longer) = Len(times) + 1 /\ longer[Len(times) + 1] = time
      /\ \A i \in 1..Len(times) : longer[i] = times[i] /\ times[i] \in Nat
      /\ Len(times) \in Nat
  OBVIOUS
<1> HIDE DEF longer
<1>2. ASSUME NEW i \in 1..Len(longer), NEW j \in 1..Len(longer)
      PROVE  /\ i <= j => longer[i] <= longer[j]
             /\ i + 2 <= j => longer[i] < longer[j]
  <2>1. CASE j \in 1..Len(times)
    <3>1. i <= j => i \in 1..Len(times)
      BY <1>1, <2>1
    <3>2. i + 2 <= j => i \in 1..Len(times)
      BY <1>1, <2>1
    <3> QED
      BY <1>1, <2>1, <3>1, <3>2 DEF InOrder
  <2>2. CASE j = Len(times) + 1 /\ i \in 1..Len(times)
    <3>1. /\ times[i] <= newest /\ (i < Len(times) => times[i] < following)
          /\ longer[i] = times[i] /\ times[i] \in Nat /\ longer[j] = time
      BY <1>1, <2>2 DEF Behind
    <3> QED
      BY <1>1, <2>2, <3>1
  <2>3. CASE j = Len(times) + 1 /\ i = Len(times) + 1
    BY <1>1, <2>3
  <2> QED
    BY <1>1, <2>1, <2>2, <2>3
<1>3. ASSUME NEW i \in 1..Len(longer)
      PROVE  longer[i] <= time /\ (i < Len(longer) => longer[i] < next)
  <2>1. CASE i \in 1..Len(times)
    <3>1. times[i] <= newest /\ longer[i] = times[i] /\ times[i] \in Nat
      BY <1>1, <2>1 DEF Behind
    <3> QED
      BY <3>1
  <2>2. CASE i = Len(times) + 1
    BY <1>1, <2>2
  <2> QED
    BY <1>1, <2>1, <2>2
<1> QED
  BY <1>2, <1>3 DEF longer, InOrder, Behind

\* A prefix of times in order.
LEMMA PrefixInOrder ==
  ASSUME NEW times \in Seq(Nat), NEW part \in Seq(Nat), Len(part) <= Len(times),
         \A i \in 1..Len(part) : part[i] = times[i],
         NEW newest \in Nat, NEW following \in Nat
  PROVE  /\ InOrder(times) => InOrder(part)
         /\ Behind(times, newest, following) => Behind(part, newest, following)
<1>1. /\ Len(part) \in Nat /\ Len(times) \in Nat
      /\ \A i \in 1..Len(part) : i \in 1..Len(times) /\ part[i] = times[i]
      /\ \A i \in 1..Len(part) : i < Len(part) => i < Len(times)
  OBVIOUS
<1>2. InOrder(times) => InOrder(part)
  BY <1>1 DEF InOrder
<1>3. Behind(times, newest, following) => Behind(part, newest, following)
  BY <1>1 DEF Behind
<1> QED
  BY <1>2, <1>3

\* A unit less.
LEMMA LessOneInOrder ==
  ASSUME NEW times \in Seq(Nat), NEW part \in Seq(Nat), NEW k \in 1..Len(times),
         Len(part) = Len(times) - 1,
         \A i \in 1..Len(part) : part[i] = IF i < k THEN times[i] ELSE times[i + 1],
         NEW newest \in Nat, NEW following \in Nat
  PROVE  /\ InOrder(times) => InOrder(part)
         /\ Behind(times, newest, following) => Behind(part, newest, following)
<1> DEFINE place(i) == IF i < k THEN i ELSE i + 1
<1>1. ASSUME NEW i \in 1..Len(part)
      PROVE  /\ place(i) \in 1..Len(times) /\ part[i] = times[place(i)]
             /\ i < Len(part) => place(i) < Len(times)
  <2>1. Len(times) \in Nat /\ Len(part) = Len(times) - 1
    OBVIOUS
  <2>2. CASE i < k
    BY <2>1, <2>2
  <2>3. CASE ~(i < k)
    <3>1. i \in Nat /\ k \in Nat /\ 1 <= i /\ i <= Len(times) - 1 /\ ~(i < k)
      BY <2>1, <2>3
    <3>2. place(i) = i + 1 /\ part[i] = times[i + 1]
      BY <2>3
    <3> HIDE DEF place
    <3> QED
      BY <2>1, <3>1, <3>2
  <2> QED
    BY <2>2, <2>3
<1>2. \A i, j \in 1..Len(part) : /\ i <= j => place(i) <= place(j)
                                 /\ i + 2 <= j => place(i) + 2 <= place(j)
  OBVIOUS
<1> HIDE DEF place
<1>3. InOrder(times) => InOrder(part)
  BY <1>1, <1>2 DEF InOrder
<1>4. Behind(times, newest, following) => Behind(part, newest, following)
  BY <1>1 DEF Behind
<1> QED
  BY <1>3, <1>4

LEMMA InitOnGrid == PipelineInit => GridInv
<1> SUFFICES ASSUME PipelineInit PROVE OnGrid(UnitTimes)
  BY DEF GridInv
<1>1. UnitTimes = <<>> /\ admitted = None
  BY DEF PipelineInit, ClosedEncoder, UnitTimes
<1> QED
  BY <1>1 DEF OnGrid, InOrder

\* after is the beginning of before, or before without its k-th time.
BeginsLike(after, before) ==
  /\ Len(after) <= Len(before)
  /\ \A i \in 1..Len(after) : after[i] = before[i]

LosesOne(after, before, k) ==
  /\ k \in 1..Len(before) /\ Len(after) = Len(before) - 1
  /\ \A i \in 1..Len(after) : after[i] = IF i < k THEN before[i] ELSE before[i + 1]

\* Units that leave the encoder or are lost: the rest is still on the grid.
LEMMA FewerOnGrid ==
  ASSUME PipelineInv, Decimating, OnGrid(UnitTimes), UNCHANGED <<config, admitted>>,
         recent' \in Seq(Nat), encoder'.held \in Seq(Nat), NEW k \in Nat,
         \/ BeginsLike(recent' \o encoder'.held, UnitTimes)
         \/ LosesOne(recent' \o encoder'.held, UnitTimes, k)
  PROVE  GridInv'
<1> DEFINE before == UnitTimes
           after == recent' \o encoder'.held
           newest == UnitTime(config, admitted)
           following == UnitTime(config, admitted + Interval(config))
<1>1. before \in Seq(Nat) /\ after \in Seq(Nat)
  BY DEF PipelineInv, PipelineTypeOK, UnitTimes
<1>2. admitted # None => newest \in Nat /\ following \in Nat
  <2> SUFFICES ASSUME admitted # None PROVE newest \in Nat /\ following \in Nat
    OBVIOUS
  <2>1. config \in Configs /\ admitted \in Nat
    BY DEF PipelineInv, PipelineTypeOK
  <2>2. Interval(config) \in Nat
    BY <2>1, IntervalIsNat
  <2>3. admitted + Interval(config) \in Nat
    BY <2>1, <2>2
  <2> QED
    BY <2>1, <2>3, UnitTimeIsNat
<1>3. /\ InOrder(before)
      /\ admitted = None => before = <<>>
      /\ admitted # None => Behind(before, newest, following)
  BY DEF OnGrid
<1>4. \/ /\ Len(after) <= Len(before)
         /\ \A i \in 1..Len(after) : after[i] = before[i]
      \/ /\ k \in 1..Len(before) /\ Len(after) = Len(before) - 1
         /\ \A i \in 1..Len(after) :
              after[i] = IF i < k THEN before[i] ELSE before[i + 1]
  BY DEF BeginsLike, LosesOne
<1> HIDE DEF before, after, newest, following
<1>5. InOrder(after)
  <2>1. 0 \in Nat
    OBVIOUS
  <2> QED
    BY <1>1, <1>3, <1>4, <2>1, PrefixInOrder, LessOneInOrder
<1>6. admitted # None => Behind(after, newest, following)
  BY <1>1, <1>2, <1>3, <1>4, PrefixInOrder, LessOneInOrder
<1>7. admitted = None => after = <<>>
  <2> SUFFICES ASSUME admitted = None PROVE after = <<>>
    OBVIOUS
  <2>1. before = <<>> /\ Len(before) = 0
    BY <1>3
  <2>2. Len(after) = 0
    BY <1>1, <1>4, <2>1
  <2> QED
    BY <1>1, <2>2
<1>8. OnGrid(after)
  BY <1>5, <1>6, <1>7 DEF OnGrid, newest, following
<1> QED
  BY <1>8 DEF GridInv, OnGrid, UnitTimes, UnitTime, Interval, after

\* push_frame: the unit of an admitted frame comes behind the others.
LEMMA PushOnGrid ==
  ASSUME PipelineInv, GridInv, NEW ts \in Times, PushFrameBegins(ts)
  PROVE  GridInv'
<1> SUFFICES ASSUME Decimating PROVE GridInv'
  BY DEF GridInv, PushFrameBegins, Decimating, Interval
<1> DEFINE time == UnitTime(config, ts)
           next == UnitTime(config, ts + Interval(config))
<1>1. /\ config \in Configs /\ config' = config /\ recent' = recent
      /\ encoder' = [encoder EXCEPT !.fed = TRUE, !.held = Append(encoder.held, time)]
      /\ encoder.held \in Seq(Nat) /\ recent \in Seq(Nat) /\ admitted' = ts
      /\ ts \in Nat /\ None \notin Nat /\ config.fps # 0
  <2>1. /\ config' = config /\ recent' = recent /\ admitted' = ts
        /\ encoder' = [encoder EXCEPT !.fed = TRUE, !.held = Append(encoder.held, time)]
    BY DEF PushFrameBegins
  <2>2. config \in Configs /\ encoder.held \in Seq(Nat) /\ recent \in Seq(Nat)
    BY DEF PipelineInv, PipelineTypeOK
  <2>3. ts \in Nat /\ None \notin Nat
    BY PipelineAssumption DEF Times, None
  <2>4. config.fps # 0
    BY DEF Decimating, Interval
  <2> QED
    BY <2>1, <2>2, <2>3, <2>4
<1>2. Interval(config) \in Nat /\ time \in Nat /\ next \in Nat
  <2>1. Interval(config) \in Nat
    BY <1>1, IntervalIsNat
  <2>2. ts + Interval(config) \in Nat
    BY <1>1, <2>1
  <2> QED
    BY <1>1, <2>1, <2>2, UnitTimeIsNat
<1>3. encoder'.held = Append(encoder.held, time)
  <2> HIDE DEF time
  <2> QED
    BY <1>1 DEF PipelineInv, PipelineTypeOK
<1>4. recent' \o encoder'.held = Append(UnitTimes, time) /\ UnitTimes \in Seq(Nat)
  <2> HIDE DEF time
  <2>1. recent \o Append(encoder.held, time) = Append(recent \o encoder.held, time)
    <3> DEFINE held == encoder.held
    <3> HIDE DEF held
    <3>1. held \in Seq(Nat) /\ recent \in Seq(Nat) /\ time \in Nat
      BY <1>1, <1>2 DEF held
    <3>2. recent \o Append(held, time) = Append(recent \o held, time)
      BY <3>1
    <3> QED
      BY <3>2 DEF held
  <2>2. recent \o encoder.held \in Seq(Nat)
    BY <1>1
  <2> QED
    BY <1>1, <1>3, <2>1, <2>2 DEF UnitTimes
<1>5. InOrder(Append(UnitTimes, time)) /\ Behind(Append(UnitTimes, time), time, next)
  <2>1. CASE admitted = None
    <3>1. Append(UnitTimes, time) = <<time>>
      BY <2>1 DEF GridInv, OnGrid
    <3> QED
      BY <1>2, <3>1 DEF InOrder, Behind
  <2>2. CASE admitted # None
    <3> DEFINE newest == UnitTime(config, admitted)
               following == UnitTime(config, admitted + Interval(config))
    <3>1. admitted \in Nat /\ admitted + Interval(config) \in Nat
      BY <1>2, <2>2 DEF PipelineInv, PipelineTypeOK
    <3>2. admitted + Interval(config) <= ts
      BY <1>1, <1>2, <2>2, <3>1
      DEF PipelineInv, ClockFollows, PushFrameBegins, PushRefusal, ShouldDrop, Decimating,
          PipelineTypeOK
    <3>3. newest \in Nat /\ following \in Nat
      BY <1>1, <3>1, UnitTimeIsNat
    <3>4. newest <= time /\ following <= time
      BY <1>1, <1>2, <3>1, <3>2, UnitTimeMonotone
    <3>5. newest < next
      <4>1. /\ admitted + Interval(config) + Interval(config) <= ts + Interval(config)
            /\ ts + Interval(config) \in Nat
        BY <1>1, <1>2, <3>1, <3>2
      <4> QED
        BY <1>1, <3>1, <4>1, TwoIntervalsAdvance
    <3>6. InOrder(UnitTimes) /\ Behind(UnitTimes, newest, following)
      BY <2>2 DEF GridInv, OnGrid
    <3> HIDE DEF newest, following, time, next
    <3> QED
      BY <1>2, <1>4, <3>3, <3>4, <3>5, <3>6, AppendInOrder
  <2> QED
    BY <2>1, <2>2
<1>6. /\ InOrder(recent' \o encoder'.held)
      /\ Behind(recent' \o encoder'.held, time, next)
  BY <1>4, <1>5
<1> QED
  BY <1>1, <1>6 DEF GridInv, OnGrid, UnitTimes, UnitTime, Interval, None

\* What is left of a sequence of times without its head.
LEMMA TailFacts ==
  ASSUME NEW s \in Seq(Nat), s # <<>>
  PROVE  /\ Tail(s) \in Seq(Nat) /\ Head(s) = s[1] /\ s[1] \in Nat
         /\ Len(s) \in Nat \ {0} /\ Len(Tail(s)) = Len(s) - 1
         /\ \A i \in 1..(Len(s) - 1) : Tail(s)[i] = s[i + 1]
  OBVIOUS

\* Where the elements of two sequences of times are found in their concatenation.
LEMMA ConcatFacts ==
  ASSUME NEW r \in Seq(Nat), NEW s \in Seq(Nat)
  PROVE  /\ Len(r) \in Nat /\ Len(s) \in Nat /\ Len(r \o s) = Len(r) + Len(s)
         /\ \A i \in 1..Len(r) : (r \o s)[i] = r[i]
         /\ \A i \in 1..Len(s) : (r \o s)[Len(r) + i] = s[i]
  OBVIOUS

\* Where the elements of a sequence of times are found once one is appended.
LEMMA AppendFacts ==
  ASSUME NEW r \in Seq(Nat), NEW e \in Nat
  PROVE  /\ Append(r, e) \in Seq(Nat) /\ Len(Append(r, e)) = Len(r) + 1
         /\ \A i \in 1..Len(r) : Append(r, e)[i] = r[i]
         /\ Append(r, e)[Len(r) + 1] = e
  OBVIOUS

\* The elements of a sequence of times are times.
LEMMA ElementFact ==
  ASSUME NEW r \in Seq(Nat), NEW i \in 1..Len(r)
  PROVE  r[i] \in Nat
  OBVIOUS

\* A pair of times as a sequence.
LEMMA PairFacts ==
  ASSUME NEW a \in Nat, NEW b \in Nat
  PROVE  /\ <<a, b>> \in Seq(Nat) /\ Len(<<a, b>>) = 2
         /\ <<a, b>>[1] = a /\ <<a, b>>[2] = b
  OBVIOUS

\* The oldest frame inside the encoder is the one that is missing.
LEMMA HeadLost ==
  ASSUME NEW r \in Seq(Nat), NEW s \in Seq(Nat), s # <<>>
  PROVE  LosesOne(r \o Tail(s), r \o s, Len(r) + 1)
<1>1. /\ Len(r) \in Nat /\ Len(s) \in Nat \ {0} /\ Len(Tail(s)) = Len(s) - 1
      /\ Len(r \o s) = Len(r) + Len(s) /\ Len(r \o Tail(s)) = Len(r) + Len(s) - 1
  BY TailFacts, ConcatFacts
<1>2. ASSUME NEW i \in 1..Len(r \o Tail(s))
      PROVE  (r \o Tail(s))[i] = IF i < Len(r) + 1 THEN (r \o s)[i] ELSE (r \o s)[i + 1]
  <2>1. CASE i < Len(r) + 1
    <3>1. i \in 1..Len(r)
      BY <1>1, <2>1
    <3>2. (r \o Tail(s))[i] = r[i] /\ (r \o s)[i] = r[i]
      BY <3>1, TailFacts, ConcatFacts
    <3> QED
      BY <2>1, <3>2
  <2>2. CASE ~(i < Len(r) + 1)
    <3>1. PICK j \in 1..(Len(s) - 1) : i = Len(r) + j
      <4>1. i - Len(r) \in 1..(Len(s) - 1) /\ i = Len(r) + (i - Len(r))
        BY <1>1, <2>2
      <4> QED
        BY <4>1
    <3>2. (r \o Tail(s))[i] = Tail(s)[j]
      BY <1>1, <3>1, TailFacts, ConcatFacts
    <3>3. (r \o s)[i + 1] = s[j + 1]
      <4>1. j + 1 \in 1..Len(s) /\ i + 1 = Len(r) + (j + 1)
        BY <1>1, <3>1
      <4> QED
        BY <4>1, ConcatFacts
    <3>4. Tail(s)[j] = s[j + 1]
      BY TailFacts
    <3> QED
      BY <2>2, <3>2, <3>3, <3>4
  <2> QED
    BY <2>1, <2>2
<1>3. Len(r) + 1 \in 1..(Len(r) + Len(s)) /\ Len(r) + Len(s) - 1 = (Len(r) + Len(s)) - 1
  BY <1>1
<1> QED
  BY <1>1, <1>2, <1>3 DEF LosesOne

\* The oldest of two remembered times is forgotten for the next one.
LEMMA OldestForgotten ==
  ASSUME NEW r \in Seq(Nat), NEW s \in Seq(Nat), NEW q \in Seq(Nat), NEW t \in Seq(Nat),
         s # <<>>, t = Tail(s), Len(r) = 2, Len(q) = 2, q[1] = r[2], q[2] = s[1]
  PROVE  LosesOne(q \o t, r \o s, 1)
<1> DEFINE m == Len(r)
           n == Len(s)
           x == q \o t
           y == r \o s
<1>1. /\ n \in Nat \ {0} /\ Len(t) = n - 1
      /\ \A i \in 1..(n - 1) : t[i] = s[i + 1]
  BY TailFacts
<1>2. /\ m \in Nat \ {0} /\ Len(q) = m /\ q[m] = s[1]
      /\ \A i \in 1..(m - 1) : q[i] = r[i + 1]
  OBVIOUS
<1>3. /\ Len(y) = m + n /\ \A i \in 1..m : y[i] = r[i]
      /\ \A i \in 1..n : y[m + i] = s[i]
  BY ConcatFacts
<1>4. /\ Len(x) = Len(q) + Len(t) /\ \A i \in 1..Len(q) : x[i] = q[i]
      /\ \A i \in 1..Len(t) : x[Len(q) + i] = t[i]
  BY ConcatFacts
<1> HIDE DEF m, n, x, y
<1>5. /\ Len(x) = m + n - 1 /\ \A i \in 1..m : x[i] = q[i]
      /\ \A i \in 1..(n - 1) : x[m + i] = t[i]
  <2>1. Len(q) = m /\ Len(t) = n - 1
    BY <1>1, <1>2
  <2>2. m + (n - 1) = m + n - 1
    BY <1>1, <1>2
  <2>3. /\ Len(x) = m + (n - 1) /\ \A i \in 1..m : x[i] = q[i]
        /\ \A i \in 1..(n - 1) : x[m + i] = t[i]
    BY <1>4, <2>1, Zenon
  <2> QED
    BY <2>2, <2>3, Zenon
<1>6. ASSUME NEW i \in 1..(m + n - 1) PROVE x[i] = y[i + 1]
  <2>1. CASE i \in 1..(m - 1)
    <3>1. i \in 1..m /\ i + 1 \in 1..m
      BY <1>2, <2>1
    <3> QED
      BY <1>2, <1>3, <1>5, <2>1, <3>1
  <2>2. CASE i = m
    <3>1. y[m + 1] = s[1] /\ x[m] = s[1]
      BY <1>1, <1>2, <1>3, <1>5
    <3> QED
      BY <2>2, <3>1
  <2>3. CASE i \in (m + 1)..(m + n - 1)
    <3> DEFINE j == i - m
    <3>1. /\ j \in 1..(n - 1) /\ j + 1 \in 1..n /\ m + j = i /\ m + (j + 1) = i + 1
      BY <1>1, <1>2, <2>3
    <3> HIDE DEF j
    <3>2. x[m + j] = s[j + 1] /\ y[m + (j + 1)] = s[j + 1]
      BY <1>1, <1>3, <1>5, <3>1
    <3> QED
      BY <3>1, <3>2
  <2>4. i \in 1..(m - 1) \/ i = m \/ i \in (m + 1)..(m + n - 1)
    BY <1>1, <1>2
  <2> QED
    BY <2>1, <2>2, <2>3, <2>4
<1>7. /\ 1 \in 1..Len(y) /\ Len(x) = Len(y) - 1
      /\ \A i \in 1..Len(x) : ~(i < 1) /\ x[i] = y[i + 1]
  BY <1>1, <1>2, <1>3, <1>5, <1>6
<1> QED
  BY <1>7 DEF x, y, LosesOne

\* The next time moves from the encoder to the remembered ones: nothing moves in all.
LEMMA HeadRemembered ==
  ASSUME NEW r \in Seq(Nat), NEW s \in Seq(Nat), NEW q \in Seq(Nat), NEW t \in Seq(Nat),
         s # <<>>, t = Tail(s), q = Append(r, s[1])
  PROVE  BeginsLike(q \o t, r \o s)
<1> DEFINE m == Len(r)
           n == Len(s)
           x == q \o t
           y == r \o s
<1>1. /\ n \in Nat \ {0} /\ Len(t) = n - 1 /\ s[1] \in Nat
      /\ \A i \in 1..(n - 1) : t[i] = s[i + 1]
  BY TailFacts
<1>2. /\ m \in Nat /\ Len(q) = m + 1 /\ q[m + 1] = s[1] /\ \A i \in 1..m : q[i] = r[i]
  BY <1>1, AppendFacts
<1>3. /\ Len(y) = m + n /\ \A i \in 1..m : y[i] = r[i]
      /\ \A i \in 1..n : y[m + i] = s[i]
  BY ConcatFacts
<1>4. /\ Len(x) = Len(q) + Len(t) /\ \A i \in 1..Len(q) : x[i] = q[i]
      /\ \A i \in 1..Len(t) : x[Len(q) + i] = t[i]
  BY ConcatFacts
<1> HIDE DEF m, n, x, y
<1>5. /\ Len(x) = m + n /\ \A i \in 1..(m + 1) : x[i] = q[i]
      /\ \A i \in 1..(n - 1) : x[(m + 1) + i] = t[i]
  <2>1. Len(q) = m + 1 /\ Len(t) = n - 1
    BY <1>1, <1>2
  <2>2. (m + 1) + (n - 1) = m + n
    BY <1>1, <1>2
  <2>3. /\ Len(x) = (m + 1) + (n - 1) /\ \A i \in 1..(m + 1) : x[i] = q[i]
        /\ \A i \in 1..(n - 1) : x[(m + 1) + i] = t[i]
    BY <1>4, <2>1, Zenon
  <2> QED
    BY <2>2, <2>3, Zenon
<1>6. ASSUME NEW i \in 1..(m + n) PROVE x[i] = y[i]
  <2>1. CASE i \in 1..m
    BY <1>2, <1>3, <1>5, <2>1
  <2>2. CASE i = m + 1
    <3>1. y[m + 1] = s[1] /\ x[m + 1] = s[1]
      BY <1>1, <1>2, <1>3, <1>5
    <3> QED
      BY <2>2, <3>1
  <2>3. CASE i \in (m + 2)..(m + n)
    <3> DEFINE j == i - (m + 1)
    <3>1. /\ j \in 1..(n - 1) /\ j + 1 \in 1..n /\ (m + 1) + j = i /\ m + (j + 1) = i
      BY <1>1, <1>2, <2>3
    <3> HIDE DEF j
    <3>2. x[(m + 1) + j] = s[j + 1] /\ y[m + (j + 1)] = s[j + 1]
      BY <1>1, <1>3, <1>5, <3>1
    <3> QED
      BY <3>1, <3>2
  <2>4. i \in 1..m \/ i = m + 1 \/ i \in (m + 2)..(m + n)
    BY <1>1, <1>2
  <2> QED
    BY <2>1, <2>2, <2>3, <2>4
<1>7. Len(x) <= Len(y) /\ \A i \in 1..Len(x) : x[i] = y[i]
  BY <1>1, <1>2, <1>3, <1>5, <1>6
<1> QED
  BY <1>7 DEF x, y, BeginsLike

\* emit_access_unit and a skipped frame: the times stay those of the units, or the
\* oldest of three is forgotten, or one frame gives no unit.
LEMMA UnitOnGrid ==
  ASSUME PipelineInv, GridInv, UnitTaken \/ FrameSkipped
  PROVE  GridInv'
<1> DEFINE held == encoder.held
           left == encoder'.held
<1>1. /\ UNCHANGED <<config, admitted>> /\ left = Tail(held) /\ held # <<>>
      /\ held \in Seq(Nat) /\ recent \in Seq(Nat) /\ Len(recent) <= 2
  BY DEF PipelineInv, PipelineTypeOK, UnitTaken, FrameSkipped
<1> SUFFICES ASSUME Decimating PROVE GridInv'
  BY <1>1 DEF GridInv, Decimating, Interval
<1>2. UnitTimes = recent \o held /\ OnGrid(UnitTimes)
  BY DEF UnitTimes, GridInv
<1>3. UnitTaken => Remember(Head(held))
  BY DEF UnitTaken
<1>4. FrameSkipped => recent' = recent
  BY DEF FrameSkipped
<1> DEFINE before == recent \o held
           after == recent' \o left
<1>5. SUFFICES /\ recent' \in Seq(Nat)
               /\ \E k \in Nat : BeginsLike(after, before) \/ LosesOne(after, before, k)
  <2>1. PICK k \in Nat : BeginsLike(after, before) \/ LosesOne(after, before, k)
    BY <1>5
  <2>2. recent' \in Seq(Nat) /\ left \in Seq(Nat)
    BY <1>1, <1>5, TailFacts
  <2> QED
    BY <1>1, <1>2, <2>1, <2>2, FewerOnGrid
<1> HIDE DEF held, left
<1>6. /\ left \in Seq(Nat) /\ Head(held) = held[1] /\ held[1] \in Nat
      /\ Len(recent) \in Nat
  BY <1>1, TailFacts
<1>7. CASE UnitTaken /\ Len(recent) < 2
  <2>1. recent' = Append(recent, held[1])
    BY <1>3, <1>6, <1>7 DEF Remember
  <2>2. recent' \in Seq(Nat)
    BY <1>1, <1>6, <2>1, AppendFacts
  <2>3. BeginsLike(after, before)
    BY <1>1, <1>6, <2>1, <2>2, HeadRemembered
  <2>4. 0 \in Nat
    OBVIOUS
  <2> HIDE DEF before, after
  <2> QED
    BY <2>2, <2>3, <2>4
<1>8. CASE UnitTaken /\ ~(Len(recent) < 2)
  <2>1. recent' = <<recent[2], held[1]>> /\ Len(recent) = 2
    <3>1. Remember(Head(held)) /\ ~(Len(recent) < 2)
      BY <1>3, <1>8
    <3>2. recent' = <<recent[2], Head(held)>>
      BY <3>1 DEF Remember
    <3>3. PICK n : n = Len(recent)
      OBVIOUS
    <3>4. n <= 2 /\ n \in Nat /\ ~(n < 2)
      BY <1>1, <1>6, <3>1, <3>3
    <3>5. n = 2
      BY <3>4
    <3> QED
      BY <1>6, <3>2, <3>3, <3>5
  <2>2. recent[2] \in Nat
    <3>1. recent \in Seq(Nat) /\ 2 \in 1..Len(recent)
      BY <1>1, <2>1
    <3> QED
      BY <3>1, ElementFact, Zenon
  <2>3. /\ recent' \in Seq(Nat) /\ Len(recent') = 2
        /\ recent'[1] = recent[2] /\ recent'[2] = held[1]
    <3> DEFINE a == recent[2]
               b == held[1]
    <3>1. a \in Nat /\ b \in Nat /\ recent' = <<a, b>>
      BY <1>6, <2>1, <2>2
    <3> HIDE DEF a, b
    <3>2. /\ <<a, b>> \in Seq(Nat) /\ Len(<<a, b>>) = 2
          /\ <<a, b>>[1] = a /\ <<a, b>>[2] = b
      BY <3>1, PairFacts
    <3>3. recent' \in Seq(Nat) /\ Len(recent') = 2 /\ recent'[1] = a /\ recent'[2] = b
      BY <3>1, <3>2, Zenon
    <3> QED
      BY <3>3 DEF a, b
  <2>4. LosesOne(after, before, 1)
    BY <1>1, <1>6, <2>1, <2>3, OldestForgotten
  <2>5. 1 \in Nat
    OBVIOUS
  <2> HIDE DEF before, after
  <2> QED
    BY <2>3, <2>4, <2>5
<1>9. CASE FrameSkipped
  <2>1. recent' = recent
    BY <1>4, <1>9
  <2>2. LosesOne(after, before, Len(recent) + 1)
    BY <1>1, <2>1, HeadLost
  <2>3. Len(recent) + 1 \in Nat
    BY <1>6
  <2> HIDE DEF before, after
  <2> QED
    BY <1>1, <2>1, <2>2, <2>3
<1> QED
  BY <1>7, <1>8, <1>9

\* The encoder is closed and what it held is gone, or nothing moves.
LEMMA RestOnGrid ==
  ASSUME PipelineInv, GridInv, UNCHANGED <<config, admitted, recent>>,
         encoder'.held = <<>> \/ encoder'.held = encoder.held
  PROVE  GridInv'
<1>1. recent \in Seq(Nat) /\ encoder.held \in Seq(Nat) /\ encoder'.held \in Seq(Nat)
  <2>1. recent \in Seq(Nat) /\ encoder.held \in Seq(Nat) /\ <<>> \in Seq(Nat)
    BY DEF PipelineInv, PipelineTypeOK
  <2> QED
    BY <2>1
<1> SUFFICES ASSUME Decimating PROVE GridInv'
  BY DEF GridInv, Decimating, Interval
<1>2. BeginsLike(recent \o encoder'.held, recent \o encoder.held)
  <2>1. CASE encoder'.held = encoder.held
    BY <1>1, <2>1, ConcatFacts DEF BeginsLike
  <2>2. CASE encoder'.held = <<>>
    <3>1. recent \o encoder'.held = recent
      BY <1>1, <2>2
    <3>2. /\ Len(recent) <= Len(recent \o encoder.held)
          /\ \A i \in 1..Len(recent) : recent[i] = (recent \o encoder.held)[i]
      BY <1>1, ConcatFacts
    <3> QED
      BY <3>1, <3>2 DEF BeginsLike
  <2> QED
    BY <2>1, <2>2
<1>3. OnGrid(UnitTimes) /\ UnitTimes = recent \o encoder.held /\ recent' = recent /\ 0 \in Nat
  BY DEF GridInv, UnitTimes
<1> QED
  BY <1>1, <1>2, <1>3, FewerOnGrid

\* A run, or a pipeline, that begins.
LEMMA AnewOnGrid ==
  ASSUME recent' = <<>>, encoder'.held = <<>>, admitted' = None
  PROVE  GridInv'
<1>1. recent' \o encoder'.held = <<>>
  OBVIOUS
<1> QED
  BY <1>1 DEF GridInv, OnGrid, UnitTimes, InOrder

LEMMA StepOnGrid ==
  ASSUME PipelineInv, GridInv, [PipelineNext]_pipelineVars
  PROVE  GridInv'
<1>1. CASE UNCHANGED pipelineVars
  BY <1>1, RestOnGrid DEF pipelineVars
<1>2. CASE Start
  <2>1. PICK usable \in SUBSET (Hardware \cap Linked) :
          StartFails(usable) \/ StartOpens(usable)
    BY <1>2 DEF Start
  <2>2. CASE StartFails(usable)
    <3>1. encoder'.held = <<>> /\ UNCHANGED <<config, admitted, recent>>
      BY <2>2 DEF StartFails, ClosedEncoder
    <3> QED
      BY <3>1, RestOnGrid
  <2>3. CASE StartOpens(usable)
    <3>1. encoder'.held = <<>> /\ recent' = <<>> /\ admitted' = None
      BY <2>3 DEF StartOpens, ClosedEncoder
    <3> QED
      BY <3>1, AnewOnGrid
  <2> QED
    BY <2>1, <2>2, <2>3
<1>3. CASE PushFrameCall
  <2>1. CASE PushFrameEnds
    BY <2>1, RestOnGrid DEF PushFrameEnds
  <2> QED
    BY <1>3, <2>1, PushOnGrid DEF PushFrameCall
<1>4. CASE Stop
  <2>1. CASE StopFlushes
    BY <2>1, RestOnGrid DEF StopFlushes
  <2>2. CASE StopAtOnce \/ StopEnds
    <3>1. encoder'.held = <<>> /\ UNCHANGED <<config, admitted, recent>>
      BY <2>2 DEF StopAtOnce, StopEnds, ClosedEncoder
    <3> QED
      BY <3>1, RestOnGrid
  <2> QED
    BY <1>4, <2>1, <2>2 DEF Stop
<1>5. CASE UnitTaken \/ FrameSkipped
  BY <1>5, UnitOnGrid
<1>6. CASE Fail
  <2>1. encoder'.held = <<>> /\ UNCHANGED <<config, admitted, recent>>
    BY <1>6 DEF Fail, CallFails, ClosedEncoder
  <2> QED
    BY <2>1, RestOnGrid
<1>7. CASE \E c \in Configs : Rebuild(c)
  <2>1. encoder'.held = <<>> /\ recent' = <<>> /\ admitted' = None
    BY <1>7 DEF Rebuild, ClosedEncoder
  <2> QED
    BY <2>1, AnewOnGrid
<1> QED
  BY <1>1, <1>2, <1>3, <1>4, <1>5, <1>6, <1>7 DEF PipelineNext

\* The units of a decimated stream go forward in time, whatever the frame rate and
\* the clock: no third unit falls on the presentation time of two others.
THEOREM TimesDoAdvance == PipelineSpec => []TimesAdvance
<1>1. PipelineInit => PipelineInv /\ GridInv
  BY InitEstablishes, InitOnGrid
<1>2. (PipelineInv /\ GridInv) /\ [PipelineNext]_pipelineVars => (PipelineInv /\ GridInv)'
  BY StepPreserves, StepOnGrid
<1>3. PipelineInv /\ GridInv => TimesAdvance
  <2> SUFFICES ASSUME PipelineInv, GridInv, Decimating PROVE TimesAdvance
    BY DEF TimesAdvance
  <2> DEFINE times == recent \o encoder.held
  <2>1. InOrder(times) /\ Len(times) \in Nat
    BY DEF GridInv, OnGrid, UnitTimes, PipelineInv, PipelineTypeOK
  <2> HIDE DEF times
  <2>2. /\ \A i \in 1..(Len(times) - 1) : times[i] <= times[i + 1]
        /\ \A i \in 1..(Len(times) - 2) : times[i] < times[i + 2]
    BY <2>1 DEF InOrder
  <2> QED
    BY <2>2 DEF TimesAdvance, times
<1> QED
  BY <1>1, <1>2, <1>3, PTL DEF PipelineSpec

-----------------------------------------------------------------------------

\* Seen from the handoff every step is a push, a drain, a clear or nothing: the
\* managed sink neither adds nor loses a unit (managed_video_server.cpp, ensure_pipeline).
LEMMA HandoffSteps ==
  ASSUME [PathNext]_pathVars
  PROVE  [Next]_vars
<1>1. CASE UNCHANGED pathVars
  BY <1>1 DEF pathVars, handoffVars
<1>2. CASE PipelineAlone \/ Replace \/ ServerSink \/ PathFails
  BY <1>2 DEF PipelineAlone, Replace, ServerSink, PathFails, handoffVars
<1>3. CASE HandoffSink
  <2>1. PushConfig \/ \E kind \in {"key", "delta"} : PushFrame(kind)
    BY <1>3 DEF HandoffSink
  <2> QED
    BY <2>1 DEF Next
<1>4. CASE OwnerSide
  BY <1>4 DEF OwnerSide, Next
<1> QED
  BY <1>1, <1>2, <1>3, <1>4 DEF PathNext

\* Seen from the pipeline every step is one of its own: drain and clear do not
\* reach it, and what replaces it has a configuration it may have.
LEMMA PipelineSteps ==
  ASSUME [PathNext]_pathVars
  PROVE  [PipelineNext]_pipelineVars
<1>1. CASE UNCHANGED pathVars
  BY <1>1 DEF pathVars
<1>2. CASE PipelineAlone
  <2>1. \/ Start
        \/ \E ts \in Times : PushFrameBegins(ts)
        \/ PushFrameEnds
        \/ Stop
        \/ FrameSkipped
    BY <1>2 DEF PipelineAlone
  <2> QED
    BY <2>1 DEF PipelineNext, PushFrameCall
<1>3. CASE Replace
  <2>1. PICK c \in ConfigsOf(use) : Rebuild(c)
    BY <1>3 DEF Replace
  <2>2. c \in Configs
    BY <2>1 DEF ConfigsOf
  <2> QED
    BY <2>1, <2>2 DEF PipelineNext
<1>4. CASE HandoffSink \/ ServerSink
  <2>1. UnitTaken \/ ConfigTaken
    BY <1>4 DEF HandoffSink, ServerSink
  <2> QED
    BY <2>1 DEF PipelineNext, ConfigTaken
<1>5. CASE PathFails
  <2>1. CallFails("encoder") \/ CallFails("sink")
    BY <1>5 DEF PathFails
  <2> QED
    BY <2>1 DEF PipelineNext, Fail
<1>6. CASE OwnerSide
  BY <1>6 DEF OwnerSide
<1> QED
  BY <1>1, <1>2, <1>3, <1>4, <1>5, <1>6 DEF PathNext

\* A stream's handoff behind its pipeline is a handoff.
THEOREM PathIsHandoff == PathSpec => Spec
<1>1. PathInit => Init
  BY DEF PathInit
<1>2. [PathNext]_pathVars => [Next]_vars
  BY HandoffSteps
<1> QED
  BY <1>1, <1>2, PTL DEF PathSpec, Spec

\* A pipeline bound to a sink is a pipeline.
THEOREM PathIsPipeline == PathSpec => PipelineSpec
<1>1. PathInit => PipelineInit
  BY DEF PathInit
<1>2. [PathNext]_pathVars => [PipelineNext]_pipelineVars
  BY PipelineSteps
<1> QED
  BY <1>1, <1>2, PTL DEF PathSpec, PipelineSpec

\* Types of the whole: neither binding gives the pipeline a configuration that is
\* not meant for it, a managed pipeline never decimates, and for every capacity,
\* 0 included, the backlog stays within it.
THEOREM PathTypeCorrect == PathSpec => []PathTypeOK
<1> DEFINE Bound == use \in {"managed", "server"} /\ config \in ConfigsOf(use)
<1>1. PathInit => Bound
  BY DEF PathInit
<1>2. Bound /\ [PathNext]_pathVars => Bound'
  <2> SUFFICES ASSUME Bound, [PathNext]_pathVars PROVE Bound'
    OBVIOUS
  <2>1. use' = use
    BY DEF PathNext, pathVars, PipelineAlone, Replace, HandoffSink, ServerSink, PathFails,
           OwnerSide
  <2>2. config' = config \/ \E c \in ConfigsOf(use) : config' = c
    <3>1. CASE UNCHANGED pathVars
      BY <3>1 DEF pathVars, pipelineVars
    <3>2. CASE PipelineAlone
      BY <3>2 DEF PipelineAlone, Start, StartFails, StartOpens, PushFrameBegins,
                  PushFrameEnds, Stop, StopAtOnce, StopFlushes, StopEnds, FrameSkipped
    <3>3. CASE Replace
      BY <3>3 DEF Replace, Rebuild
    <3>4. CASE HandoffSink \/ ServerSink
      BY <3>4 DEF HandoffSink, ServerSink, UnitTaken, ConfigTaken, pipelineVars
    <3>5. CASE PathFails
      BY <3>5 DEF PathFails, CallFails
    <3>6. CASE OwnerSide
      BY <3>6 DEF OwnerSide, pipelineVars
    <3> QED
      BY <3>1, <3>2, <3>3, <3>4, <3>5, <3>6 DEF PathNext
  <2> QED
    BY <2>1, <2>2 DEF ConfigsOf
<1>3. Bound /\ TypeOK /\ BacklogBounded /\ PipelineInv => PathTypeOK
  BY DEF PathTypeOK, PipelineInv
<1> HIDE DEF Bound
<1> QED
  BY <1>1, <1>2, <1>3, PathIsHandoff, PathIsPipeline, HandoffTypeCorrect, HandoffSafe,
     PipelineInvariant, PTL DEF PathSpec

\* What the encoder emits into the handoff arrives as the channel promises: in order,
\* at most once, with the newest keyframe kept and every loss counted.
THEOREM PathDelivers ==
  PathSpec => /\ [](UnitsAccounted /\ NewestKeyframeKept /\ BatchStartsSafe)
              /\ []OverflowLoopAgrees
              /\ ImplementsChannel
<1> QED
  BY PathIsHandoff, HandoffSafe, EveryUnitAccounted, BatchesStartSafe,
     OverflowIsTheLoop, HandoffImplementsChannel, PTL

\* A bound pipeline flushes before it closes and tells its failures.
THEOREM PathEndsWell == PathSpec => []FailureTold /\ NothingLostQuietly
<1> QED
  BY PathIsPipeline, FailureIsTold, NothingIsLostQuietly, PTL
=============================================================================
