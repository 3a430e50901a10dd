---------------------------- MODULE EncodedHandoff ----------------------------
(***************************************************************************)
(* One stream's encoded handoff between the encoder's sink, which pushes,  *)
(* and the API step, which drains; stop() clears it.  Every call is made   *)
(* under the stream's mutex (managed_video_server.cpp), so each public     *)
(* member function is one atomic action.                                   *)
(*                                                                         *)
(* Ghost variables count what entered and what left, remember the batch    *)
(* the last drain returned, and name the newest keyframe still owed.       *)
(***************************************************************************)
EXTENDS HandoffOps

CONSTANT MaxPushed      \* bound on the number of units the encoder emits

ASSUME MaxPushedAssumption == MaxPushed \in Nat

VARIABLES
  handoff,      \* the object
  pushed,       \* ghost: frame units pushed so far; also the newest unit's seq
  drained,      \* ghost: frame units returned by drain()
  discarded,    \* ghost: frame units clear() threw away
  delivered,    \* ghost: seq of the newest unit any drain() has returned
  spanKey,      \* ghost: seq of the newest keyframe not drained or cleared, or 0
  batch         \* ghost: what the last drain() returned

vars == <<handoff, pushed, drained, discarded, delivered, spanKey, batch>>

TypeOK ==
  /\ handoff \in Handoff
  /\ pushed \in Nat /\ drained \in Nat /\ discarded \in Nat
  /\ delivered \in Nat /\ spanKey \in Nat
  /\ batch \in Seq(Unit)

Init ==
  /\ handoff = EmptyHandoff
  /\ pushed = 0 /\ drained = 0 /\ discarded = 0
  /\ delivered = 0 /\ spanKey = 0
  /\ batch = <<>>

-----------------------------------------------------------------------------
PushConfig ==
  /\ handoff' = AfterPush(handoff, [seq |-> pushed, kind |-> "config"])
  /\ UNCHANGED <<pushed, drained, discarded, delivered, spanKey, batch>>

PushFrame(kind) ==
  /\ pushed < MaxPushed
  /\ pushed' = pushed + 1
  /\ handoff' = AfterPush(handoff, [seq |-> pushed + 1, kind |-> kind])
  /\ spanKey' = IF kind = "key" THEN pushed + 1 ELSE spanKey
  /\ UNCHANGED <<drained, discarded, delivered, batch>>

Drain ==
  /\ batch' = DrainBatch(handoff)
  /\ handoff' = AfterDrain(handoff)
  /\ drained' = drained + Len(handoff.backlog)
  /\ delivered' = IF handoff.backlog = <<>> THEN delivered
                  ELSE handoff.backlog[Len(handoff.backlog)].seq
  /\ spanKey' = 0
  /\ UNCHANGED <<pushed, discarded>>

Clear ==
  /\ handoff' = AfterClear(handoff)
  /\ discarded' = discarded + Len(handoff.backlog)
  /\ spanKey' = 0
  /\ UNCHANGED <<pushed, drained, delivered, batch>>

Next ==
  \/ PushConfig
  \/ \E kind \in {"key", "delta"} : PushFrame(kind)
  \/ Drain
  \/ Clear

Spec == Init /\ [][Next]_vars

-----------------------------------------------------------------------------
(* Properties.                                                             *)

\* The backlog never outgrows its capacity, however push, drain and clear
\* interleave and even when the owner asked for a capacity of zero.
BacklogBounded == Len(handoff.backlog) <= Capacity

\* A keyframe can only be the first pending unit: whatever waits behind it
\* depends on it, and overflow never leaves inter units in front of one.
KeyframeLeads ==
  \A i \in DOMAIN handoff.backlog : handoff.backlog[i].kind = "key" => i = 1

\* "The backlog keeps the newest keyframe span it has seen"
\* (encoded_access_unit_handoff.h:16): overflow by any number of inter units
\* never evicts the newest keyframe; only a newer one, a drain or a clear does.
NewestKeyframeKept ==
  spanKey # 0 =>
    /\ handoff.backlog # <<>>
    /\ handoff.backlog[1] = [seq |-> spanKey, kind |-> "key"]

\* "drops stale inter frames first" (line 17): the pending inter units are
\* always the most recent ones, without a gap, up to the last unit pushed;
\* the only gap is right behind a retained keyframe.
StaleDroppedFirst ==
  LET b == handoff.backlog
      n == Len(b)
  IN  /\ \A i \in 2..(n - 1) : b[i + 1].seq = b[i].seq + 1
      /\ n > 1 /\ b[1].kind # "key" => b[2].seq = b[1].seq + 1
      /\ n > 1 => b[n].seq = pushed

\* No frame unit is lost without being counted: dropped_count() is exact.
UnitsAccounted ==
  pushed = drained + discarded + handoff.dropped + Len(handoff.backlog)

\* No unit is handed out twice or behind a newer one, across any drains.
DeliveredInOrder ==
  LET b == handoff.backlog
  IN  /\ \A i \in DOMAIN b : delivered < b[i].seq /\ b[i].seq <= pushed
      /\ \A i, j \in DOMAIN b : i < j => b[i].seq < b[j].seq

\* "API-side draining can still start from decoder-safe state" (line 17): in a
\* batch with a keyframe, nothing but a codec configuration precedes it, and
\* configuration is sent only in front of a keyframe.
BatchStartsSafe ==
  /\ \A i \in DOMAIN batch : batch[i].kind = "key" =>
       \A j \in 1..(i - 1) : batch[j].kind = "config"
  /\ \A i \in DOMAIN batch : batch[i].kind = "config" =>
       i = 1 /\ HasKeyframe(batch)

\* n more inter units behind the backlog.
Waiting(n) == [i \in 1..n |-> [seq |-> pushed + i, kind |-> "delta"]]

\* push's overflow loop turns as often as it takes (encoded_access_unit_handoff.h
\* :47-62), and PushDelta is all its turns at once: on every backlog that occurs,
\* and on over-full ones, where the loop turns more than once.
OverflowLoopAgrees ==
  \A n \in 0..MaxUnits :
    LET h == [handoff EXCEPT !.backlog = @ \o Waiting(n)]
        u == [seq |-> pushed + n + 1, kind |-> "delta"]
    IN  PushDelta(h, u) = OverflowLoop(h, u)

-----------------------------------------------------------------------------
(* The inductive invariant.                                                *)

\* The pending units, each at its place: everything behind the front is the
\* run of inter units that ends with the newest unit pushed, p, and the front
\* unit continues that run or is an older keyframe; all are newer than d, the
\* newest unit delivered.
NewestPending(b, d, p) ==
  LET n == Len(b) IN
  /\ \A i \in 2..n : b[i].kind = "delta" /\ b[i].seq = p - (n - i)
  /\ n >= 1 =>
       /\ d < b[1].seq
       /\ \/ b[1].kind = "delta" /\ b[1].seq = p - (n - 1)
          \/ b[1].kind = "key" /\ b[1].seq <= p - (n - 1)

OneConfigCached ==
  /\ Len(handoff.config) <= 1
  /\ \A i \in DOMAIN handoff.config : handoff.config[i].kind = "config"

HandoffInv ==
  /\ TypeOK
  /\ BacklogBounded
  /\ delivered <= pushed
  /\ NewestPending(handoff.backlog, delivered, pushed)
  /\ NewestKeyframeKept
  /\ UnitsAccounted
  /\ OneConfigCached
  /\ BatchStartsSafe

-----------------------------------------------------------------------------
\* The handoff implements the lossy, ordered, at-most-once channel that the
\* pipeline's sink and the API step rely on.
PendingSeqs == {handoff.backlog[i].seq : i \in DOMAIN handoff.backlog}

Channel == INSTANCE RealtimeChannel
             WITH sent <- pushed, pending <- PendingSeqs,
                  horizon <- delivered, span <- spanKey

ImplementsChannel == Channel!ChannelSpec
=============================================================================
