------------------------------ MODULE HandoffOps ------------------------------
(***************************************************************************)
(* The bounded handoff of encoded access units, as values and operators:   *)
(* class EncodedAccessUnitHandoff of encoded_access_unit_handoff.h.  A     *)
(* handoff value is a record of its three members; every public member     *)
(* function is one operator.  The operators are total and free of          *)
(* recursion, so the modules that use them can be proved about.            *)
(***************************************************************************)
EXTENDS Integers, Sequences

CONSTANT MaxUnits       \* the constructor's max_units argument (4 by default)

ASSUME MaxUnitsAssumption == MaxUnits \in Nat

\* max_units_: the constructor raises 0 to 1.
Capacity == IF MaxUnits > 1 THEN MaxUnits ELSE 1

\* codec_config is tested before keyframe, so the two flags make three kinds.
Kind == {"config", "key", "delta"}

\* An access unit: its kind and its place in the encoder's output order.
Unit == [seq : Nat, kind : Kind]

\* cached_codec_config_ is an optional: a sequence of at most one unit.
Handoff == [config : Seq(Unit), backlog : Seq(Unit), dropped : Nat]

EmptyHandoff == [config |-> <<>>, backlog |-> <<>>, dropped |-> 0]

HasKeyframe(units) == \E i \in DOMAIN units : units[i].kind = "key"

-----------------------------------------------------------------------------
\* Mutants of the operators below (used only to test the properties).
MakeRoomFromFront(h) ==
  LET excess == Len(h.backlog) - Capacity + 1
  IN  [h EXCEPT !.backlog = SubSeq(@, excess + 1, Len(@)), !.dropped = @ + excess]
MakeRoomOneShort(h) ==
  LET excess == Len(h.backlog) - Capacity
  IN  [h EXCEPT !.backlog = SubSeq(@, excess + 1, Len(@)), !.dropped = @ + excess]
MakeRoomFromBack(h) ==
  LET excess == Len(h.backlog) - Capacity + 1
  IN  [h EXCEPT !.backlog = SubSeq(@, 1, Len(@) - excess), !.dropped = @ + excess]
PushKeyframeUncounted(h, u) == [h EXCEPT !.backlog = <<u>>]
DrainBatchAlwaysConfig(h) == h.config \o h.backlog
AfterDrainKeepingBacklog(h) == h
-----------------------------------------------------------------------------

\* The loop of push: oldest units go first, but a keyframe at the front stays.
\* Only the front unit can be a keyframe (KeyframeLeads), so the loop's effect
\* is to cut `excess` units at the front or just behind it.
MakeRoom(h) ==
  LET b      == h.backlog
      excess == Len(b) - Capacity + 1
  IN  IF b[1].kind = "key"
      THEN [h EXCEPT !.backlog = <<b[1]>> \o SubSeq(b, excess + 2, Len(b)),
                     !.dropped = @ + excess]
      ELSE [h EXCEPT !.backlog = SubSeq(b, excess + 1, Len(b)),
                     !.dropped = @ + excess]

\* A keyframe that fills the whole capacity is not given up for an inter unit:
\* the loop drops everything behind it and then the new unit.
KeyframeFillsCapacity(h) == Capacity = 1 /\ h.backlog[1].kind = "key"

PushDelta(h, u) ==
  IF Len(h.backlog) < Capacity
  THEN [h EXCEPT !.backlog = Append(@, u)]
  ELSE IF KeyframeFillsCapacity(h)
  THEN [h EXCEPT !.backlog = <<@[1]>>, !.dropped = @ + Len(h.backlog)]
  ELSE LET room == MakeRoom(h) IN [room EXCEPT !.backlog = Append(@, u)]

\* The same as the code writes it: one turn of the loop drops the front unit, or
\* the one behind it when the front is a keyframe, until there is room or
\* nothing but a keyframe is left.
LoopEnds(h) ==
  \/ Len(h.backlog) < Capacity
  \/ Len(h.backlog) = 1 /\ h.backlog[1].kind = "key"

LoopTurn(h) ==
  LET b == h.backlog IN
  [h EXCEPT !.backlog = IF b[1].kind = "key" THEN <<b[1]>> \o SubSeq(b, 3, Len(b))
                        ELSE Tail(b),
            !.dropped = @ + 1]

OverflowLoop(h, u) ==
  LET after[n \in 0..Len(h.backlog)] ==
        IF n = 0 THEN h
        ELSE IF LoopEnds(after[n - 1]) THEN after[n - 1] ELSE LoopTurn(after[n - 1])
      end == after[Len(h.backlog)]
  IN  IF Len(end.backlog) < Capacity THEN [end EXCEPT !.backlog = Append(@, u)]
      ELSE [end EXCEPT !.dropped = @ + 1]

\* A keyframe supersedes the whole backlog.
PushKeyframe(h, u) ==
  [h EXCEPT !.backlog = <<u>>, !.dropped = @ + Len(h.backlog)]

\* push(unit)
AfterPush(h, u) ==
  CASE u.kind = "config" -> [h EXCEPT !.config = <<u>>]
    [] u.kind = "key"    -> PushKeyframe(h, u)
    [] OTHER             -> PushDelta(h, u)

\* What drain() returns: the cached configuration leads a batch with a keyframe.
DrainBatch(h) ==
  IF HasKeyframe(h.backlog) THEN h.config \o h.backlog ELSE h.backlog

\* What drain() leaves: the configuration stays cached.
AfterDrain(h) == [h EXCEPT !.backlog = <<>>]

\* clear(): the drop counter survives.
AfterClear(h) == [EmptyHandoff EXCEPT !.dropped = h.dropped]
=============================================================================
