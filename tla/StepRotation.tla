----------------------------- MODULE StepRotation -----------------------------
(***************************************************************************)
(* The compatibility call step() of managed_video_server.cpp: one loop     *)
(* progresses the API and then every stream no group owns, in rotation     *)
(* and, when max_streams_per_step is set, on a budget.                     *)
(*                                                                         *)
(* One caller steps; producers, groups, registrations and removals         *)
(* interleave with it wherever it holds no lock.  A stream's latched frame *)
(* is reduced to what process_stream asks: is there one, and is it due.    *)
(***************************************************************************)
EXTENDS Integers, Sequences, FiniteSets, SequencesExt

CONSTANTS
  Streams,      \* stream ids
  Budget,       \* max_streams_per_step: 0 is no limit
  Breakable,    \* streams whose pipeline can fail, and then stays failed
  MaxChanges    \* bound: registrations (refused ones too), removals, changes of ownership

ASSUME RotationAssumption ==
  /\ IsFiniteSet(Streams)
  /\ Budget \in Nat /\ Breakable \subseteq Streams
  /\ MaxChanges \in Nat

VARIABLES
  order,     \* stream_order_, with what refused registrations leave in it
  registered, \* the streams in streams_
  owned,     \* the streams that belong to a group
  frame,     \* each stream's latched frame: "none", "early" or "due"
  broken,    \* streams whose pipeline has failed
  index,     \* next_stream_index_
  step,      \* the step() in progress
  changes    \* how many changes there have been

vars == <<order, registered, owned, frame, broken, index, step, changes>>

\* Local variables of step(); `eager` is a ghost: the streams that were due
\* when the step began and have not been progressed since.
Idle == [pc |-> "idle", ids |-> <<>>, start |-> 0, offset |-> 0, processed |-> 0,
         cursor |-> 0, progressed |-> FALSE, eager |-> {}]

\* What is in S of a sequence, in its order.
Only(q, S) ==
  LET kept[n \in 0..Len(q)] ==
        IF n = 0 THEN <<>>
        ELSE IF q[n] \in S THEN Append(kept[n - 1], q[n]) ELSE kept[n - 1]
  IN  kept[Len(q)]

Steppable == Only(order, registered \ owned)

RotationTypeOK ==
  /\ order \in Seq(Streams) /\ registered \subseteq ToSet(order) /\ owned \subseteq registered
  /\ frame \in [Streams -> {"none", "early", "due"}]
  /\ broken \subseteq Breakable
  /\ index = 0 \/ index < Len(order)      \* whatever is removed during a step
  /\ step.pc \in {"idle", "streams", "rotate", "api"}
  /\ changes \in 0..MaxChanges

Init ==
  /\ order = SetToSeq(Streams)      \* the order of the configuration
  /\ registered = Streams /\ owned = {} /\ broken = {}
  /\ frame = [s \in Streams |-> "none"]
  /\ index = 0 /\ step = Idle
  /\ changes = 0

-----------------------------------------------------------------------------
(* The surroundings.                                                       *)

\* push_frame: the newest frame replaces the latched one; a later frame of a
\* stream with a frame that waits for its time can be due.
Push(s, kind) ==
  /\ s \in registered
  /\ frame[s] # "due"
  /\ frame' = [frame EXCEPT ![s] = kind]
  /\ UNCHANGED <<order, registered, owned, broken, index, step, changes>>

\* Mutant: a stream that is not registered can be given to a group.
ChangeOwnerUnchecked(s) ==
  /\ changes < MaxChanges
  /\ owned' = IF s \in owned THEN owned \ {s} ELSE owned \cup {s}
  /\ changes' = changes + 1
  /\ UNCHANGED <<order, registered, frame, broken, index, step>>
ChangeOwner(s) ==
  /\ s \in registered /\ changes < MaxChanges
  /\ owned' = IF s \in owned THEN owned \ {s} ELSE owned \cup {s}
  /\ changes' = changes + 1
  /\ UNCHANGED <<order, registered, frame, broken, index, step>>

\* A group's own thread progresses the stream.
GroupStep(s) ==
  /\ s \in owned /\ frame[s] = "due"
  /\ frame' = [frame EXCEPT ![s] = "none"]
  /\ UNCHANGED <<order, registered, owned, broken, index, step, changes>>

RegisterStream(s) ==
  /\ s \notin registered /\ changes < MaxChanges
  /\ order' = Append(order, s)
  /\ registered' = registered \cup {s}
  /\ changes' = changes + 1
  /\ UNCHANGED <<owned, frame, broken, index, step>>

\* The inner server refuses the configuration: the state is erased again, the
\* place in the order stays, and a later registration gets another one.
RegisterRefused(s) ==
  /\ s \notin registered /\ changes < MaxChanges
  /\ order' = Append(order, s)
  /\ changes' = changes + 1
  /\ UNCHANGED <<registered, owned, frame, broken, index, step>>

\* Mutant: the index is left as it is.
IndexAfterRemovalKept(rest) == index
\* remove_stream brings the index back into the shorter order.
IndexAfterRemoval(rest) == IF rest = <<>> THEN 0 ELSE index % Len(rest)

RemoveStream(s) ==
  /\ s \in registered \ owned /\ changes < MaxChanges
  /\ LET rest == Only(order, Streams \ {s}) IN
       /\ order' = rest
       /\ index' = IndexAfterRemoval(rest)
  /\ registered' = registered \ {s}
  /\ frame' = [frame EXCEPT ![s] = "none"]
  /\ broken' = broken \ {s}
  /\ changes' = changes + 1
  /\ UNCHANGED <<owned, step>>

-----------------------------------------------------------------------------
(* step().                                                                 *)

\* The first or the second API step fails and step() returns.
StepApiFails ==
  /\ step.pc \in {"idle", "api"}
  /\ step' = Idle
  /\ UNCHANGED <<order, registered, owned, frame, broken, index, changes>>

\* The API step succeeds; the streams to progress and the place to start are
\* read under mutex_.  Without any such stream the call is over.
StepBegin ==
  /\ step.pc = "idle" /\ Steppable # <<>>
  /\ LET start == index % Len(Steppable) IN
       step' = [Idle EXCEPT !.pc = "streams", !.ids = Steppable, !.start = start,
                            !.cursor = start,
                            !.eager = {s \in ToSet(Steppable) : frame[s] = "due"}]
  /\ UNCHANGED <<order, registered, owned, frame, broken, index, changes>>

\* Mutant: the budget counts the streams the loop looks at.
BudgetSpentOnIdle == Budget > 0 /\ step.offset >= Budget
BudgetSpent == Budget > 0 /\ step.processed >= Budget

Current == (step.start + step.offset) % Len(step.ids)   \* index, counted from 0
AtStream == step.ids[Current + 1]
More == step.offset < Len(step.ids) /\ ~BudgetSpent

\* Mutant: the rotation starts again at the stream progressed last.
CursorAfterSame == Current
CursorAfter == (Current + 1) % Len(step.ids)

\* process_stream returns Idle: no such stream, no frame, or not due yet.
StreamIdle ==
  /\ step.pc = "streams" /\ More
  /\ AtStream \notin registered \/ frame[AtStream] # "due"
  /\ step' = [step EXCEPT !.offset = @ + 1, !.eager = @ \ {AtStream}]
  /\ UNCHANGED <<order, registered, owned, frame, broken, index, changes>>

StreamProgresses ==
  /\ step.pc = "streams" /\ More
  /\ AtStream \in registered \ broken /\ frame[AtStream] = "due"
  /\ frame' = [frame EXCEPT ![AtStream] = "none"]
  /\ step' = [step EXCEPT !.offset = @ + 1, !.processed = @ + 1, !.progressed = TRUE,
                          !.cursor = CursorAfter, !.eager = @ \ {AtStream}]
  /\ UNCHANGED <<order, registered, owned, broken, index, changes>>

\* process_stream returns Failed: the frame is spent, and step() returns at once,
\* without moving the index.  A pipeline that has failed fails every frame.
StreamFails ==
  /\ step.pc = "streams" /\ More
  /\ AtStream \in registered \cap Breakable /\ frame[AtStream] = "due"
  /\ frame' = [frame EXCEPT ![AtStream] = "none"]
  /\ broken' = broken \cup {AtStream}
  /\ step' = Idle
  /\ UNCHANGED <<order, registered, owned, index, changes>>

\* Mutant: the index moves only when nothing was progressed.
RotateOnlyIdle ==
  /\ step.pc = "streams" /\ ~More
  /\ index' = IF order = <<>> \/ step.progressed THEN index
              ELSE (step.start + 1) % Len(order)
  /\ step' = [step EXCEPT !.pc = "api"]
  /\ UNCHANGED <<order, registered, owned, frame, broken, changes>>
\* The index for the next step, under mutex_.
Rotate ==
  /\ step.pc = "streams" /\ ~More
  /\ index' = IF order = <<>> THEN index
              ELSE IF step.progressed THEN step.cursor % Len(order)
              ELSE (step.start + 1) % Len(order)
  /\ step' = [step EXCEPT !.pc = "api"]
  /\ UNCHANGED <<order, registered, owned, frame, broken, changes>>

\* The second API step succeeds and step() returns.
StepEnd ==
  /\ step.pc = "api"
  /\ step' = Idle
  /\ UNCHANGED <<order, registered, owned, frame, broken, index, changes>>

-----------------------------------------------------------------------------
Step == StepBegin \/ StreamIdle \/ StreamProgresses \/ StreamFails \/ Rotate \/ StepEnd

Next ==
  \/ \E s \in Streams : \/ \E kind \in {"early", "due"} : Push(s, kind)
                        \/ ChangeOwner(s) \/ GroupStep(s)
                        \/ RegisterStream(s) \/ RegisterRefused(s) \/ RemoveStream(s)
  \/ StepApiFails \/ Step

\* The loop calls step() again and again, until the API step succeeds; a group's
\* thread steps its streams.
Spec == Init /\ [][Next]_vars
             /\ WF_vars(Step) /\ \A s \in Streams : WF_vars(GroupStep(s))

-----------------------------------------------------------------------------
(* Properties.                                                             *)

\* "Streams that are idle or not yet due are skipped without consuming the
\* budget" (architecture_overview.md): a step that comes to its end with budget
\* left has progressed every stream that was due all along.
BudgetForReadyStreams ==
  step.pc = "api" /\ (Budget = 0 \/ step.processed < Budget) => step.eager = {}

\* "the starting point rotates so ready streams are not starved by iteration
\* order" (architecture_overview.md): a due frame is progressed at last, though
\* the other streams are due again in every step, as long as no pipeline fails.
ReadyServedUnlessBroken ==
  \A s \in Streams : frame[s] = "due" ~> (frame[s] # "due" \/ broken # {})

\* The same promise without the proviso.
ReadyServed == \A s \in Streams : frame[s] = "due" ~> frame[s] # "due"
=============================================================================
