------------------------------ MODULE StreamLeases ------------------------------
(***************************************************************************)
(* What the managed server promises of its streams, without locks, flags,  *)
(* counters or objects.  Streams are enrolled and withdrawn; a group leases *)
(* streams, all it asks for or none, and while it has one nobody else gets  *)
(* it and nobody withdraws it.  Only a worker at a leased stream touches    *)
(* its encoder, one worker at a time in a group.  The house closes when     *)
(* nobody is at work, and nobody comes to work again.                       *)
(***************************************************************************)
CONSTANTS
  Streams,   \* the streams there can be
  Groups,    \* the groups there can be
  Workers    \* the threads that work for the groups

VARIABLES
  enrolled,  \* the streams of the house
  leased,    \* the streams each group has
  atWork,    \* the stream each worker is at, as a set of one or none
  encoders,  \* the streams that have an encoder
  closed     \* whether the house is closed

leaseVars == <<enrolled, leased, atWork, encoders, closed>>

LeasesInit ==
  /\ enrolled = Streams
  /\ leased = [g \in Groups |-> {}]
  /\ atWork = [w \in Workers |-> {}]
  /\ encoders = {}
  /\ closed = FALSE

Enrol(s) ==
  /\ ~closed /\ s \notin enrolled
  /\ enrolled' = enrolled \cup {s}
  /\ UNCHANGED <<leased, atWork, encoders, closed>>

Withdraw(s) ==
  /\ ~closed /\ s \in enrolled
  /\ \A g \in Groups : s \notin leased[g]
  /\ enrolled' = enrolled \ {s}
  /\ encoders' = encoders \ {s}
  /\ UNCHANGED <<leased, atWork, closed>>

Lease(g, ss) ==
  /\ ss # {} /\ ss \subseteq enrolled /\ leased[g] = {} /\ ~closed
  /\ \A h \in Groups : leased[h] \cap ss = {}
  /\ leased' = [leased EXCEPT ![g] = ss]
  /\ UNCHANGED <<enrolled, atWork, encoders, closed>>

\* Nobody is at work in the group.
Free(g) == \A w \in Workers : atWork[w] \cap leased[g] = {}

Return(g) ==
  /\ leased[g] # {} /\ Free(g)
  /\ leased' = [leased EXCEPT ![g] = {}]
  /\ UNCHANGED <<enrolled, atWork, encoders, closed>>

TakeUp(w, g, s) ==
  /\ ~closed /\ atWork[w] = {} /\ s \in leased[g] /\ Free(g)
  /\ atWork' = [atWork EXCEPT ![w] = {s}]
  /\ UNCHANGED <<enrolled, leased, encoders, closed>>

\* The worker leaves its stream with an encoder or without one.
Leaves(w) ==
  \E ss \in SUBSET atWork[w] : encoders' = (encoders \ atWork[w]) \cup ss

Works(w) ==
  /\ atWork[w] # {} /\ Leaves(w)
  /\ UNCHANGED <<enrolled, leased, atWork, closed>>

LayDown(w) ==
  /\ atWork[w] # {} /\ Leaves(w)
  /\ atWork' = [atWork EXCEPT ![w] = {}]
  /\ UNCHANGED <<enrolled, leased, closed>>

StopEncoders == encoders' = {} /\ UNCHANGED <<enrolled, leased, atWork, closed>>

Close ==
  /\ ~closed /\ \A w \in Workers : atWork[w] = {}
  /\ closed' = TRUE
  /\ UNCHANGED <<enrolled, leased, atWork, encoders>>

LeasesNext ==
  \/ \E s \in Streams : Enrol(s) \/ Withdraw(s)
  \/ \E g \in Groups :
       \/ \E ss \in SUBSET enrolled : Lease(g, ss)
       \/ Return(g)
       \/ \E s \in leased[g], w \in Workers : TakeUp(w, g, s)
  \/ \E w \in Workers : Works(w) \/ LayDown(w)
  \/ StopEncoders \/ Close

LeasesSpec == LeasesInit /\ [][LeasesNext]_leaseVars
=============================================================================
