---------------------------- MODULE RealtimeChannel ----------------------------
(***************************************************************************)
(* What the encoded handoff promises its user, without saying how: a       *)
(* channel that may lose units at any time in favour of newer ones, but    *)
(* hands each unit out at most once, in order, and never loses the newest  *)
(* keyframe it has been given.  Units are numbered in the order in which   *)
(* they are sent.                                                          *)
(***************************************************************************)
EXTENDS Integers

VARIABLES
  sent,      \* number of the newest unit
  pending,   \* set of the units the channel still holds
  horizon,   \* number of the newest unit handed out
  span       \* number of the newest keyframe still owed, or 0

channelVars == <<sent, pending, horizon, span>>

ChannelInit ==
  /\ sent = 0 /\ pending = {}
  /\ horizon = 0 /\ span = 0

Owed(held, key) == key # 0 => key \in held

\* Sending may lose any units, the new one included, but not the keyframe owed.
Send(isKey) ==
  /\ sent' = sent + 1
  /\ span' = IF isKey THEN sent + 1 ELSE span
  /\ pending' \subseteq pending \cup {sent + 1}
  /\ Owed(pending', span')
  /\ UNCHANGED horizon

\* Taking hands out everything held; what is handed out is gone.
Take ==
  /\ \/ pending = {} /\ horizon' = horizon
     \/ /\ horizon' \in pending /\ horizon' > horizon
        /\ \A u \in pending : u > horizon /\ u <= horizon'
  /\ pending' = {} /\ span' = 0
  /\ UNCHANGED sent

\* A reset gives up what is held.
Reset ==
  /\ pending' = {} /\ span' = 0
  /\ UNCHANGED <<sent, horizon>>

ChannelNext == Send(TRUE) \/ Send(FALSE) \/ Take \/ Reset

ChannelSpec == ChannelInit /\ [][ChannelNext]_channelVars
=============================================================================
