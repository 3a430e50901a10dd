-------------------------- MODULE WebRtcSessionProofs --------------------------
(***************************************************************************)
(* A viewer's session for any number of units and tracks: its end, and how *)
(* what the viewer gets of each codec begins.                              *)
(***************************************************************************)
EXTENDS WebRtcSession, SequenceTheorems, TLAPS

-----------------------------------------------------------------------------
(* The inductive invariant.                                                *)

\* The senders end with the session, and the AV1 sender does not let it end while it
\* sends.  A track that is bound late is not open before onTrack has looked at the
\* session again, so an inactive session cannot get past the next recheck.
Ended ==
  /\ session.disconnects = IF session.active THEN 0 ELSE 1
  /\ sender.active = session.active /\ av1.active = session.active
  /\ ~session.active =>
       /\ ~session.sending /\ ~Av1Sending
       /\ callback # "settle" => sink = "unbound"
  /\ callback = "settle" => track.state # "open"
  /\ stopping # "no" => ~session.active
  /\ late = 0 \/ /\ late = 1 /\ ~session.active
                 /\ unit.pc \in {"idle", "recheck", "mark", "finish"}

\* Packets that leave a decoder in this state, whatever follows, with a picture.
Leads(decoder, items) ==
  \/ decoder = "decoding"
  \/ decoder \in {"blank", "configured"} /\ items # <<>> /\ items[1].kind = "full"
  \/ decoder = "configured" /\ items # <<>> /\ items[1].kind = "idr"
  \/ /\ decoder \in {"blank", "configured"} /\ Len(items) >= 2
     /\ items[1].kind = "config" /\ items[2].kind \in {"idr", "full"}

OfKinds(items, kinds) == \A i \in 1..Len(items) : items[i].kind \in kinds

Av1Pictures == {"av1_key", "av1_full", "av1_delta"}

CachesFit ==
  /\ sender.config = NoUnit \/ sender.config.kind \in {"config", "full"}
  /\ sender.idr = NoUnit \/ sender.idr.kind \in {"idr", "full"}
  /\ av1.key = NoUnit \/ av1.key.kind \in Av1Keys

\* What the H.264 sender believes of its viewer is true while the session is active,
\* and what is left to be sent leads the viewer to a picture.
Started264 ==
  /\ viewer.H264 # "broken"
  /\ session.active /\ (sender.started \/ sender.decodable) => viewer.H264 = "decoding"
  /\ unit.pc \in {"recheck", "copy", "transmit", "mark", "finish"} =>
       OfKinds(unit.items, H264Kinds)
  /\ unit.pc \in {"copy", "transmit"} =>
       Leads(viewer.H264, unit.items) /\ (session.active => sink = "bound")
  /\ unit.pc = "recheck" /\ session.active => Leads(viewer.H264, unit.items)
  /\ unit.pc = "finish" /\ session.active => viewer.H264 = "decoding"

StartedAv1 ==
  /\ viewer.AV1 \in {"blank", "decoding"}
  /\ av1.started => viewer.AV1 = "decoding"
  /\ unit.pc = "av1_send" =>
       /\ OfKinds(unit.items, Av1Pictures)
       /\ viewer.AV1 = "blank" => unit.items # <<>> /\ unit.items[1].kind \in Av1Keys

\* onTrack is called for a section of the offer.
TracksOffered == callback = "bind" => track.count < MaxTracks

Starts == CachesFit /\ Started264 /\ StartedAv1

-----------------------------------------------------------------------------
(* Types, each part by itself.                                             *)

SessionType == [active : BOOLEAN, sending : BOOLEAN, callbacks : BOOLEAN, disconnects : Nat]
TrackType == [state : {"none", "new", "open", "closed"}, count : 0..MaxTracks]
SenderType == [active : BOOLEAN, last : 0..MaxUnits, config : Unit, idr : Unit,
               started : BOOLEAN, decodable : BOOLEAN, delivering : BOOLEAN]
Av1Type == [active : BOOLEAN, last : 0..MaxUnits, key : Unit, started : BOOLEAN]
Places == {"idle", "admit", "recheck", "copy", "transmit", "mark", "finish", "av1_send"}
Packets == Seq(Unit)
CallType == [pc : Places, unit : Unit, items : Packets, startup : BOOLEAN]
Decoders == {"blank", "configured", "decoding", "broken"}
ViewerType == [{"H264", "AV1"} -> Decoders]
HasPackets == unit.pc \in {"recheck", "copy", "transmit"} => unit.items # <<>>
Clocks == 0..MaxUnits

Parts ==
  /\ session \in SessionType /\ sink \in {"bound", "unbound"} /\ track \in TrackType
  /\ sender \in SenderType /\ av1 \in Av1Type /\ unit \in CallType /\ HasPackets
  /\ clock \in Clocks /\ callback \in {"idle", "bind", "settle"}
  /\ stopping \in {"no", "unbind", "close", "done"} /\ viewer \in ViewerType /\ late \in Nat

LEMMA TypeInParts == (TypeOK <=> Parts) /\ (TypeOK' <=> Parts')
<1> USE DEF SessionType, TrackType, SenderType, Av1Type, Places, Packets, CallType, Decoders,
            ViewerType, HasPackets, Clocks
<1>1. TypeOK <=> Parts
  BY Zenon DEF TypeOK, Parts
<1>2. TypeOK' <=> Parts'
  BY Zenon DEF TypeOK, Parts, Unit
<1> QED
  BY <1>1, <1>2

LEMMA PartsInit == Init => Parts
<1> SUFFICES ASSUME Init PROVE Parts
  OBVIOUS
<1> USE SessionAssumption DEF Init
<1>1. NoUnit \in Unit /\ 0 \in Clocks
  BY DEF NoUnit, Unit, Clocks
<1>2. unit \in CallType /\ HasPackets
  BY <1>1 DEF IdleUnit, CallType, Places, Packets, HasPackets
<1>3. sender \in SenderType /\ av1 \in Av1Type
  BY <1>1 DEF SenderType, Av1Type, Clocks
<1>4. viewer \in ViewerType
  BY DEF ViewerType, Decoders
<1>5. session \in SessionType /\ track \in TrackType
  BY DEF SessionType, TrackType
<1> QED
  BY <1>1, <1>2, <1>3, <1>4, <1>5 DEF Parts

\* The end of the session writes only what ends.
LEMMA TypeTransition ==
  ASSUME Parts, NEW reason, Transition(reason)
  PROVE  /\ session' \in SessionType /\ sink' \in {"bound", "unbound"}
         /\ sender' \in SenderType /\ av1' \in Av1Type
<1>1. session' \in SessionType
  <2> DEFINE count == IF session.active THEN session.disconnects + 1
                      ELSE session.disconnects
             heard == session.callbacks /\ reason # "stop"
  <2>1. session' = [session EXCEPT !.active = FALSE, !.sending = FALSE,
                                   !.disconnects = count, !.callbacks = heard]
    BY DEF Transition
  <2>2. count \in Nat /\ heard \in BOOLEAN
    BY DEF Parts, SessionType
  <2> HIDE DEF count, heard
  <2> QED
    BY <2>1, <2>2 DEF Parts, SessionType
<1>2. sink' \in {"bound", "unbound"}
  BY DEF Parts, Transition
<1>3. sender' = sender \/ sender' = [sender EXCEPT !.active = FALSE, !.delivering = FALSE]
  BY DEF Transition, SendersEnd
<1>4. av1' = av1 \/ av1' = [av1 EXCEPT !.active = FALSE]
  BY DEF Transition, SendersEnd
<1> QED
  BY <1>1, <1>2, <1>3, <1>4 DEF Parts, SenderType, Av1Type

\* What the senders note of a unit, and the packets it makes.
LEMMA TypeItems ==
  ASSUME Parts
  PROVE  /\ Noted(unit.unit) \in SenderType /\ Av1Noted(unit.unit) \in Av1Type
         /\ Items(Noted(unit.unit), unit.unit) \in Packets
         /\ Av1Items(Av1Noted(unit.unit), unit.unit) \in Packets
<1> DEFINE u == unit.unit
           n == Noted(u)
           a == Av1Noted(u)
<1>1. u \in Unit /\ u.seq \in 0..MaxUnits
  BY DEF Parts, CallType, Unit
<1>2. n \in SenderType
  BY <1>1 DEF Parts, Noted, SenderType
<1>3. a \in Av1Type
  BY <1>1 DEF Parts, Av1Noted, Av1Type
<1>4. n.config \in Unit /\ n.idr \in Unit /\ a.key \in Unit
  BY <1>2, <1>3 DEF SenderType, Av1Type
<1> HIDE DEF u, n, a
<1>5. /\ \A x \in Unit : Item(x) \in Packets /\ <<x>> \in Packets
      /\ \A x, y \in Unit : <<x, y>> \in Packets
      /\ <<>> \in Packets
      /\ \A s, t \in Packets : s \o t \in Packets
  BY DEF Item, Packets
<1>6. Items(n, u) \in Packets
  <2>1. CASE StartupRequired(n)
    <3> DEFINE rest == IF n.idr.seq # u.seq /\ (n.decodable \/ u.kind = "delta")
                       THEN <<u>> ELSE <<>>
    <3>1. Item(n.config) \in Packets /\ Item(n.idr) \in Packets /\ rest \in Packets
      BY <1>1, <1>4, <1>5
    <3>2. Items(n, u) = Item(n.config) \o Item(n.idr) \o rest
      BY <2>1 DEF Items
    <3> HIDE DEF rest
    <3> QED
      BY <1>5, <3>1, <3>2
  <2>2. CASE ~StartupRequired(n)
    BY <1>1, <1>4, <1>5, <2>2 DEF Items
  <2> QED
    BY <2>1, <2>2
<1>7. Av1Items(a, u) \in Packets
  <2> DEFINE first == IF a.started THEN <<>> ELSE Item(a.key)
             rest == IF (a.started \/ a.key # u) /\ u.kind \notin {"av1_config", "av1_full"}
                     THEN <<u>> ELSE <<>>
  <2>1. first \in Packets /\ rest \in Packets
    BY <1>1, <1>4, <1>5
  <2>2. Av1Items(a, u) = first \o rest
    BY DEF Av1Items
  <2> HIDE DEF first, rest
  <2> QED
    BY <1>5, <2>1, <2>2
<1> QED
  BY <1>2, <1>3, <1>6, <1>7 DEF u, n, a

\* A packet less.
LEMMA TypeNextItem ==
  ASSUME Parts, unit.items # <<>>
  PROVE  LET next == NextItem(Tail(unit.items)) IN
         /\ next \in CallType
         /\ next.pc \in {"recheck", "copy", "transmit"} => next.items # <<>>
<1> DEFINE rest == Tail(unit.items)
<1>1. rest \in Packets
  BY DEF Parts, CallType, Packets
<1> HIDE DEF rest
<1>2. NextItem(rest) = [unit EXCEPT !.items = rest,
                                    !.pc = IF rest = <<>> THEN "finish" ELSE "recheck"]
  BY DEF NextItem
<1>3. NextItem(rest) \in CallType
  BY <1>1, <1>2 DEF Parts, CallType, Places
<1>4. NextItem(rest).pc # "finish" => rest # <<>> /\ NextItem(rest).items = rest
  BY <1>2 DEF Parts, CallType
<1> QED
  BY <1>3, <1>4 DEF rest

LEMMA IdleCall == SessionAssumption => IdleUnit \in CallType /\ IdleUnit.pc = "idle"
  BY DEF SessionAssumption, IdleUnit, NoUnit, CallType, Places, Packets, Unit

\* The owner, the peer and the track.
LEMMA PartsQuiet ==
  ASSUME Parts, TracksOffered,
         \/ UNCHANGED vars
         \/ PeerDown \/ StopBegin \/ StopUnbind \/ StopClose
         \/ TrackCallback \/ TrackBind \/ TrackSettle \/ TrackOpens \/ TrackCloses
  PROVE  Parts' /\ TracksOffered'
<1>1. CASE UNCHANGED vars
  BY <1>1 DEF vars, Parts, HasPackets, TracksOffered
<1>2. CASE PeerDown \/ StopBegin
  <2>1. PICK reason \in {"peer", "stop"} : Transition(reason)
    BY <1>2 DEF PeerDown, StopBegin
  <2>2. /\ UNCHANGED <<track, unit, clock, callback, viewer, late>>
        /\ stopping' \in {"no", "unbind", "close", "done"}
    BY <1>2 DEF PeerDown, StopBegin, Parts
  <2> QED
    BY <2>1, <2>2, TypeTransition DEF Parts, HasPackets, TracksOffered
<1>3. CASE StopUnbind
  BY <1>3 DEF StopUnbind, Parts, HasPackets, TracksOffered
<1>4. CASE StopClose \/ TrackOpens \/ TrackCloses
  <2>1. track' \in TrackType /\ track'.count = track.count
    BY <1>4 DEF StopClose, TrackOpens, TrackCloses, Closed, Parts, TrackType
  <2>2. /\ UNCHANGED <<session, sink, sender, av1, unit, clock, callback, viewer, late>>
        /\ stopping' \in {"no", "unbind", "close", "done"}
    BY <1>4 DEF StopClose, TrackOpens, TrackCloses, Parts
  <2> QED
    BY <2>1, <2>2 DEF Parts, HasPackets, TracksOffered
<1>5. CASE TrackCallback
  BY <1>5 DEF TrackCallback, Parts, HasPackets, TracksOffered
<1>6. CASE TrackBind
  <2>1. track' \in TrackType
    BY <1>6, SessionAssumption DEF TrackBind, Parts, TrackType, TracksOffered
  <2> QED
    BY <1>6, <2>1 DEF TrackBind, Parts, HasPackets, TracksOffered
<1>7. CASE TrackSettle
  <2>1. session' \in SessionType /\ sink' \in {"bound", "unbound"}
    BY <1>7 DEF TrackSettle, Parts, SessionType
  <2> QED
    BY <1>7, <2>1 DEF TrackSettle, Parts, HasPackets, TracksOffered
<1> QED
  BY <1>1, <1>2, <1>3, <1>4, <1>5, <1>6, <1>7

\* What a decoder makes of a packet of a known kind is a state of the decoder.
LEMMA TypeDecoded ==
  ASSUME Parts, NEW u, u.kind \in H264Kinds \cup Av1Kinds
  PROVE  Decoded(u) \in ViewerType
<1>1. viewer \in [{"H264", "AV1"} -> Decoders]
  BY DEF Parts, ViewerType
<1>2. \/ u.kind = "full" \/ u.kind = "config" \/ u.kind = "idr" \/ u.kind = "delta"
      \/ u.kind \in Av1Keys \/ u.kind = "av1_delta" \/ u.kind = "av1_config"
  BY DEF H264Kinds, Av1Kinds, Av1Keys
<1> QED
  BY <1>1, <1>2 DEF Decoded, ViewerType, Decoders, Av1Keys

\* The API thread hands over a unit.
LEMMA PartsUnit ==
  ASSUME Parts, TracksOffered,
         unit.pc \in {"transmit", "av1_send"} /\ unit.items # <<>> =>
           Head(unit.items).kind \in H264Kinds \cup Av1Kinds,
         (\E kind \in Kinds, again \in BOOLEAN : UnitArrives(kind, again)) \/ UnitStep
  PROVE  Parts' /\ TracksOffered'
<1> USE SessionAssumption
<1>1. IdleUnit \in CallType /\ IdleUnit.pc = "idle"
  BY IdleCall
<1>2. /\ UNCHANGED <<session, sink, track, callback, stopping>>
      /\ session \in SessionType /\ sink \in {"bound", "unbound"} /\ track \in TrackType
      /\ callback \in {"idle", "bind", "settle"}
      /\ stopping \in {"no", "unbind", "close", "done"}
  BY Zenon DEF Parts, UnitArrives, UnitStep, UnitRefused, UnitDuplicate, UnitAdmitted,
         UnitRecheck, UnitCopy, UnitTransmit, UnitNotSendable, UnitFinish, Av1Refused, Av1Admitted,
         Av1Transmit, Av1Finish, Av1Unchanged
<1>3. ASSUME sender' \in SenderType, av1' \in Av1Type, unit' \in CallType, HasPackets',
             clock' \in Clocks, viewer' \in ViewerType, late' \in Nat
      PROVE  Parts' /\ TracksOffered'
  BY <1>2, <1>3 DEF Parts, TracksOffered
<1>4. ASSUME unit' = IdleUnit
      PROVE  unit' \in CallType /\ HasPackets'
  BY <1>1, <1>4 DEF HasPackets
<1>5. /\ sender \in SenderType /\ av1 \in Av1Type /\ unit \in CallType /\ HasPackets
      /\ clock \in Clocks /\ viewer \in ViewerType /\ late \in Nat
  BY DEF Parts
<1>6. [sender EXCEPT !.delivering = FALSE] \in SenderType
  BY <1>5 DEF SenderType
<1>7. ASSUME NEW kind \in Kinds, NEW again \in BOOLEAN, UnitArrives(kind, again)
      PROVE  Parts' /\ TracksOffered'
  <2>1. clock' = clock \/ (clock < MaxUnits /\ clock' = clock + 1)
    BY <1>7 DEF UnitArrives
  <2>2. clock' \in Clocks
    BY <1>5, <2>1, SessionAssumption DEF SessionAssumption, Clocks
  <2>3. unit' = [IdleUnit EXCEPT !.pc = "admit", !.unit = [seq |-> clock', kind |-> kind]]
    BY <1>7 DEF UnitArrives
  <2>4. [seq |-> clock', kind |-> kind] \in Unit
    BY <2>2 DEF Unit, Clocks
  <2>5. unit' \in CallType /\ unit'.pc = "admit"
    BY <1>1, <2>3, <2>4 DEF CallType, Places
  <2> QED
    BY <1>3, <1>5, <1>7, <2>2, <2>5 DEF UnitArrives, HasPackets
<1>8. CASE UnitRefused \/ UnitDuplicate \/ UnitNotSendable \/ Av1Refused
  <2>1. /\ unit' = IdleUnit /\ UNCHANGED <<av1, clock, viewer, late>>
        /\ sender' = sender \/ sender' = [sender EXCEPT !.delivering = FALSE]
    BY <1>8 DEF UnitRefused, UnitDuplicate, UnitNotSendable, Av1Refused, Return, Av1Unchanged
  <2> QED
    BY <1>3, <1>4, <1>5, <1>6, <2>1
<1>9. CASE UnitAdmitted
  <2> DEFINE n == Noted(unit.unit)
             items == Items(n, unit.unit)
             startup == StartupRequired(n) \/ unit.unit.kind = "idr"
  <2>1. n \in SenderType /\ items \in Packets
    BY TypeItems
  <2>2. \/ unit' = IdleUnit
        \/ items # <<>> /\ unit' = [unit EXCEPT !.pc = "recheck", !.items = items,
                                                !.startup = startup]
    BY <1>9 DEF UnitAdmitted, Return
  <2>3. startup \in BOOLEAN
    BY DEF StartupRequired
  <2>4. sender' = n /\ UNCHANGED <<av1, clock, viewer, late>>
    BY <1>9 DEF UnitAdmitted
  <2> HIDE DEF n, items, startup
  <2>5. unit' \in CallType /\ HasPackets'
    <3>1. CASE unit' = IdleUnit
      BY <1>4, <3>1
    <3>2. CASE items # <<>> /\ unit' = [unit EXCEPT !.pc = "recheck", !.items = items,
                                                    !.startup = startup]
      BY <1>5, <2>1, <2>3, <3>2 DEF CallType, Places, HasPackets
    <3> QED
      BY <2>2, <3>1, <3>2
  <2> QED
    BY <1>3, <1>5, <2>1, <2>4, <2>5
<1>10. CASE UnitRecheck
  <2>1. /\ UNCHANGED <<sender, av1, clock, viewer, late>> /\ unit.pc = "recheck"
        /\ \/ unit' = [unit EXCEPT !.pc = "copy"]
           \/ unit' = [unit EXCEPT !.pc = "mark"]
    BY <1>10 DEF UnitRecheck
  <2>2. unit' \in CallType /\ HasPackets'
    BY <1>5, <2>1 DEF CallType, Places, HasPackets
  <2> QED
    BY <1>3, <1>5, <2>1, <2>2
<1>11. CASE UnitCopy \/ UnitTransmit
  <2>1. /\ UNCHANGED <<sender, av1, clock>> /\ unit.pc \in {"copy", "transmit"}
        /\ \/ unit.pc = "copy" /\ unit' = [unit EXCEPT !.pc = "transmit"]
           \/ unit' = [unit EXCEPT !.pc = "mark"]
           \/ unit' = NextItem(Tail(unit.items))
    BY <1>11 DEF UnitCopy, UnitTransmit
  <2>2. unit.items # <<>>
    BY <1>5, <2>1 DEF HasPackets
  <2>3. unit' \in CallType /\ HasPackets'
    <3>1. CASE unit' = NextItem(Tail(unit.items))
      BY <2>2, <3>1, TypeNextItem DEF HasPackets
    <3>2. CASE \/ unit' = [unit EXCEPT !.pc = "transmit"]
               \/ unit' = [unit EXCEPT !.pc = "mark"]
      BY <1>5, <2>2, <3>2 DEF CallType, Places, HasPackets
    <3> QED
      BY <2>1, <3>1, <3>2
  <2>4. viewer' \in ViewerType /\ late' \in Nat
    <3>1. CASE UNCHANGED <<viewer, late>>
      BY <1>5, <3>1
    <3>2. CASE /\ UnitTransmit /\ viewer' = Decoded(Head(unit.items))
               /\ late' = IF session.active THEN late ELSE late + 1
      BY <1>5, <2>2, <3>2, TypeDecoded DEF UnitTransmit
    <3> QED
      BY <1>11, <3>1, <3>2 DEF UnitCopy, UnitTransmit
  <2> QED
    BY <1>3, <1>5, <2>1, <2>3, <2>4
<1>12. CASE UnitFinish
  <2>1. sender' \in SenderType
    BY <1>5, <1>12 DEF UnitFinish, SenderType, CallType
  <2> QED
    BY <1>3, <1>4, <1>5, <1>12, <2>1 DEF UnitFinish, Return
<1>13. CASE Av1Admitted
  <2> DEFINE n == Av1Noted(unit.unit)
             items == Av1Items(n, unit.unit)
  <2>1. n \in Av1Type /\ items \in Packets
    BY TypeItems
  <2>2. \/ unit' = IdleUnit
        \/ unit' = [unit EXCEPT !.pc = "av1_send", !.items = items]
    BY <1>13 DEF Av1Admitted, Return
  <2>3. av1' = n /\ UNCHANGED <<sender, clock, viewer, late>>
    BY <1>13 DEF Av1Admitted, Av1Unchanged
  <2> HIDE DEF n, items
  <2>4. unit' \in CallType /\ HasPackets'
    BY <1>4, <1>5, <2>1, <2>2 DEF CallType, Places, HasPackets
  <2> QED
    BY <1>3, <1>5, <2>1, <2>3, <2>4
<1>14. CASE Av1Transmit
  <2>1. UNCHANGED <<sender, av1, clock>> /\ unit.pc = "av1_send" /\ unit.items # <<>>
    BY <1>14 DEF Av1Transmit, Av1Unchanged, Av1Sending
  <2>2. unit' \in CallType /\ HasPackets'
    <3>1. Tail(unit.items) \in Packets
      BY <1>5, <2>1 DEF CallType, Packets
    <3>2. unit' = IdleUnit \/ unit' = [unit EXCEPT !.items = Tail(unit.items)]
      BY <1>14 DEF Av1Transmit, Return
    <3> QED
      BY <1>4, <1>5, <2>1, <3>1, <3>2 DEF CallType, HasPackets
  <2>3. viewer' \in ViewerType /\ late' \in Nat
    <3>1. CASE UNCHANGED <<viewer, late>>
      BY <1>5, <3>1
    <3>2. CASE /\ viewer' = Decoded(Head(unit.items))
               /\ late' = IF session.active THEN late ELSE late + 1
      BY <1>5, <2>1, <3>2, TypeDecoded
    <3> QED
      BY <1>14, <3>1, <3>2 DEF Av1Transmit
  <2> QED
    BY <1>3, <1>5, <2>1, <2>2, <2>3
<1>15. CASE Av1Finish
  <2>1. av1' \in Av1Type
    BY <1>5, <1>15 DEF Av1Finish, Av1Type
  <2> QED
    BY <1>3, <1>4, <1>5, <1>15, <2>1 DEF Av1Finish, Return, Av1Unchanged
<1> QED
  BY <1>7, <1>8, <1>9, <1>10, <1>11, <1>12, <1>13, <1>14, <1>15 DEF UnitStep

-----------------------------------------------------------------------------
(* The end of the session.                                                 *)

LEMMA EndedQuiet ==
  ASSUME Parts, Ended,
         \/ UNCHANGED vars
         \/ PeerDown \/ StopBegin \/ StopUnbind \/ StopClose
         \/ TrackCallback \/ TrackBind \/ TrackSettle \/ TrackOpens \/ TrackCloses
  PROVE  Ended'
<1> USE DEF Ended, Av1Sending
<1>1. CASE UNCHANGED vars
  BY <1>1 DEF vars
<1>2. CASE PeerDown \/ StopBegin
  <2>1. PICK reason \in {"peer", "stop"} : Transition(reason)
    BY <1>2 DEF PeerDown, StopBegin
  <2>2. UNCHANGED <<track, unit, callback, late>>
    BY <1>2 DEF PeerDown, StopBegin
  <2>3. /\ session'.active = FALSE /\ session'.sending = FALSE
        /\ session'.disconnects = IF session.active THEN session.disconnects + 1
                                  ELSE session.disconnects
    BY <2>1 DEF Transition, Parts, SessionType
  <2>4. session'.disconnects = 1
    BY <2>3
  <2>5. /\ sender'.active = FALSE /\ av1'.active = FALSE /\ unit'.pc # "av1_send"
        /\ callback' # "settle" => sink' = "unbound"
    <3>1. CASE session.active
      BY <2>1, <2>2, <3>1 DEF Transition, SendersEnd, Parts, SenderType, Av1Type
    <3>2. CASE ~session.active
      BY <2>1, <2>2, <3>2 DEF Transition, Parts, SessionType
    <3> QED
      BY <3>1, <3>2
  <2>6. /\ callback' = "settle" => track'.state # "open"
        /\ \/ late' = 0
           \/ late' = 1 /\ unit'.pc \in {"idle", "recheck", "mark", "finish"}
    BY <2>2
  <2> QED
    BY <2>3, <2>4, <2>5, <2>6
<1>3. CASE StopUnbind
  BY <1>3 DEF StopUnbind
<1>4. CASE StopClose \/ TrackCloses
  <2>1. track'.state # "open"
    BY <1>4 DEF StopClose, TrackCloses, Closed, Parts, TrackType
  <2> QED
    BY <1>4, <2>1 DEF StopClose, TrackCloses
<1>5. CASE TrackOpens
  BY <1>5 DEF TrackOpens
<1>6. CASE TrackCallback
  BY <1>6 DEF TrackCallback
<1>7. CASE TrackBind
  <2>1. track'.state # "open" /\ callback' = "settle"
    BY <1>7 DEF TrackBind
  <2> QED
    BY <1>7, <2>1 DEF TrackBind
<1>8. CASE TrackSettle
  <2>1. callback' = "idle" /\ UNCHANGED <<track, sender, av1, unit, stopping, late>>
    BY <1>8 DEF TrackSettle
  <2>2. CASE session.active
    <3>1. session' = [session EXCEPT !.sending = TRUE]
      BY <1>8, <2>2 DEF TrackSettle
    <3>2. session'.active = session.active /\ session'.disconnects = session.disconnects
      BY <3>1 DEF Parts, SessionType
    <3> QED
      BY <2>1, <2>2, <3>2
  <2>3. CASE ~session.active
    BY <1>8, <2>1, <2>3 DEF TrackSettle
  <2> QED
    BY <2>2, <2>3
<1> QED
  BY <1>1, <1>2, <1>3, <1>4, <1>5, <1>6, <1>7, <1>8

\* A unit neither ends the session nor outlives its end by more than one packet.
LEMMA EndedUnit ==
  ASSUME Parts, Ended,
         (\E kind \in Kinds, again \in BOOLEAN : UnitArrives(kind, again)) \/ UnitStep
  PROVE  Ended'
<1>1. UNCHANGED <<session, sink, track, callback, stopping>>
  BY Zenon DEF UnitArrives, UnitStep, UnitRefused, UnitDuplicate, UnitAdmitted, UnitRecheck,
         UnitCopy, UnitTransmit, UnitNotSendable, UnitFinish, Av1Refused, Av1Admitted,
         Av1Transmit, Av1Finish, Av1Unchanged
<1>2. sender'.active = sender.active
  BY DEF UnitArrives, UnitStep, UnitRefused, UnitDuplicate, UnitAdmitted, UnitRecheck,
         UnitCopy, UnitTransmit, UnitNotSendable, UnitFinish, Av1Refused, Av1Admitted,
         Av1Transmit, Av1Finish, Av1Unchanged, Noted, Parts, SenderType
<1>3. av1'.active = av1.active
  BY DEF UnitArrives, UnitStep, UnitRefused, UnitDuplicate, UnitAdmitted, UnitRecheck,
         UnitCopy, UnitTransmit, UnitNotSendable, UnitFinish, Av1Refused, Av1Admitted,
         Av1Transmit, Av1Finish, Av1Unchanged, Av1Noted, Parts, Av1Type
<1>4. ASSUME ~session.active => unit'.pc # "av1_send",
             \/ late' = 0
             \/ /\ late' = 1 /\ ~session.active
                /\ unit'.pc \in {"idle", "recheck", "mark", "finish"}
      PROVE  Ended'
  BY <1>1, <1>2, <1>3, <1>4 DEF Ended, Av1Sending
<1>5. IdleUnit.pc = "idle"
  BY DEF IdleUnit
<1>6. ASSUME NEW kind \in Kinds, NEW again \in BOOLEAN, UnitArrives(kind, again)
      PROVE  Ended'
  BY <1>4, <1>6 DEF UnitArrives, Ended
<1>7. CASE unit' = IdleUnit /\ late' = late
  BY <1>4, <1>5, <1>7 DEF Ended
<1>8. CASE UnitAdmitted \/ Av1Admitted
  BY <1>4, <1>8 DEF UnitAdmitted, Av1Admitted, Ended
<1>9. CASE UnitRecheck
  <2>1. ~session.active => ~Sendable
    BY DEF Ended, Sendable
  <2>2. late' = late /\ unit'.pc = IF Sendable THEN "copy" ELSE "mark"
    BY <1>9 DEF UnitRecheck, Parts, CallType
  <2> QED
    BY <1>4, <2>1, <2>2 DEF Ended
<1>10. NextItem(Tail(unit.items)).pc \in {"recheck", "finish"}
  BY DEF NextItem, Parts, CallType
<1>11. CASE UnitCopy
  BY <1>4, <1>10, <1>11 DEF UnitCopy, Ended, Parts, CallType
<1>12. CASE UnitTransmit
  <2>1. late = 0
    BY <1>12 DEF UnitTransmit, Ended
  <2>2. unit'.pc \in {"recheck", "finish", "mark"}
    BY <1>10, <1>12 DEF UnitTransmit, Parts, CallType
  <2>3. late' = 0 \/ (late' = 1 /\ ~session.active)
    BY <1>12, <2>1 DEF UnitTransmit
  <2> QED
    BY <1>4, <2>2, <2>3
<1>13. CASE Av1Transmit
  BY <1>4, <1>13 DEF Av1Transmit, Av1Sending, Ended
<1> QED
  BY <1>6, <1>7, <1>8, <1>9, <1>11, <1>12, <1>13
     DEF UnitStep, UnitRefused, UnitDuplicate, UnitNotSendable, UnitFinish, Av1Refused,
         Av1Finish, Return

-----------------------------------------------------------------------------
(* How what a viewer gets begins.                                          *)

LEMMA KindsInTail ==
  ASSUME NEW items \in Packets, NEW kinds, OfKinds(items, kinds), items # <<>>
  PROVE  Head(items).kind \in kinds /\ OfKinds(Tail(items), kinds)
<1>1. Len(items) \in Nat /\ Len(items) >= 1 /\ Head(items) = items[1]
  BY DEF Packets
<1>2. Len(Tail(items)) = Len(items) - 1
  BY DEF Packets
<1>3. \A i \in 1..Len(Tail(items)) : Tail(items)[i] = items[i + 1]
  BY DEF Packets
<1>4. ASSUME NEW i \in 1..Len(Tail(items)) PROVE Tail(items)[i].kind \in kinds
  <2>1. i + 1 \in 1..Len(items)
    BY <1>1, <1>2
  <2> QED
    BY <1>3, <2>1 DEF OfKinds
<1>5. Head(items).kind \in kinds
  BY <1>1 DEF OfKinds
<1> QED
  BY <1>4, <1>5 DEF OfKinds

\* One packet of a sequence that leads to a picture: the rest leads there still, or
\* the picture is there.
LEMMA LeadsOn ==
  ASSUME viewer \in ViewerType, NEW items \in Packets, items # <<>>,
         OfKinds(items, H264Kinds), Leads(viewer.H264, items)
  PROVE  LET seen == Decoded(Head(items)) IN
         /\ seen.AV1 = viewer.AV1 /\ seen.H264 # "broken"
         /\ viewer.H264 = "decoding" => seen.H264 = "decoding"
         /\ seen.H264 = "decoding" \/ (Tail(items) # <<>> /\ Leads(seen.H264, Tail(items)))
<1> DEFINE u == Head(items)
           seen == Decoded(u)
<1>1. u = items[1] /\ u.kind \in {"config", "idr", "full", "delta"}
  BY KindsInTail DEF H264Kinds, Packets
<1>2. viewer \in [{"H264", "AV1"} -> Decoders]
  BY DEF ViewerType
<1>3. CASE u.kind = "full"
  <2>1. seen = [viewer EXCEPT !.H264 = IF @ = "broken" THEN @ ELSE "decoding"]
    BY <1>3 DEF Decoded, Av1Keys
  <2>2. viewer.H264 # "broken"
    BY DEF Leads
  <2> QED
    BY <1>2, <2>1, <2>2
<1>4. CASE u.kind = "config"
  <2>1. seen = [viewer EXCEPT !.H264 = IF @ = "blank" THEN "configured" ELSE @]
    BY <1>4 DEF Decoded, Av1Keys
  <2>2. CASE viewer.H264 = "decoding"
    BY <1>2, <2>1, <2>2
  <2>3. CASE viewer.H264 # "decoding"
    <3>1. /\ viewer.H264 \in {"blank", "configured"}
          /\ Len(items) >= 2 /\ items[2].kind \in {"idr", "full"}
      BY <1>1, <1>4, <2>3 DEF Leads
    <3>2. seen.H264 = "configured" /\ seen.AV1 = viewer.AV1
      BY <1>2, <2>1, <3>1
    <3>3. Tail(items) # <<>> /\ Tail(items)[1] = items[2]
      <4>1. Len(items) \in Nat /\ Len(Tail(items)) = Len(items) - 1
        BY DEF Packets
      <4>2. Tail(items) # <<>>
        <5>1. Len(Tail(items)) # 0
          BY <3>1, <4>1
        <5>2. Len(<<>>) = 0
          OBVIOUS
        <5> QED
          BY Zenon, <5>1, <5>2
      <4>3. 1 \in 1..Len(Tail(items))
        BY <3>1, <4>1
      <4>4. \A i \in 1..Len(Tail(items)) : Tail(items)[i] = items[i + 1]
        BY DEF Packets
      <4>5. Tail(items)[1] = items[2]
        BY <4>3, <4>4
      <4> QED
        BY <4>2, <4>5
    <3>4. Leads("configured", Tail(items))
      BY <3>1, <3>3 DEF Leads
    <3> QED
      BY <2>3, <3>2, <3>3, <3>4
  <2> QED
    BY <2>2, <2>3
<1>5. CASE u.kind = "idr"
  <2>1. viewer.H264 \in {"configured", "decoding"}
    BY <1>1, <1>5 DEF Leads
  <2>2. seen = [viewer EXCEPT !.H264 = "decoding"]
    BY <1>5, <2>1 DEF Decoded, Av1Keys
  <2> QED
    BY <1>2, <2>2
<1>6. CASE u.kind = "delta"
  <2>1. viewer.H264 = "decoding"
    BY <1>1, <1>6 DEF Leads
  <2>2. seen = [viewer EXCEPT !.H264 = "decoding"]
    BY <1>2, <1>6, <2>1 DEF Decoded, Av1Keys
  <2> QED
    BY <1>2, <2>2
<1> QED
  BY <1>1, <1>3, <1>4, <1>5, <1>6

\* A packet of AV1 leaves the other decoder alone.
LEMMA Av1Decoded ==
  ASSUME viewer \in ViewerType, NEW u, u.kind \in Av1Pictures,
         viewer.AV1 = "decoding" \/ (viewer.AV1 = "blank" /\ u.kind \in Av1Keys)
  PROVE  Decoded(u).H264 = viewer.H264 /\ Decoded(u).AV1 = "decoding"
<1>1. viewer \in [{"H264", "AV1"} -> Decoders]
  BY DEF ViewerType
<1>2. Decoded(u) = [viewer EXCEPT !.AV1 = "decoding"]
  BY <1>1 DEF Decoded, Av1Pictures, Av1Keys
<1> QED
  BY <1>1, <1>2

LEMMA StartsQuiet ==
  ASSUME Parts, Ended, Starts,
         \/ UNCHANGED vars
         \/ PeerDown \/ StopBegin \/ StopUnbind \/ StopClose
         \/ TrackCallback \/ TrackBind \/ TrackSettle \/ TrackOpens \/ TrackCloses
  PROVE  Starts'
<1>1. UNCHANGED <<unit, viewer>>
  BY DEF vars, PeerDown, StopBegin, StopUnbind, StopClose, TrackCallback, TrackBind,
         TrackSettle, TrackOpens, TrackCloses
<1>2. /\ sender' = sender \/ sender' = [sender EXCEPT !.active = FALSE, !.delivering = FALSE]
      /\ av1' = av1 \/ av1' = [av1 EXCEPT !.active = FALSE]
  BY DEF vars, PeerDown, StopBegin, StopUnbind, StopClose, TrackCallback, TrackBind,
         TrackSettle, TrackOpens, TrackCloses, Transition, SendersEnd
<1>3. /\ sender'.config = sender.config /\ sender'.idr = sender.idr
      /\ sender'.started = sender.started /\ sender'.decodable = sender.decodable
      /\ av1'.key = av1.key /\ av1'.started = av1.started
  BY <1>2 DEF Parts, SenderType, Av1Type
<1>4. /\ session'.active => session.active
      /\ session'.active /\ sink = "bound" => sink' = "bound"
  <2>1. CASE PeerDown \/ StopBegin
    BY <2>1 DEF PeerDown, StopBegin, Transition, Parts, SessionType
  <2>2. CASE StopUnbind
    BY <2>2 DEF StopUnbind, Ended
  <2>3. CASE TrackSettle
    BY <2>3 DEF TrackSettle, Parts, SessionType
  <2>4. CASE UNCHANGED session /\ (UNCHANGED sink \/ sink' = "bound")
    BY <2>4
  <2> QED
    BY <2>1, <2>2, <2>3, <2>4
       DEF vars, StopClose, TrackCallback, TrackBind, TrackOpens, TrackCloses
<1> QED
  BY <1>1, <1>3, <1>4 DEF Starts, CachesFit, Started264, StartedAv1, NoUnit

\* Packets put together one by one.
LEMMA Together ==
  ASSUME NEW x \in Unit, NEW y \in Unit, NEW z \in Unit
  PROVE  /\ \A s \in {<<x>> \o <<>>, <<x>> \o <<y>>} :
              s # <<>> /\ s[1] = x /\ \A j \in 1..Len(s) : s[j] \in {x, y}
         /\ \A s \in {<<x>> \o <<y>> \o <<>>, <<x>> \o <<y>> \o <<z>>} :
              /\ s # <<>> /\ Len(s) >= 2 /\ s[1] = x /\ s[2] = y
              /\ \A j \in 1..Len(s) : s[j] \in {x, y, z}
<1>1. /\ <<x>> \o <<>> = <<x>>
      /\ Len(<<x>> \o <<y>>) = 2 /\ (<<x>> \o <<y>>)[1] = x /\ (<<x>> \o <<y>>)[2] = y
      /\ <<x>> \o <<y>> \in Seq(Unit)
  OBVIOUS
<1> DEFINE p == <<x>> \o <<y>>
<1>2. p \in Seq(Unit) /\ Len(p) = 2 /\ p[1] = x /\ p[2] = y
  BY <1>1
<1> HIDE DEF p
<1>3. p \o <<>> = p
  BY <1>2
<1>4. /\ Len(p \o <<z>>) = 3
      /\ (p \o <<z>>)[1] = x /\ (p \o <<z>>)[2] = y /\ (p \o <<z>>)[3] = z
  <2> DEFINE q == <<z>>
  <2>1. q \in Seq(Unit) /\ Len(q) = 1 /\ q[1] = z
    OBVIOUS
  <2> HIDE DEF q
  <2>2. /\ Len(p \o q) = 3
        /\ (p \o q)[1] = x /\ (p \o q)[2] = y /\ (p \o q)[3] = z
    <3>1. /\ Len(p \o q) = Len(p) + Len(q)
          /\ \A i \in 1..Len(p) + Len(q) :
               (p \o q)[i] = IF i <= Len(p) THEN p[i] ELSE q[i - Len(p)]
      BY <1>2, <2>1, ConcatProperties
    <3> QED
      BY <1>2, <2>1, <3>1
  <2> QED
    BY <2>2 DEF q
<1>5. p # <<>> /\ p \o <<z>> # <<>>
  <2>1. Len(<<>>) = 0
    OBVIOUS
  <2> QED
    BY <1>2, <1>4, <2>1
<1>6. \A s \in {<<x>>, p} : s # <<>> /\ s[1] = x /\ \A j \in 1..Len(s) : s[j] \in {x, y}
  <2>1. <<x>> # <<>> /\ <<x>>[1] = x /\ \A j \in 1..Len(<<x>>) : <<x>>[j] \in {x, y}
    OBVIOUS
  <2>2. \A j \in 1..Len(p) : p[j] \in {x, y}
    BY <1>2
  <2> QED
    BY <1>2, <1>5, <2>1, <2>2
<1>7. \A s \in {p, p \o <<z>>} :
        /\ s # <<>> /\ Len(s) >= 2 /\ s[1] = x /\ s[2] = y
        /\ \A j \in 1..Len(s) : s[j] \in {x, y, z}
  BY <1>2, <1>4, <1>5
<1> QED
  BY <1>1, <1>3, <1>6, <1>7 DEF p

\* What UnitAdmitted makes of a unit: configuration and keyframe in front of the first
\* picture.
LEMMA ItemsLead ==
  ASSUME Parts, CachesFit, unit.unit.kind \in H264Kinds, viewer.H264 # "broken",
         sender.started \/ sender.decodable => viewer.H264 = "decoding",
         Items(Noted(unit.unit), unit.unit) # <<>>
  PROVE  LET items == Items(Noted(unit.unit), unit.unit) IN
         OfKinds(items, H264Kinds) /\ Leads(viewer.H264, items)
<1> DEFINE u == unit.unit
           n == Noted(u)
           items == Items(n, u)
           c == n.config
           i == n.idr
<1>1. /\ c = NoUnit \/ c.kind \in {"config", "full"}
      /\ i = NoUnit \/ i.kind \in {"idr", "full"}
      /\ n.started = sender.started /\ n.decodable = sender.decodable
  BY DEF Noted, HasConfig, HasIdr, CachesFit, Parts, SenderType
<1>2. viewer.H264 \in {"blank", "configured", "decoding"}
  BY DEF Parts, ViewerType, Decoders
<1>3. u.kind \in {"config", "idr", "full", "delta"} /\ items # <<>>
  BY DEF H264Kinds
<1> HIDE DEF u, n, c, i
<1>4. CASE StartupRequired(n)
  <2>1. c # NoUnit /\ i # NoUnit
    BY <1>4 DEF StartupRequired, c, i
  <2>2. items \in {<<c>> \o <<i>> \o <<>>, <<c>> \o <<i>> \o <<u>>}
    BY <1>4, <2>1 DEF Items, Item, c, i
  <2>3. c \in Unit /\ i \in Unit /\ u \in Unit
    BY TypeItems DEF Parts, CallType, SenderType, c, i, n, u
  <2> HIDE DEF items
  <2>4. /\ items # <<>> /\ Len(items) >= 2 /\ items[1] = c /\ items[2] = i
        /\ \A j \in 1..Len(items) : items[j] \in {c, i, u}
    BY <2>2, <2>3, Together
  <2>5. OfKinds(items, H264Kinds)
    <3>1. c.kind \in H264Kinds /\ i.kind \in H264Kinds /\ u.kind \in H264Kinds
      BY <1>1, <1>3, <2>1 DEF H264Kinds
    <3> QED
      BY <2>4, <3>1 DEF OfKinds
  <2>6. Leads(viewer.H264, items)
    BY <1>1, <1>2, <2>1, <2>4 DEF Leads
  <2> QED
    BY <2>5, <2>6 DEF items, n, u
<1>5. CASE ~StartupRequired(n) /\ c # NoUnit /\ u.kind = "idr"
  <2>1. items = <<c, u>>
    BY <1>5 DEF Items, c
  <2> HIDE DEF items
  <2>2. OfKinds(items, H264Kinds)
    BY <1>1, <1>3, <1>5, <2>1 DEF OfKinds, H264Kinds
  <2>3. Leads(viewer.H264, items)
    BY <1>1, <1>2, <1>5, <2>1 DEF Leads
  <2> QED
    BY <2>2, <2>3 DEF items, n, u
<1>6. CASE ~StartupRequired(n) /\ ~(c # NoUnit /\ u.kind = "idr")
  <2>1. n.decodable /\ items = <<u>>
    BY <1>3, <1>6 DEF Items, c
  <2> HIDE DEF items
  <2>2. OfKinds(items, H264Kinds)
    BY <1>3, <2>1 DEF OfKinds, H264Kinds
  <2>3. Leads(viewer.H264, items)
    BY <1>1, <2>1 DEF Leads
  <2> QED
    BY <2>2, <2>3 DEF items, n, u
<1> QED
  BY <1>4, <1>5, <1>6

\* What Av1Admitted makes of a unit begins with a keyframe when nothing was sent yet.
LEMMA Av1ItemsLead ==
  ASSUME Parts, CachesFit, unit.unit.kind \in Av1Kinds,
         av1.started => viewer.AV1 = "decoding", Av1Ready(Av1Noted(unit.unit))
  PROVE  LET items == Av1Items(Av1Noted(unit.unit), unit.unit) IN
         /\ OfKinds(items, Av1Pictures)
         /\ viewer.AV1 = "blank" => items # <<>> /\ items[1].kind \in Av1Keys
<1> DEFINE u == unit.unit
           n == Av1Noted(u)
           items == Av1Items(n, u)
           k == n.key
<1>1. (k = NoUnit \/ k.kind \in Av1Keys) /\ n.started = av1.started
  BY DEF Av1Noted, CachesFit, Parts, Av1Type
<1>2. u.kind \in Av1Pictures \cup {"av1_config"} /\ (n.started \/ k # NoUnit)
  BY DEF Av1Kinds, Av1Ready, Av1Pictures
<1> HIDE DEF u, n, k
<1>3. CASE n.started
  <2>1. items = <<>> \o <<>> \/ (items = <<>> \o <<u>> /\ u.kind # "av1_config")
    BY <1>3 DEF Av1Items
  <2>2. items = <<>> \/ (items = <<u>> /\ u.kind # "av1_config")
    BY <2>1
  <2> HIDE DEF items
  <2>3. OfKinds(items, Av1Pictures)
    BY <1>2, <2>2 DEF OfKinds
  <2> QED
    BY <1>1, <1>3, <2>3 DEF items, n, u
<1>4. CASE ~n.started
  <2>1. k # NoUnit
    BY <1>2, <1>4
  <2>2. /\ items \in {<<k>> \o <<>>, <<k>> \o <<u>>}
        /\ u.kind \in {"av1_config", "av1_full"} => items = <<k>> \o <<>>
    BY <1>4, <2>1 DEF Av1Items, Item, k
  <2>3. k \in Unit /\ u \in Unit
    BY TypeItems DEF Parts, CallType, Av1Type, k, n, u
  <2> HIDE DEF items
  <2>4. items # <<>> /\ items[1] = k /\ \A j \in 1..Len(items) : items[j] \in {k, u}
    BY <2>2, <2>3, Together
  <2>5. OfKinds(items, Av1Pictures)
    <3>1. k.kind \in Av1Pictures
      BY <1>1, <2>1 DEF Av1Pictures, Av1Keys
    <3>2. CASE u.kind = "av1_config"
      <4>1. items = <<k>>
        BY <2>2, <3>2
      <4> QED
        BY <3>1, <4>1 DEF OfKinds
    <3>3. CASE u.kind # "av1_config"
      <4>1. u.kind \in Av1Pictures
        BY <1>2, <3>3 DEF Av1Pictures, Av1Kinds
      <4> QED
        BY <2>4, <3>1, <4>1 DEF OfKinds
    <3> QED
      BY <3>2, <3>3
  <2> QED
    BY <1>1, <2>1, <2>4, <2>5 DEF items, n, u
<1> QED
  BY <1>3, <1>4

LEMMA StartsUnit ==
  ASSUME Parts, Ended, Starts,
         (\E kind \in Kinds, again \in BOOLEAN : UnitArrives(kind, again)) \/ UnitStep
  PROVE  Starts'
<1>1. UNCHANGED <<session, sink>>
  BY Zenon DEF UnitArrives, UnitStep, UnitRefused, UnitDuplicate, UnitAdmitted, UnitRecheck,
         UnitCopy, UnitTransmit, UnitNotSendable, UnitFinish, Av1Refused, Av1Admitted,
         Av1Transmit, Av1Finish, Av1Unchanged
<1>2. /\ viewer \in ViewerType /\ unit.items \in Packets
      /\ unit.pc \in {"copy", "transmit"} => unit.items # <<>>
  BY DEF Parts, CallType, HasPackets
<1>3. IdleUnit.pc = "idle"
  BY DEF IdleUnit
<1>4. ASSUME UNCHANGED <<sender, av1, viewer>>, unit'.pc \in {"idle", "admit"}
      PROVE  Starts'
  BY <1>1, <1>4 DEF Starts, CachesFit, Started264, StartedAv1, NoUnit
<1>5. ASSUME UNCHANGED <<av1, viewer>>, unit' = IdleUnit,
             sender' = [sender EXCEPT !.delivering = FALSE]
      PROVE  Starts'
  <2>1. /\ sender'.config = sender.config /\ sender'.idr = sender.idr
        /\ sender'.started = sender.started /\ sender'.decodable = sender.decodable
    BY <1>5 DEF Parts, SenderType
  <2> QED
    BY <1>1, <1>3, <1>5, <2>1 DEF Starts, CachesFit, Started264, StartedAv1, NoUnit
<1>6. ASSUME NEW kind \in Kinds, NEW again \in BOOLEAN, UnitArrives(kind, again)
      PROVE  Starts'
  <2>1. unit'.pc = "admit"
    BY <1>6 DEF UnitArrives, IdleUnit
  <2> QED
    BY <1>4, <1>6, <2>1 DEF UnitArrives
<1>7. CASE UnitDuplicate \/ Av1Refused
  BY <1>3, <1>4, <1>7 DEF UnitDuplicate, Av1Refused, Av1Unchanged, Return
<1>8. CASE UnitRefused \/ UnitNotSendable
  BY <1>5, <1>8 DEF UnitRefused, UnitNotSendable, Return
<1>9. CASE UnitAdmitted
  <2> DEFINE n == Noted(unit.unit)
             items == Items(n, unit.unit)
  <2>1. /\ sender' = n /\ UNCHANGED <<av1, viewer>> /\ session.active
        /\ unit.unit.kind \in H264Kinds
    BY <1>9 DEF UnitAdmitted, H264Admits, Ended
  <2>2. /\ n.config = NoUnit \/ n.config.kind \in {"config", "full"}
        /\ n.idr = NoUnit \/ n.idr.kind \in {"idr", "full"}
        /\ n.started = sender.started /\ n.decodable = sender.decodable
    BY DEF Noted, HasConfig, HasIdr, Starts, CachesFit, Parts, SenderType
  <2>3. \/ unit'.pc = "idle"
        \/ unit'.pc = "recheck" /\ unit'.items = items /\ items # <<>>
    BY <1>3, <1>9 DEF UnitAdmitted, Return, Parts, CallType
  <2>4. items # <<>> => OfKinds(items, H264Kinds) /\ Leads(viewer.H264, items)
    BY <2>1, ItemsLead DEF Starts, Started264
  <2> HIDE DEF n, items
  <2>5. CachesFit'
    BY <2>1, <2>2 DEF Starts, CachesFit, NoUnit
  <2>6. Started264'
    BY <1>1, <2>1, <2>2, <2>3, <2>4 DEF Starts, Started264
  <2>7. StartedAv1'
    BY <2>1, <2>3 DEF Starts, StartedAv1
  <2> QED
    BY <2>5, <2>6, <2>7 DEF Starts
<1>10. CASE UnitRecheck
  <2>1. UNCHANGED <<sender, av1, viewer>> /\ unit.pc = "recheck" /\ unit'.items = unit.items
    BY <1>10 DEF UnitRecheck, Parts, CallType
  <2>2. unit'.pc = "mark" \/ (unit'.pc = "copy" /\ Sendable)
    BY <1>10 DEF UnitRecheck, Parts, CallType
  <2>3. Sendable => session.active /\ sink = "bound"
    BY DEF Ended, Sendable
  <2> QED
    BY <1>1, <2>1, <2>2, <2>3 DEF Starts, CachesFit, Started264, StartedAv1, NoUnit
<1>11. unit.items # <<>> =>
         LET next == NextItem(Tail(unit.items)) IN
         /\ next.items = Tail(unit.items)
         /\ next.pc = IF Tail(unit.items) = <<>> THEN "finish" ELSE "recheck"
  BY DEF NextItem, Parts, CallType
<1>12. CASE UnitCopy
  <2>1. UNCHANGED <<sender, av1, viewer>> /\ unit.pc = "copy"
    BY <1>12 DEF UnitCopy
  <2>2. CASE sink = "bound"
    <3>1. unit'.pc = "transmit" /\ unit'.items = unit.items
      BY <1>12, <2>2 DEF UnitCopy, Parts, CallType
    <3> QED
      BY <1>1, <2>1, <2>2, <3>1 DEF Starts, CachesFit, Started264, StartedAv1, NoUnit
  <2>3. CASE sink # "bound"
    <3>1. ~session.active /\ OfKinds(unit.items, H264Kinds)
      BY <2>1, <2>3 DEF Starts, Started264
    <3>2. unit'.pc \in {"finish", "recheck"} /\ unit'.items = Tail(unit.items)
      BY <1>2, <1>11, <1>12, <2>1, <2>3 DEF UnitCopy
    <3>3. OfKinds(unit'.items, H264Kinds)
      BY <1>2, <2>1, <3>1, <3>2, KindsInTail
    <3> QED
      BY <1>1, <2>1, <3>1, <3>2, <3>3 DEF Starts, CachesFit, Started264, StartedAv1, NoUnit
  <2> QED
    BY <2>2, <2>3
<1>13. CASE UnitTransmit
  <2>1. UNCHANGED <<sender, av1>> /\ unit.pc = "transmit"
    BY <1>13 DEF UnitTransmit
  <2>2. OfKinds(unit.items, H264Kinds) /\ Leads(viewer.H264, unit.items)
    BY <2>1 DEF Starts, Started264
  <2>3. CASE unit' = [unit EXCEPT !.pc = "mark"] /\ UNCHANGED viewer
    <3>1. unit'.pc = "mark" /\ unit'.items = unit.items
      BY <2>3 DEF Parts, CallType
    <3> QED
      BY <1>1, <2>1, <2>2, <2>3, <3>1 DEF Starts, CachesFit, Started264, StartedAv1, NoUnit
  <2>4. CASE /\ viewer' = Decoded(Head(unit.items))
             /\ unit' = NextItem(Tail(unit.items))
    <3> DEFINE rest == Tail(unit.items)
               seen == Decoded(Head(unit.items))
    <3>1. viewer' = seen /\ unit' = NextItem(rest)
      BY <2>4
    <3>2. unit'.items = rest /\ unit'.pc = IF rest = <<>> THEN "finish" ELSE "recheck"
      BY <1>2, <1>11, <2>1, <3>1
    <3>3. OfKinds(rest, H264Kinds)
      BY <1>2, <2>1, <2>2, KindsInTail
    <3>4. /\ seen.AV1 = viewer.AV1 /\ seen.H264 # "broken"
          /\ viewer.H264 = "decoding" => seen.H264 = "decoding"
          /\ seen.H264 = "decoding" \/ (rest # <<>> /\ Leads(seen.H264, rest))
      BY <1>2, <2>1, <2>2, LeadsOn
    <3> HIDE DEF rest, seen
    <3>5. CachesFit'
      BY <2>1 DEF Starts, CachesFit, NoUnit
    <3>6. Leads(seen.H264, rest) /\ (unit'.pc = "finish" => seen.H264 = "decoding")
      BY <3>2, <3>4 DEF Leads
    <3>7. Started264'
      BY <1>1, <2>1, <3>1, <3>2, <3>3, <3>4, <3>6 DEF Starts, Started264
    <3>8. StartedAv1'
      BY <2>1, <3>1, <3>2, <3>4 DEF Starts, StartedAv1
    <3> QED
      BY <3>5, <3>7, <3>8 DEF Starts
  <2> QED
    BY <1>13, <2>3, <2>4 DEF UnitTransmit
<1>14. CASE UnitFinish
  <2>1. /\ UNCHANGED <<av1, viewer>> /\ unit' = IdleUnit /\ unit.pc = "finish"
        /\ sender'.config = sender.config /\ sender'.idr = sender.idr
    BY <1>14 DEF UnitFinish, Return, Parts, SenderType
  <2>2. session.active => viewer.H264 = "decoding"
    BY <2>1 DEF Starts, Started264
  <2> QED
    BY <1>1, <1>3, <2>1, <2>2 DEF Starts, CachesFit, Started264, StartedAv1, NoUnit
<1>15. CASE Av1Admitted
  <2> DEFINE n == Av1Noted(unit.unit)
             items == Av1Items(n, unit.unit)
  <2>1. av1' = n /\ UNCHANGED <<sender, viewer>> /\ unit.unit.kind \in Av1Kinds
    BY <1>15 DEF Av1Admitted, Av1Admits, Av1Unchanged
  <2>2. (n.key = NoUnit \/ n.key.kind \in Av1Keys) /\ n.started = av1.started
    BY DEF Av1Noted, Starts, CachesFit, Parts, Av1Type
  <2>3. \/ unit'.pc = "idle"
        \/ unit'.pc = "av1_send" /\ unit'.items = items /\ Av1Ready(n)
    BY <1>3, <1>15 DEF Av1Admitted, Return, Parts, CallType
  <2>4. Av1Ready(n) =>
          /\ OfKinds(items, Av1Pictures)
          /\ viewer.AV1 = "blank" => items # <<>> /\ items[1].kind \in Av1Keys
    BY <2>1, Av1ItemsLead DEF Starts, StartedAv1
  <2> HIDE DEF n, items
  <2> QED
    BY <1>1, <2>1, <2>2, <2>3, <2>4 DEF Starts, CachesFit, Started264, StartedAv1, NoUnit
<1>16. CASE Av1Transmit
  <2>1. UNCHANGED <<sender, av1>> /\ unit.pc = "av1_send" /\ unit.items # <<>>
    BY <1>16 DEF Av1Transmit, Av1Unchanged, Av1Sending
  <2>2. CASE unit' = IdleUnit /\ UNCHANGED viewer
    BY <1>3, <1>4, <2>1, <2>2
  <2>3. CASE /\ viewer' = Decoded(Head(unit.items))
             /\ unit' = [unit EXCEPT !.items = Tail(@)]
    <3> DEFINE rest == Tail(unit.items)
               seen == Decoded(Head(unit.items))
    <3>1. viewer' = seen /\ unit'.items = rest /\ unit'.pc = "av1_send"
      BY <2>1, <2>3 DEF Parts, CallType
    <3>2. /\ OfKinds(unit.items, Av1Pictures)
          /\ \/ viewer.AV1 = "decoding"
             \/ viewer.AV1 = "blank" /\ unit.items[1].kind \in Av1Keys
      BY <2>1 DEF Starts, StartedAv1
    <3>3. /\ OfKinds(rest, Av1Pictures)
          /\ Head(unit.items).kind \in Av1Pictures
      BY <1>2, <2>1, <3>2, KindsInTail
    <3>4. Head(unit.items) = unit.items[1]
      BY <1>2, <2>1 DEF Packets
    <3>5. seen.H264 = viewer.H264 /\ seen.AV1 = "decoding"
      BY <1>2, <3>2, <3>3, <3>4, Av1Decoded
    <3> HIDE DEF rest, seen
    <3> QED
      BY <1>1, <2>1, <3>1, <3>3, <3>5 DEF Starts, CachesFit, Started264, StartedAv1, NoUnit
  <2> QED
    BY <1>16, <2>2, <2>3 DEF Av1Transmit, Return
<1>17. CASE Av1Finish
  <2>1. /\ UNCHANGED <<sender, viewer>> /\ unit' = IdleUnit
        /\ unit.pc = "av1_send" /\ unit.items = <<>> /\ av1'.key = av1.key
    BY <1>17 DEF Av1Finish, Av1Sending, Av1Unchanged, Return, Parts, Av1Type
  <2>2. viewer.AV1 = "decoding"
    BY <2>1 DEF Starts, StartedAv1
  <2> QED
    BY <1>1, <1>3, <2>1, <2>2 DEF Starts, CachesFit, Started264, StartedAv1, NoUnit
<1> QED
  BY <1>6, <1>7, <1>8, <1>9, <1>10, <1>12, <1>13, <1>14, <1>15, <1>16, <1>17 DEF UnitStep

-----------------------------------------------------------------------------
SessionInv == Parts /\ TracksOffered /\ Ended /\ Starts

LEMMA SessionInit == Init => SessionInv
<1> USE DEF SessionInv
<1> SUFFICES ASSUME Init PROVE TracksOffered /\ Ended /\ Starts
  BY PartsInit
<1>1. TracksOffered /\ Ended
  BY DEF Init, IdleUnit, TracksOffered, Ended, Av1Sending
<1>2. Starts
  BY DEF Init, IdleUnit, NoUnit, Starts, CachesFit, Started264, StartedAv1
<1> QED
  BY <1>1, <1>2

LEMMA SessionInductive == SessionInv /\ [Next]_vars => SessionInv'
<1> USE DEF SessionInv
<1> SUFFICES ASSUME Parts, TracksOffered, Ended, Starts, [Next]_vars
             PROVE  Parts' /\ TracksOffered' /\ Ended' /\ Starts'
  OBVIOUS
<1>1. CASE \/ UNCHANGED vars
           \/ PeerDown \/ StopBegin \/ StopUnbind \/ StopClose
           \/ TrackCallback \/ TrackBind \/ TrackSettle \/ TrackOpens \/ TrackCloses
  BY Zenon, <1>1, PartsQuiet, EndedQuiet, StartsQuiet
<1>2. CASE (\E kind \in Kinds, again \in BOOLEAN : UnitArrives(kind, again)) \/ UnitStep
  <2>1. ASSUME unit.pc \in {"transmit", "av1_send"}, unit.items # <<>>
        PROVE  Head(unit.items).kind \in H264Kinds \cup Av1Kinds
    <3>1. /\ unit.pc = "transmit" => OfKinds(unit.items, H264Kinds)
          /\ unit.pc = "av1_send" => OfKinds(unit.items, Av1Pictures)
      BY DEF Starts, Started264, StartedAv1
    <3>2. unit.items \in Packets
      BY DEF Parts, CallType
    <3> QED
      BY <2>1, <3>1, <3>2, KindsInTail DEF Av1Kinds, Av1Pictures
  <2> QED
    BY Zenon, <1>2, <2>1, PartsUnit, EndedUnit, StartsUnit
<1> QED
  BY Zenon, <1>1, <1>2 DEF Next

\* The session's state stays what the senders, the sink and the callbacks take it for,
\* whatever units and tracks come (webrtc_stream.cpp, WebRtcStreamSession).
THEOREM SessionTypeCorrect == Spec => []TypeOK
<1>1. SessionInv => TypeOK
  BY TypeInParts DEF SessionInv
<1> QED
  BY <1>1, SessionInit, SessionInductive, PTL DEF Spec

\* A viewer's H.264 begins with configuration and keyframe and its AV1 with a
\* keyframe: H264EncodedVideoSender and Av1EncodedVideoSender believe a viewer started
\* only when it got them, wherever a send fails, with the track closed or open, and
\* whatever unit goes out after that.
THEOREM StartsWithAPicture == Spec => []StartsDecodable
<1>1. SessionInv => StartsDecodable
  BY DEF SessionInv, Starts, Started264, StartedAv1, StartsDecodable
<1> QED
  BY <1>1, SessionInit, SessionInductive, PTL DEF Spec

\* After transition_to_inactive_locked at most the packet already under way goes out,
\* and no sender and no track is kept, though onTrack may bind one meanwhile.
THEOREM SessionStaysEnded == Spec => []AfterTheEnd
<1>1. SessionInv => AfterTheEnd
  BY DEF SessionInv, Parts, SessionType, Ended, AfterTheEnd
<1> QED
  BY <1>1, SessionInit, SessionInductive, PTL DEF Spec

\* However often the peer's state changes and whenever stop() comes, one disconnect is
\* counted (transition_to_inactive_locked).
THEOREM OneDisconnect == Spec => []DisconnectCountedOnce
<1>1. SessionInv => DisconnectCountedOnce
  BY DEF SessionInv, Ended, DisconnectCountedOnce
<1> QED
  BY <1>1, SessionInit, SessionInductive, PTL DEF Spec
=============================================================================
