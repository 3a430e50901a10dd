----------------------------- MODULE SignalingProofs -----------------------------
(***************************************************************************)
(* The viewers' places for any number of streams, limits, offers and       *)
(* registrations: what the signaling server's state holds, that a removal  *)
(* or a stop ends the sessions it found, the limit of viewers, and that a  *)
(* viewer keeps its place.  Last, that every step of it is one that the    *)
(* contract with the viewers, ViewerPlaces, allows, or shows nothing.      *)
(***************************************************************************)
EXTENDS Signaling, FiniteSetTheorems, TLAPS

-----------------------------------------------------------------------------
(* The inductive invariant.                                                *)

Recipient == [gen : 1..MaxOffers, session : Sessions]
SlotType == [present : BOOLEAN, next : 0..MaxOffers, queue : 0..MaxPending,
             recipients : SUBSET Recipient]
RegistrationType == [life : 0..MaxRegistrations, max : Limits \cup {0}]
SessionType == [stream : Streams \cup {None}, life : 0..MaxRegistrations,
                crossed : BOOLEAN, active : BOOLEAN, open : BOOLEAN]
HttpPlaces == {"idle", "limit", "reserve", "apply", "insert", "replace", "remote", "crashed"}
HttpType == [pc : HttpPlaces, stream : Streams \cup {None}, life : 0..MaxRegistrations,
             crossed : BOOLEAN, max : Nat, gen : 0..MaxOffers, inHand : 0..MaxPending,
             session : 0..MaxOffers, previous : SUBSET Sessions]
AppType == [pc : {"idle", "removing", "closing", "joining"}, stream : Streams \cup {None},
            stopping : SUBSET Sessions]

Types ==
  /\ registry \in [Streams -> RegistrationType] /\ lives \in 0..MaxRegistrations
  /\ slot \in [Streams -> SlotType] /\ session \in [Sessions -> SessionType]
  /\ offers \in 0..MaxOffers /\ http \in HttpType /\ app \in AppType
  /\ doomed \subseteq Sessions /\ serving \in BOOLEAN

\* An offer that is being handled has a stream and, later, a generation and a session,
\* and nothing refers to a session that is not made yet.
Made ==
  /\ http.pc \in {"limit", "reserve", "apply", "insert"} => http.stream \in Streams
  /\ http.pc \in {"limit", "reserve", "apply"} => offers < MaxOffers
  /\ http.pc \in {"apply", "insert"} => http.gen >= 1
  /\ http.pc = "insert" => http.session >= 1
  /\ http.session <= offers
  /\ \A s \in Streams :
       /\ slot[s].next <= IF http.pc = "apply" THEN offers + 1 ELSE offers
       /\ \A r \in slot[s].recipients : r.session <= offers
  /\ \A n \in Sessions : session[n].active => session[n].open

\* Who was taken out of a slot is stopped, or is about to be.
Ends ==
  /\ app.pc \in {"idle", "joining"} => app.stopping = {}
  /\ \A n \in doomed : n <= offers /\ (n \in app.stopping \/ ~session[n].active)

Connected(s) == {r \in Current(s) : session[r.session].active}

\* Registrations are numbered and nothing belongs to one that is still to come.
Numbered ==
  /\ \A s \in Streams : /\ registry[s].life <= lives
                        /\ registry[s].life # None => registry[s].max \in Limits
  /\ \A n \in Sessions : session[n].life <= lives
  /\ http.pc \in {"limit", "reserve", "apply", "insert"} => http.life \in 1..lives
  /\ http.pc = "insert" => session[http.session].life = http.life

\* The offer that is being handled is for s, and was made under the registration in force.
Timely(s) == http.stream = s /\ http.life = registry[s].life

\* Such an offer has the limit in force, and a place until it is taken: requests are
\* handled one at a time and whatever else happens to the slot makes room.
LimitInForce ==
  \A s \in Streams :
    http.pc \in {"reserve", "apply", "insert"} /\ Timely(s) => http.max = registry[s].max
PlaceLeft ==
  \A s \in Streams :
    http.pc \in {"apply", "insert"} /\ Timely(s) /\ http.max # 1 =>
      Cardinality(Connected(s)) < http.max
Within == \A s \in Streams : Present(s) => Cardinality(Connected(s)) <= registry[s].max

Room == LimitInForce /\ PlaceLeft /\ Within

Basics == Types /\ Made /\ Ends /\ Numbered

SignalingInv == Basics /\ Room

-----------------------------------------------------------------------------
(* Slots and sets of recipients.                                           *)

LEMMA FiniteRecipients == IsFiniteSet(Recipient)
<1> DEFINE f == [r \in Recipient |-> <<r.gen, r.session>>]
           N == 1..MaxOffers
<1>1. IsFiniteSet(N \X N)
  <2>1. IsFiniteSet(N)
    BY SignalingAssumption, FS_Interval DEF SignalingAssumption
  <2> HIDE DEF N
  <2> QED
    BY <2>1, FS_Product
<1>2. f \in [Recipient -> N \X N]
  BY DEF Recipient, Sessions
<1>3. ASSUME NEW a \in Recipient, NEW b \in Recipient, f[a] = f[b]
      PROVE  a = b
  BY <1>3 DEF Recipient
<1>4. f \in Injection(Recipient, N \X N)
  BY <1>2, <1>3 DEF Injection, IsInjective
<1> HIDE DEF f, N
<1> QED
  BY <1>1, <1>4, FS_Injection

LEMMA PrunedSlot ==
  ASSUME NEW sl \in SlotType
  PROVE  /\ Pruned(sl) \in SlotType /\ Pruned(sl).next = sl.next /\ Pruned(sl).queue = sl.queue
         /\ Pruned(sl).recipients = {r \in sl.recipients : session[r.session].active}
  BY DEF Pruned, SlotType

LEMMA KnownSlot ==
  ASSUME Types, NEW s \in Streams
  PROVE  /\ slot[s] \in SlotType /\ SlotOf(s) \in SlotType
         /\ SlotOf(s).recipients \subseteq slot[s].recipients /\ SlotOf(s).next <= slot[s].next
<1>1. EmptySlot \in SlotType /\ EmptySlot.next = 0 /\ EmptySlot.recipients = {}
  <2>1. 0 \in 0..MaxOffers /\ 0 \in 0..MaxPending
    BY SignalingAssumption DEF SignalingAssumption
  <2>2. NoSlot \in SlotType /\ NoSlot.next = 0 /\ NoSlot.recipients = {}
    BY <2>1 DEF NoSlot, SlotType
  <2> QED
    BY <2>2 DEF EmptySlot, SlotType
<1>2. slot[s] \in SlotType /\ slot[s].next \in Nat
  BY SignalingAssumption DEF SignalingAssumption, Types, SlotType
<1> QED
  BY <1>1, <1>2 DEF SlotOf

\* Nobody joins a stream and nobody comes back to life.
Shrinks(s) ==
  \A r \in slot'[s].recipients :
    /\ r \in slot[s].recipients
    /\ session'[r.session].life = session[r.session].life
    /\ session'[r.session].active => session[r.session].active

LEMMA FiniteConnected ==
  ASSUME Types, NEW s \in Streams
  PROVE  /\ IsFiniteSet(Connected(s)) /\ Cardinality(Connected(s)) \in Nat
         /\ IsFiniteSet(slot[s].recipients)
<1>1. Connected(s) \in SUBSET Recipient /\ slot[s].recipients \in SUBSET Recipient
  BY DEF Connected, Current, Types, SlotType
<1> QED
  BY <1>1, FiniteRecipients, FS_Subset, FS_CardinalityType

LEMMA FewerConnected ==
  ASSUME Types, NEW s \in Streams, registry'[s] = registry[s], Shrinks(s)
  PROVE  /\ Connected(s)' \subseteq Connected(s)
         /\ Cardinality(Connected(s)') <= Cardinality(Connected(s))
         /\ Cardinality(Connected(s)') \in Nat
<1>1. Connected(s)' \in SUBSET Connected(s)
  BY DEF Connected, Current, Shrinks
<1> QED
  BY <1>1, FiniteConnected, FS_Subset, FS_CardinalityType

LEMMA LimitNat ==
  ASSUME Types, NEW s \in Streams
  PROVE  registry[s].max \in Nat
<1>1. registry[s].max = 0 \/ registry[s].max \in Limits
  BY DEF Types, RegistrationType
<1>2. \A max \in Limits : max \in Nat
  BY SignalingAssumption DEF SignalingAssumption
<1> QED
  BY <1>1, <1>2

LEMMA RoomKept ==
  ASSUME Types, Types', Room, registry' = registry, \A s \in Streams : Shrinks(s),
         http'.pc \in {"reserve", "apply", "insert"} =>
           /\ http.pc \in {"reserve", "apply", "insert"}
           /\ http'.stream = http.stream /\ http'.life = http.life /\ http'.max = http.max,
         http'.pc \in {"apply", "insert"} => http.pc \in {"apply", "insert"}
  PROVE  Room'
<1>1. LimitInForce'
  BY DEF Room, LimitInForce, Timely
<1>2. \A s \in Streams : /\ Cardinality(Connected(s)') <= Cardinality(Connected(s))
                         /\ Cardinality(Connected(s)) \in Nat
                         /\ Cardinality(Connected(s)') \in Nat
  BY FewerConnected, FiniteConnected
<1>3. PlaceLeft'
  <2> SUFFICES ASSUME NEW s \in Streams, http'.pc \in {"apply", "insert"}, Timely(s)',
                      http'.max # 1
               PROVE  Cardinality(Connected(s)') < http'.max
    BY DEF PlaceLeft
  <2>1. http'.max = http.max /\ http.pc \in {"apply", "insert"} /\ Timely(s)
    BY DEF Timely
  <2>2. Cardinality(Connected(s)) < http.max /\ http.max \in Nat
    BY <2>1 DEF Room, PlaceLeft, Types, HttpType
  <2> QED
    BY <1>2, <2>1, <2>2
<1>4. Within'
  <2> SUFFICES ASSUME NEW s \in Streams, Present(s)
               PROVE  Cardinality(Connected(s)') <= registry[s].max
    BY DEF Within, Present
  <2>1. Cardinality(Connected(s)) <= registry[s].max /\ registry[s].max \in Nat
    BY LimitNat DEF Room, Within
  <2> QED
    BY <1>2, <2>1
<1> QED
  BY <1>1, <1>3, <1>4 DEF Room

-----------------------------------------------------------------------------
(* Types.                                                                  *)

LEMMA IdleTypes ==
  /\ IdleHttp \in HttpType /\ IdleHttp.pc = "idle" /\ IdleHttp.session = 0
  /\ [IdleHttp EXCEPT !.pc = "crashed"] \in HttpType
  /\ IdleApp \in AppType /\ IdleApp.pc = "idle" /\ IdleApp.stopping = {}
  /\ NoSlot \in SlotType /\ NoSlot.recipients = {} /\ NoSlot.next = 0
  /\ NoSession \in SessionType /\ ~NoSession.active /\ NoSession.life = 0
<1>1. /\ 0 \in 0..MaxOffers /\ 0 \in 0..MaxPending /\ 0 \in 0..MaxRegistrations
  BY SignalingAssumption DEF SignalingAssumption
<1>2. IdleHttp \in HttpType /\ IdleHttp.pc = "idle" /\ IdleHttp.session = 0
  BY <1>1 DEF IdleHttp, HttpType, HttpPlaces, None
<1>3. [IdleHttp EXCEPT !.pc = "crashed"] \in HttpType
  BY <1>2 DEF HttpType, HttpPlaces
<1>4. IdleApp \in AppType /\ IdleApp.pc = "idle" /\ IdleApp.stopping = {}
  BY DEF IdleApp, AppType
<1>5. NoSlot \in SlotType /\ NoSlot.recipients = {} /\ NoSlot.next = 0
  BY <1>1 DEF NoSlot, SlotType
<1>6. NoSession \in SessionType /\ ~NoSession.active /\ NoSession.life = 0
  BY <1>1 DEF NoSession, SessionType, None
<1> QED
  BY <1>2, <1>3, <1>4, <1>5, <1>6

LEMMA StoppedSessions ==
  ASSUME Types, NEW n \in Sessions
  PROVE  /\ Stopped(n) \in [Sessions -> SessionType]
         /\ ~Stopped(n)[n].active
         /\ \A m \in Sessions :
              /\ Stopped(n)[m].life = session[m].life
              /\ Stopped(n)[m].active => session[m].active /\ m # n
              /\ m # n => Stopped(n)[m] = session[m]
<1>1. /\ session \in [Sessions -> SessionType]
      /\ Stopped(n) = [session EXCEPT ![n] = [session[n] EXCEPT !.active = FALSE,
                                                                !.open = FALSE]]
  BY DEF Types, Stopped
<1>2. [session[n] EXCEPT !.active = FALSE, !.open = FALSE] \in SessionType
  BY <1>1 DEF SessionType
<1>3. Stopped(n) \in [Sessions -> SessionType]
  BY <1>1, <1>2
<1>4. /\ Stopped(n)[n].active = FALSE /\ Stopped(n)[n].life = session[n].life
      /\ \A m \in Sessions : m # n => Stopped(n)[m] = session[m]
  BY <1>1 DEF SessionType
<1> QED
  BY <1>3, <1>4

\* The requests' steps that touch nothing but the request.
LEMMA TypesHttp ==
  ASSUME Types, Made,
         (\E s \in Streams : OfferBegin(s)) \/ OfferLimit \/ OfferCandidate \/ OfferEnd
           \/ RemoteApply
  PROVE  http' \in HttpType
<1>1. http \in HttpType
  BY DEF Types
<1>2. ASSUME NEW s \in Streams, OfferBegin(s) PROVE http' \in HttpType
  <2>1. registry[s].life \in 0..MaxRegistrations
    BY DEF Types, RegistrationType
  <2> QED
    BY <1>2, <2>1, IdleTypes DEF OfferBegin, HttpType, HttpPlaces
<1>3. CASE OfferLimit
  <2>1. http.stream \in Streams
    BY <1>3 DEF OfferLimit, Made
  <2> DEFINE max == IF Present(http.stream) THEN registry[http.stream].max ELSE 1
  <2>2. max \in Nat
    BY <2>1, LimitNat
  <2>3. http' = [http EXCEPT !.pc = "reserve", !.max = max]
    BY <1>3 DEF OfferLimit
  <2> HIDE DEF max
  <2> QED
    BY <1>1, <2>2, <2>3 DEF HttpType, HttpPlaces
<1>4. CASE OfferCandidate
  <2>1. http.inHand \in 0..MaxPending /\ http.inHand > 0
    BY <1>1, <1>4 DEF OfferCandidate, HttpType
  <2>2. http.inHand - 1 \in 0..MaxPending
    BY <2>1, SignalingAssumption DEF SignalingAssumption
  <2>3. \/ http' = [http EXCEPT !.inHand = http.inHand - 1]
        \/ http' = [IdleHttp EXCEPT !.pc = "crashed"]
    BY <1>4 DEF OfferCandidate, CallPeer
  <2> QED
    BY <1>1, <2>2, <2>3, IdleTypes DEF HttpType
<1>5. CASE OfferEnd \/ RemoteApply
  BY <1>5, IdleTypes DEF OfferEnd, RemoteApply, CallPeer
<1> QED
  BY <1>2, <1>3, <1>4, <1>5

\* A slot that loses recipients or keeps them.
LEMMA SlotShrinks ==
  ASSUME Types, NEW s \in Streams, NEW sl \in SlotType,
         sl.recipients \subseteq slot[s].recipients,
         slot' = [slot EXCEPT ![s] = sl], session' = session
  PROVE  /\ slot' \in [Streams -> SlotType] /\ slot'[s] = sl
         /\ \A t \in Streams : Shrinks(t) /\ (t # s => slot'[t] = slot[t])
  BY DEF Types, Shrinks

-----------------------------------------------------------------------------
(* The offer, step by step.                                                *)

LEMMA HttpStepKeeps ==
  ASSUME Basics, Room,
         (\E s \in Streams : OfferBegin(s)) \/ OfferCandidate \/ OfferEnd \/ RemoteApply
  PROVE  Basics' /\ Room'
<1> USE DEF Basics
<1>1. /\ UNCHANGED <<registry, lives, slot, session, offers, app, doomed, serving>>
  BY DEF OfferBegin, OfferCandidate, OfferEnd, RemoteApply
<1>2. Types'
  BY <1>1, TypesHttp DEF Types
<1>3. http'.pc \notin {"reserve", "apply", "insert"} /\ http.pc # "apply"
  <2>1. ASSUME NEW s \in Streams, OfferBegin(s)
        PROVE  http'.pc = "limit" /\ http.pc = "idle"
    BY <2>1 DEF OfferBegin, IdleHttp
  <2>2. CASE OfferEnd \/ RemoteApply
    BY <2>2 DEF OfferEnd, RemoteApply, CallPeer, IdleHttp
  <2>3. CASE OfferCandidate
    <3>1. \/ http' = [http EXCEPT !.inHand = http.inHand - 1]
          \/ http' = [IdleHttp EXCEPT !.pc = "crashed"]
      BY <2>3 DEF OfferCandidate, CallPeer
    <3>2. http'.pc \in {"replace", "crashed"}
      BY <2>3, <3>1 DEF OfferCandidate, Types, HttpType, IdleHttp
    <3> QED
      BY <2>3, <3>2 DEF OfferCandidate
  <2> QED
    BY <2>1, <2>2, <2>3
<1>4. http'.session <= offers
  <2>1. http.session <= offers /\ 0 <= offers
    BY DEF Made, Types
  <2>2. ASSUME NEW s \in Streams, OfferBegin(s)
        PROVE  http'.session = 0
    BY <2>2 DEF OfferBegin, IdleHttp, None
  <2>3. CASE OfferEnd \/ RemoteApply
    BY <2>1, <2>3 DEF OfferEnd, RemoteApply, CallPeer, IdleHttp, None
  <2>4. CASE OfferCandidate
    <3>1. \/ http' = [http EXCEPT !.inHand = http.inHand - 1]
          \/ http' = [IdleHttp EXCEPT !.pc = "crashed"]
      BY <2>4 DEF OfferCandidate, CallPeer
    <3> QED
      BY <2>1, <3>1 DEF Types, HttpType, IdleHttp, None
  <2> QED
    BY <2>1, <2>2, <2>3, <2>4
<1>5. http'.pc = "limit" => /\ http'.stream \in Streams /\ offers < MaxOffers
                            /\ http'.life \in 1..lives
  <2>1. ASSUME NEW s \in Streams, OfferBegin(s)
        PROVE  http'.stream \in Streams /\ offers < MaxOffers /\ http'.life \in 1..lives
    <3>1. http'.stream = s /\ http'.life = registry[s].life
      BY <2>1 DEF OfferBegin, IdleHttp
    <3>2. registry[s].life \in 0..MaxRegistrations /\ registry[s].life <= lives
      BY DEF Numbered, Types, RegistrationType
    <3>3. registry[s].life # 0 /\ offers < MaxOffers
      BY <2>1 DEF OfferBegin, Present, None
    <3>4. registry[s].life \in 1..lives
      BY <3>2, <3>3 DEF Types
    <3> QED
      BY <3>1, <3>3, <3>4
  <2>2. ASSUME OfferCandidate \/ OfferEnd \/ RemoteApply
        PROVE  http'.pc # "limit"
    BY <2>2, IdleTypes
       DEF OfferCandidate, OfferEnd, RemoteApply, CallPeer, IdleHttp, Types, HttpType
  <2> QED
    BY <2>1, <2>2
<1>6. Made' /\ Ends' /\ Numbered'
  BY <1>1, <1>3, <1>4, <1>5 DEF Made, Ends, Numbered
<1>7. Room'
  BY <1>1, <1>2, <1>3, RoomKept DEF Shrinks
<1> QED
  BY <1>2, <1>6, <1>7

LEMMA LimitKeeps ==
  ASSUME Basics, Room, OfferLimit
  PROVE  Basics' /\ Room'
<1> USE DEF Basics
<1>1. /\ UNCHANGED <<registry, lives, slot, session, offers, app, doomed, serving>>
      /\ http.pc = "limit"
  BY DEF OfferLimit
<1>2. Types'
  BY <1>1, TypesHttp DEF Types
<1>3. /\ http'.pc = "reserve" /\ http'.stream = http.stream /\ http'.life = http.life
      /\ http'.session = http.session
      /\ http'.max = IF Present(http.stream) THEN registry[http.stream].max ELSE 1
  BY DEF OfferLimit, Types, HttpType
<1>4. Made' /\ Ends' /\ Numbered'
  BY <1>1, <1>3 DEF Made, Ends, Numbered
<1>5. LimitInForce'
  BY <1>1, <1>3 DEF Numbered, LimitInForce, Timely, Present, None
<1>6. PlaceLeft'
  BY <1>3 DEF PlaceLeft
<1>7. Within'
  BY <1>1 DEF Room, Within, Present, Connected, Current
<1> QED
  BY <1>2, <1>4, <1>5, <1>6, <1>7 DEF Room

LEMMA ReserveKeeps ==
  ASSUME Basics, Room, OfferReserve
  PROVE  Basics' /\ Room'
<1> USE DEF Basics
<1>0. PICK s \in Streams : s = http.stream
  BY DEF OfferReserve, Made
<1> DEFINE sl == Pruned(SlotOf(s))
<1>1. /\ UNCHANGED <<registry, lives, session, offers, app, doomed, serving>>
      /\ http.pc = "reserve" /\ offers < MaxOffers
  BY DEF OfferReserve, Made
<1>2. /\ sl \in SlotType /\ sl.recipients \subseteq slot[s].recipients
      /\ \A r \in sl.recipients : session[r.session].active
      /\ sl.next <= offers /\ sl.next \in Nat /\ sl.queue \in 0..MaxPending
  <2>1. SlotOf(s) \in SlotType /\ SlotOf(s).recipients \subseteq slot[s].recipients
        /\ SlotOf(s).next <= slot[s].next /\ slot[s] \in SlotType
    BY KnownSlot
  <2>2. /\ sl \in SlotType /\ sl.next = SlotOf(s).next
        /\ sl.recipients = {r \in SlotOf(s).recipients : session[r.session].active}
    BY <2>1, PrunedSlot
  <2> HIDE DEF sl
  <2>3. slot[s].next <= offers /\ offers \in Nat
    BY <1>1 DEF Made, Types
  <2>4. sl.next \in Nat /\ slot[s].next \in Nat /\ sl.queue \in 0..MaxPending
    BY <2>1, <2>2 DEF SlotType
  <2> QED
    BY <2>1, <2>2, <2>3, <2>4
<1>3. CASE Full(sl, http.max) /\ slot' = [slot EXCEPT ![s] = sl] /\ http' = IdleHttp
  <2> HIDE DEF sl
  <2>1. /\ slot' \in [Streams -> SlotType] /\ slot'[s] = sl
        /\ \A t \in Streams : Shrinks(t) /\ (t # s => slot'[t] = slot[t])
    BY <1>1, <1>2, <1>3, SlotShrinks
  <2>2. Types'
    BY <1>1, <1>3, <2>1, IdleTypes DEF Types
  <2>3. Made'
    BY <1>1, <1>2, <1>3, <2>1, IdleTypes DEF Made, Types
  <2>4. Ends' /\ Numbered'
    BY <1>1, <1>3, IdleTypes DEF Ends, Numbered
  <2>5. Room'
    BY <1>1, <1>3, <2>1, <2>2, RoomKept, IdleTypes
  <2> QED
    BY <2>2, <2>3, <2>4, <2>5
<1>4. CASE /\ ~Full(sl, http.max)
           /\ slot' = [slot EXCEPT ![s] = [sl EXCEPT !.next = Generation(sl), !.queue = 0]]
           /\ http' = [http EXCEPT !.pc = "apply", !.gen = Generation(sl),
                                   !.inHand = sl.queue]
  <2> DEFINE gen == Generation(sl)
             new == [sl EXCEPT !.next = gen, !.queue = 0]
  <2> HIDE DEF sl
  <2>1. gen = sl.next + 1 /\ gen \in 0..MaxOffers /\ gen >= 1
    BY <1>1, <1>2, SignalingAssumption DEF Generation, SignalingAssumption, Types
  <2>2. 0 \in 0..MaxPending
    BY SignalingAssumption DEF SignalingAssumption
  <2>3. slot' = [slot EXCEPT ![s] = new]
    BY <1>4
  <2>4. http' = [http EXCEPT !.pc = "apply", !.gen = gen, !.inHand = sl.queue]
    BY <1>4
  <2> HIDE DEF gen
  <2>5. new \in SlotType /\ new.recipients = sl.recipients /\ new.next = gen
    BY <1>2, <2>1, <2>2 DEF SlotType
  <2> HIDE DEF new
  <2>6. /\ slot' \in [Streams -> SlotType] /\ slot'[s] = new
        /\ \A t \in Streams : Shrinks(t) /\ (t # s => slot'[t] = slot[t])
    BY <1>1, <1>2, <2>3, <2>5, SlotShrinks
  <2>7. /\ http' \in HttpType /\ http'.pc = "apply" /\ http'.gen = gen
        /\ http'.stream = s /\ http'.life = http.life /\ http'.max = http.max
        /\ http'.session = http.session
    BY <1>0, <1>2, <2>1, <2>4 DEF Types, HttpType, HttpPlaces
  <2>8. Types'
    BY <1>1, <2>6, <2>7 DEF Types
  <2>9. Made'
    <3>1. \A t \in Streams : /\ slot'[t].next <= offers + 1
                             /\ \A r \in slot'[t].recipients : r.session <= offers
      <4>1. \A t \in Streams : /\ slot[t].next <= offers /\ slot[t].next \in Nat
                               /\ \A r \in slot[t].recipients : r.session <= offers
        BY <1>1 DEF Made, Types, SlotType
      <4>2. offers \in Nat
        BY DEF Types
      <4> QED
        BY <1>2, <2>1, <2>5, <2>6, <4>1, <4>2
    <3> QED
      BY <1>1, <2>1, <2>7, <3>1 DEF Made
  <2>10. Ends' /\ Numbered'
    BY <1>1, <2>7 DEF Ends, Numbered
  <2>11. LimitInForce'
    BY <1>1, <2>7, <1>0 DEF Room, LimitInForce, Timely
  <2>12. \A t \in Streams : /\ Cardinality(Connected(t)') <= Cardinality(Connected(t))
                            /\ Cardinality(Connected(t)) \in Nat
                            /\ Cardinality(Connected(t)') \in Nat
    BY <1>1, <2>6, FewerConnected, FiniteConnected
  <2>13. Within'
    BY <1>1, <2>12, LimitNat DEF Room, Within, Present
  <2>14. PlaceLeft'
    <3> SUFFICES ASSUME http.max # 1
                 PROVE  Cardinality(Connected(s)') < http.max
      BY <2>7 DEF PlaceLeft, Timely
    <3>1. Cardinality(sl.recipients) < http.max
      <4>1. IsFiniteSet(sl.recipients)
        BY <1>2, FiniteConnected, FS_Subset
      <4>2. Cardinality(sl.recipients) \in Nat /\ http.max \in Nat
        BY <4>1, FS_CardinalityType DEF Types, HttpType
      <4> QED
        BY <1>4, <4>2 DEF Full
    <3>2. Connected(s)' \in SUBSET sl.recipients
      BY <2>5, <2>6 DEF Connected, Current
    <3>3. Cardinality(Connected(s)') <= Cardinality(sl.recipients)
      BY <1>2, <3>2, FiniteConnected, FS_Subset
    <3>4. Cardinality(sl.recipients) \in Nat /\ http.max \in Nat
      BY <1>2, FiniteConnected, FS_Subset, FS_CardinalityType DEF Types, HttpType
    <3> QED
      BY <2>12, <3>1, <3>3, <3>4
  <2> QED
    BY <2>8, <2>9, <2>10, <2>11, <2>13, <2>14 DEF Room
<1> QED
  BY <1>0, <1>3, <1>4 DEF OfferReserve

LEMMA ApplyKeeps ==
  ASSUME Basics, Room, NEW ok \in BOOLEAN, OfferApply(ok)
  PROVE  Basics' /\ Room'
<1> USE DEF Basics
<1> DEFINE n == offers + 1
           made == [stream |-> http.stream, life |-> http.life, crossed |-> FALSE,
                    active |-> TRUE, open |-> TRUE]
<1>1. /\ UNCHANGED <<registry, lives, slot, app, doomed, serving>> /\ offers' = n
      /\ http.pc = "apply" /\ offers < MaxOffers /\ offers \in Nat
  BY DEF OfferApply, Made, Types
<1>2. n \in Sessions /\ n \in 0..MaxOffers
  BY <1>1, SignalingAssumption DEF SignalingAssumption, Sessions
<1>3. \/ /\ session' = [session EXCEPT ![n] = made]
         /\ http' = [http EXCEPT !.pc = "insert", !.session = n]
      \/ session' = session /\ http' = IdleHttp
  BY DEF OfferApply
<1>4. /\ made \in SessionType /\ made.life = http.life /\ made.active /\ made.open
      /\ http.life \in 1..lives
  BY <1>1 DEF Types, HttpType, SessionType, Numbered
<1>5. \A m \in Sessions : m # n => session'[m] = session[m]
  BY <1>3 DEF Types
<1> HIDE DEF made
<1>6. \/ /\ session'[n] = made /\ http'.pc = "insert" /\ http'.session = n
         /\ http'.gen = http.gen
         /\ http'.stream = http.stream /\ http'.life = http.life /\ http'.max = http.max
      \/ session'[n] = session[n] /\ http'.pc = "idle" /\ http'.session = 0
  BY <1>2, <1>3, IdleTypes DEF Types, HttpType
<1>7. session' \in [Sessions -> SessionType] /\ http' \in HttpType
  <2> HIDE DEF n
  <2>1. session' \in [Sessions -> SessionType]
    BY <1>3, <1>4 DEF Types
  <2>2. http' \in HttpType
    BY <1>2, <1>3, IdleTypes DEF Types, HttpType, HttpPlaces
  <2> QED
    BY <2>1, <2>2
<1>8. Types'
  BY <1>1, <1>2, <1>7 DEF Types
<1>9. Made'
  <2>1. \A t \in Streams : /\ slot'[t].next <= n
                           /\ \A r \in slot'[t].recipients : r.session <= n
    <3>1. \A t \in Streams : \A r \in slot[t].recipients :
            r.session \in Nat /\ r.session <= offers
      BY DEF Made, Types, SlotType, Recipient, Sessions
    <3> QED
      BY <1>1, <3>1 DEF Made
  <2>2. \A m \in Sessions : session'[m].active => session'[m].open
    BY <1>2, <1>4, <1>5, <1>6 DEF Made
  <2>3. /\ http'.session <= n
        /\ http'.pc = "insert" =>
             http'.session >= 1 /\ http'.gen >= 1 /\ http'.stream \in Streams
    BY <1>1, <1>6 DEF Made
  <2> HIDE DEF n
  <2> QED
    BY <1>1, <1>6, <2>1, <2>2, <2>3 DEF Made
<1>10. Ends'
  <2>1. \A m \in doomed : m \in Sessions /\ m <= offers /\ m # n /\ m <= n
    BY <1>1 DEF Ends, Types, Sessions
  <2> HIDE DEF n
  <2> QED
    BY <1>1, <1>5, <2>1 DEF Ends
<1>11. Numbered'
  <2>1. \A m \in Sessions : session'[m].life <= lives
    BY <1>2, <1>4, <1>5, <1>6 DEF Numbered
  <2> HIDE DEF n
  <2> QED
    BY <1>1, <1>4, <1>6, <2>1 DEF Numbered
<1>12. Room'
  <2>1. \A t \in Streams : Shrinks(t)
    <3>1. \A t \in Streams : \A r \in slot[t].recipients :
            r.session \in Sessions /\ r.session # n
      BY <1>1 DEF Made, Types, SlotType, Recipient, Sessions
    <3> HIDE DEF n
    <3> QED
      BY <1>1, <1>5, <3>1 DEF Shrinks
  <2> QED
    BY <1>1, <1>6, <1>8, <2>1, RoomKept
<1> QED
  BY <1>8, <1>9, <1>10, <1>11, <1>12

LEMMA StopPreviousKeeps ==
  ASSUME Basics, Room, NEW n \in Sessions, OfferStopPrevious(n)
  PROVE  Basics' /\ Room'
<1> USE DEF Basics
<1>1. /\ UNCHANGED <<registry, lives, slot, offers, app, doomed, serving>>
      /\ session' = Stopped(n) /\ http.pc = "replace"
      /\ http' = [http EXCEPT !.previous = http.previous \ {n}]
  BY DEF OfferStopPrevious
<1>2. http' \in HttpType /\ http'.pc = "replace" /\ http'.session = http.session
  BY <1>1 DEF Types, HttpType
<1>3. Types'
  BY <1>1, <1>2, StoppedSessions DEF Types
<1>4. /\ \A m \in Sessions : session'[m].life = session[m].life
      /\ \A m \in Sessions :
           session'[m].active => session[m].active /\ session'[m] = session[m]
  BY <1>1, StoppedSessions
<1>5. Made'
  BY <1>1, <1>2, <1>4 DEF Made
<1>6. Ends' /\ Numbered'
  BY <1>1, <1>2, <1>4 DEF Ends, Numbered, Types
<1>7. \A t \in Streams : Shrinks(t)
  BY <1>1, <1>4 DEF Shrinks, Types, SlotType, Recipient
<1>8. Room'
  BY <1>1, <1>2, <1>3, <1>7, RoomKept
<1> QED
  BY <1>3, <1>5, <1>6, <1>8

LEMMA InsertKeeps ==
  ASSUME Basics, Room, OfferInsert
  PROVE  Basics' /\ Room'
<1> USE DEF Basics
<1>0. PICK s \in Streams : s = http.stream
  BY DEF OfferInsert, Made
<1> DEFINE sl == Pruned(SlotOf(s))
           h == http.session
           kept == IF http.max = 1 THEN {} ELSE {r \in sl.recipients : r.gen # http.gen}
           new == [gen |-> http.gen, session |-> h]
           seats == [sl EXCEPT !.recipients = kept \cup {new}]
           previous == IF http.max = 1 THEN SessionsOf(sl.recipients) ELSE {}
<1>1. /\ UNCHANGED <<registry, lives, offers, app, doomed, serving>>
      /\ http.pc = "insert" /\ http.gen >= 1 /\ h >= 1 /\ h <= offers
      /\ session[h].life = http.life
      /\ slot' = [slot EXCEPT ![s] = seats]
      /\ session' = [session EXCEPT ![h] = [session[h] EXCEPT !.crossed = http.crossed]]
      /\ http' = [http EXCEPT !.pc = "replace", !.previous = previous]
  BY <1>0 DEF OfferInsert, Made, Numbered
<1>2. h \in Sessions /\ new \in Recipient /\ new.session = h
  BY <1>1 DEF Types, HttpType, Sessions, Recipient
<1>3. /\ sl \in SlotType /\ sl.recipients \subseteq slot[s].recipients
      /\ sl.next <= slot[s].next
  <2>1. /\ SlotOf(s) \in SlotType /\ SlotOf(s).recipients \subseteq slot[s].recipients
        /\ SlotOf(s).next <= slot[s].next
    BY KnownSlot
  <2> QED
    BY <2>1, PrunedSlot
<1> HIDE DEF sl, h, new
<1>4. /\ kept \subseteq slot[s].recipients /\ kept \in SUBSET Recipient
      /\ previous \in SUBSET Sessions
  BY <1>3 DEF SlotType, Recipient, SessionsOf
<1> HIDE DEF kept, previous
<1>5. seats \in SlotType /\ seats.next = sl.next /\ seats.recipients = kept \cup {new}
  BY <1>2, <1>3, <1>4 DEF SlotType
<1> HIDE DEF seats
<1>6. /\ slot' \in [Streams -> SlotType] /\ slot'[s] = seats
      /\ \A t \in Streams : t # s => slot'[t] = slot[t]
  BY <1>1, <1>5 DEF Types
<1>7. /\ session' \in [Sessions -> SessionType]
      /\ \A m \in Sessions : /\ session'[m].life = session[m].life
                             /\ session'[m].active = session[m].active
                             /\ session'[m].open = session[m].open
  <2>1. [session[h] EXCEPT !.crossed = http.crossed] \in SessionType
    BY <1>2 DEF Types, HttpType, SessionType
  <2> QED
    BY <1>1, <1>2, <2>1 DEF Types, SessionType
<1>8. http' \in HttpType /\ http'.pc = "replace" /\ http'.session = h
  BY <1>1, <1>4 DEF Types, HttpType, HttpPlaces, h
<1>9. Types'
  BY <1>1, <1>6, <1>7, <1>8 DEF Types
<1>10. Made'
  <2>1. \A t \in Streams : /\ slot'[t].next <= offers
                           /\ \A r \in slot'[t].recipients : r.session <= offers
    <3>1. \A t \in Streams : /\ slot[t].next <= offers /\ slot[t].next \in Nat
                             /\ \A r \in slot[t].recipients : r.session <= offers
      BY <1>1 DEF Made, Types, SlotType
    <3>2. offers \in Nat /\ sl.next \in Nat
      BY <1>3 DEF Types, SlotType
    <3> QED
      BY <1>1, <1>2, <1>3, <1>4, <1>5, <1>6, <3>1, <3>2
  <2> QED
    BY <1>1, <1>7, <1>8, <2>1 DEF Made
<1>11. Ends' /\ Numbered'
  BY <1>1, <1>7, <1>8 DEF Ends, Numbered, Types
<1>12. LimitInForce' /\ PlaceLeft'
  BY <1>8 DEF LimitInForce, PlaceLeft
<1>13. ASSUME NEW t \in Streams, Present(t), t # s
       PROVE  Cardinality(Connected(t)') <= registry[t].max
  <2>1. Shrinks(t)
    BY <1>6, <1>7, <1>13 DEF Shrinks, Types, SlotType, Recipient
  <2>2. /\ Cardinality(Connected(t)') <= Cardinality(Connected(t))
        /\ Cardinality(Connected(t)) \in Nat /\ Cardinality(Connected(t)') \in Nat
    BY <1>1, <2>1, FewerConnected, FiniteConnected
  <2> QED
    BY <1>13, <2>2, LimitNat DEF Room, Within
<1>14. ASSUME Present(s)
       PROVE  Cardinality(Connected(s)') <= registry[s].max
  <2>1. /\ IsFiniteSet(Connected(s)) /\ Cardinality(Connected(s)) \in Nat
        /\ Cardinality(Connected(s)) <= registry[s].max /\ registry[s].max \in Nat
    BY <1>14, FiniteConnected, LimitNat DEF Room, Within
  <2>2. \A r \in Connected(s)' : r = new \/ (r \in kept /\ r \in Connected(s))
    <3>1. ASSUME NEW r \in Connected(s)', r # new
          PROVE  r \in kept /\ r \in Connected(s)
      <4>1. r \in kept
        BY <1>5, <1>6, <3>1 DEF Connected, Current
      <4>2. r.session \in Sessions /\ r \in slot[s].recipients
        BY <1>4, <4>1 DEF Recipient
      <4> QED
        BY <1>1, <1>7, <4>1, <4>2 DEF Connected, Current
    <3> QED
      BY <3>1
  <2>3. CASE ~Timely(s)
    <3>1. new \notin Connected(s)'
      BY <1>0, <1>1, <1>2, <1>7, <2>3 DEF Timely, Connected, Current
    <3>2. Connected(s)' \in SUBSET Connected(s)
      BY <2>2, <3>1
    <3>3. IsFiniteSet(Connected(s)')
      BY <2>1, <3>2, FS_Subset
    <3> QED
      BY <2>1, <3>2, <3>3, FS_Subset, FS_CardinalityType
  <2>4. CASE Timely(s) /\ http.max = 1
    <3>1. registry[s].max = 1
      BY <1>1, <2>4 DEF Room, LimitInForce
    <3>2. Connected(s)' \in SUBSET {new}
      BY <2>2, <2>4 DEF kept
    <3>3. IsFiniteSet({new}) /\ Cardinality({new}) = 1
      BY FS_Singleton
    <3> QED
      BY <3>1, <3>2, <3>3, FS_Subset
  <2>5. CASE Timely(s) /\ http.max # 1
    <3>1. Cardinality(Connected(s)) < registry[s].max
      BY <1>1, <2>5 DEF Room, LimitInForce, PlaceLeft
    <3>2. Connected(s)' \in SUBSET (Connected(s) \cup {new})
      BY <2>2
    <3>3. /\ IsFiniteSet(Connected(s) \cup {new})
          /\ Cardinality(Connected(s) \cup {new}) <= Cardinality(Connected(s)) + 1
      BY <2>1, FS_AddElement
    <3>4. /\ Cardinality(Connected(s)') <= Cardinality(Connected(s) \cup {new})
          /\ Cardinality(Connected(s)') \in Nat /\ Cardinality(Connected(s) \cup {new}) \in Nat
      BY <3>2, <3>3, FS_Subset, FS_CardinalityType
    <3> QED
      BY <2>1, <3>1, <3>3, <3>4
  <2> QED
    BY <2>3, <2>4, <2>5
<1>15. Within'
  BY <1>1, <1>13, <1>14 DEF Within, Present
<1> QED
  BY <1>9, <1>10, <1>11, <1>12, <1>15 DEF Room

-----------------------------------------------------------------------------
(* Lookups.                                                                *)

\* The request goes on, or is given a session to hand its answer or candidate to.
Asks ==
  \/ http' = http
  \/ /\ http.pc = "idle" /\ http' \in HttpType
     /\ http'.pc = "remote" /\ http'.session <= offers

LEMMA LookupKeeps ==
  ASSUME Basics, Room, UNCHANGED <<registry, lives, session, offers, app, doomed, serving>>,
         slot' \in [Streams -> SlotType],
         \A t \in Streams : Shrinks(t) /\ slot'[t].next <= slot[t].next,
         Asks
  PROVE  Basics' /\ Room'
<1> USE DEF Basics
<1>1. \/ http' = http
      \/ /\ http.pc = "idle" /\ http' \in HttpType /\ http'.pc = "remote"
         /\ http'.session <= offers
  BY DEF Asks
<1>2. Types'
  BY <1>1 DEF Types
<1>3. \A t \in Streams : slot'[t].next \in Nat /\ slot[t].next \in Nat
  <2>1. slot \in [Streams -> SlotType]
    BY DEF Types
  <2>2. \A v \in SlotType : v.next \in Nat
    BY SignalingAssumption DEF SignalingAssumption, SlotType
  <2> QED
    BY <2>1, <2>2
<1>4. \A t \in Streams : slot'[t].next <= IF http.pc = "apply" THEN offers + 1 ELSE offers
  <2>1. \A t \in Streams : /\ slot'[t].next <= slot[t].next
                           /\ slot[t].next <= IF http.pc = "apply" THEN offers + 1 ELSE offers
    BY DEF Made
  <2>2. (IF http.pc = "apply" THEN offers + 1 ELSE offers) \in Nat
    BY DEF Types
  <2> QED
    BY <1>3, <2>1, <2>2
<1>5. Made'
  BY <1>1, <1>4 DEF Made, Shrinks
<1>6. Ends' /\ Numbered'
  BY <1>1 DEF Ends, Numbered
<1>7. Room'
  BY <1>1, <1>2, RoomKept
<1> QED
  BY <1>2, <1>5, <1>6, <1>7

LEMMA PrunedPlace ==
  ASSUME Basics, NEW s \in Streams, NEW sl \in {Pruned(slot[s]), Pruned(SlotOf(s))}
  PROVE  /\ sl \in SlotType /\ sl.recipients \subseteq slot[s].recipients
         /\ sl.next <= slot[s].next /\ sl.next \in Nat
         /\ \A r \in sl.recipients : r.session \in Sessions /\ r.session <= offers
<1>1. /\ slot[s] \in SlotType /\ SlotOf(s) \in SlotType
      /\ SlotOf(s).recipients \subseteq slot[s].recipients /\ SlotOf(s).next <= slot[s].next
  BY KnownSlot DEF Basics
<1>2. /\ sl \in SlotType /\ sl.recipients \subseteq slot[s].recipients
      /\ sl.next <= slot[s].next
  <2>1. CASE sl = Pruned(slot[s])
    BY <1>1, <2>1, PrunedSlot DEF SlotType
  <2>2. CASE sl = Pruned(SlotOf(s))
    BY <1>1, <2>2, PrunedSlot
  <2> QED
    BY <2>1, <2>2
<1>3. \A r \in slot[s].recipients : r.session \in Sessions /\ r.session <= offers
  BY <1>1 DEF Basics, Made, SlotType, Recipient
<1> QED
  BY <1>2, <1>3 DEF SlotType

LEMMA PrunesKeep ==
  ASSUME Basics, Room,
         (\E s \in Streams : AnswerLookup(s) \/ CandidateLookup(s) \/ Lookup({s}))
           \/ Lookup(Streams)
  PROVE  Basics' /\ Room'
<1> USE DEF Basics
<1>1. UNCHANGED <<registry, lives, session, offers, app, doomed, serving>>
  BY DEF AnswerLookup, CandidateLookup, Lookup
<1>2. \A t \in Streams : slot[t].next <= slot[t].next
  BY DEF Types, SlotType
<1>3. ASSUME NEW s \in Streams, NEW sl \in {Pruned(slot[s]), Pruned(SlotOf(s))},
             NEW seats \in SlotType, seats.recipients = sl.recipients, seats.next = sl.next,
             slot' = [slot EXCEPT ![s] = seats]
      PROVE  /\ slot' \in [Streams -> SlotType]
             /\ \A t \in Streams : Shrinks(t) /\ slot'[t].next <= slot[t].next
  <2>1. /\ seats.recipients \subseteq slot[s].recipients /\ seats.next <= slot[s].next
    BY <1>3, PrunedPlace
  <2>2. /\ slot' \in [Streams -> SlotType] /\ slot'[s] = seats
        /\ \A t \in Streams : Shrinks(t) /\ (t # s => slot'[t] = slot[t])
    BY <1>1, <1>3, <2>1, SlotShrinks
  <2> QED
    BY <1>2, <2>1, <2>2
<1>4. ASSUME NEW s \in Streams, NEW sl \in {Pruned(slot[s]), Pruned(SlotOf(s))},
             http.pc = "idle",
             \/ http' = http
             \/ \E r \in sl.recipients :
                  http' = [IdleHttp EXCEPT !.pc = "remote", !.session = r.session]
      PROVE  Asks
  <2>1. CASE http' = http
    BY <2>1 DEF Asks
  <2>2. ASSUME NEW r \in sl.recipients,
               http' = [IdleHttp EXCEPT !.pc = "remote", !.session = r.session]
        PROVE  Asks
    <3>1. r.session \in 0..MaxOffers /\ r.session <= offers
      BY PrunedPlace DEF Sessions
    <3>2. http' \in HttpType /\ http'.pc = "remote" /\ http'.session = r.session
      BY <2>2, <3>1, IdleTypes DEF HttpType, HttpPlaces
    <3> QED
      BY <1>4, <3>1, <3>2 DEF Asks
  <2> QED
    BY <1>4, <2>1, <2>2
<1>5. ASSUME NEW s \in Streams, AnswerLookup(s)
      PROVE  Basics' /\ Room'
  <2> DEFINE sl == Pruned(slot[s])
  <2>1. /\ http.pc = "idle" /\ slot' = [slot EXCEPT ![s] = sl]
        /\ \/ http' = http
           \/ \E r \in sl.recipients :
                http' = [IdleHttp EXCEPT !.pc = "remote", !.session = r.session]
    BY <1>5 DEF AnswerLookup
  <2>2. sl \in SlotType
    BY PrunedPlace
  <2> QED
    BY <1>1, <1>3, <1>4, <2>1, <2>2, LookupKeeps
<1>6. ASSUME NEW s \in Streams, CandidateLookup(s)
      PROVE  Basics' /\ Room'
  <2> DEFINE sl == Pruned(SlotOf(s))
             longer == [sl EXCEPT !.queue = sl.queue + 1]
  <2>1. sl \in SlotType /\ sl.queue \in Nat
    BY PrunedPlace DEF SlotType
  <2>2. /\ http.pc = "idle"
        /\ \/ /\ slot' = [slot EXCEPT ![s] = sl]
              /\ \/ http' = http
                 \/ \E r \in sl.recipients :
                      http' = [IdleHttp EXCEPT !.pc = "remote", !.session = r.session]
           \/ ~QueueFull(sl) /\ slot' = [slot EXCEPT ![s] = longer] /\ http' = http
    BY <1>6 DEF CandidateLookup, SlotOf
  <2>3. ~QueueFull(sl) => /\ longer \in SlotType /\ longer.recipients = sl.recipients
                          /\ longer.next = sl.next
    BY <2>1, SignalingAssumption DEF SignalingAssumption, QueueFull, SlotType
  <2> HIDE DEF longer
  <2>4. CASE slot' = [slot EXCEPT ![s] = sl]
    <3>1. /\ slot' \in [Streams -> SlotType]
          /\ \A t \in Streams : Shrinks(t) /\ slot'[t].next <= slot[t].next
      BY <1>3, <2>1, <2>4
    <3>2. Asks
      BY <1>4, <2>2
    <3> QED
      BY <1>1, <3>1, <3>2, LookupKeeps
  <2>5. CASE ~QueueFull(sl) /\ slot' = [slot EXCEPT ![s] = longer] /\ http' = http
    BY <1>1, <1>3, <2>3, <2>5, LookupKeeps DEF Asks
  <2> QED
    BY <2>2, <2>4, <2>5
<1>7. ASSUME NEW ss \in SUBSET Streams, Lookup(ss)
      PROVE  Basics' /\ Room'
  <2>1. /\ http' = http
        /\ slot' = [t \in Streams |-> IF t \in ss THEN Pruned(slot[t]) ELSE slot[t]]
    BY <1>7 DEF Lookup
  <2>2. \A t \in Streams : /\ slot'[t] \in SlotType
                           /\ slot'[t].recipients \subseteq slot[t].recipients
                           /\ slot'[t].next <= slot[t].next
    BY <1>2, <2>1, PrunedPlace DEF Types
  <2>3. slot' \in [Streams -> SlotType] /\ \A t \in Streams : Shrinks(t)
    BY <1>1, <2>1, <2>2 DEF Shrinks
  <2> QED
    BY <1>1, <2>1, <2>2, <2>3, LookupKeeps DEF Asks
<1> QED
  BY <1>5, <1>6, <1>7

-----------------------------------------------------------------------------
(* The application.                                                        *)

LEMMA TakeKeeps ==
  ASSUME Basics, Room, (\E s \in Streams : RemoveBegin(s)) \/ StopBegin
  PROVE  Basics' /\ Room'
<1> USE DEF Basics
<1>1. PICK ss \in SUBSET Streams, pc \in {"removing", "closing"}, s \in Streams \cup {None} :
        TakeSlots(ss, pc, s)
  BY DEF RemoveBegin, StopBegin
<1>2. /\ UNCHANGED <<registry, lives, session, offers, serving>> /\ app.pc = "idle"
  BY DEF RemoveBegin, StopBegin
<1> DEFINE swept == UNION {SessionsOf(slot[u].recipients) : u \in ss}
<1>3. /\ slot' = [u \in Streams |-> IF u \in ss THEN NoSlot ELSE slot[u]]
      /\ app' = [pc |-> pc, stream |-> s, stopping |-> swept]
      /\ doomed' = doomed \cup swept
      /\ \E crossed \in BOOLEAN : http' = [http EXCEPT !.crossed = crossed]
  BY <1>1 DEF TakeSlots, Types, HttpType
<1>4. \A n \in swept : n \in Sessions /\ n <= offers
  BY DEF Types, SlotType, Recipient, Made, SessionsOf
<1> HIDE DEF swept
<1>5. /\ http' \in HttpType /\ http'.pc = http.pc /\ http'.stream = http.stream
      /\ http'.life = http.life /\ http'.max = http.max /\ http'.gen = http.gen
      /\ http'.session = http.session
  BY <1>3 DEF Types, HttpType
<1>6. /\ slot' \in [Streams -> SlotType]
      /\ \A t \in Streams : /\ slot'[t].recipients \subseteq slot[t].recipients
                            /\ slot'[t].next = slot[t].next \/ slot'[t].next = 0
  BY <1>3, IdleTypes DEF Types
<1>7. app' \in AppType /\ app'.pc = pc /\ app'.stopping = swept
  BY <1>3, <1>4 DEF AppType
<1>8. Types'
  BY <1>2, <1>3, <1>4, <1>5, <1>6, <1>7 DEF Types
<1>9. Made'
  BY <1>2, <1>5, <1>6 DEF Made, Types
<1>10. Ends'
  BY <1>2, <1>3, <1>4, <1>7 DEF Ends
<1>11. Numbered'
  BY <1>2, <1>5 DEF Numbered
<1>12. Room'
  <2>1. \A t \in Streams : Shrinks(t)
    BY <1>2, <1>6 DEF Shrinks
  <2> QED
    BY <1>2, <1>5, <1>8, <2>1, RoomKept
<1> QED
  BY <1>8, <1>9, <1>10, <1>11, <1>12

LEMMA StopSessionKeeps ==
  ASSUME Basics, Room, NEW n \in Sessions, StopSession(n)
  PROVE  Basics' /\ Room'
<1> USE DEF Basics
<1>1. /\ UNCHANGED <<registry, lives, slot, offers, http, doomed, serving>>
      /\ session' = Stopped(n) /\ app' = [app EXCEPT !.stopping = app.stopping \ {n}]
  BY DEF StopSession
<1>2. app' \in AppType /\ app'.pc = app.pc /\ app'.stopping = app.stopping \ {n}
  BY <1>1 DEF Types, AppType
<1>3. Types'
  BY <1>1, <1>2, StoppedSessions DEF Types
<1>4. /\ ~session'[n].active
      /\ \A m \in Sessions :
           /\ session'[m].life = session[m].life
           /\ session'[m].active => session[m].active /\ session'[m] = session[m]
  BY <1>1, StoppedSessions
<1>5. Made'
  BY <1>1, <1>4 DEF Made
<1>6. Ends'
  BY <1>1, <1>2, <1>4 DEF Ends, Types
<1>7. Numbered'
  <2>1. http.pc = "insert" => http.session \in Sessions
    BY DEF Made, Types, HttpType, Sessions
  <2> QED
    BY <1>1, <1>4, <2>1 DEF Numbered
<1>8. \A t \in Streams : Shrinks(t)
  BY <1>1, <1>4 DEF Shrinks, Types, SlotType, Recipient
<1>9. Room'
  BY <1>1, <1>3, <1>8, RoomKept
<1> QED
  BY <1>3, <1>5, <1>6, <1>7, <1>9

LEMMA PeerGoneKeeps ==
  ASSUME Basics, Room, NEW n \in Sessions, PeerGone(n)
  PROVE  Basics' /\ Room'
<1> USE DEF Basics
<1>1. /\ UNCHANGED <<registry, lives, slot, offers, http, app, doomed, serving>>
      /\ session' = [session EXCEPT ![n] = [session[n] EXCEPT !.active = FALSE]]
  BY DEF PeerGone
<1>2. /\ session' \in [Sessions -> SessionType]
      /\ \A m \in Sessions :
           /\ session'[m].life = session[m].life
           /\ session'[m].active => session[m].active /\ session'[m] = session[m]
  BY <1>1 DEF Types, SessionType
<1>3. Types'
  BY <1>1, <1>2 DEF Types
<1>4. Made'
  BY <1>1, <1>2 DEF Made
<1>5. Ends'
  BY <1>1, <1>2 DEF Ends, Types
<1>6. Numbered'
  <2>1. http.pc = "insert" => http.session \in Sessions
    BY DEF Made, Types, HttpType, Sessions
  <2> QED
    BY <1>1, <1>2, <2>1 DEF Numbered
<1>7. \A t \in Streams : Shrinks(t)
  BY <1>1, <1>2 DEF Shrinks, Types, SlotType, Recipient
<1>8. Room'
  BY <1>1, <1>3, <1>7, RoomKept
<1> QED
  BY <1>3, <1>4, <1>5, <1>6, <1>8

LEMMA AppPcKeeps ==
  ASSUME Basics, Room, CloseListener \/ StopEnd \/ Start \/ UNCHANGED vars
  PROVE  Basics' /\ Room'
<1> USE DEF Basics
<1>1. UNCHANGED <<registry, lives, slot, session, offers, http, doomed>>
  BY DEF CloseListener, StopEnd, Start, vars
<1>2. app' \in AppType /\ serving' \in BOOLEAN /\ app'.stopping = app.stopping
  BY IdleTypes DEF CloseListener, StopEnd, Start, vars, Types, AppType, Ends
<1>3. app'.pc \in {"idle", "joining"} => app.stopping = {}
  BY IdleTypes DEF CloseListener, StopEnd, Start, vars, Types, AppType, Ends
<1>4. Types' /\ Made' /\ Numbered'
  BY <1>1, <1>2 DEF Types, Made, Numbered
<1>5. Ends'
  BY <1>1, <1>2, <1>3 DEF Ends
<1>6. Room'
  <2>1. \A t \in Streams : Shrinks(t)
    BY <1>1 DEF Shrinks
  <2> QED
    BY <1>1, <1>4, <2>1, RoomKept
<1> QED
  BY <1>4, <1>5, <1>6

\* A registration is a new one: whoever is still connected under an old one does not
\* count.
LEMMA RegisterKeeps ==
  ASSUME Basics, Room, NEW s \in Streams, NEW max \in Limits, RegisterStream(s, max)
  PROVE  Basics' /\ Room'
<1> USE DEF Basics
<1>1. /\ UNCHANGED <<slot, session, offers, http, app, doomed, serving>>
      /\ lives' = lives + 1 /\ lives < MaxRegistrations
      /\ registry' = [registry EXCEPT ![s] = [life |-> lives + 1, max |-> max]]
  BY DEF RegisterStream
<1>2. lives \in Nat /\ lives' \in 0..MaxRegistrations /\ lives' > lives
  BY <1>1, SignalingAssumption DEF SignalingAssumption, Types
<1>3. /\ registry' \in [Streams -> RegistrationType]
      /\ registry'[s].life = lives + 1 /\ registry'[s].max = max
      /\ \A t \in Streams : t # s => registry'[t] = registry[t]
  <2>1. [life |-> lives + 1, max |-> max] \in RegistrationType
    BY <1>1, <1>2 DEF RegistrationType
  <2> QED
    BY <1>1, <2>1 DEF Types
<1>4. Types' /\ Made' /\ Ends'
  BY <1>1, <1>2, <1>3 DEF Types, Made, Ends
<1>5. Numbered'
  <2>1. \A t \in Streams : /\ registry'[t].life <= lives'
                           /\ registry'[t].life # None => registry'[t].max \in Limits
    BY <1>1, <1>2, <1>3 DEF Numbered, Types, RegistrationType
  <2>2. \A n \in Sessions : session'[n].life <= lives'
    BY <1>1, <1>2 DEF Numbered, Types, SessionType
  <2> QED
    BY <1>1, <1>2, <2>1, <2>2 DEF Numbered
<1>6. http.pc \in {"limit", "reserve", "apply", "insert"} => ~Timely(s)'
  BY <1>1, <1>2, <1>3 DEF Numbered, Timely
<1>7. \A t \in Streams : t # s => /\ Timely(t)' => Timely(t)
                                  /\ Present(t)' => Present(t)
                                  /\ Cardinality(Connected(t)') <= Cardinality(Connected(t))
                                  /\ Cardinality(Connected(t)) \in Nat
                                  /\ Cardinality(Connected(t)') \in Nat
  <2>1. \A t \in Streams : Shrinks(t)
    BY <1>1 DEF Shrinks
  <2> QED
    BY <1>1, <1>3, <2>1, FewerConnected, FiniteConnected DEF Timely, Present
<1>8. Connected(s)' = {}
  <2>1. \A r \in slot[s].recipients : r.session \in Sessions
    BY DEF Types, SlotType, Recipient
  <2>2. \A n \in Sessions : session[n].life # lives + 1
    BY <1>2 DEF Numbered, Types, SessionType
  <2> QED
    BY <1>1, <1>3, <2>1, <2>2 DEF Connected, Current
<1>9. LimitInForce'
  BY <1>1, <1>3, <1>6, <1>7 DEF Room, LimitInForce
<1>10. PlaceLeft'
  <2> SUFFICES ASSUME NEW t \in Streams, http.pc \in {"apply", "insert"}, Timely(t)',
                      http.max # 1
               PROVE  Cardinality(Connected(t)') < http.max
    BY <1>1 DEF PlaceLeft
  <2>1. t # s /\ http.max \in Nat
    BY <1>6 DEF Types, HttpType
  <2>2. Cardinality(Connected(t)) < http.max
    BY <1>7, <2>1 DEF Room, PlaceLeft
  <2> QED
    BY <1>7, <2>1, <2>2
<1>11. Within'
  <2> SUFFICES ASSUME NEW t \in Streams, Present(t)'
               PROVE  Cardinality(Connected(t)') <= registry'[t].max
    BY DEF Within
  <2>1. CASE t = s
    <3>1. max \in Nat
      BY SignalingAssumption DEF SignalingAssumption
    <3> QED
      BY <1>3, <1>8, <2>1, <3>1, FS_EmptySet
  <2>2. CASE t # s
    <3>1. Cardinality(Connected(t)) <= registry[t].max /\ registry[t].max \in Nat
      BY <1>7, <2>2, LimitNat DEF Room, Within
    <3> QED
      BY <1>3, <1>7, <2>2, <3>1
  <2> QED
    BY <2>1, <2>2
<1> QED
  BY <1>4, <1>5, <1>9, <1>10, <1>11 DEF Room

LEMMA RemovalKeeps ==
  ASSUME Basics, Room, RemoveFromCore
  PROVE  Basics' /\ Room'
<1> USE DEF Basics
<1>1. /\ UNCHANGED <<lives, slot, session, offers, http, doomed, serving>>
      /\ app' = IdleApp /\ app.stopping = {}
      /\ registry' = [registry EXCEPT ![app.stream] = [life |-> None, max |-> 0]]
  BY DEF RemoveFromCore
<1>2. /\ registry' \in [Streams -> RegistrationType]
      /\ \A t \in Streams : registry'[t] = registry[t] \/ registry'[t].life = None
  <2>1. [life |-> None, max |-> 0] \in RegistrationType
    BY SignalingAssumption DEF SignalingAssumption, RegistrationType, None
  <2> QED
    BY <1>1, <2>1 DEF Types
<1>3. Types' /\ Made' /\ Ends'
  BY <1>1, <1>2, IdleTypes DEF Types, Made, Ends
<1>4. Numbered'
  <2>1. lives >= 0 /\ lives \in Nat
    BY DEF Types
  <2>2. \A t \in Streams : /\ registry'[t].life <= lives
                           /\ registry'[t].life # None => registry'[t].max \in Limits
    BY <1>2, <2>1 DEF Numbered, None
  <2> QED
    BY <1>1, <2>2 DEF Numbered
<1>5. ASSUME NEW t \in Streams, registry'[t].life # None
      PROVE  /\ registry'[t] = registry[t] /\ Present(t)
             /\ Cardinality(Connected(t)') <= Cardinality(Connected(t))
             /\ Cardinality(Connected(t)) \in Nat /\ Cardinality(Connected(t)') \in Nat
  <2>1. registry'[t] = registry[t] /\ Present(t)
    BY <1>2, <1>5 DEF Present
  <2>2. Shrinks(t)
    BY <1>1 DEF Shrinks
  <2> QED
    BY <2>1, <2>2, FewerConnected, FiniteConnected
<1>6. ASSUME NEW t \in Streams, http.pc \in {"limit", "reserve", "apply", "insert"}, Timely(t)'
      PROVE  registry'[t].life # None /\ Timely(t)
  <2>1. registry'[t].life # None
    BY <1>1, <1>6 DEF Numbered, Timely, None
  <2> QED
    BY <1>1, <1>2, <1>6, <2>1 DEF Timely
<1>7. LimitInForce'
  BY <1>1, <1>5, <1>6 DEF Room, LimitInForce
<1>8. PlaceLeft'
  <2> SUFFICES ASSUME NEW t \in Streams, http.pc \in {"apply", "insert"}, Timely(t)',
                      http.max # 1
               PROVE  Cardinality(Connected(t)') < http.max
    BY <1>1 DEF PlaceLeft
  <2>1. Cardinality(Connected(t)) < http.max /\ http.max \in Nat
    BY <1>6 DEF Room, PlaceLeft, Types, HttpType
  <2> QED
    BY <1>5, <1>6, <2>1
<1>9. Within'
  <2> SUFFICES ASSUME NEW t \in Streams, Present(t)'
               PROVE  Cardinality(Connected(t)') <= registry'[t].max
    BY DEF Within
  <2>1. registry'[t].life # None
    BY DEF Present
  <2>2. Cardinality(Connected(t)) <= registry[t].max /\ registry[t].max \in Nat
    BY <1>5, <2>1, LimitNat DEF Room, Within
  <2> QED
    BY <1>5, <2>1, <2>2
<1> QED
  BY <1>3, <1>4, <1>7, <1>8, <1>9 DEF Room

-----------------------------------------------------------------------------
LEMMA SignalingInit == Init => SignalingInv
<1> SUFFICES ASSUME Init PROVE SignalingInv
  OBVIOUS
<1> USE DEF Init
<1>1. /\ 0 \in 0..MaxOffers /\ 0 \in 0..MaxRegistrations
      /\ [life |-> None, max |-> 0] \in RegistrationType
  BY SignalingAssumption DEF SignalingAssumption, RegistrationType, None
<1>2. Types
  BY <1>1, IdleTypes DEF Types
<1>3. Made /\ Ends /\ Numbered
  BY IdleTypes DEF Made, Ends, Numbered, None
<1>4. Room
  BY IdleTypes DEF Room, LimitInForce, PlaceLeft, Within, Present
<1> QED
  BY <1>2, <1>3, <1>4 DEF SignalingInv, Basics

LEMMA SignalingInductive == SignalingInv /\ [Next]_vars => SignalingInv'
<1> SUFFICES ASSUME Basics, Room, [Next]_vars
             PROVE  Basics' /\ Room'
  BY DEF SignalingInv
<1>1. CASE HttpStep
  BY <1>1, HttpStepKeeps, LimitKeeps, ReserveKeeps, ApplyKeeps, InsertKeeps, StopPreviousKeeps,
     PrunesKeep DEF HttpStep
<1>2. CASE AppStep
  BY <1>2, TakeKeeps, RegisterKeeps, StopSessionKeeps, RemovalKeeps, AppPcKeeps DEF AppStep
<1>3. CASE UNCHANGED vars \/ (\E n \in Sessions : PeerGone(n))
             \/ Lookup(Streams) \/ (\E s \in Streams : Lookup({s}))
  BY <1>3, AppPcKeeps, PeerGoneKeeps, PrunesKeep
<1> QED
  BY <1>1, <1>2, <1>3 DEF Next

\* The signaling server's slots, the session objects and the request and call in
\* progress keep their types and refer to sessions that exist (signaling_server.cpp).
THEOREM SignalingTypeCorrect == Spec => []TypeOK
<1>1. SignalingInv => TypeOK
  <2> SUFFICES ASSUME Types, Made PROVE TypeOK
    BY DEF SignalingInv, Basics
  <2>1. \A s \in Streams :
          /\ slot[s].next \in 0..MaxOffers /\ slot[s].queue \in 0..MaxPending
          /\ slot[s].recipients \subseteq [gen : 1..MaxOffers, session : 1..offers]
    BY DEF Types, SlotType, Recipient, Sessions, Made
  <2>2. registry \in [Streams -> [life : 0..MaxRegistrations, max : Limits \cup {0}]]
    BY DEF Types, RegistrationType
  <2> QED
    BY <2>1, <2>2 DEF TypeOK, Types, Made, HttpType, HttpPlaces, AppType
<1> QED
  BY <1>1, SignalingInit, SignalingInductive, PTL DEF Spec

\* set_offer checks the limit in one critical section and takes the place in another,
\* with removals, registrations, lookups and lost connections in between: a stream never
\* has more connected viewers of its present registration than its limit.
THEOREM ViewersLimited == Spec => []SubscribersLimited
<1>1. SignalingInv => SubscribersLimited
  BY DEF SignalingInv, Room, Within, SubscribersLimited, Connected
<1> QED
  BY <1>1, SignalingInit, SignalingInductive, PTL DEF Spec

\* Every session that remove_stream or stop took out of a slot is stopped when the call
\* has returned, whatever the HTTP thread does with it meanwhile.
THEOREM SessionsEndWithTeardown == Spec => []TeardownEndsSessions
<1>1. SignalingInv => TeardownEndsSessions
  BY DEF SignalingInv, Basics, Ends, TeardownEndsSessions, Active
<1> QED
  BY <1>1, SignalingInit, SignalingInductive, PTL DEF Spec

-----------------------------------------------------------------------------
(* Who keeps a place.                                                      *)

\* An offer that is being handled and has no place yet.
Offering == http.pc \in {"limit", "reserve", "apply", "insert"}

\* A slot's recipients belong to no registration that is still to come, and those that
\* crossed no removal have generations of this slot.
Seated ==
  \A s \in Streams :
    /\ ~slot[s].present => slot[s] = NoSlot
    /\ \A r \in slot[s].recipients :
         /\ session[r.session].life >= 1
         /\ Present(s) => session[r.session].life <= registry[s].life
         /\ ~session[r.session].crossed => r.gen <= slot[s].next
         /\ http.pc = "insert" => r.session # http.session

\* The offer's registration is the stream's newest or gone; the others in its slot came
\* earlier, under generations below its own, and there are none after a removal or stop.
Admitting ==
  Offering =>
    /\ registry[http.stream].life # None => http.life <= registry[http.stream].life
    /\ \A r \in slot[http.stream].recipients :
         /\ ~http.crossed /\ session[r.session].life <= http.life
         /\ http.pc \in {"apply", "insert"} /\ ~session[r.session].crossed => r.gen < http.gen
    /\ http.pc \in {"apply", "insert"} /\ ~http.crossed => http.gen <= slot[http.stream].next

Seats == Seated /\ Admitting

\* The steps that give nobody a place: recipients stay as they are or go, a registration
\* stays or goes, and the offer in progress goes on as it was, ends, or is crossed.
LEMMA SeatsKept ==
  ASSUME Types, Seats,
         \A s \in Streams :
           /\ slot'[s].recipients \subseteq slot[s].recipients
           /\ slot'[s] = NoSlot \/ (slot'[s].present /\ slot'[s].next = SlotOf(s).next)
           /\ \A r \in slot[s].recipients :
                /\ session'[r.session].life = session[r.session].life
                /\ session'[r.session].crossed = session[r.session].crossed
           /\ registry'[s].life = registry[s].life \/ registry'[s].life = None,
         Offering' =>
           /\ http.stream \in Streams /\ http'.pc = http.pc /\ http'.stream = http.stream
           /\ http'.life = http.life /\ http'.gen = http.gen /\ http'.session = http.session
           /\ \/ /\ http'.crossed = http.crossed
                 /\ slot'[http.stream].next = SlotOf(http.stream).next
              \/ http'.crossed = TRUE /\ slot'[http.stream].recipients = {}
  PROVE  Seats'
<1>1. \A s \in Streams : slot[s].present => SlotOf(s) = slot[s]
  BY DEF SlotOf
<1>2. \A s \in Streams : slot[s].recipients # {} => slot[s].present
  BY IdleTypes DEF Seats, Seated
<1>3. NoSlot.recipients = {} /\ NoSlot.present = FALSE /\ NoSlot.next = 0 /\ EmptySlot.next = 0
  BY DEF NoSlot, EmptySlot
<1>4. Seated'
  <2> SUFFICES ASSUME NEW s \in Streams
               PROVE  /\ ~slot'[s].present => slot'[s] = NoSlot
                      /\ \A r \in slot'[s].recipients :
                           /\ session'[r.session].life >= 1
                           /\ Present(s)' => session'[r.session].life <= registry'[s].life
                           /\ ~session'[r.session].crossed => r.gen <= slot'[s].next
                           /\ http'.pc = "insert" => r.session # http'.session
    BY DEF Seated
  <2>1. ~slot'[s].present => slot'[s] = NoSlot
    OBVIOUS
  <2> SUFFICES ASSUME NEW r \in slot'[s].recipients
               PROVE  /\ session'[r.session].life >= 1
                      /\ Present(s)' => session'[r.session].life <= registry'[s].life
                      /\ ~session'[r.session].crossed => r.gen <= slot'[s].next
                      /\ http'.pc = "insert" => r.session # http'.session
    BY <2>1
  <2>2. /\ r \in slot[s].recipients /\ slot[s].present
        /\ session[r.session].life >= 1
        /\ Present(s) => session[r.session].life <= registry[s].life
        /\ ~session[r.session].crossed => r.gen <= slot[s].next
        /\ http.pc = "insert" => r.session # http.session
    BY <1>2 DEF Seats, Seated
  <2>3. slot'[s].next = slot[s].next
    BY <1>1, <1>3, <2>2
  <2>4. Present(s)' => Present(s) /\ registry'[s].life = registry[s].life
    BY DEF Present
  <2>5. http'.pc = "insert" => http.pc = "insert" /\ http'.session = http.session
    BY DEF Offering
  <2> QED
    BY <2>2, <2>3, <2>4, <2>5
<1>5. Admitting'
  <2> SUFFICES ASSUME Offering'
               PROVE  /\ registry'[http'.stream].life # None =>
                           http'.life <= registry'[http'.stream].life
                      /\ \A r \in slot'[http'.stream].recipients :
                           /\ ~http'.crossed /\ session'[r.session].life <= http'.life
                           /\ http'.pc \in {"apply", "insert"} /\ ~session'[r.session].crossed
                                => r.gen < http'.gen
                      /\ http'.pc \in {"apply", "insert"} /\ ~http'.crossed =>
                           http'.gen <= slot'[http'.stream].next
    BY DEF Admitting
  <2>1. PICK s \in Streams : s = http.stream /\ s = http'.stream
    OBVIOUS
  <2>2. /\ http'.pc = http.pc /\ http'.life = http.life /\ http'.gen = http.gen /\ Offering
        /\ \/ http'.crossed = http.crossed /\ slot'[s].next = SlotOf(s).next
           \/ http'.crossed = TRUE /\ slot'[s].recipients = {}
    BY <2>1 DEF Offering
  <2>3. /\ registry[s].life # None => http.life <= registry[s].life
        /\ \A r \in slot[s].recipients :
             /\ ~http.crossed /\ session[r.session].life <= http.life
             /\ http.pc \in {"apply", "insert"} /\ ~session[r.session].crossed
                  => r.gen < http.gen
        /\ http.pc \in {"apply", "insert"} /\ ~http.crossed => http.gen <= slot[s].next
    BY <2>1, <2>2 DEF Seats, Admitting
  <2>4. registry'[s].life # None => http'.life <= registry'[s].life
    BY <2>2, <2>3
  <2>5. \A r \in slot'[s].recipients :
          /\ ~http'.crossed /\ session'[r.session].life <= http'.life
          /\ http'.pc \in {"apply", "insert"} /\ ~session'[r.session].crossed
               => r.gen < http'.gen
    BY <2>2, <2>3
  <2>6. http'.pc \in {"apply", "insert"} /\ ~http'.crossed => http'.gen <= slot'[s].next
    <3>1. SlotOf(s).next = slot[s].next
      <4>1. CASE slot[s].present
        BY <1>1, <4>1
      <4>2. CASE ~slot[s].present
        BY <1>3, <4>2 DEF Seats, Seated, SlotOf
      <4> QED
        BY <4>1, <4>2
    <3> QED
      BY <2>2, <2>3, <3>1
  <2> QED
    BY <2>1, <2>4, <2>5, <2>6
<1> QED
  BY <1>4, <1>5 DEF Seats

\* A slot is there, or it is the one that is not.
LEMMA SeatedSlot ==
  ASSUME Seats, NEW s \in Streams
  PROVE  /\ slot[s] = NoSlot \/ (slot[s].present /\ slot[s].next = SlotOf(s).next)
         /\ slot[s].next = SlotOf(s).next
<1>1. CASE slot[s].present
  <2>1. SlotOf(s) = slot[s]
    BY <1>1 DEF SlotOf
  <2> QED
    BY <1>1, <2>1
<1>2. CASE ~slot[s].present
  <2>1. slot[s] = NoSlot /\ SlotOf(s) = EmptySlot
    BY <1>2 DEF Seats, Seated, SlotOf
  <2>2. NoSlot.next = EmptySlot.next
    BY DEF NoSlot, EmptySlot
  <2> QED
    BY <2>1, <2>2
<1> QED
  BY <1>1, <1>2

\* Pruning a slot, or the slot that takes its place.
LEMMA PrunedSeats ==
  ASSUME Basics, Seats, NEW s \in Streams
  PROVE  /\ Pruned(SlotOf(s)).present /\ Pruned(SlotOf(s)).next = SlotOf(s).next
         /\ Pruned(SlotOf(s)).recipients =
              {r \in slot[s].recipients : session[r.session].active}
         /\ slot[s].present => Pruned(slot[s]) = Pruned(SlotOf(s))
         /\ ~slot[s].present => slot[s] = NoSlot /\ Pruned(slot[s]) = NoSlot
<1>1. slot[s] \in SlotType /\ SlotOf(s) \in SlotType
  BY KnownSlot DEF Basics
<1>2. SlotOf(s).present /\ SlotOf(s).recipients = slot[s].recipients
  BY IdleTypes DEF SlotOf, EmptySlot, NoSlot, Seats, Seated
<1>3. Pruned(SlotOf(s)).present
  BY <1>1, <1>2 DEF Pruned, SlotType
<1>4. /\ Pruned(SlotOf(s)).next = SlotOf(s).next
      /\ Pruned(SlotOf(s)).recipients = {r \in slot[s].recipients : session[r.session].active}
  BY <1>1, <1>2, PrunedSlot
<1>5. slot[s].present => Pruned(slot[s]) = Pruned(SlotOf(s))
  BY DEF SlotOf
<1>6. ~slot[s].present => slot[s] = NoSlot /\ Pruned(slot[s]) = NoSlot
  <2>1. Pruned(NoSlot) = NoSlot
    BY DEF Pruned, NoSlot
  <2> QED
    BY <2>1 DEF Seats, Seated
<1> QED
  BY <1>3, <1>4, <1>5, <1>6

\* The same without a change of sessions and registrations.
LEMMA SlotsSeats ==
  ASSUME Basics, Seats, UNCHANGED <<registry, session>>,
         \A s \in Streams :
           \/ slot'[s] = slot[s]
           \/ /\ slot'[s].recipients \subseteq slot[s].recipients
              /\ slot'[s].present /\ slot'[s].next = SlotOf(s).next,
         http'.pc \notin {"limit", "reserve", "apply", "insert"} \/ http' = http
  PROVE  Seats'
<1>1. \A s \in Streams : slot[s] = NoSlot \/ (slot[s].present /\ slot[s].next = SlotOf(s).next)
  BY SeatedSlot
<1>2. \A s \in Streams :
        slot'[s] = NoSlot \/ (slot'[s].present /\ slot'[s].next = SlotOf(s).next)
  BY <1>1
<1>3. \A s \in Streams : slot'[s].recipients \subseteq slot[s].recipients
  OBVIOUS
<1>4. Offering' => /\ Offering /\ http' = http /\ http.stream \in Streams
                   /\ slot'[http.stream].next = SlotOf(http.stream).next
  <2>1. Offering' => Offering /\ http' = http
    BY DEF Offering
  <2>2. Offering => http.stream \in Streams
    BY DEF Basics, Made, Offering
  <2>3. SUFFICES ASSUME Offering'
                 PROVE  slot'[http.stream].next = SlotOf(http.stream).next
    BY <2>1, <2>2
  <2>4. PICK s \in Streams : s = http.stream
    BY <2>1, <2>2, <2>3
  <2>5. CASE slot'[s] = slot[s] /\ slot[s] = NoSlot
    BY <2>4, <2>5 DEF SlotOf, NoSlot, EmptySlot
  <2>6. CASE ~(slot'[s] = slot[s] /\ slot[s] = NoSlot)
    BY <1>1, <1>2, <2>4, <2>6
  <2> QED
    BY <2>5, <2>6
<1> QED
  BY <1>2, <1>3, <1>4, SeatsKept DEF Basics

LEMMA LookupSeats ==
  ASSUME Basics, Seats,
         (\E s \in Streams : AnswerLookup(s) \/ CandidateLookup(s) \/ Lookup({s}))
           \/ Lookup(Streams)
  PROVE  Seats'
<1>1. UNCHANGED <<registry, session>>
  BY DEF AnswerLookup, CandidateLookup, Lookup
<1>2. http'.pc \notin {"limit", "reserve", "apply", "insert"} \/ http' = http
  <2>1. ASSUME NEW n, http' = [IdleHttp EXCEPT !.pc = "remote", !.session = n]
        PROVE  http'.pc = "remote"
    BY <2>1 DEF IdleHttp
  <2> QED
    BY <2>1 DEF AnswerLookup, CandidateLookup, Lookup
<1> DEFINE Fits(t) == \/ slot'[t] = slot[t]
                      \/ /\ slot'[t].recipients \subseteq slot[t].recipients
                         /\ slot'[t].present /\ slot'[t].next = SlotOf(t).next
<1>3. ASSUME NEW s \in Streams, AnswerLookup(s)
      PROVE  \A t \in Streams : Fits(t)
  <2>1. slot' = [slot EXCEPT ![s] = Pruned(slot[s])] /\ slot[s].present
    BY <1>3 DEF AnswerLookup
  <2> QED
    BY <2>1, PrunedSeats DEF Basics, Types
<1>4. ASSUME NEW s \in Streams, CandidateLookup(s)
      PROVE  \A t \in Streams : Fits(t)
  <2> DEFINE sl == Pruned(SlotOf(s))
  <2>1. \/ slot' = [slot EXCEPT ![s] = sl]
        \/ slot' = [slot EXCEPT ![s] = [sl EXCEPT !.queue = sl.queue + 1]]
    BY <1>4 DEF CandidateLookup
  <2>2. /\ sl \in SlotType /\ sl.present /\ sl.next = SlotOf(s).next
        /\ sl.recipients \subseteq slot[s].recipients
    BY PrunedSeats, PrunedPlace
  <2> HIDE DEF sl
  <2> QED
    BY <2>1, <2>2 DEF Basics, Types, SlotType
<1>5. ASSUME NEW ss \in SUBSET Streams, Lookup(ss)
      PROVE  \A t \in Streams : Fits(t)
  <2>1. slot' = [t \in Streams |-> IF t \in ss THEN Pruned(slot[t]) ELSE slot[t]]
    BY <1>5 DEF Lookup
  <2> SUFFICES ASSUME NEW t \in Streams, t \in ss PROVE Fits(t)
    BY <2>1
  <2>2. CASE slot[t].present
    BY <2>1, <2>2, PrunedSeats
  <2>3. CASE ~slot[t].present
    BY <2>1, <2>3, PrunedSeats
  <2> QED
    BY <2>2, <2>3
<1>6. \A t \in Streams : Fits(t)
  BY <1>3, <1>4, <1>5
<1> QED
  BY <1>1, <1>2, <1>6, SlotsSeats

\* The request's steps that touch nothing but the request, except its first ones.
LEMMA RequestSeats ==
  ASSUME Basics, Seats, OfferCandidate \/ OfferEnd \/ RemoteApply
  PROVE  Seats'
<1>1. UNCHANGED <<registry, session, slot>>
  BY DEF OfferCandidate, OfferEnd, RemoteApply
<1>2. http'.pc \notin {"limit", "reserve", "apply", "insert"}
  <2>1. CASE OfferEnd \/ RemoteApply
    BY <2>1 DEF OfferEnd, RemoteApply, CallPeer, IdleHttp
  <2>2. CASE OfferCandidate
    <3>1. \/ http' = [http EXCEPT !.inHand = http.inHand - 1]
          \/ http' = [IdleHttp EXCEPT !.pc = "crashed"]
      BY <2>2 DEF OfferCandidate, CallPeer
    <3> QED
      BY <2>2, <3>1 DEF OfferCandidate, Basics, Types, HttpType, IdleHttp
  <2> QED
    BY <2>1, <2>2
<1> QED
  BY <1>1, <1>2, SlotsSeats

\* Sessions end or are left by their viewers: their registrations stay.
LEMMA SessionSeats ==
  ASSUME Basics, Seats,
         \E n \in Sessions : PeerGone(n) \/ StopSession(n) \/ OfferStopPrevious(n)
  PROVE  Seats'
<1>1. PICK n \in Sessions : PeerGone(n) \/ StopSession(n) \/ OfferStopPrevious(n)
  OBVIOUS
<1>2. /\ UNCHANGED <<registry, slot>>
      /\ http'.pc \notin {"limit", "reserve", "apply", "insert"} \/ http' = http
  <2>1. CASE OfferStopPrevious(n)
    BY <2>1 DEF OfferStopPrevious, Basics, Types, HttpType
  <2> QED
    BY <1>1, <2>1 DEF PeerGone, StopSession
<1>3. \A m \in Sessions : /\ session'[m].life = session[m].life
                          /\ session'[m].crossed = session[m].crossed
  <2>1. session \in [Sessions -> SessionType]
    BY DEF Basics, Types
  <2> DEFINE gone == [session[n] EXCEPT !.active = FALSE]
             stopped == [session[n] EXCEPT !.active = FALSE, !.open = FALSE]
  <2>2. session' = [session EXCEPT ![n] = gone] \/ session' = [session EXCEPT ![n] = stopped]
    BY <1>1 DEF PeerGone, StopSession, OfferStopPrevious, Stopped
  <2>3. /\ gone.life = session[n].life /\ gone.crossed = session[n].crossed
        /\ stopped.life = session[n].life /\ stopped.crossed = session[n].crossed
    BY <2>1 DEF SessionType
  <2> HIDE DEF gone, stopped
  <2> QED
    BY <2>1, <2>2, <2>3
<1>4. \A s \in Streams : \A r \in slot[s].recipients : r.session \in Sessions
  BY DEF Basics, Types, SlotType, Recipient
<1>5. \A s \in Streams : slot[s] = NoSlot \/ (slot[s].present /\ slot[s].next = SlotOf(s).next)
  BY SeatedSlot
<1>6. \A s \in Streams : slot[s].next = SlotOf(s).next
  BY SeatedSlot
<1>7. Offering' => Offering /\ http' = http /\ http.stream \in Streams
  BY <1>2 DEF Offering, Basics, Made
<1> QED
  BY <1>2, <1>3, <1>4, <1>5, <1>6, <1>7, SeatsKept DEF Basics

\* A removal or stop takes the slots, and the offer in progress is crossed.
LEMMA TakeSeats ==
  ASSUME Basics, Seats, (\E s \in Streams : RemoveBegin(s)) \/ StopBegin
  PROVE  Seats'
<1>1. PICK ss \in SUBSET Streams, pc \in {"removing", "closing"}, s \in Streams \cup {None} :
        TakeSlots(ss, pc, s)
  BY DEF RemoveBegin, StopBegin
<1>2. UNCHANGED <<registry, session>>
  BY DEF RemoveBegin, StopBegin
<1> DEFINE crossed == http.crossed \/ http.stream \in ss
<1>3. /\ slot' = [u \in Streams |-> IF u \in ss THEN NoSlot ELSE slot[u]]
      /\ http' = [http EXCEPT !.crossed = crossed]
  BY <1>1 DEF TakeSlots
<1> HIDE DEF crossed
<1>4. /\ http'.pc = http.pc /\ http'.stream = http.stream /\ http'.life = http.life
      /\ http'.gen = http.gen /\ http'.session = http.session /\ http'.crossed = crossed
  BY <1>3 DEF Basics, Types, HttpType
<1>5. \A t \in Streams : slot[t] = NoSlot \/ (slot[t].present /\ slot[t].next = SlotOf(t).next)
  BY SeatedSlot
<1>6. \A t \in Streams : slot[t].next = SlotOf(t).next
  BY SeatedSlot
<1>7. Offering' =>
        /\ http.stream \in Streams
        /\ \/ /\ http'.crossed = http.crossed
              /\ slot'[http.stream].next = SlotOf(http.stream).next
           \/ http'.crossed = TRUE /\ slot'[http.stream].recipients = {}
  <2> SUFFICES ASSUME Offering'
               PROVE  /\ http.stream \in Streams
                      /\ \/ /\ http'.crossed = http.crossed
                            /\ slot'[http.stream].next = SlotOf(http.stream).next
                         \/ http'.crossed = TRUE /\ slot'[http.stream].recipients = {}
    OBVIOUS
  <2>1. PICK t \in Streams : t = http.stream
    BY <1>4 DEF Offering, Basics, Made
  <2>2. http.crossed \in BOOLEAN
    BY DEF Basics, Types, HttpType
  <2>3. CASE t \in ss
    BY <1>3, <1>4, <2>1, <2>3, IdleTypes DEF crossed
  <2>4. CASE t \notin ss
    <3>1. http'.crossed = http.crossed
      BY <1>4, <2>1, <2>2, <2>4 DEF crossed
    <3> QED
      BY <1>3, <1>6, <2>1, <2>4, <3>1
  <2> QED
    BY <2>3, <2>4
<1>8. ASSUME NEW t \in Streams
      PROVE  /\ slot'[t].recipients \subseteq slot[t].recipients
             /\ slot'[t] = NoSlot \/ (slot'[t].present /\ slot'[t].next = SlotOf(t).next)
  <2>1. slot'[t] = NoSlot \/ slot'[t] = slot[t]
    BY <1>3
  <2>2. CASE slot'[t] = NoSlot
    <3>1. slot'[t].recipients = {}
      BY <2>2, IdleTypes
    <3>2. slot'[t].recipients \subseteq slot[t].recipients
      BY <3>1, Zenon
    <3> QED
      BY <2>2, <3>2, Zenon
  <2>3. CASE slot'[t] = slot[t]
    BY <1>5, <2>3
  <2> QED
    BY <2>1, <2>2, <2>3
<1> QED
  BY <1>2, <1>4, <1>7, <1>8, SeatsKept DEF Basics

LEMMA RemovalSeats ==
  ASSUME Basics, Seats, RemoveFromCore \/ CloseListener \/ StopEnd \/ Start \/ UNCHANGED vars
  PROVE  Seats'
<1>1. UNCHANGED <<slot, session, http>>
  BY DEF RemoveFromCore, CloseListener, StopEnd, Start, vars
<1>2. \A t \in Streams : registry'[t].life = registry[t].life \/ registry'[t].life = None
  BY DEF RemoveFromCore, CloseListener, StopEnd, Start, vars, Basics, Types
<1>3. \A t \in Streams : slot[t] = NoSlot \/ (slot[t].present /\ slot[t].next = SlotOf(t).next)
  BY SeatedSlot
<1>4. \A t \in Streams : slot[t].next = SlotOf(t).next
  BY SeatedSlot
<1>5. Offering' => Offering /\ http.stream \in Streams
  BY <1>1 DEF Offering, Basics, Made
<1> QED
  BY <1>1, <1>2, <1>3, <1>4, <1>5, SeatsKept DEF Basics

\* A registration is newer than every session.
LEMMA RegisterSeats ==
  ASSUME Basics, Seats, NEW s \in Streams, NEW max \in Limits, RegisterStream(s, max)
  PROVE  Seats'
<1>1. /\ UNCHANGED <<slot, session, http>>
      /\ registry' = [registry EXCEPT ![s] = [life |-> lives + 1, max |-> max]]
  BY DEF RegisterStream
<1>2. /\ lives \in Nat /\ registry'[s].life = lives + 1
      /\ \A t \in Streams : t # s => registry'[t] = registry[t]
  BY <1>1 DEF Basics, Types
<1>3. \A t \in Streams : \A r \in slot[t].recipients :
        session[r.session].life \in Nat /\ session[r.session].life <= lives
  BY DEF Basics, Numbered, Types, SlotType, SessionType, Recipient
<1>4. Seated'
  <2>1. ASSUME NEW t \in Streams, NEW r \in slot[t].recipients, Present(t)'
        PROVE  session[r.session].life <= registry'[t].life
    <3>1. CASE t = s
      BY <1>2, <1>3, <3>1
    <3>2. CASE t # s
      BY <1>2, <2>1, <3>2 DEF Present, Seats, Seated
    <3> QED
      BY <3>1, <3>2
  <2> QED
    BY <1>1, <2>1 DEF Seats, Seated
<1>5. Admitting'
  <2> SUFFICES ASSUME Offering
               PROVE  registry'[http.stream].life # None =>
                        http.life <= registry'[http.stream].life
    BY <1>1 DEF Seats, Admitting, Offering
  <2>1. PICK t \in Streams : t = http.stream
    BY DEF Basics, Made, Offering
  <2>2. http.life \in Nat /\ http.life <= lives
    BY <1>2 DEF Basics, Numbered, Offering
  <2>3. CASE t = s
    BY <1>2, <2>1, <2>2, <2>3
  <2>4. CASE t # s
    BY <1>2, <2>1, <2>4 DEF Seats, Admitting
  <2> QED
    BY <2>3, <2>4
<1> QED
  BY <1>4, <1>5 DEF Seats

\* An offer begins under the stream's registration, the newest its recipients can have.
LEMMA BeginSeats ==
  ASSUME Basics, Seats, NEW s \in Streams, OfferBegin(s)
  PROVE  Seats'
<1>1. /\ UNCHANGED <<registry, slot, session>> /\ Present(s)
      /\ http' = [IdleHttp EXCEPT !.pc = "limit", !.stream = s, !.life = registry[s].life]
  BY DEF OfferBegin
<1>2. /\ http'.pc = "limit" /\ http'.stream = s /\ http'.life = registry[s].life
      /\ http'.crossed = FALSE
  BY <1>1 DEF IdleHttp
<1>3. registry[s].life \in Nat
  BY DEF Basics, Types, RegistrationType
<1>4. Seated'
  BY <1>1, <1>2 DEF Seats, Seated, Present
<1>5. Admitting'
  <2>1. \A r \in slot[s].recipients : session[r.session].life <= registry[s].life
    BY <1>1 DEF Seats, Seated
  <2>2. registry[s].life <= registry[s].life
    BY <1>3
  <2> QED
    BY <1>1, <1>2, <2>1, <2>2 DEF Admitting
<1> QED
  BY <1>4, <1>5 DEF Seats

LEMMA LimitSeats ==
  ASSUME Basics, Seats, OfferLimit
  PROVE  Seats'
<1> DEFINE max == IF Present(http.stream) THEN registry[http.stream].max ELSE 1
<1>1. /\ UNCHANGED <<registry, slot, session>> /\ http.pc = "limit"
      /\ http' = [http EXCEPT !.pc = "reserve", !.max = max]
  BY DEF OfferLimit
<1> HIDE DEF max
<1>2. /\ http'.pc = "reserve" /\ http'.stream = http.stream /\ http'.life = http.life
      /\ http'.crossed = http.crossed
  BY <1>1 DEF Basics, Types, HttpType
<1>3. Seated'
  BY <1>1, <1>2 DEF Seats, Seated, Present
<1>4. Admitting'
  BY <1>1, <1>2 DEF Seats, Admitting, Offering
<1> QED
  BY <1>3, <1>4 DEF Seats

\* The generation an offer is given is above those of all who have a place under one of
\* this slot's.
LEMMA ReserveSeats ==
  ASSUME Basics, Seats, OfferReserve
  PROVE  Seats'
<1>0. PICK s \in Streams : s = http.stream
  BY DEF OfferReserve, Basics, Made
<1> DEFINE sl == Pruned(SlotOf(s))
           g == Generation(sl)
           seats == [sl EXCEPT !.next = g, !.queue = 0]
<1>1. /\ UNCHANGED <<registry, session>> /\ http.pc = "reserve"
      /\ \/ slot' = [slot EXCEPT ![s] = sl] /\ http' = IdleHttp
         \/ /\ slot' = [slot EXCEPT ![s] = seats]
            /\ http' = [http EXCEPT !.pc = "apply", !.gen = g, !.inHand = sl.queue]
  BY <1>0 DEF OfferReserve
<1>2. /\ sl \in SlotType /\ sl.present /\ sl.next = SlotOf(s).next /\ sl.next \in Nat
      /\ sl.recipients \subseteq slot[s].recipients
  BY PrunedSeats, PrunedPlace
<1>3. slot[s].next = sl.next
  BY <1>2, SeatedSlot
<1>4. g = sl.next + 1
  BY DEF Generation
<1> HIDE DEF sl, g
<1>5. /\ seats.recipients = sl.recipients /\ seats.next = g /\ seats.present
  BY <1>2 DEF SlotType
<1> HIDE DEF seats
<1>6. CASE slot' = [slot EXCEPT ![s] = sl] /\ http' = IdleHttp
  <2>1. \A t \in Streams : t # s => slot'[t] = slot[t]
    BY <1>6
  <2>2. slot'[s] = sl
    BY <1>6 DEF Basics, Types
  <2>3. http'.pc = "idle"
    BY <1>6, IdleTypes
  <2> QED
    BY <1>1, <1>2, <2>1, <2>2, <2>3, SlotsSeats
<1>7. CASE /\ slot' = [slot EXCEPT ![s] = seats]
           /\ http' = [http EXCEPT !.pc = "apply", !.gen = g, !.inHand = sl.queue]
  <2>1. slot'[s] = seats /\ \A t \in Streams : t # s => slot'[t] = slot[t]
    BY <1>7 DEF Basics, Types
  <2>2. /\ http'.pc = "apply" /\ http'.stream = s /\ http'.life = http.life
        /\ http'.gen = g /\ http'.crossed = http.crossed
    BY <1>0, <1>7 DEF Basics, Types, HttpType
  <2>3. \A r \in slot[s].recipients : r.gen \in Nat
    BY DEF Basics, Types, SlotType, Recipient
  <2>4. \A r \in slot[s].recipients : ~session[r.session].crossed => r.gen <= sl.next
    BY <1>3 DEF Seats, Seated
  <2>5. Seated'
    <3> SUFFICES ASSUME NEW t \in Streams
                 PROVE  /\ ~slot'[t].present => slot'[t] = NoSlot
                        /\ \A r \in slot'[t].recipients :
                             /\ session[r.session].life >= 1
                             /\ Present(t) => session[r.session].life <= registry[t].life
                             /\ ~session[r.session].crossed => r.gen <= slot'[t].next
      BY <1>1, <2>2 DEF Seated, Present
    <3>1. CASE t = s
      <4>1. slot'[t] = seats
        BY <2>1, <3>1
      <4>2. \A r \in seats.recipients :
              /\ session[r.session].life >= 1
              /\ Present(s) => session[r.session].life <= registry[s].life
        BY <1>2, <1>5 DEF Seats, Seated
      <4>3. \A r \in seats.recipients : ~session[r.session].crossed => r.gen <= seats.next
        BY <1>2, <1>4, <1>5, <2>3, <2>4
      <4> QED
        BY <1>5, <3>1, <4>1, <4>2, <4>3
    <3>2. CASE t # s
      BY <2>1, <3>2 DEF Seats, Seated
    <3> QED
      BY <3>1, <3>2
  <2>6. Admitting'
    <3>1. /\ registry[s].life # None => http.life <= registry[s].life
          /\ \A r \in slot[s].recipients :
               ~http.crossed /\ session[r.session].life <= http.life
      BY <1>0, <1>1 DEF Seats, Admitting, Offering
    <3>2. \A r \in seats.recipients : ~session[r.session].crossed => r.gen < g
      BY <1>2, <1>4, <1>5, <2>3, <2>4
    <3>3. g <= seats.next
      BY <1>2, <1>4, <1>5
    <3>4. \A r \in seats.recipients : ~http.crossed /\ session[r.session].life <= http.life
      BY <1>2, <1>5, <3>1
    <3> QED
      BY <1>1, <2>1, <2>2, <3>1, <3>2, <3>3, <3>4 DEF Admitting
  <2> QED
    BY <2>5, <2>6 DEF Seats
<1> QED
  BY <1>1, <1>6, <1>7

\* The session of an offer is a new one.
LEMMA ApplySeats ==
  ASSUME Basics, Seats, NEW ok \in BOOLEAN, OfferApply(ok)
  PROVE  Seats'
<1>1. UNCHANGED <<registry, slot>> /\ http.pc = "apply"
  BY DEF OfferApply
<1>2. CASE ~ok
  <2>1. http' = IdleHttp /\ session' = session
    BY <1>2 DEF OfferApply
  <2> QED
    BY <1>1, <2>1, IdleTypes, SlotsSeats
<1>3. CASE ok
  <2> DEFINE new == [stream |-> http.stream, life |-> http.life, crossed |-> FALSE,
                     active |-> TRUE, open |-> TRUE]
  <2>1. /\ session' = [session EXCEPT ![offers + 1] = new]
        /\ http' = [http EXCEPT !.pc = "insert", !.session = offers + 1]
    BY <1>3 DEF OfferApply
  <2> HIDE DEF new
  <2>2. /\ http'.pc = "insert" /\ http'.stream = http.stream /\ http'.life = http.life
        /\ http'.gen = http.gen /\ http'.crossed = http.crossed /\ http'.session = offers + 1
    BY <2>1 DEF Basics, Types, HttpType
  <2>3. \A t \in Streams : \A r \in slot[t].recipients :
          r.session # offers + 1 /\ session'[r.session] = session[r.session]
    <3>1. \A t \in Streams : \A r \in slot[t].recipients :
            r.session \in Nat /\ r.session <= offers /\ offers \in Nat
      BY DEF Basics, Types, Made, SlotType, Recipient, Sessions
    <3> QED
      BY <2>1, <3>1 DEF Basics, Types
  <2>4. Seated'
    <3> SUFFICES ASSUME NEW t \in Streams
                 PROVE  /\ ~slot[t].present => slot[t] = NoSlot
                        /\ \A r \in slot[t].recipients :
                             /\ session'[r.session].life >= 1
                             /\ Present(t) => session'[r.session].life <= registry[t].life
                             /\ ~session'[r.session].crossed => r.gen <= slot[t].next
                             /\ r.session # http'.session
      BY <1>1 DEF Seated, Present
    <3> QED
      BY <2>2, <2>3 DEF Seats, Seated
  <2>5. Admitting'
    <3>1. PICK s \in Streams : s = http.stream
      BY <1>1 DEF Basics, Made
    <3>2. /\ registry[s].life # None => http.life <= registry[s].life
          /\ \A r \in slot[s].recipients :
               /\ ~http.crossed /\ session[r.session].life <= http.life
               /\ ~session[r.session].crossed => r.gen < http.gen
          /\ ~http.crossed => http.gen <= slot[s].next
      BY <1>1, <3>1 DEF Seats, Admitting, Offering
    <3>3. \A r \in slot[s].recipients :
            /\ ~http.crossed /\ session'[r.session].life <= http.life
            /\ ~session'[r.session].crossed => r.gen < http.gen
      BY <2>3, <3>2
    <3> QED
      BY <1>1, <2>2, <3>1, <3>2, <3>3 DEF Admitting
  <2> QED
    BY <2>4, <2>5 DEF Seats
<1> QED
  BY <1>2, <1>3

\* The new recipient, and who stays beside it.
LEMMA InsertSeats ==
  ASSUME Basics, Seats, OfferInsert
  PROVE  Seats'
<1>0. PICK s \in Streams : s = http.stream
  BY DEF OfferInsert, Basics, Made
<1> DEFINE sl == Pruned(SlotOf(s))
           h == http.session
           kept == IF http.max = 1 THEN {} ELSE {r \in sl.recipients : r.gen # http.gen}
           new == [gen |-> http.gen, session |-> h]
           seats == [sl EXCEPT !.recipients = kept \cup {new}]
           previous == IF http.max = 1 THEN SessionsOf(sl.recipients) ELSE {}
<1>1. /\ UNCHANGED registry
      /\ http.pc = "insert" /\ h >= 1 /\ h <= offers
      /\ session[h].life = http.life /\ http.life \in 1..lives
      /\ slot' = [slot EXCEPT ![s] = seats]
      /\ session' = [session EXCEPT ![h] = [session[h] EXCEPT !.crossed = http.crossed]]
      /\ http' = [http EXCEPT !.pc = "replace", !.previous = previous]
  BY <1>0 DEF OfferInsert, Basics, Made, Numbered
<1>2. h \in Sessions /\ new.session = h /\ new.gen = http.gen
  BY <1>1 DEF Basics, Types, HttpType, Sessions
<1>3. /\ sl \in SlotType /\ sl.present /\ sl.next = SlotOf(s).next /\ sl.next \in Nat
      /\ sl.recipients \subseteq slot[s].recipients
  BY PrunedSeats, PrunedPlace
<1>4. slot[s].next = sl.next
  BY <1>3, SeatedSlot
<1> HIDE DEF sl, h, new
<1>5. kept \subseteq slot[s].recipients
  BY <1>3
<1> HIDE DEF kept, previous
<1>6. seats.next = sl.next /\ seats.present /\ seats.recipients = kept \cup {new}
  BY <1>3 DEF SlotType
<1> HIDE DEF seats
<1>7. slot'[s] = seats /\ \A t \in Streams : t # s => slot'[t] = slot[t]
  BY <1>1 DEF Basics, Types
<1>8. /\ \A m \in Sessions : m # h => session'[m] = session[m]
      /\ session'[h].life = http.life /\ session'[h].crossed = http.crossed
  BY <1>1, <1>2 DEF Basics, Types, SessionType
<1>9. http'.pc = "replace"
  BY <1>1 DEF Basics, Types, HttpType
<1>10. \A t \in Streams : \A r \in slot[t].recipients :
         session'[r.session] = session[r.session]
  <2>1. \A t \in Streams : \A r \in slot[t].recipients :
          r.session \in Sessions /\ r.session # h
    BY <1>1 DEF Basics, Types, SlotType, Recipient, Seats, Seated, h
  <2> QED
    BY <1>8, <2>1
<1>11. /\ registry[s].life # None => http.life <= registry[s].life
       /\ ~http.crossed => http.gen <= slot[s].next
  BY <1>0, <1>1 DEF Seats, Admitting, Offering
<1>12. Seated'
  <2> SUFFICES ASSUME NEW t \in Streams
               PROVE  /\ ~slot'[t].present => slot'[t] = NoSlot
                      /\ \A r \in slot'[t].recipients :
                           /\ session'[r.session].life >= 1
                           /\ Present(t) => session'[r.session].life <= registry[t].life
                           /\ ~session'[r.session].crossed => r.gen <= slot'[t].next
    BY <1>1, <1>9 DEF Seated, Present
  <2>1. CASE t # s
    BY <1>7, <1>10, <2>1 DEF Seats, Seated
  <2>2. CASE t = s
    <3>1. \A r \in kept : /\ session'[r.session].life >= 1
                          /\ Present(s) => session'[r.session].life <= registry[s].life
                          /\ ~session'[r.session].crossed => r.gen <= slot[s].next
      BY <1>5, <1>10 DEF Seats, Seated
    <3>2. /\ session'[new.session].life >= 1
          /\ Present(s) => session'[new.session].life <= registry[s].life
          /\ ~session'[new.session].crossed => new.gen <= slot[s].next
      BY <1>1, <1>2, <1>8, <1>11 DEF Present
    <3>3. /\ slot'[t].present /\ slot'[t].next = slot[s].next
          /\ slot'[t].recipients = kept \cup {new}
      BY <1>4, <1>6, <1>7, <2>2
    <3> QED
      BY <2>2, <3>1, <3>2, <3>3
  <2> QED
    BY <2>1, <2>2
<1>13. Admitting'
  BY <1>9 DEF Admitting, Offering
<1> QED
  BY <1>12, <1>13 DEF Seats

LEMMA SeatsInit == Init => Seats
<1> SUFFICES ASSUME Init PROVE Seats
  OBVIOUS
<1>1. Seated
  BY IdleTypes DEF Init, Seated
<1>2. Admitting
  BY IdleTypes DEF Init, Admitting, Offering
<1> QED
  BY <1>1, <1>2 DEF Seats

LEMMA SeatsInductive == SignalingInv /\ Seats /\ [Next]_vars => Seats'
<1> SUFFICES ASSUME Basics, Seats, [Next]_vars
             PROVE  Seats'
  BY DEF SignalingInv
<1>1. CASE HttpStep
  BY <1>1, BeginSeats, LimitSeats, ReserveSeats, ApplySeats, InsertSeats, RequestSeats,
     SessionSeats, LookupSeats DEF HttpStep
<1>2. CASE AppStep
  BY <1>2, TakeSeats, RegisterSeats, SessionSeats, RemovalSeats DEF AppStep
<1>3. CASE UNCHANGED vars \/ (\E n \in Sessions : PeerGone(n))
             \/ Lookup(Streams) \/ (\E s \in Streams : Lookup({s}))
  BY <1>3, RemovalSeats, SessionSeats, LookupSeats
<1> QED
  BY <1>1, <1>2, <1>3 DEF Next

\* Looking a stream up takes nobody's place who is connected.
LEMMA PruningKeeps ==
  ASSUME Basics, Seats, NEW s \in Streams, NEW r \in slot[s].recipients,
         session[r.session].active,
         \/ OfferReserve \/ Lookup(Streams)
         \/ \E t \in Streams : AnswerLookup(t) \/ CandidateLookup(t) \/ Lookup({t})
  PROVE  r \in slot'[s].recipients
<1> DEFINE sl(t) == Pruned(SlotOf(t))
<1>1. sl(s) \in SlotType /\ r \in sl(s).recipients
  BY PrunedSeats, PrunedPlace
<1>2. slot[s].present
  BY IdleTypes DEF Seats, Seated
<1>3. Pruned(slot[s]) = sl(s)
  BY <1>2, PrunedSeats
<1>4. ASSUME NEW t \in Streams, NEW seats, seats.recipients = sl(t).recipients,
             slot' = [slot EXCEPT ![t] = seats]
      PROVE  r \in slot'[s].recipients
  <2>1. CASE s = t
    BY <1>1, <1>4, <2>1 DEF Basics, Types
  <2>2. CASE s # t
    BY <1>4, <2>2
  <2> QED
    BY <2>1, <2>2
<1>5. CASE OfferReserve
  <2>1. PICK t \in Streams : t = http.stream
    BY <1>5 DEF OfferReserve, Basics, Made
  <2> DEFINE v == sl(t)
             seats == [v EXCEPT !.next = Generation(v), !.queue = 0]
  <2>2. slot' = [slot EXCEPT ![t] = v] \/ slot' = [slot EXCEPT ![t] = seats]
    BY <1>5, <2>1 DEF OfferReserve
  <2>3. v \in SlotType
    BY PrunedPlace
  <2>4. seats.recipients = v.recipients
    <3> HIDE DEF v
    <3> QED
      BY <2>3 DEF SlotType
  <2> HIDE DEF seats
  <2> QED
    BY <1>4, <2>2, <2>4
<1>6. ASSUME NEW t \in Streams, AnswerLookup(t)
      PROVE  r \in slot'[s].recipients
  <2>1. Pruned(slot[t]) = sl(t)
    BY <1>6, PrunedSeats DEF AnswerLookup
  <2> QED
    BY <1>4, <1>6, <2>1 DEF AnswerLookup
<1>7. ASSUME NEW t \in Streams, CandidateLookup(t)
      PROVE  r \in slot'[s].recipients
  <2> DEFINE v == sl(t)
             seats == [v EXCEPT !.queue = v.queue + 1]
  <2>1. slot' = [slot EXCEPT ![t] = v] \/ slot' = [slot EXCEPT ![t] = seats]
    BY <1>7 DEF CandidateLookup
  <2>2. v \in SlotType
    BY PrunedPlace
  <2>3. seats.recipients = v.recipients
    <3> HIDE DEF v
    <3> QED
      BY <2>2 DEF SlotType
  <2> HIDE DEF seats
  <2> QED
    BY <1>4, <2>1, <2>3
<1>8. ASSUME NEW ss \in SUBSET Streams, Lookup(ss)
      PROVE  r \in slot'[s].recipients
  BY <1>1, <1>3, <1>8 DEF Lookup
<1> QED
  BY <1>5, <1>6, <1>7, <1>8

\* The place of a new viewer is nobody else's, unless there is only one.
LEMMA InsertDisplaces ==
  ASSUME Basics, Room, Seats, NEW s \in Streams, NEW r \in Current(s),
         session[r.session].active, ~session[r.session].crossed,
         OfferInsert, r \notin slot'[s].recipients
  PROVE  registry[s].max = 1 /\ r.session \in http'.previous
<1>0. PICK t \in Streams : t = http.stream
  BY DEF OfferInsert, Basics, Made
<1> DEFINE sl == Pruned(SlotOf(t))
           kept == IF http.max = 1 THEN {} ELSE {x \in sl.recipients : x.gen # http.gen}
           new == [gen |-> http.gen, session |-> http.session]
           seats == [sl EXCEPT !.recipients = kept \cup {new}]
           previous == IF http.max = 1 THEN SessionsOf(sl.recipients) ELSE {}
<1>1. /\ http.pc = "insert" /\ slot' = [slot EXCEPT ![t] = seats]
      /\ http' = [http EXCEPT !.pc = "replace", !.previous = previous]
  BY <1>0 DEF OfferInsert
<1>2. r \in slot[s].recipients /\ session[r.session].life = registry[s].life
  BY DEF Current
<1>3. s = t
  BY <1>1, <1>2
<1>4. r \in sl.recipients /\ sl \in SlotType
  BY <1>2, <1>3, PrunedSeats, PrunedPlace
<1> HIDE DEF sl, new
<1>5. http'.previous = previous
  <2> HIDE DEF previous
  <2> QED
    BY <1>1 DEF Basics, Types, HttpType
<1>6. slot'[s].recipients = kept \cup {new}
  <2>1. seats.recipients = kept \cup {new}
    BY <1>4 DEF SlotType
  <2> HIDE DEF seats
  <2> QED
    BY <1>1, <1>3, <2>1 DEF Basics, Types
<1>7. http.max = 1
  <2>1. r.gen \in Nat /\ http.gen \in Nat
    BY <1>2 DEF Basics, Types, SlotType, Recipient, HttpType
  <2>2. r.gen < http.gen
    BY <1>0, <1>1, <1>2, <1>3 DEF Seats, Admitting, Offering
  <2> QED
    BY <1>4, <1>6, <2>1, <2>2
<1>8. r.session \in http'.previous
  BY <1>4, <1>5, <1>7 DEF SessionsOf
<1>9. registry[s].max = 1
  <2>1. /\ session[r.session].life >= 1 /\ session[r.session].life <= http.life
        /\ registry[s].life # None => http.life <= registry[s].life
    BY <1>0, <1>1, <1>2, <1>3 DEF Seats, Seated, Admitting, Offering
  <2>2. registry[s].life \in Nat /\ http.life \in Nat
    BY DEF Basics, Types, RegistrationType, HttpType
  <2>3. Timely(s)
    BY <1>0, <1>2, <1>3, <2>1, <2>2 DEF Timely, None
  <2> QED
    BY <1>1, <1>7, <2>3 DEF Room, LimitInForce
<1> QED
  BY <1>8, <1>9

\* A connected viewer keeps its place and its id, whatever others offer, answer, look up or
\* lose, and however registrations change during an offer, until its stream is removed, the
\* server is stopped or, where there is only one place, the next viewer takes it.
THEOREM ViewersKeepTheirPlaces == Spec => ActiveRecipientsKept
<1>1. ASSUME Basics, Room, Seats, [Next]_vars, NEW s \in Streams, NEW r \in Current(s),
             session[r.session].active, ~session[r.session].crossed,
             app.pc = "idle", app'.pc = "idle", r \notin slot'[s].recipients
      PROVE  registry[s].max = 1 /\ r.session \in http'.previous
  <2>1. r \in slot[s].recipients
    BY DEF Current
  <2>2. CASE UNCHANGED slot
    BY <1>1, <2>1, <2>2
  <2>3. CASE OfferReserve \/ (\E t \in Streams : AnswerLookup(t) \/ CandidateLookup(t)
                                                   \/ Lookup({t})) \/ Lookup(Streams)
    BY <1>1, <2>1, <2>3, PruningKeeps
  <2>4. CASE (\E t \in Streams : RemoveBegin(t)) \/ StopBegin
    <3>1. app'.pc \in {"removing", "closing"}
      BY <2>4 DEF RemoveBegin, StopBegin, TakeSlots
    <3> QED
      BY <1>1, <3>1
  <2>5. CASE OfferInsert
    BY <1>1, <2>5, InsertDisplaces
  <2> QED
    BY <1>1, <2>2, <2>3, <2>4, <2>5
    DEF Next, vars, HttpStep, AppStep, OfferBegin, OfferLimit, OfferCandidate, OfferEnd,
        OfferApply, OfferStopPrevious, RemoteApply, RegisterStream, StopSession,
        RemoveFromCore, CloseListener, StopEnd, Start, PeerGone
<1>2. SignalingInv /\ Seats /\ [Next]_vars =>
        [\A s \in Streams : \A r \in Current(s) :
           /\ session[r.session].active /\ ~session[r.session].crossed
           /\ app.pc = "idle" /\ app'.pc = "idle"
           /\ r \notin slot'[s].recipients
           => registry[s].max = 1 /\ r.session \in http'.previous]_vars
  BY <1>1 DEF SignalingInv
<1> QED
  BY <1>2, SignalingInit, SignalingInductive, SeatsInit, SeatsInductive, PTL
  DEF Spec, ActiveRecipientsKept

-----------------------------------------------------------------------------
(* The promise to the viewers, step by step.                               *)

\* The viewer v has a place at the stream s.
HasPlace(s, v) ==
  \E r \in slot[s].recipients :
    /\ r.session = v /\ session[v].life = registry[s].life
    /\ session[v].active /\ ~session[v].crossed

LEMMA SeatedMeans ==
  ASSUME NEW s
  PROVE  SeatedAt(s) = {r.session : r \in {q \in slot[s].recipients :
           session[q.session].life = registry[s].life
             /\ session[q.session].active /\ ~session[q.session].crossed}}
  BY DEF SeatedAt, Current

LEMMA SeatedThere == \A s, v : v \in SeatedAt(s) <=> HasPlace(s, v)
  BY DEF SeatedAt, Current, HasPlace

LEMMA SeatedNext == (\A s, v : v \in SeatedAt(s) <=> HasPlace(s, v))'
  BY DEF SeatedAt, Current, HasPlace

\* What the abstract variables are.
PlacesOf(s) == IF Present(s) THEN registry[s].max ELSE 0

\* A step that shows nothing.
LEMMA NothingSeen ==
  ASSUME \A s \in Streams : PlacesOf(s)' = PlacesOf(s),
         \A s \in Streams : \A v : HasPlace(s, v)' <=> HasPlace(s, v),
         CameSoFar' = CameSoFar
  PROVE  UNCHANGED Places!placesVars
<1>1. \A s \in Streams : SeatedAt(s)' = SeatedAt(s)
  <2> TAKE s \in Streams
  <2>1. \A v : v \in SeatedAt(s)' <=> v \in SeatedAt(s)
    BY SeatedThere, SeatedNext
  <2> QED
    BY <2>1
<1> QED
  BY <1>1 DEF Places!placesVars, PlacesOf

\* A viewer that goes.
LEMMA OneLeaves ==
  ASSUME NEW n \in Sessions,
         \A s \in Streams : PlacesOf(s)' = PlacesOf(s),
         \A s \in Streams : \A v : HasPlace(s, v)' <=> HasPlace(s, v) /\ v # n,
         CameSoFar' = CameSoFar
  PROVE  Places!Leave(n)
<1>1. \A s \in Streams : SeatedAt(s)' = SeatedAt(s) \ {n}
  <2> TAKE s \in Streams
  <2>1. \A v : v \in SeatedAt(s)' <=> v \in SeatedAt(s) \ {n}
    BY SeatedThere, SeatedNext
  <2> QED
    BY <2>1
<1> QED
  BY <1>1 DEF Places!Leave, PlacesOf

\* A viewer that comes and gets no place.
LEMMA OneTurnedAway ==
  ASSUME NEW n \in Sessions,
         \A s \in Streams : PlacesOf(s)' = PlacesOf(s),
         \A s \in Streams : \A v : HasPlace(s, v)' <=> HasPlace(s, v),
         n \notin CameSoFar, CameSoFar' = CameSoFar \cup {n}
  PROVE  Places!TurnAway(n)
<1>1. \A s \in Streams : SeatedAt(s)' = SeatedAt(s)
  <2> TAKE s \in Streams
  <2>1. \A v : v \in SeatedAt(s)' <=> v \in SeatedAt(s)
    BY SeatedThere, SeatedNext
  <2> QED
    BY <2>1
<1> QED
  BY <1>1 DEF Places!TurnAway, Places!Comes, PlacesOf

\* Viewers that are all sent away.
LEMMA AllCleared ==
  ASSUME NEW ss \in SUBSET Streams,
         \A s \in Streams : PlacesOf(s)' = PlacesOf(s),
         \A s \in Streams : \A v : HasPlace(s, v)' <=> HasPlace(s, v) /\ s \notin ss,
         CameSoFar' = CameSoFar
  PROVE  Places!Clear(ss)
<1>1. \A s \in Streams : SeatedAt(s)' = IF s \in ss THEN {} ELSE SeatedAt(s)
  <2> TAKE s \in Streams
  <2>1. \A v : v \in SeatedAt(s)' <=> v \in (IF s \in ss THEN {} ELSE SeatedAt(s))
    BY SeatedThere, SeatedNext
  <2> QED
    BY <2>1
<1> QED
  BY <1>1 DEF Places!Clear, PlacesOf

-----------------------------------------------------------------------------
\* The steps that leave slots, sessions and registrations alone.
LEMMA QuietUnseen ==
  ASSUME Basics,
         \/ \E s \in Streams : OfferBegin(s)
         \/ OfferLimit \/ OfferCandidate \/ OfferEnd \/ RemoteApply
         \/ CloseListener \/ StopEnd \/ Start
  PROVE  UNCHANGED Places!placesVars
<1>1. UNCHANGED <<registry, slot, session, offers>>
  BY DEF OfferBegin, OfferLimit, OfferCandidate, OfferEnd, RemoteApply, CloseListener,
         StopEnd, Start
<1>2. \/ http' = http
      \/ http.pc # "insert" /\ http'.pc # "insert"
  <2>1. CASE CloseListener \/ StopEnd \/ Start
    BY <2>1 DEF CloseListener, StopEnd, Start
  <2>2. CASE (\E s \in Streams : OfferBegin(s)) \/ OfferEnd \/ RemoteApply
    BY <2>2, IdleTypes DEF OfferBegin, OfferEnd, RemoteApply, CallPeer, IdleHttp
  <2>3. CASE OfferLimit
    BY <2>3 DEF OfferLimit, Basics, Types, HttpType
  <2>4. CASE OfferCandidate
    <3>1. \/ http' = [http EXCEPT !.inHand = http.inHand - 1]
          \/ http' = [IdleHttp EXCEPT !.pc = "crashed"]
      BY <2>4 DEF OfferCandidate, CallPeer
    <3> QED
      BY <2>4, <3>1 DEF OfferCandidate, Basics, Types, HttpType, IdleHttp
  <2> QED
    BY <2>1, <2>2, <2>3, <2>4
<1>3. CameSoFar' = CameSoFar
  BY <1>1, <1>2 DEF CameSoFar
<1>4. \A s \in Streams : PlacesOf(s)' = PlacesOf(s)
  BY <1>1 DEF PlacesOf, Present
<1>5. \A s \in Streams : \A v : HasPlace(s, v)' <=> HasPlace(s, v)
  BY <1>1 DEF HasPlace
<1> QED
  BY <1>3, <1>4, <1>5, NothingSeen

\* Pruning adds nobody.
LEMMA PruningOnly ==
  ASSUME Basics, Seats, NEW s \in Streams, NEW r \in slot'[s].recipients,
         \/ OfferReserve \/ Lookup(Streams)
         \/ \E t \in Streams : AnswerLookup(t) \/ CandidateLookup(t) \/ Lookup({t})
  PROVE  r \in slot[s].recipients
<1> DEFINE sl(t) == Pruned(SlotOf(t))
<1>1. \A t \in Streams : sl(t).recipients \subseteq slot[t].recipients
  BY PrunedPlace
<1>2. \A t \in Streams : Pruned(slot[t]).recipients \subseteq slot[t].recipients
  BY PrunedPlace
<1>3. slot \in [Streams -> SlotType]
  BY DEF Basics, Types
<1>4. ASSUME NEW t \in Streams, NEW seats,
             seats.recipients \subseteq slot[t].recipients,
             slot' = [slot EXCEPT ![t] = seats]
      PROVE  r \in slot[s].recipients
  <2>1. CASE s = t
    BY <1>3, <1>4, <2>1
  <2>2. CASE s # t
    BY <1>3, <1>4, <2>2
  <2> QED
    BY <2>1, <2>2
<1>5. CASE OfferReserve
  <2>1. PICK t \in Streams : t = http.stream
    BY <1>5 DEF OfferReserve, Basics, Made
  <2> DEFINE v == sl(t)
             seats == [v EXCEPT !.next = Generation(v), !.queue = 0]
  <2>2. slot' = [slot EXCEPT ![t] = v] \/ slot' = [slot EXCEPT ![t] = seats]
    BY <1>5, <2>1 DEF OfferReserve
  <2>3. v \in SlotType
    BY PrunedPlace
  <2>4. seats.recipients = v.recipients
    <3> HIDE DEF v
    <3> QED
      BY <2>3 DEF SlotType
  <2> HIDE DEF seats
  <2> QED
    BY <1>1, <1>4, <2>2, <2>4
<1>6. ASSUME NEW t \in Streams, AnswerLookup(t)
      PROVE  r \in slot[s].recipients
  BY <1>2, <1>4, <1>6 DEF AnswerLookup
<1>7. ASSUME NEW t \in Streams, CandidateLookup(t)
      PROVE  r \in slot[s].recipients
  <2> DEFINE v == sl(t)
             seats == [v EXCEPT !.queue = v.queue + 1]
  <2>1. slot' = [slot EXCEPT ![t] = v] \/ slot' = [slot EXCEPT ![t] = seats]
    BY <1>7 DEF CandidateLookup
  <2>2. v \in SlotType
    BY PrunedPlace
  <2>3. seats.recipients = v.recipients
    <3> HIDE DEF v
    <3> QED
      BY <2>2 DEF SlotType
  <2> HIDE DEF seats
  <2> QED
    BY <1>1, <1>4, <2>1, <2>3
<1>8. ASSUME NEW ss \in SUBSET Streams, Lookup(ss)
      PROVE  r \in slot[s].recipients
  <2>1. slot'[s] = Pruned(slot[s]) \/ slot'[s] = slot[s]
    BY <1>8 DEF Lookup
  <2> QED
    BY <1>2, <2>1
<1> QED
  BY <1>5, <1>6, <1>7, <1>8

\* Looking a stream up, for whatever reason, changes no place.
LEMMA LookupUnseen ==
  ASSUME Basics, Seats,
         \/ OfferReserve \/ Lookup(Streams)
         \/ \E t \in Streams : AnswerLookup(t) \/ CandidateLookup(t) \/ Lookup({t})
  PROVE  UNCHANGED Places!placesVars
<1>1. UNCHANGED <<registry, session, offers>>
  BY DEF OfferReserve, AnswerLookup, CandidateLookup, Lookup
<1>2. \/ http' = http
      \/ http.pc # "insert" /\ http'.pc # "insert"
  <2>1. CASE OfferReserve
    <3>1. \/ http' = IdleHttp
          \/ \E g, q : http' = [http EXCEPT !.pc = "apply", !.gen = g, !.inHand = q]
      BY <2>1 DEF OfferReserve
    <3> QED
      BY <2>1, <3>1, IdleTypes DEF OfferReserve, Basics, Types, HttpType
  <2>2. ASSUME NEW t \in Streams, AnswerLookup(t) \/ CandidateLookup(t)
        PROVE  http' = http \/ (http.pc # "insert" /\ http'.pc # "insert")
    BY <2>2, IdleTypes DEF AnswerLookup, CandidateLookup, IdleHttp
  <2>3. CASE Lookup(Streams) \/ \E t \in Streams : Lookup({t})
    BY <2>3 DEF Lookup
  <2> QED
    BY <2>1, <2>2, <2>3
<1>3. CameSoFar' = CameSoFar
  BY <1>1, <1>2 DEF CameSoFar
<1>4. \A s \in Streams : PlacesOf(s)' = PlacesOf(s)
  BY <1>1 DEF PlacesOf, Present
<1>5. \A s \in Streams : \A v : HasPlace(s, v)' <=> HasPlace(s, v)
  <2>1. ASSUME NEW s \in Streams, NEW r \in slot[s].recipients, session[r.session].active
        PROVE  r \in slot'[s].recipients
    BY <2>1, PruningKeeps
  <2>2. ASSUME NEW s \in Streams, NEW r \in slot'[s].recipients
        PROVE  r \in slot[s].recipients
    BY <2>2, PruningOnly
  <2> QED
    BY <1>1, <2>1, <2>2 DEF HasPlace
<1> QED
  BY <1>3, <1>4, <1>5, NothingSeen

\* A session that is stopped, or whose connection is lost, leaves.
LEMMA EndingLeaves ==
  ASSUME Basics, NEW n \in Sessions,
         PeerGone(n) \/ OfferStopPrevious(n) \/ StopSession(n)
  PROVE  Places!Leave(n)
<1>1. UNCHANGED <<registry, slot, offers>>
  BY DEF PeerGone, OfferStopPrevious, StopSession
<1>2. \/ http' = http
      \/ http.pc # "insert" /\ http'.pc # "insert"
  BY DEF PeerGone, OfferStopPrevious, StopSession, Basics, Types, HttpType
<1>3. /\ ~session'[n].active
      /\ \A m \in Sessions : m # n => session'[m] = session[m]
  <2>1. CASE PeerGone(n)
    BY <2>1 DEF PeerGone, Basics, Types, SessionType
  <2>2. CASE OfferStopPrevious(n) \/ StopSession(n)
    BY <2>2, StoppedSessions DEF OfferStopPrevious, StopSession, Basics
  <2> QED
    BY <2>1, <2>2
<1>4. CameSoFar' = CameSoFar
  BY <1>1, <1>2 DEF CameSoFar
<1>5. \A s \in Streams : PlacesOf(s)' = PlacesOf(s)
  BY <1>1 DEF PlacesOf, Present
<1>6. \A s \in Streams : \A r \in slot[s].recipients : r.session \in Sessions
  BY DEF Basics, Types, SlotType, Recipient
<1>7. \A s \in Streams : \A v : HasPlace(s, v)' <=> HasPlace(s, v) /\ v # n
  BY <1>1, <1>3, <1>6 DEF HasPlace
<1> QED
  BY <1>4, <1>5, <1>7, OneLeaves

\* A removal or a stop clears the streams it is about.
LEMMA TakingClears ==
  ASSUME Basics, NEW ss \in SUBSET Streams,
         \/ ss = Streams /\ StopBegin
         \/ \E s \in Streams : ss = {s} /\ RemoveBegin(s)
  PROVE  Places!Clear(ss)
<1>1. /\ UNCHANGED <<registry, session, offers>>
      /\ slot' = [u \in Streams |-> IF u \in ss THEN NoSlot ELSE slot[u]]
      /\ http' = [http EXCEPT !.crossed = @ \/ http.stream \in ss]
  BY DEF StopBegin, RemoveBegin, TakeSlots
<1>2. http'.pc = http.pc /\ http'.session = http.session
  BY <1>1 DEF Basics, Types, HttpType
<1>3. CameSoFar' = CameSoFar
  BY <1>1, <1>2 DEF CameSoFar
<1>4. \A s \in Streams : PlacesOf(s)' = PlacesOf(s)
  BY <1>1 DEF PlacesOf, Present
<1>5. \A s \in Streams : \A v : HasPlace(s, v)' <=> HasPlace(s, v) /\ s \notin ss
  BY <1>1, IdleTypes DEF HasPlace
<1> QED
  BY <1>3, <1>4, <1>5, AllCleared

\* A session is made for an offer, and has not come yet; or the offer fails.
LEMMA ApplyUnseen ==
  ASSUME Basics, OfferApply(TRUE)
  PROVE  UNCHANGED Places!placesVars
<1>1. /\ UNCHANGED <<registry, slot>> /\ offers' = offers + 1 /\ http.pc = "apply"
      /\ http' = [http EXCEPT !.pc = "insert", !.session = offers + 1]
      /\ offers < MaxOffers /\ offers \in Nat
  BY SignalingAssumption DEF SignalingAssumption, OfferApply, Basics, Made, Types
<1>2. \A m \in Sessions : m # offers + 1 => session'[m] = session[m]
  BY DEF OfferApply, Basics, Types
<1>3. http'.pc = "insert" /\ http'.session = offers + 1
  BY <1>1 DEF Basics, Types, HttpType
<1>4. CameSoFar' = CameSoFar
  BY <1>1, <1>3 DEF CameSoFar
<1>5. \A s \in Streams : PlacesOf(s)' = PlacesOf(s)
  BY <1>1 DEF PlacesOf, Present
<1>6. \A s \in Streams : \A r \in slot[s].recipients :
        r.session \in Sessions /\ r.session # offers + 1
  <2>1. \A s \in Streams : \A r \in slot[s].recipients :
          r.session \in Sessions /\ r.session <= offers
    BY DEF Basics, Types, Made, SlotType, Recipient
  <2> QED
    BY <1>1, <2>1 DEF Sessions
<1>7. \A s \in Streams : \A v : HasPlace(s, v)' <=> HasPlace(s, v)
  BY <1>1, <1>2, <1>6 DEF HasPlace
<1> QED
  BY <1>4, <1>5, <1>7, NothingSeen

LEMMA FailureTurnsAway ==
  ASSUME Basics, OfferApply(FALSE)
  PROVE  \E v \in Sessions : Places!TurnAway(v)
<1>1. /\ UNCHANGED <<registry, slot, session>> /\ offers' = offers + 1 /\ http.pc = "apply"
      /\ http' = IdleHttp /\ offers < MaxOffers /\ offers \in Nat
  BY SignalingAssumption DEF SignalingAssumption, OfferApply, Basics, Made, Types
<1>2. http'.pc = "idle"
  BY <1>1, IdleTypes
<1>3. CameSoFar' = CameSoFar \cup {offers + 1} /\ offers + 1 \notin CameSoFar
  BY <1>1, <1>2 DEF CameSoFar
<1>4. offers + 1 \in Sessions
  BY <1>1, SignalingAssumption DEF SignalingAssumption, Sessions
<1>5. \A s \in Streams : PlacesOf(s)' = PlacesOf(s)
  BY <1>1 DEF PlacesOf, Present
<1>6. \A s \in Streams : \A v : HasPlace(s, v)' <=> HasPlace(s, v)
  BY <1>1 DEF HasPlace
<1>7. Places!TurnAway(offers + 1)
  BY <1>3, <1>4, <1>5, <1>6, OneTurnedAway
<1> QED
  BY <1>4, <1>7

\* A stream that is not there has no viewers.
LEMMA ClosedIsEmpty ==
  ASSUME Basics, Seats, NEW s \in Streams, ~Present(s), NEW v
  PROVE  ~HasPlace(s, v)
BY DEF HasPlace, Present, None, Seats, Seated

\* A stream that is registered opens, without viewers.
LEMMA RegisteringOpens ==
  ASSUME Basics, Seats, NEW s \in Streams, NEW max \in Limits, RegisterStream(s, max)
  PROVE  Places!Open(s, max)
<1>1. /\ UNCHANGED <<slot, session, offers, http>> /\ ~Present(s)
      /\ registry' = [registry EXCEPT ![s] = [life |-> lives + 1, max |-> max]]
      /\ lives \in Nat
  BY SignalingAssumption DEF SignalingAssumption, RegisterStream, Basics, Types
<1>2. /\ registry'[s].life = lives + 1 /\ registry'[s].max = max
      /\ \A t \in Streams : t # s => registry'[t] = registry[t]
  BY <1>1 DEF Basics, Types
<1>3. PlacesOf(s) = 0 /\ PlacesOf(s)' = max
  BY <1>1, <1>2 DEF PlacesOf, Present, None
<1>4. \A t \in Streams : t # s => PlacesOf(t)' = PlacesOf(t)
  BY <1>2 DEF PlacesOf, Present
<1>5. \A t \in Streams : \A v : HasPlace(t, v)' <=> HasPlace(t, v)
  <2> SUFFICES ASSUME NEW t \in Streams, NEW v PROVE HasPlace(t, v)' <=> HasPlace(t, v)
    OBVIOUS
  <2>1. CASE t # s
    BY <1>1, <1>2, <2>1 DEF HasPlace
  <2>2. CASE t = s
    <3>1. ~HasPlace(s, v)
      BY <1>1, ClosedIsEmpty
    <3>2. \A r \in slot[s].recipients : session[r.session].life <= lives
                                        /\ session[r.session].life \in Nat
      BY DEF Basics, Types, Numbered, SlotType, Recipient, SessionType
    <3>3. \A r \in slot[s].recipients : session[r.session].life # lives + 1
      BY <1>1, <3>2
    <3>4. ~HasPlace(s, v)'
      BY <1>1, <1>2, <3>3 DEF HasPlace
    <3> QED
      BY <2>2, <3>1, <3>4
  <2> QED
    BY <2>1, <2>2
<1>6. \A t \in Streams : SeatedAt(t)' = SeatedAt(t)
  <2> TAKE t \in Streams
  <2>1. \A v : v \in SeatedAt(t)' <=> v \in SeatedAt(t)
    BY <1>5, SeatedThere, SeatedNext
  <2> QED
    BY <2>1
<1>7. CameSoFar' = CameSoFar
  BY <1>1 DEF CameSoFar
<1>8. [t \in Streams |-> PlacesOf(t)]' = [[t \in Streams |-> PlacesOf(t)] EXCEPT ![s] = max]
  BY <1>3, <1>4
<1> QED
  BY <1>3, <1>6, <1>7, <1>8 DEF Places!Open, Places!Closed, PlacesOf

\* The core forgets a stream that is being removed.
LEMMA RemovalCloses ==
  ASSUME Basics, Seats, RemoveFromCore
  PROVE  (\E s \in Streams : Places!Close(s)) \/ UNCHANGED Places!placesVars
<1>0. PICK s : s = app.stream
  OBVIOUS
<1> DEFINE gone == [life |-> None, max |-> 0]
<1>1. /\ UNCHANGED <<slot, session, offers, http>>
      /\ registry' = [registry EXCEPT ![s] = gone]
      /\ registry \in [Streams -> RegistrationType]
  BY <1>0 DEF RemoveFromCore, Basics, Types
<1>2. CASE s \in Streams
  <2>1. /\ registry'[s].life = 0 /\ registry'[s].max = 0
        /\ \A t \in Streams : t # s => registry'[t] = registry[t]
    BY <1>1, <1>2 DEF None
  <2>2. PlacesOf(s)' = 0 /\ \A t \in Streams : t # s => PlacesOf(t)' = PlacesOf(t)
    BY <2>1 DEF PlacesOf, Present, None
  <2>3. \A t \in Streams : \A v : HasPlace(t, v)' <=> HasPlace(t, v) /\ t # s
    <3> SUFFICES ASSUME NEW t \in Streams, NEW v
                 PROVE  HasPlace(t, v)' <=> HasPlace(t, v) /\ t # s
      OBVIOUS
    <3>1. CASE t # s
      BY <1>1, <2>1, <3>1 DEF HasPlace
    <3>2. CASE t = s
      <4>1. \A r \in slot[s].recipients : session[r.session].life # 0
        BY <1>2 DEF Seats, Seated
      <4>2. ~HasPlace(s, v)'
        BY <1>1, <2>1, <4>1 DEF HasPlace
      <4> QED
        BY <3>2, <4>2
    <3> QED
      BY <3>1, <3>2
  <2>4. \A t \in Streams : SeatedAt(t)' = IF t = s THEN {} ELSE SeatedAt(t)
    <3> TAKE t \in Streams
    <3>1. \A v : v \in SeatedAt(t)' <=> v \in (IF t = s THEN {} ELSE SeatedAt(t))
      BY <2>3, SeatedThere, SeatedNext
    <3> QED
      BY <3>1
  <2>5. CameSoFar' = CameSoFar
    BY <1>1 DEF CameSoFar
  <2>6. [t \in Streams |-> PlacesOf(t)]' = [[t \in Streams |-> PlacesOf(t)] EXCEPT ![s] = 0]
    BY <1>2, <2>2
  <2>7. [t \in Streams |-> SeatedAt(t)]' = [[t \in Streams |-> SeatedAt(t)] EXCEPT ![s] = {}]
    BY <1>2, <2>4
  <2>8. Places!Close(s)
    BY <2>5, <2>6, <2>7 DEF Places!Close, Places!Closed, PlacesOf
  <2> QED
    BY <1>2, <2>8
<1>3. CASE s \notin Streams
  <2>1. registry' = registry
    BY <1>1, <1>3
  <2>2. \A t \in Streams : PlacesOf(t)' = PlacesOf(t)
    BY <2>1 DEF PlacesOf, Present
  <2>3. \A t \in Streams : \A v : HasPlace(t, v)' <=> HasPlace(t, v)
    BY <1>1, <2>1 DEF HasPlace
  <2>4. CameSoFar' = CameSoFar
    BY <1>1 DEF CameSoFar
  <2> QED
    BY <2>2, <2>3, <2>4, NothingSeen
<1> QED
  BY <1>2, <1>3

-----------------------------------------------------------------------------
\* A stream has no more viewers with a place than connected recipients.
LEMMA SeatedFewer ==
  ASSUME Types, NEW s \in Streams
  PROVE  /\ IsFiniteSet(SeatedAt(s)) /\ Cardinality(SeatedAt(s)) \in Nat
         /\ Cardinality(SeatedAt(s)) <= Cardinality(Connected(s))
<1> DEFINE U == {r \in Connected(s) : ~session[r.session].crossed}
           f == [r \in U |-> r.session]
<1>1. U \in SUBSET Connected(s)
  OBVIOUS
<1>2. IsFiniteSet(U) /\ Cardinality(U) <= Cardinality(Connected(s)) /\ Cardinality(U) \in Nat
  BY <1>1, FiniteConnected, FS_Subset, FS_CardinalityType
<1>3. SeatedAt(s) = {r.session : r \in U}
  BY DEF SeatedAt, Connected
<1>4. f \in Surjection(U, SeatedAt(s))
  <2>1. f \in [U -> SeatedAt(s)]
    BY <1>3
  <2>2. \A v \in SeatedAt(s) : \E r \in U : f[r] = v
    BY <1>3
  <2> HIDE DEF f, U
  <2> QED
    BY <2>1, <2>2 DEF Surjection
<1> HIDE DEF f, U
<1>5. IsFiniteSet(SeatedAt(s)) /\ Cardinality(SeatedAt(s)) <= Cardinality(U)
  BY <1>2, <1>4, FS_Surjection
<1>6. Cardinality(SeatedAt(s)) \in Nat
  BY <1>5, FS_CardinalityType
<1>7. Cardinality(Connected(s)) \in Nat
  BY FiniteConnected
<1> QED
  BY <1>2, <1>5, <1>6, <1>7

\* The number of viewers means the same in the contract.
LEMMA SameCardinality == \A S : Places!Cardinality(S) = Cardinality(S)
BY DEF Places!Cardinality, Cardinality

\* What an insertion does to the slots and the sessions.
LEMMA InsertEffect ==
  ASSUME Basics, Seats, OfferInsert, NEW t, t = http.stream, NEW h, h = http.session
  PROVE  LET kept == IF http.max = 1 THEN {}
                     ELSE {r \in slot[t].recipients : session[r.session].active
                                                        /\ r.gen # http.gen}
             new == [gen |-> http.gen, session |-> h]
         IN
         /\ http.pc = "insert" /\ http'.pc = "replace" /\ t \in Streams
         /\ h \in 1..offers /\ h \in Sessions
         /\ UNCHANGED <<registry, offers>> /\ session[h].life = http.life
         /\ slot'[t].recipients = kept \cup {new}
         /\ \A u \in Streams : u # t => slot'[u] = slot[u]
         /\ \A u \in Streams : \A r \in slot[u].recipients :
              r.session \in Sessions /\ r.session # h
         /\ \A m \in Sessions : m # h => session'[m] = session[m]
         /\ session'[h].life = session[h].life /\ session'[h].active = session[h].active
         /\ session'[h].crossed = http.crossed
<1> DEFINE sl == Pruned(SlotOf(t))
           kept == IF http.max = 1 THEN {} ELSE {r \in sl.recipients : r.gen # http.gen}
           new == [gen |-> http.gen, session |-> h]
           seats == [sl EXCEPT !.recipients = kept \cup {new}]
           previous == IF http.max = 1 THEN SessionsOf(sl.recipients) ELSE {}
<1>1. /\ UNCHANGED <<registry, offers>> /\ t \in Streams
      /\ http.pc = "insert" /\ h >= 1 /\ h <= offers
      /\ session[h].life = http.life
      /\ slot' = [slot EXCEPT ![t] = seats]
      /\ session' = [session EXCEPT ![h] = [session[h] EXCEPT !.crossed = http.crossed]]
      /\ http' = [http EXCEPT !.pc = "replace", !.previous = previous]
  BY DEF OfferInsert, Basics, Made, Numbered
<1>2. h \in Sessions /\ h \in 1..offers
  BY <1>1 DEF Basics, Types, HttpType, Sessions
<1>3. /\ sl \in SlotType
      /\ sl.recipients = {r \in slot[t].recipients : session[r.session].active}
  BY <1>1, PrunedSeats, PrunedPlace
<1>4. http'.pc = "replace"
  <2> HIDE DEF previous
  <2> QED
    BY <1>1 DEF Basics, Types, HttpType
<1> HIDE DEF sl, new
<1>5. seats.recipients = kept \cup {new}
  <2> HIDE DEF kept
  <2> QED
    BY <1>3 DEF SlotType
<1>6. kept = IF http.max = 1 THEN {}
             ELSE {r \in slot[t].recipients : session[r.session].active /\ r.gen # http.gen}
  BY <1>3
<1> HIDE DEF seats, kept
<1>7. slot'[t] = seats /\ \A u \in Streams : u # t => slot'[u] = slot[u]
  BY <1>1 DEF Basics, Types
<1>8. \A u \in Streams : \A r \in slot[u].recipients : r.session \in Sessions /\ r.session # h
  BY <1>1 DEF Basics, Types, SlotType, Recipient, Seats, Seated
<1>9. /\ \A m \in Sessions : m # h => session'[m] = session[m]
      /\ session'[h].life = session[h].life /\ session'[h].active = session[h].active
      /\ session'[h].crossed = http.crossed
  BY <1>1, <1>2 DEF Basics, Types, SessionType
<1>10. slot'[t].recipients = kept \cup {new}
  BY <1>5, <1>7
<1> QED
  BY <1>1, <1>2, <1>4, <1>6, <1>7, <1>8, <1>9, <1>10 DEF new

\* An offer that is late or was crossed finds nobody with a place, and gets none.
LEMMA LateOffer ==
  ASSUME Basics, Seats, OfferInsert, NEW t, t = http.stream,
         http.crossed \/ http.life # registry[t].life, NEW v
  PROVE  ~HasPlace(t, v) /\ ~HasPlace(t, v)'
<1> PICK h : h = http.session
  OBVIOUS
<1> DEFINE kept == IF http.max = 1 THEN {}
                   ELSE {r \in slot[t].recipients : session[r.session].active
                                                      /\ r.gen # http.gen}
           new == [gen |-> http.gen, session |-> h]
<1>1. /\ http.pc = "insert" /\ t \in Streams /\ h \in Sessions
      /\ UNCHANGED registry /\ session[h].life = http.life
      /\ slot'[t].recipients = kept \cup {new}
      /\ \A r \in slot[t].recipients : r.session \in Sessions /\ r.session # h
      /\ \A m \in Sessions : m # h => session'[m] = session[m]
      /\ session'[h].life = session[h].life /\ session'[h].crossed = http.crossed
  BY InsertEffect
<1>2. kept \subseteq slot[t].recipients
  OBVIOUS
<1>3. /\ registry[t].life # None => http.life <= registry[t].life
      /\ \A r \in slot[t].recipients :
           /\ ~http.crossed /\ session[r.session].life <= http.life
           /\ session[r.session].life >= 1
  BY <1>1 DEF Seats, Admitting, Offering, Seated
<1>4. \A r \in slot[t].recipients : session[r.session].life # registry[t].life
  <2> SUFFICES ASSUME NEW r \in slot[t].recipients, session[r.session].life = registry[t].life
               PROVE  FALSE
    OBVIOUS
  <2>1. http.life \in Nat /\ registry[t].life \in Nat
    BY <1>1 DEF Basics, Types, RegistrationType, HttpType
  <2> QED
    BY <1>3, <2>1 DEF None
<1>5. ~HasPlace(t, v)
  BY <1>4 DEF HasPlace
<1> HIDE DEF kept
<1>6. \A r \in kept : session'[r.session].life # registry[t].life
  BY <1>1, <1>2, <1>4
<1>7. new.session = h
  OBVIOUS
<1>8. ~(session'[h].life = registry'[t].life /\ ~session'[h].crossed)
  BY <1>1
<1> HIDE DEF new
<1>9. ~HasPlace(t, v)'
  BY <1>1, <1>6, <1>7, <1>8 DEF HasPlace
<1> QED
  BY <1>5, <1>9

\* An offer that is in time has its place: who was there stays unless there is only one.
LEMMA TimelyOffer ==
  ASSUME Basics, Seats, Room, OfferInsert, NEW t, t = http.stream, NEW h, h = http.session,
         ~http.crossed, http.life = registry[t].life
  PROVE  /\ Present(t) /\ registry[t].max = http.max
         /\ \A v : HasPlace(t, v)' <=> \/ HasPlace(t, v) /\ http.max # 1
                                       \/ v = h /\ session[h].active
<1> DEFINE kept == IF http.max = 1 THEN {}
                   ELSE {r \in slot[t].recipients : session[r.session].active
                                                      /\ r.gen # http.gen}
           new == [gen |-> http.gen, session |-> h]
<1>1. /\ http.pc = "insert" /\ t \in Streams /\ h \in Sessions
      /\ UNCHANGED registry /\ session[h].life = http.life
      /\ slot'[t].recipients = kept \cup {new}
      /\ \A r \in slot[t].recipients : r.session \in Sessions /\ r.session # h
      /\ \A m \in Sessions : m # h => session'[m] = session[m]
      /\ session'[h].life = session[h].life /\ session'[h].active = session[h].active
      /\ session'[h].crossed = http.crossed
  BY InsertEffect
<1>2. Present(t) /\ registry[t].max = http.max
  <2>1. http.life \in 1..lives
    BY <1>1 DEF Basics, Numbered
  <2> QED
    BY <1>1, <2>1 DEF Present, None, Room, LimitInForce, Timely
<1>3. ASSUME NEW r \in slot[t].recipients, ~session[r.session].crossed
      PROVE  r.gen # http.gen
  <2>1. r.gen < http.gen
    BY <1>1, <1>3 DEF Seats, Admitting, Offering
  <2>2. r.gen \in Nat /\ http.gen \in Nat
    BY <1>1 DEF Basics, Types, SlotType, Recipient, HttpType
  <2> QED
    BY <2>1, <2>2
<1>4. new.session = h
  OBVIOUS
<1>5. ASSUME NEW v, HasPlace(t, v)'
      PROVE  (HasPlace(t, v) /\ http.max # 1) \/ (v = h /\ session[h].active)
  <2>1. PICK r \in slot'[t].recipients :
          /\ r.session = v /\ session'[v].life = registry'[t].life
          /\ session'[v].active /\ ~session'[v].crossed
    BY <1>5 DEF HasPlace
  <2>2. CASE r = new
    BY <1>1, <1>4, <2>1, <2>2
  <2>3. CASE r # new
    <3>1. r \in kept
      BY <1>1, <2>1, <2>3
    <3>2. r \in slot[t].recipients /\ http.max # 1
      BY <3>1
    <3>3. session'[v] = session[v]
      BY <1>1, <2>1, <3>2
    <3> QED
      BY <1>1, <2>1, <3>2, <3>3 DEF HasPlace
  <2> QED
    BY <2>2, <2>3
<1>6. ASSUME NEW v, HasPlace(t, v), http.max # 1 PROVE HasPlace(t, v)'
  <2>1. PICK r \in slot[t].recipients :
          /\ r.session = v /\ session[v].life = registry[t].life
          /\ session[v].active /\ ~session[v].crossed
    BY <1>6 DEF HasPlace
  <2>2. r \in kept
    BY <1>3, <1>6, <2>1
  <2>3. session'[v] = session[v]
    BY <1>1, <2>1
  <2> HIDE DEF kept
  <2> QED
    BY <1>1, <2>1, <2>2, <2>3 DEF HasPlace
<1>7. session[h].active => HasPlace(t, h)'
  <2>1. new \in slot'[t].recipients
    BY <1>1
  <2> HIDE DEF new, kept
  <2> QED
    BY <1>1, <1>4, <2>1 DEF HasPlace
<1> QED
  BY <1>2, <1>5, <1>6, <1>7

\* The viewer whose offer was handled comes: it gets its place, or its place in vain, or
\* is turned away.
LEMMA InsertComes ==
  ASSUME Basics, Room, Seats, OfferInsert
  PROVE  \E v \in Sessions : \/ Places!TurnAway(v)
                             \/ \E s \in Streams : Places!Sit(s, v) \/ Places!SitInVain(s, v)
<1>0. PICK t, h : t = http.stream /\ h = http.session
  OBVIOUS
<1>1. /\ http.pc = "insert" /\ http'.pc = "replace" /\ t \in Streams
      /\ h \in 1..offers /\ h \in Sessions /\ UNCHANGED <<registry, offers>>
      /\ \A u \in Streams : u # t => slot'[u] = slot[u]
      /\ \A u \in Streams : \A r \in slot[u].recipients :
           r.session \in Sessions /\ r.session # h
      /\ \A m \in Sessions : m # h => session'[m] = session[m]
  BY <1>0, InsertEffect
<1>2. h \notin CameSoFar /\ CameSoFar' = CameSoFar \cup {h}
  BY <1>0, <1>1 DEF CameSoFar
<1>3. \A s \in Streams : PlacesOf(s)' = PlacesOf(s)
  BY <1>1 DEF PlacesOf, Present
<1>4. \A u \in Streams : u # t => \A v : HasPlace(u, v)' <=> HasPlace(u, v)
  BY <1>1 DEF HasPlace
<1>5. CASE http.crossed \/ http.life # registry[t].life
  <2>1. \A v : ~HasPlace(t, v) /\ ~HasPlace(t, v)'
    BY <1>0, <1>5, LateOffer
  <2>2. \A s \in Streams : \A v : HasPlace(s, v)' <=> HasPlace(s, v)
    BY <1>4, <2>1
  <2>3. Places!TurnAway(h)
    BY <1>1, <1>2, <1>3, <2>2, OneTurnedAway
  <2> QED
    BY <1>1, <2>3
<1>6. CASE ~http.crossed /\ http.life = registry[t].life
  <2>1. /\ Present(t) /\ registry[t].max = http.max
        /\ \A v : HasPlace(t, v)' <=> \/ HasPlace(t, v) /\ http.max # 1
                                      \/ v = h /\ session[h].active
    BY <1>0, <1>6, TimelyOffer
  <2> DEFINE stay == IF registry[t].max = 1 THEN {} ELSE SeatedAt(t)
             with == IF session[h].active THEN stay \cup {h} ELSE stay
  <2>2. SeatedAt(t)' = with
    <3>1. \A v : v \in SeatedAt(t)' <=> v \in with
      BY <2>1, SeatedThere, SeatedNext
    <3> QED
      BY <3>1
  <2>3. \A u \in Streams : u # t => SeatedAt(u)' = SeatedAt(u)
    <3> SUFFICES ASSUME NEW u \in Streams, u # t PROVE SeatedAt(u)' = SeatedAt(u)
      OBVIOUS
    <3>1. \A v : v \in SeatedAt(u)' <=> v \in SeatedAt(u)
      BY <1>4, SeatedThere, SeatedNext
    <3> QED
      BY <3>1
  <2>4. [s \in Streams |-> SeatedAt(s)]' = [[s \in Streams |-> SeatedAt(s)] EXCEPT ![t] = with]
    BY <1>1, <2>2, <2>3
  <2>5. PlacesOf(t) = registry[t].max /\ registry[t].max # 0
    <3>1. registry[t].max \in Nat \ {0}
      BY <1>1, <2>1, SignalingAssumption
         DEF SignalingAssumption, Basics, Numbered, Present
    <3> QED
      BY <2>1, <3>1 DEF PlacesOf
  <2>6. Places!Staying(t) = stay
    BY <1>1, <2>5 DEF Places!Staying, PlacesOf
  <2>7. [s \in Streams |-> PlacesOf(s)]' = [s \in Streams |-> PlacesOf(s)]
    BY <1>3
  <2>8. [s \in Streams |-> PlacesOf(s)][t] # Places!Closed
    BY <1>1, <2>5 DEF Places!Closed
  <2>9. CASE session[h].active
    <3>1. Cardinality(stay) < registry[t].max
      <4>1. registry[t].max \in Nat
        BY <1>1, LimitNat DEF Basics
      <4>2. CASE registry[t].max = 1
        BY <4>2, FS_EmptySet
      <4>3. CASE registry[t].max # 1
        <5>1. Cardinality(Connected(t)) < registry[t].max
          BY <1>0, <1>1, <1>6, <2>1, <4>3 DEF Room, PlaceLeft, Timely
        <5>2. /\ Cardinality(SeatedAt(t)) \in Nat /\ Cardinality(Connected(t)) \in Nat
              /\ Cardinality(SeatedAt(t)) <= Cardinality(Connected(t))
          BY <1>1, SeatedFewer, FiniteConnected DEF Basics
        <5> QED
          BY <4>1, <4>3, <5>1, <5>2
      <4> QED
        BY <4>2, <4>3
    <3>2. with = stay \cup {h}
      BY <2>9
    <3> HIDE DEF with, stay
    <3>3. Cardinality(Places!Staying(t)) < [s \in Streams |-> PlacesOf(s)][t]
      BY <1>1, <2>5, <2>6, <3>1
    <3>4. [s \in Streams |-> SeatedAt(s)]'
            = [[s \in Streams |-> SeatedAt(s)] EXCEPT ![t] = Places!Staying(t) \cup {h}]
      BY <2>4, <2>6, <3>2
    <3>5. Places!Comes(h)
      BY <1>2 DEF Places!Comes
    <3>6. Places!Sit(t, h)
      BY <2>7, <2>8, <3>3, <3>4, <3>5, SameCardinality DEF Places!Sit, PlacesOf
    <3> QED
      BY <1>1, <3>6
  <2>10. CASE ~session[h].active
    <3>1. with = stay
      BY <2>10
    <3> HIDE DEF with, stay
    <3>2. Places!SitInVain(t, h)
      BY <1>1, <1>2, <2>4, <2>6, <2>7, <2>8, <3>1
      DEF Places!SitInVain, Places!Comes, PlacesOf
    <3> QED
      BY <1>1, <3>2
  <2> QED
    BY <2>9, <2>10
<1> QED
  BY <1>5, <1>6

LEMMA PlacesStart == Init => Places!PlacesInit
<1> SUFFICES ASSUME Init PROVE Places!PlacesInit
  OBVIOUS
<1>1. \A s \in Streams : PlacesOf(s) = 0
  BY DEF Init, PlacesOf, Present
<1>2. \A s \in Streams : SeatedAt(s) = {}
  <2> TAKE s \in Streams
  <2>1. \A v : ~HasPlace(s, v)
    BY IdleTypes DEF Init, HasPlace
  <2> QED
    BY <2>1, SeatedThere
<1>3. CameSoFar = {}
  BY IdleTypes DEF Init, CameSoFar
<1> QED
  BY <1>1, <1>2, <1>3 DEF Places!PlacesInit, Places!Closed, PlacesOf

LEMMA PlacesStep ==
  ASSUME SignalingInv, Seats, [Next]_vars
  PROVE  [Places!PlacesNext]_(Places!placesVars)
<1>1. Basics /\ Room
  BY DEF SignalingInv
<1>2. CASE \/ \E s \in Streams : OfferBegin(s)
           \/ OfferLimit \/ OfferCandidate \/ OfferEnd \/ RemoteApply
           \/ CloseListener \/ StopEnd \/ Start
  BY <1>1, <1>2, QuietUnseen
<1>3. CASE \/ OfferReserve \/ Lookup(Streams)
           \/ \E t \in Streams : AnswerLookup(t) \/ CandidateLookup(t) \/ Lookup({t})
  BY <1>1, <1>3, LookupUnseen
<1>4. ASSUME NEW n \in Sessions, PeerGone(n) \/ OfferStopPrevious(n) \/ StopSession(n)
      PROVE  Places!PlacesNext
  BY <1>1, <1>4, EndingLeaves DEF Places!PlacesNext
<1>5. ASSUME NEW ok \in BOOLEAN, OfferApply(ok)
      PROVE  Places!PlacesNext \/ UNCHANGED Places!placesVars
  <2>1. CASE ok = TRUE
    BY <1>1, <1>5, <2>1, ApplyUnseen
  <2>2. CASE ok = FALSE
    BY <1>1, <1>5, <2>2, FailureTurnsAway DEF Places!PlacesNext
  <2> QED
    BY <2>1, <2>2
<1>6. CASE OfferInsert
  BY <1>1, <1>6, InsertComes DEF Places!PlacesNext
<1>7. ASSUME NEW s \in Streams, RemoveBegin(s) PROVE Places!PlacesNext
  <2>1. Places!Clear({s})
    BY <1>1, <1>7, TakingClears
  <2> QED
    BY <2>1 DEF Places!PlacesNext
<1>8. CASE StopBegin
  BY <1>1, <1>8, TakingClears DEF Places!PlacesNext
<1>9. ASSUME NEW s \in Streams, NEW max \in Limits, RegisterStream(s, max)
      PROVE  Places!PlacesNext
  BY <1>1, <1>9, RegisteringOpens DEF Places!PlacesNext
<1>10. CASE RemoveFromCore
  BY <1>1, <1>10, RemovalCloses DEF Places!PlacesNext
<1>11. CASE UNCHANGED vars
  <2>1. UNCHANGED <<registry, slot, session, offers, http>>
    BY <1>11 DEF vars
  <2>2. \A s \in Streams : PlacesOf(s)' = PlacesOf(s)
    BY <2>1 DEF PlacesOf, Present
  <2>3. \A s \in Streams : \A v : HasPlace(s, v)' <=> HasPlace(s, v)
    BY <2>1 DEF HasPlace
  <2>4. CameSoFar' = CameSoFar
    BY <2>1 DEF CameSoFar
  <2> QED
    BY <2>2, <2>3, <2>4, NothingSeen
<1> QED
  BY <1>2, <1>3, <1>4, <1>5, <1>6, <1>7, <1>8, <1>9, <1>10, <1>11
  DEF Next, HttpStep, AppStep

\* For any number of streams, viewers and limits: whatever the application and the viewers
\* do between the critical sections of an offer, every step of the signaling server is a
\* step that the contract of ViewerPlaces allows, or shows nothing.
THEOREM SignalingImplementsPlaces == Spec => ImplementsPlaces
<1>1. Init => Places!PlacesInit
  BY PlacesStart
<1>2. SignalingInv /\ Seats /\ [Next]_vars => [Places!PlacesNext]_(Places!placesVars)
  BY PlacesStep
<1> QED
  BY <1>1, <1>2, SignalingInit, SignalingInductive, SeatsInit, SeatsInductive, PTL
  DEF Spec, ImplementsPlaces, Places!PlacesSpec
=============================================================================
