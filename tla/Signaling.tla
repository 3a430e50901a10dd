------------------------------- MODULE Signaling -------------------------------
(***************************************************************************)
(* Who watches which stream: signaling_server.cpp, driven by the HTTP      *)
(* routes of webrtc_video_server.cpp and by the application's              *)
(* register_stream, remove_stream, stop and start.                         *)
(*                                                                         *)
(* HTTP requests are handled one at a time; the application runs beside    *)
(* them.  Every action is one critical section of the signaling server's,  *)
(* a session's or the core's mutex, or a call on a session between them.   *)
(*                                                                         *)
(* A session is a numbered object.  It lives as long as a slot or a call   *)
(* in progress refers to it: its destructor stops it, so an object nobody  *)
(* refers to is a stopped one (Alive).  Its generation is its id, since    *)
(* "session-N" is made of it.  SDP texts are left out, and of candidates   *)
(* only how many wait is kept.                                             *)
(***************************************************************************)
EXTENDS Integers, FiniteSets

CONSTANTS
  Streams,           \* stream ids
  Limits,            \* the max_subscribers that streams are registered with
  MaxPending,        \* max_pending_candidates_per_stream
  MaxOffers,         \* bound: offers that get as far as making a session
  MaxRegistrations   \* bound: registrations

ASSUME SignalingAssumption ==
  /\ Limits \subseteq Nat \ {0}     \* register_stream refuses 0
  /\ MaxPending \in Nat /\ MaxOffers \in Nat /\ MaxRegistrations \in Nat

VARIABLES
  registry,   \* the core's streams: [life, max]; life None is no such stream
  lives,      \* registrations so far
  slot,       \* sessions_: a StreamSessionSlot for each stream that has one
  session,    \* session objects: [stream, life, active, open]
  offers,     \* sessions made so far
  http,       \* the request being handled
  app,        \* remove_stream or stop in progress
  doomed,     \* ghost: sessions in a slot when a removal or stop took it
  serving     \* is the HTTP listener open?

vars == <<registry, lives, slot, session, offers, http, app, doomed, serving>>

None == 0
Sessions == 1..MaxOffers

NoSlot == [present |-> FALSE, next |-> 0, queue |-> 0, recipients |-> {}]
EmptySlot == [NoSlot EXCEPT !.present = TRUE]

\* `open`: peer_connection_ has not been reset yet.  `life` and `crossed` are
\* ghosts: the registration that was offered, and whether a removal or stop took
\* the slots while the offer was being handled.
NoSession == [stream |-> None, life |-> None, crossed |-> FALSE,
              active |-> FALSE, open |-> FALSE]

IdleHttp == [pc |-> "idle", stream |-> None, life |-> None, crossed |-> FALSE,
             max |-> 0, gen |-> 0, inHand |-> 0, session |-> None, previous |-> {}]
IdleApp == [pc |-> "idle", stream |-> None, stopping |-> {}]

Present(s) == registry[s].life # None

SessionsOf(recipients) == {r.session : r \in recipients}

Referenced ==
  UNION {SessionsOf(slot[s].recipients) : s \in Streams}
    \cup http.previous \cup app.stopping \cup ({http.session} \ {None})
Alive(n) == n \in Referenced
Active(n) == Alive(n) /\ session[n].active

\* The process has not died (CallPeer).
Running == http.pc # "crashed"

Init ==
  /\ registry = [s \in Streams |-> [life |-> None, max |-> 0]]
  /\ lives = 0
  /\ slot = [s \in Streams |-> NoSlot]
  /\ session = [n \in Sessions |-> NoSession]
  /\ offers = 0
  /\ http = IdleHttp /\ app = IdleApp
  /\ doomed = {}
  /\ serving = TRUE

\* WebRtcStreamSession::stop.
Stopped(n) == [session EXCEPT ![n].active = FALSE, ![n].open = FALSE]

\* prune_inactive_recipients_locked.
Pruned(sl) ==
  [sl EXCEPT !.recipients = {r \in @ : session[r.session].active}]

\* The connection is lost, failed or closed by the viewer.
PeerGone(n) ==
  /\ Running /\ Active(n) /\ session[n].open
  /\ session' = [session EXCEPT ![n].active = FALSE]
  /\ UNCHANGED <<registry, lives, slot, offers, http, app, doomed, serving>>

-----------------------------------------------------------------------------
(* POST offer.                                                             *)

\* The stream exists.
OfferBegin(s) ==
  /\ serving /\ http.pc = "idle" /\ Present(s) /\ offers < MaxOffers
  /\ http' = [IdleHttp EXCEPT !.pc = "limit", !.stream = s,
                              !.life = registry[s].life]
  /\ UNCHANGED <<registry, lives, slot, session, offers, app, doomed, serving>>

\* Its limit, read under the core's lock again; 1 when it has gone meanwhile.
OfferLimit ==
  LET s == http.stream IN
  /\ http.pc = "limit"
  /\ http' = [http EXCEPT !.pc = "reserve",
                          !.max = IF Present(s) THEN registry[s].max ELSE 1]
  /\ UNCHANGED <<registry, lives, slot, session, offers, app, doomed, serving>>

\* Mutant: one recipient too many.
FullAbove(sl, max) == max # 1 /\ Cardinality(sl.recipients) > max
\* With a limit of 1 a new offer replaces the recipient instead.
Full(sl, max) == max # 1 /\ Cardinality(sl.recipients) >= max

\* Mutant: the counter of the slot is not advanced.
GenerationSame(sl) == IF sl.next = 0 THEN 1 ELSE sl.next
Generation(sl) == sl.next + 1

\* The slot, made if need be.
SlotOf(s) == IF slot[s].present THEN slot[s] ELSE EmptySlot

\* The first critical section: the limit, a generation, the queued candidates.
OfferReserve ==
  LET s  == http.stream
      sl == Pruned(SlotOf(s))
  IN
  /\ http.pc = "reserve"
  /\ \/ /\ Full(sl, http.max)
        /\ slot' = [slot EXCEPT ![s] = sl]
        /\ http' = IdleHttp
     \/ /\ ~Full(sl, http.max)
        /\ slot' = [slot EXCEPT ![s] = [sl EXCEPT !.next = Generation(sl), !.queue = 0]]
        /\ http' = [http EXCEPT !.pc = "apply", !.gen = Generation(sl),
                                !.inHand = sl.queue]
  /\ UNCHANGED <<registry, lives, session, offers, app, doomed, serving>>

\* The session is made and given the offer.  If that fails it is stopped, and
\* the candidates in hand are gone with it.
OfferApply(ok) ==
  /\ http.pc = "apply"
  /\ offers' = offers + 1
  /\ IF ok
     THEN /\ session' = [session EXCEPT ![offers + 1] =
                           [stream |-> http.stream, life |-> http.life,
                            crossed |-> FALSE, active |-> TRUE, open |-> TRUE]]
          /\ http' = [http EXCEPT !.pc = "insert", !.session = offers + 1]
     ELSE http' = IdleHttp /\ UNCHANGED session
  /\ UNCHANGED <<registry, lives, slot, app, doomed, serving>>

\* The second critical section: the session takes its place, whatever has
\* become of the slot and the stream since the first one.
OfferInsert ==
  LET s    == http.stream
      sl   == Pruned(SlotOf(s))
      kept == IF http.max = 1 THEN {} ELSE {r \in sl.recipients : r.gen # http.gen}
  IN
  /\ http.pc = "insert"
  /\ slot' = [slot EXCEPT ![s] = [sl EXCEPT !.recipients =
                kept \cup {[gen |-> http.gen, session |-> http.session]}]]
  /\ http' = [http EXCEPT !.pc = "replace",
                !.previous = IF http.max = 1 THEN SessionsOf(sl.recipients) ELSE {}]
  /\ session' = [session EXCEPT ![http.session].crossed = http.crossed]
  /\ UNCHANGED <<registry, lives, offers, app, doomed, serving>>

\* The sessions that were replaced are stopped, without the lock.
OfferStopPrevious(n) ==
  /\ http.pc = "replace" /\ n \in http.previous
  /\ session' = Stopped(n)
  /\ http' = [http EXCEPT !.previous = @ \ {n}]
  /\ UNCHANGED <<registry, lives, slot, offers, app, doomed, serving>>

\* add_remote_candidate and apply_answer call the peer connection they read
\* under the session's lock: after stop() it is null, and the process dies.
CallPeer(then) ==
  http' = IF session[http.session].open THEN then ELSE [IdleHttp EXCEPT !.pc = "crashed"]

OfferCandidate ==
  /\ http.pc = "replace" /\ http.previous = {} /\ http.inHand > 0
  /\ CallPeer([http EXCEPT !.inHand = @ - 1])
  /\ UNCHANGED <<registry, lives, slot, session, offers, app, doomed, serving>>

OfferEnd ==
  /\ http.pc = "replace" /\ http.previous = {} /\ http.inHand = 0
  /\ http' = IdleHttp
  /\ UNCHANGED <<registry, lives, slot, session, offers, app, doomed, serving>>

-----------------------------------------------------------------------------
(* The other requests.                                                     *)

\* POST answer: to the recipient that is named, or to the newest one.
AnswerLookup(s) ==
  LET sl == Pruned(slot[s]) IN
  /\ serving /\ http.pc = "idle" /\ slot[s].present
  /\ slot' = [slot EXCEPT ![s] = sl]
  /\ \/ UNCHANGED http                  \* session not found
     \/ \E r \in sl.recipients :
          http' = [IdleHttp EXCEPT !.pc = "remote", !.session = r.session]
  /\ UNCHANGED <<registry, lives, session, offers, app, doomed, serving>>

\* Mutant: the queue takes one candidate too many.
QueueFullAbove(sl) == sl.queue > MaxPending
QueueFull(sl) == sl.queue >= MaxPending

\* POST candidate: to a recipient as above; without any, and when none is named,
\* it waits for the next offer.
CandidateLookup(s) ==
  LET sl == Pruned(SlotOf(s)) IN
  /\ serving /\ http.pc = "idle"
  /\ \/ /\ slot[s].present
        /\ slot' = [slot EXCEPT ![s] = sl]
        /\ \/ UNCHANGED http            \* session not found, or too many
           \/ \E r \in sl.recipients :
                http' = [IdleHttp EXCEPT !.pc = "remote", !.session = r.session]
     \/ /\ slot[s].present \/ Present(s)
        /\ sl.recipients = {} /\ ~QueueFull(sl)
        /\ slot' = [slot EXCEPT ![s] = [sl EXCEPT !.queue = @ + 1]]
        /\ UNCHANGED http
  /\ UNCHANGED <<registry, lives, session, offers, app, doomed, serving>>

\* The answer or the candidate is given to the peer connection.
RemoteApply ==
  /\ http.pc = "remote"
  /\ CallPeer(IdleHttp)
  /\ UNCHANGED <<registry, lives, slot, session, offers, app, doomed, serving>>

\* GET session, list_sessions and the delivery of frames and units look a
\* stream's recipients up in the same way.
Lookup(ss) ==
  /\ Running /\ \E s \in ss : slot[s].present /\ Pruned(slot[s]) # slot[s]
  /\ slot' = [s \in Streams |-> IF s \in ss THEN Pruned(slot[s]) ELSE slot[s]]
  /\ UNCHANGED <<registry, lives, session, offers, http, app, doomed, serving>>

-----------------------------------------------------------------------------
(* The application.                                                        *)

RegisterStream(s, max) ==
  /\ Running /\ app.pc = "idle" /\ ~Present(s) /\ lives < MaxRegistrations
  /\ lives' = lives + 1
  /\ registry' = [registry EXCEPT ![s] = [life |-> lives + 1, max |-> max]]
  /\ UNCHANGED <<slot, session, offers, http, app, doomed, serving>>

\* Slots are taken out under the lock; what is in them is stopped without it.
TakeSlots(ss, pc, s) ==
  LET swept == UNION {SessionsOf(slot[u].recipients) : u \in ss} IN
  /\ slot' = [u \in Streams |-> IF u \in ss THEN NoSlot ELSE slot[u]]
  /\ app' = [pc |-> pc, stream |-> s, stopping |-> swept]
  /\ doomed' = doomed \cup swept
  /\ http' = [http EXCEPT !.crossed = @ \/ http.stream \in ss]

\* Mutant: the signaling server is not told of the removal.
RemoveBeginCoreOnly(s) ==
  /\ Running /\ app.pc = "idle"
  /\ app' = [pc |-> "removing", stream |-> s, stopping |-> {}]
  /\ doomed' = doomed \cup SessionsOf(slot[s].recipients)
  /\ UNCHANGED <<registry, lives, slot, session, offers, http, serving>>
\* remove_stream: the signaling server first, then the core, which may not have the
\* stream at all.
RemoveBegin(s) ==
  /\ Running /\ app.pc = "idle"
  /\ TakeSlots({s}, "removing", s)
  /\ UNCHANGED <<registry, lives, session, offers, serving>>

RemoveFromCore ==
  /\ Running /\ app.pc = "removing" /\ app.stopping = {}
  /\ registry' = [registry EXCEPT ![app.stream] = [life |-> None, max |-> 0]]
  /\ app' = IdleApp
  /\ UNCHANGED <<lives, slot, session, offers, http, doomed, serving>>

\* stop, in any state: the signaling server first, then the HTTP server.
StopBegin ==
  /\ Running /\ app.pc = "idle"
  /\ TakeSlots(Streams, "closing", None)
  /\ UNCHANGED <<registry, lives, session, offers, serving>>

StopSession(n) ==
  /\ Running /\ n \in app.stopping
  /\ session' = Stopped(n)
  /\ app' = [app EXCEPT !.stopping = @ \ {n}]
  /\ UNCHANGED <<registry, lives, slot, offers, http, doomed, serving>>

CloseListener ==
  /\ Running /\ app.pc = "closing" /\ app.stopping = {}
  /\ serving' = FALSE
  /\ app' = [app EXCEPT !.pc = "joining"]
  /\ UNCHANGED <<registry, lives, slot, session, offers, http, doomed>>

\* The HTTP thread finishes its request and is joined.
StopEnd ==
  /\ app.pc = "joining" /\ http.pc = "idle"
  /\ app' = IdleApp
  /\ UNCHANGED <<registry, lives, slot, session, offers, http, doomed, serving>>

Start ==
  /\ Running /\ app.pc = "idle" /\ ~serving
  /\ serving' = TRUE
  /\ UNCHANGED <<registry, lives, slot, session, offers, http, app, doomed>>

-----------------------------------------------------------------------------
HttpStep ==
  \/ \E s \in Streams : OfferBegin(s) \/ AnswerLookup(s) \/ CandidateLookup(s)
  \/ OfferLimit \/ OfferReserve \/ OfferInsert \/ OfferCandidate \/ OfferEnd
  \/ \E ok \in BOOLEAN : OfferApply(ok)
  \/ \E n \in Sessions : OfferStopPrevious(n)
  \/ RemoteApply

AppStep ==
  \/ \E s \in Streams : RemoveBegin(s) \/ \E max \in Limits : RegisterStream(s, max)
  \/ \E n \in Sessions : StopSession(n)
  \/ RemoveFromCore \/ StopBegin \/ CloseListener \/ StopEnd \/ Start

Next ==
  \/ HttpStep \/ AppStep
  \/ \E n \in Sessions : PeerGone(n)
  \/ Lookup(Streams) \/ \E s \in Streams : Lookup({s})

Spec == Init /\ [][Next]_vars

-----------------------------------------------------------------------------
(* Properties.                                                             *)

TypeOK ==
  /\ registry \in [Streams -> [life : 0..MaxRegistrations, max : Limits \cup {0}]]
  /\ lives \in 0..MaxRegistrations /\ offers \in 0..MaxOffers
  /\ \A s \in Streams :
       /\ slot[s].next \in 0..MaxOffers
       /\ slot[s].queue \in 0..MaxPending
       /\ slot[s].recipients \subseteq [gen : 1..MaxOffers, session : 1..offers]
  /\ \A n \in Sessions : session[n].active => session[n].open
  /\ http.pc \in {"idle", "limit", "reserve", "apply", "insert", "replace",
                  "remote", "crashed"}
  /\ http.inHand \in 0..MaxPending /\ http.previous \subseteq Sessions
  /\ app.pc \in {"idle", "removing", "closing", "joining"}
  /\ app.stopping \subseteq Sessions /\ doomed \subseteq Sessions
  /\ serving \in BOOLEAN

\* The recipients whose offers came in under the stream's present registration.
Current(s) ==
  {r \in slot[s].recipients : session[r.session].life = registry[s].life}

\* "`StreamConfig.max_subscribers` limits concurrent recipients per stream"
\* (session_lifecycle.md): the limit is checked in one critical section of
\* set_offer and used in another, with the lock released in between.
SubscribersLimited ==
  \A s \in Streams : Present(s) =>
    Cardinality({r \in Current(s) : session[r.session].active}) <= registry[s].max

\* "the new recipient gets a fresh session_id" (session_lifecycle.md): a viewer
\* that is connected keeps its place under its id until its stream is removed
\* or the server is stopped, or, with a limit of 1, until it is replaced.  (Not
\* so one whose offer crossed a stop: it sits in a new slot under an old
\* generation, which the slot gives to a later viewer once more.)
ActiveRecipientsKept ==
  [][\A s \in Streams : \A r \in Current(s) :
       /\ session[r.session].active /\ ~session[r.session].crossed
       /\ app.pc = "idle" /\ app'.pc = "idle"
       /\ r \notin slot'[s].recipients
       => registry[s].max = 1 /\ r.session \in http'.previous]_vars

\* remove_stream "removes an existing stream and any associated backend state"
\* and stop "releases active sessions" (video_server.h, webrtc_video_server.h):
\* the sessions that were there when it began are inactive when it has returned.
TeardownEndsSessions ==
  app.pc = "idle" => \A n \in doomed : ~Active(n)

\* The same of every session: none is connected to a stream that was removed,
\* also not one whose offer was being handled meanwhile.
NoSessionOutlivesStream ==
  app.pc = "idle" /\ http.pc = "idle" =>
    \A n \in Sessions : Active(n) => Present(session[n].stream)

-----------------------------------------------------------------------------
\* The viewers that have a place: connected recipients of the present registration
\* whose offer crossed no removal or stop.
SeatedAt(s) ==
  {r.session : r \in {q \in Current(s) :
     session[q.session].active /\ ~session[q.session].crossed}}

\* A session has come once it is in a slot, or its offer has failed.
CameSoFar == (1..offers) \ (IF http.pc = "insert" THEN {http.session} ELSE {})

\* Whatever the requests, the application, lost connections and the two critical
\* sections of an offer do between them, a viewer sees a place that is taken once
\* and kept: the contract of ViewerPlaces ("limits concurrent recipients per
\* stream", "the slot becomes available for a later subscriber", a session ends
\* by "disconnect, failure, close, or explicit replacement" and "should not
\* resume sending", session_lifecycle.md).
Places == INSTANCE ViewerPlaces
            WITH Viewers <- Sessions,
                 hall <- [s \in Streams |-> IF Present(s) THEN registry[s].max ELSE 0],
                 seats <- [s \in Streams |-> SeatedAt(s)],
                 came <- CameSoFar

ImplementsPlaces == Places!PlacesSpec
=============================================================================
