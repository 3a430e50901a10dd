------------------------------ MODULE ViewerPlaces ------------------------------
(***************************************************************************)
(* What the signaling server promises the viewers of its streams, without  *)
(* slots, locks, generations or requests: a stream in the hall has a       *)
(* number of places.  Each viewer comes once, to one stream.  It gets a    *)
(* place if there is one left, and takes the place of the one before it    *)
(* where there is only one; it keeps its place until it leaves or the      *)
(* stream is cleared, and it never comes back.                             *)
(***************************************************************************)
EXTENDS Integers, FiniteSets

CONSTANTS
  Streams,   \* the streams there can be
  Viewers,   \* the viewers there can be
  Limits     \* the numbers of places a stream can have

VARIABLES
  hall,      \* how many places a stream has; Closed when it is not in the hall
  seats,     \* the viewers that have a place, by stream
  came       \* the viewers that have come so far

placesVars == <<hall, seats, came>>

Closed == 0

PlacesInit ==
  /\ hall = [s \in Streams |-> Closed]
  /\ seats = [s \in Streams |-> {}]
  /\ came = {}

Open(s, max) ==
  /\ hall[s] = Closed
  /\ hall' = [hall EXCEPT ![s] = max]
  /\ UNCHANGED <<seats, came>>

Close(s) ==
  /\ hall' = [hall EXCEPT ![s] = Closed]
  /\ seats' = [seats EXCEPT ![s] = {}]
  /\ UNCHANGED came

\* Who stays when somebody comes: an only place is given up.
Staying(s) == IF hall[s] = 1 THEN {} ELSE seats[s]

Comes(v) == v \notin came /\ came' = came \cup {v}

Sit(s, v) ==
  /\ hall[s] # Closed /\ Comes(v)
  /\ Cardinality(Staying(s)) < hall[s]
  /\ seats' = [seats EXCEPT ![s] = Staying(s) \cup {v}]
  /\ UNCHANGED hall

\* It has hung up by the time it gets its place.
SitInVain(s, v) ==
  /\ hall[s] # Closed /\ Comes(v)
  /\ seats' = [seats EXCEPT ![s] = Staying(s)]
  /\ UNCHANGED hall

\* It gets no place: its offer was refused, or its stream went meanwhile.
TurnAway(v) == Comes(v) /\ UNCHANGED <<hall, seats>>

Leave(v) ==
  /\ seats' = [s \in Streams |-> seats[s] \ {v}]
  /\ UNCHANGED <<hall, came>>

\* The streams ss are emptied.
Clear(ss) ==
  /\ seats' = [s \in Streams |-> IF s \in ss THEN {} ELSE seats[s]]
  /\ UNCHANGED <<hall, came>>

PlacesNext ==
  \/ \E s \in Streams :
       \/ \E max \in Limits : Open(s, max)
       \/ Close(s) \/ Clear({s})
       \/ \E v \in Viewers : Sit(s, v) \/ SitInVain(s, v)
  \/ \E v \in Viewers : TurnAway(v) \/ Leave(v)
  \/ Clear(Streams)

PlacesSpec == PlacesInit /\ [][PlacesNext]_placesVars
=============================================================================
