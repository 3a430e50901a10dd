----------------------------- MODULE HttpApiProofs -----------------------------
(***************************************************************************)
(* The HTTP API for any configurations, clients and requests: where the    *)
(* serving thread can be, that the fixed windows of the rate limit hold in *)
(* every span for each request path, and that a PUT of the output          *)
(* configuration works as a whole although the application works on the    *)
(* stream between its steps.                                               *)
(***************************************************************************)
EXTENDS HttpApi, FiniteSetTheorems, TLAPS

-----------------------------------------------------------------------------
(* The inductive invariants.                                               *)

Places == {"away", "poll", "receive", "authorize", "handle", "again", "put",
           "persisted", "answer", "ended", "terminated"}
Resting == {"away", "poll", "ended", "terminated"}
ThreadFields == {"pc", "req", "status", "counted", "read", "wrote", "reread"}

\* Where the serving thread is, and with what request.
ThreadOK ==
  /\ DOMAIN thread = ThreadFields
  /\ thread.pc \in Places
  /\ thread.pc \in Resting => thread.req = NoRequest
  /\ thread.pc \notin Resting => thread.req \in Requests
  /\ thread.counted \in Reasons \cup {"none"}

Serving ==
  /\ setting \in Settings /\ stopping \in BOOLEAN
  /\ listener \in [open : BOOLEAN, running : BOOLEAN]
  /\ ThreadOK

\* What the ghost knows of a request that was let through, at time t with the window w of
\* its key, W and M being the length of a window and the limit: it was
\* counted in its window, which is the present one or ended before that began.
Entry == [at : Nat, window : Nat, nth : Nat, place : Nat]
Counted(a, w, t, W, M) ==
  /\ a.nth >= 1 /\ a.nth <= M
  /\ a.window <= a.at /\ a.at <= t /\ a.at < a.window + W /\ t < a.at + W
  /\ a.window = w.start => a.nth <= w.count
  /\ a.window # w.start => a.window + W <= w.start
  /\ a.nth = 1 => a.at = a.window

\* Windows do not overlap, and no two requests are counted as the same one.
Apart(a, b, W) ==
  /\ a.window # b.window => a.window + W <= b.window \/ b.window + W <= a.window
  /\ a.window = b.window /\ a.nth = b.nth => a = b

Ledger(w, t, S, W, M) ==
  /\ w \in [start : Nat, count : Nat] /\ w.start <= t /\ w.count <= M
  /\ IsFiniteSet(S) /\ S \subseteq Entry
  /\ \A a \in S : Counted(a, w, t, W, M)
  /\ \A a, b \in S : Apart(a, b, W)

Ledgers ==
  /\ now \in Nat
  /\ windows \in [Keys -> [start : Nat, count : Nat]]
  /\ \A k \in Keys : windows[k].start <= now
  /\ DOMAIN admitted = Keys
  /\ \A k \in Keys : Limited(k[2]) =>
       Ledger(windows[k], now, admitted[k], LimitOf(k[2]).window, LimitOf(k[2]).max)

-----------------------------------------------------------------------------
(* The arithmetic of fixed windows.                                        *)

\* Nothing has been let through.
LEMMA LedgerEmpty ==
  ASSUME NEW W \in Nat, NEW M \in Nat, NEW t \in Nat
  PROVE  Ledger([start |-> 0, count |-> 0], t, {}, W, M)
  BY FS_EmptySet DEF Ledger

\* A request that opens a window.
LEMMA LedgerOpens ==
  ASSUME NEW W \in Nat, NEW M \in Nat, W > 0, M > 0, NEW t \in Nat, NEW w, NEW S,
         Ledger(w, t, S, W, M), w.count = 0 \/ t - w.start >= W,
         NEW e \in Entry, e.at = t, e.window = t, e.nth = 1
  PROVE  Ledger([start |-> t, count |-> 1], t, S \cup {e}, W, M)
<1> DEFINE v == [start |-> t, count |-> 1]
<1>1. v \in [start : Nat, count : Nat] /\ v.start = t /\ v.count = 1
  OBVIOUS
<1>2. IsFiniteSet(S \cup {e}) /\ S \cup {e} \subseteq Entry
  BY FS_AddElement DEF Ledger
<1>3. ASSUME NEW a \in S
      PROVE  a \in Entry /\ Counted(a, w, t, W, M) /\ a.window + W <= t
  <2>1. a \in Entry /\ Counted(a, w, t, W, M) /\ w \in [start : Nat, count : Nat]
        /\ w.start <= t
    BY DEF Ledger
  <2>2. a.window \in Nat /\ a.nth \in Nat /\ w.start \in Nat /\ w.count \in Nat
    BY <2>1 DEF Entry
  <2>3. CASE w.count = 0
    BY <2>1, <2>2, <2>3 DEF Counted
  <2>4. CASE t - w.start >= W
    BY <2>1, <2>2, <2>4 DEF Counted
  <2> QED
    BY <2>1, <2>3, <2>4
<1>4. ASSUME NEW a \in S
      PROVE  Counted(a, v, t, W, M) /\ Apart(a, e, W) /\ Apart(e, a, W)
  <2>1. a.window \in Nat /\ a.at \in Nat /\ a.nth \in Nat /\ a.window # t
    BY <1>3 DEF Entry
  <2> QED
    BY <1>1, <1>3, <2>1 DEF Counted, Apart
<1>5. Counted(e, v, t, W, M) /\ Apart(e, e, W)
  BY <1>1 DEF Counted, Apart
<1>6. \A a, b \in S : Apart(a, b, W)
  BY DEF Ledger
<1>7. \A a \in S \cup {e} : Counted(a, v, t, W, M)
  BY <1>4, <1>5
<1>8. \A a, b \in S \cup {e} : Apart(a, b, W)
  BY <1>4, <1>5, <1>6
<1>9. v.start <= t /\ v.count <= M
  BY <1>1
<1> HIDE DEF v
<1>10. Ledger(v, t, S \cup {e}, W, M)
  BY <1>1, <1>2, <1>7, <1>8, <1>9 DEF Ledger
<1> QED
  BY <1>10 DEF v

\* A request that finds room in the present window.
LEMMA LedgerCounts ==
  ASSUME NEW W \in Nat, NEW M \in Nat, W > 0, M > 0, NEW t \in Nat, NEW w, NEW S,
         Ledger(w, t, S, W, M), w.count # 0, t - w.start < W, w.count < M,
         NEW v, v = [start |-> w.start, count |-> w.count + 1],
         NEW e \in Entry, e.at = t, e.window = w.start, e.nth = w.count + 1
  PROVE  Ledger(v, t, S \cup {e}, W, M)
<1>0. w \in [start : Nat, count : Nat] /\ w.start \in Nat /\ w.count \in Nat /\ w.start <= t
  BY DEF Ledger
<1>1. v \in [start : Nat, count : Nat] /\ v.start = w.start /\ v.count = w.count + 1
  BY <1>0
<1>2. IsFiniteSet(S \cup {e}) /\ S \cup {e} \subseteq Entry
  BY FS_AddElement DEF Ledger
<1>3. ASSUME NEW a \in S
      PROVE  /\ a \in Entry /\ Counted(a, w, t, W, M)
             /\ a.window \in Nat /\ a.at \in Nat /\ a.nth \in Nat
  BY DEF Ledger, Entry
<1>4. ASSUME NEW a \in S
      PROVE  Counted(a, v, t, W, M) /\ Apart(a, e, W) /\ Apart(e, a, W)
  <2>1. Counted(a, v, t, W, M)
    BY <1>0, <1>1, <1>3 DEF Counted
  <2>2. a.window = e.window => a.nth # e.nth
    BY <1>0, <1>3 DEF Counted
  <2>3. a.window # e.window => a.window + W <= e.window
    BY <1>3 DEF Counted
  <2> QED
    BY <2>1, <2>2, <2>3 DEF Apart
<1>5. Counted(e, v, t, W, M) /\ Apart(e, e, W)
  BY <1>0, <1>1 DEF Counted, Apart
<1>6. \A a, b \in S : Apart(a, b, W)
  BY DEF Ledger
<1>7. \A a \in S \cup {e} : Counted(a, v, t, W, M)
  BY <1>4, <1>5
<1>8. \A a, b \in S \cup {e} : Apart(a, b, W)
  BY <1>4, <1>5, <1>6
<1>9. v.start <= t /\ v.count <= M
  BY <1>0, <1>1
<1> QED
  BY <1>1, <1>2, <1>7, <1>8, <1>9 DEF Ledger

\* Time passes: what is a whole window old is forgotten.
LEMMA LedgerAges ==
  ASSUME NEW W \in Nat, NEW M \in Nat, NEW t \in Nat, NEW w, NEW S, Ledger(w, t, S, W, M)
  PROVE  Ledger(w, t + 1, {a \in S : t + 1 - a.at < W}, W, M)
<1> DEFINE T == {a \in S : t + 1 - a.at < W}
<1>0. w \in [start : Nat, count : Nat] /\ w.start <= t + 1 /\ w.count <= M
  BY DEF Ledger
<1>1. IsFiniteSet(T) /\ T \subseteq Entry
  BY FS_Subset DEF Ledger
<1>2. \A a \in T : Counted(a, w, t + 1, W, M)
  <2> SUFFICES ASSUME NEW a \in S, t + 1 - a.at < W PROVE Counted(a, w, t + 1, W, M)
    OBVIOUS
  <2>1. Counted(a, w, t, W, M) /\ a.at \in Nat /\ a.window \in Nat
    BY DEF Ledger, Entry
  <2> QED
    BY <2>1 DEF Counted
<1>3. \A a, b \in T : Apart(a, b, W)
  BY DEF Ledger
<1> HIDE DEF T
<1>4. Ledger(w, t + 1, T, W, M)
  BY <1>0, <1>1, <1>2, <1>3 DEF Ledger
<1> QED
  BY <1>4 DEF T

\* In a span of one window that ends now there are at most M requests of the present window
\* and, of one earlier window, at most M - 1: its first request is a whole window old.
LEMMA LedgerBound ==
  ASSUME NEW W \in Nat, NEW M \in Nat, W > 0, M > 0, NEW t \in Nat, NEW w, NEW S,
         Ledger(w, t, S, W, M)
  PROVE  Cardinality(S) <= 2 * M - 1
<1> DEFINE f == [a \in S |-> IF a.window = w.start THEN a.nth ELSE M + a.nth - 1]
<1>0. w.start \in Nat /\ w.count \in Nat /\ w.start <= t
  BY DEF Ledger
<1>1. ASSUME NEW a \in S
      PROVE  /\ a.window \in Nat /\ a.at \in Nat /\ a.nth \in Nat
             /\ Counted(a, w, t, W, M)
  BY DEF Ledger, Entry
<1>2. ASSUME NEW a \in S, a.window # w.start
      PROVE  a.nth >= 2
  BY <1>0, <1>1, <1>2 DEF Counted
<1>3. ASSUME NEW a \in S, NEW b \in S, a.window # w.start, b.window # w.start
      PROVE  a.window = b.window
  <2>1. Apart(a, b, W)
    BY DEF Ledger
  <2> QED
    BY <1>0, <1>1, <1>3, <2>1 DEF Counted, Apart
<1>4. ASSUME NEW a \in S PROVE f[a] \in 1..(2 * M - 1)
  BY <1>1, <1>2, <1>4 DEF Counted
<1>5. ASSUME NEW a \in S, NEW b \in S, f[a] = f[b] PROVE a = b
  <2>1. Apart(a, b, W)
    BY DEF Ledger
  <2>2. a.window = b.window /\ a.nth = b.nth
    <3>1. CASE a.window = w.start /\ b.window = w.start
      BY <1>5, <3>1
    <3>2. CASE a.window # w.start /\ b.window # w.start
      BY <1>1, <1>3, <1>5, <3>2
    <3>3. CASE a.window = w.start /\ b.window # w.start
      BY <1>1, <1>2, <1>5, <3>3 DEF Counted
    <3>4. CASE a.window # w.start /\ b.window = w.start
      BY <1>1, <1>2, <1>5, <3>4 DEF Counted
    <3> QED
      BY <3>1, <3>2, <3>3, <3>4
  <2> QED
    BY <2>1, <2>2 DEF Apart
<1>6. f \in Injection(S, 1..(2 * M - 1))
  <2>1. f \in [S -> 1..(2 * M - 1)]
    BY <1>4
  <2> HIDE DEF f
  <2> QED
    BY <1>5, <2>1 DEF Injection, IsInjective
<1>7. /\ IsFiniteSet(1..(2 * M - 1))
      /\ Cardinality(1..(2 * M - 1)) = 2 * M - 1
  BY FS_Interval
<1> HIDE DEF f
<1> QED
  BY <1>6, <1>7, FS_Injection

-----------------------------------------------------------------------------
(* Where the thread is.                                                    *)

LEMMA RequestsServed ==
  ASSUME NEW r \in Requests
  PROVE  /\ r \in Request /\ r # NoRequest
         /\ r.client \in Clients /\ r.route \in Routes /\ r.path \in Paths
<1>1. r \in Request
  BY HttpAssumption DEF HttpAssumption
<1>2. r.client \in Clients /\ r.route \in Routes /\ r.path \in Paths
  BY <1>1 DEF Request
<1>3. NoRequest.route = "none"
  BY DEF NoRequest
<1> QED
  BY <1>1, <1>2, <1>3 DEF Routes

LEMMA RequestKeyed ==
  ASSUME NEW r \in Requests, Limited(r.route)
  PROVE  KeyOf(r) \in Keys /\ KeyOf(r)[2] = r.route
  BY RequestsServed DEF Limited, KeyOf, Keys

LEMMA KeysOfRoutes ==
  ASSUME NEW k \in Keys
  PROVE  k[2] \in Routes
  BY DEF Keys, RateLimited, Routes

LEMMA ThreadAway ==
  /\ DOMAIN Away = ThreadFields /\ Away.pc = "away" /\ Away.req = NoRequest
  /\ Away.counted = "none" /\ Away.status = 0
  /\ Away.read = Absent /\ Away.wrote = Absent /\ Away.reread = Absent
  BY DEF Away, ThreadFields

LEMMA ServingInit ==
  ASSUME Init
  PROVE  Serving
  BY ThreadAway DEF Init, Serving, ThreadOK, Places, Resting

\* A step that keeps the request and stays among the places that have one.
LEMMA ThreadGoesOn ==
  ASSUME ThreadOK, thread.pc \notin Resting,
         DOMAIN thread' = ThreadFields, thread'.req = thread.req,
         thread'.pc \in Places, thread'.pc \notin Resting,
         thread'.counted \in Reasons \cup {"none"}
  PROVE  ThreadOK'
  BY DEF ThreadOK

\* The steps of a request, from its authorization to its answer.
LEMMA ServedThread ==
  ASSUME ThreadOK, Authorize \/ Handle
  PROVE  ThreadOK'
<1>1. DOMAIN thread = ThreadFields
  BY DEF ThreadOK
<1>2. ASSUME NEW p \in {"handle", "again", "put", "persisted", "answer"}
      PROVE  p \in Places /\ p \notin Resting
  BY DEF Places, Resting
<1>3. ASSUME NEW n, Respond(n), thread.pc \notin Resting
      PROVE  ThreadOK'
  BY <1>1, <1>2, <1>3, ThreadGoesOn DEF Respond, ThreadOK, ThreadFields
<1>4. ASSUME NEW c \in Reasons, NEW n, Reject(c, n), thread.pc \notin Resting
      PROVE  ThreadOK'
  BY <1>1, <1>2, <1>4, ThreadGoesOn DEF Reject, ThreadOK, ThreadFields
<1>5. CASE Authorize
  <2>1. thread.pc \notin Resting
    BY <1>5 DEF Authorize, Resting
  <2>2. Refusal(thread.req) # "none" => Refusal(thread.req) \in Reasons
    BY DEF Refusal, Reasons
  <2>3. CASE \E n : Respond(n)
    BY <2>1, <2>3, <1>3
  <2>4. CASE \E n : Refusal(thread.req) # "none" /\ Reject(Refusal(thread.req), n)
    BY <2>1, <2>2, <2>4, <1>4
  <2>5. CASE At("handle")
    BY <1>1, <1>2, <2>1, <2>5, ThreadGoesOn DEF At, ThreadOK, ThreadFields
  <2> QED
    BY <1>5, <2>3, <2>4, <2>5 DEF Authorize
<1>6. CASE Handle
  <2>1. thread.pc \notin Resting
    BY <1>6 DEF Handle, HandleOverview, HandleRead, HandleReadAgain, HandleSignaling,
                PutBegins, PutSets, PutEnds, Resting
  <2>2. CASE \E n : Respond(n)
    BY <2>1, <2>2, <1>3
  <2>3. CASE \E n : Reject("invalid", n)
    BY <2>1, <2>3, <1>4 DEF Reasons
  <2>4. CASE \E p \in {"again", "put"} :
               thread' = [thread EXCEPT !.pc = p, !.read = stream]
    BY <1>1, <1>2, <2>1, <2>4, ThreadGoesOn DEF ThreadOK, ThreadFields
  <2>5. CASE PutSets /\ thread'.pc = "persisted"
    <3>1. \E u : thread' = [thread EXCEPT !.pc = "persisted", !.wrote = u]
      BY <1>1, <2>5 DEF PutSets, Reject, ThreadFields
    <3> QED
      BY <1>1, <1>2, <2>1, <3>1, ThreadGoesOn DEF ThreadOK, ThreadFields
  <2>6. CASE PutEnds
    BY <1>1, <1>2, <2>1, <2>6, ThreadGoesOn DEF ThreadOK, ThreadFields, PutEnds
  <2>7. CASE HandleOverview \/ HandleReadAgain
    BY <2>2, <2>7 DEF HandleOverview, HandleReadAgain
  <2>8. CASE HandleRead
    BY <2>2, <2>4, <2>8 DEF HandleRead
  <2>9. CASE HandleSignaling
    BY <2>2, <2>3, <2>9 DEF HandleSignaling
  <2>10. CASE PutBegins
    BY <2>2, <2>3, <2>4, <2>10 DEF PutBegins
  <2>11. CASE PutSets /\ thread'.pc # "persisted"
    <3>1. \E n : Reject("invalid", n)
      BY <1>1, <2>11 DEF PutSets, ThreadFields
    <3> QED
      BY <2>3, <3>1
  <2> QED
    BY <1>6, <2>5, <2>6, <2>7, <2>8, <2>9, <2>10, <2>11 DEF Handle
<1> QED
  BY <1>5, <1>6

LEMMA ServingStep ==
  ASSUME Serving, [Next]_vars
  PROVE  Serving'
<1>1. UNCHANGED setting
  BY DEF Next, vars, Loop, Handle, Start, Step, StepReturns, Accept, PollFails, Receive,
         LengthThrows, Sent,
         LoopEnds, Authorize, HandleOverview, HandleRead, HandleReadAgain, HandleSignaling,
         PutBegins, PutSets, PutEnds, StopCloses, StopJoins, Application, Tick, Server,
         Untouched
<1>2. stopping' \in BOOLEAN
  <2>1. CASE StopCloses
    <3>1. setting.worker \in BOOLEAN
      BY HttpAssumption DEF Serving, HttpAssumption, Setting
    <3> QED
      BY <2>1, <3>1 DEF StopCloses
  <2>2. CASE StopJoins
    BY <2>2 DEF StopJoins
  <2>3. CASE UNCHANGED stopping
    BY <2>3 DEF Serving
  <2> QED
    BY <2>1, <2>2, <2>3
    DEF Next, vars, Loop, Handle, Start, Step, StepReturns, Accept, PollFails, Receive,
         LengthThrows, Sent,
        LoopEnds, Authorize, HandleOverview, HandleRead, HandleReadAgain, HandleSignaling,
        PutBegins, PutSets, PutEnds, Application, Tick, Untouched
<1>3. listener' \in [open : BOOLEAN, running : BOOLEAN]
  <2>1. CASE Start
    <3>1. setting.worker \in BOOLEAN
      BY HttpAssumption DEF Serving, HttpAssumption, Setting
    <3> QED
      BY <2>1, <3>1 DEF Start
  <2>2. CASE StopCloses
    BY <2>2 DEF StopCloses
  <2>3. CASE UNCHANGED listener
    BY <2>3 DEF Serving
  <2> QED
    BY <2>1, <2>2, <2>3
    DEF Next, vars, Loop, Handle, Step, StepReturns, Accept, PollFails, Receive,
         LengthThrows, Sent,
        LoopEnds, Authorize, HandleOverview, HandleRead, HandleReadAgain, HandleSignaling,
        PutBegins, PutSets, PutEnds, StopJoins, Application, Tick, Untouched
<1>4. ThreadOK'
  <2> USE DEF ThreadOK
  <2>1. ThreadOK /\ DOMAIN thread = ThreadFields
    BY DEF Serving
  <2>2. CASE Authorize \/ Handle
    BY <2>1, <2>2, ServedThread
  <2>3. ASSUME NEW p \in Resting, thread' = [Away EXCEPT !.pc = p]
        PROVE  ThreadOK'
    BY <2>3, ThreadAway DEF Resting, Places, ThreadFields
  <2>4. CASE Start
    BY <2>4, <2>3 DEF Start, Resting
  <2>5. CASE Step \/ LoopEnds
    BY <2>1, <2>5 DEF Step, LoopEnds, At, Resting, Places, ThreadFields
  <2>6. CASE StepReturns \/ StopJoins
    BY <2>6, ThreadAway DEF StepReturns, StopJoins, Resting, Places
  <2>7. ASSUME NEW r \in Requests, Accept(r)
        PROVE  ThreadOK'
    BY <2>7, ThreadAway DEF Accept, Resting, Places, ThreadFields
  <2>8. CASE PollFails
    BY <2>8, <2>3 DEF PollFails, Resting
  <2>9. CASE Receive
    <3>1. \E n : \E p \in {"authorize", "answer"} :
            \/ thread' = [thread EXCEPT !.pc = p]
            \/ thread' = [thread EXCEPT !.pc = p, !.status = n]
      BY <2>9 DEF Receive, At, Respond
    <3>2. thread.pc \notin Resting
      BY <2>9 DEF Receive, Resting
    <3>3. ASSUME NEW p \in {"authorize", "answer"} PROVE p \in Places /\ p \notin Resting
      BY DEF Places, Resting
    <3> QED
      BY <2>1, <3>1, <3>2, <3>3, ThreadGoesOn DEF ThreadFields
  <2>10. CASE Sent \/ LengthThrows
    BY <2>10, <2>3 DEF Sent, LengthThrows, Resting
  <2>11. CASE UNCHANGED thread
    BY <2>1, <2>11
  <2> QED
    BY <2>2, <2>4, <2>5, <2>6, <2>7, <2>8, <2>9, <2>10, <2>11
    DEF Next, vars, Loop, StopCloses, Application, Tick, Server
<1> QED
  BY <1>1, <1>2, <1>3, <1>4 DEF Serving

-----------------------------------------------------------------------------
(* The rate limit.                                                         *)

LEMMA SettingOK ==
  ASSUME Serving, NEW route \in Routes
  PROVE  LimitOf(route) \in [max : Nat, window : Nat]
<1>1. setting \in Setting
  BY HttpAssumption DEF Serving, HttpAssumption
<1>2. setting.limit \in [Buckets -> [max : Nat, window : Nat]]
  BY <1>1 DEF Setting
<1>3. BucketOf(route) \in Buckets
  BY DEF BucketOf, Buckets
<1> QED
  BY <1>2, <1>3 DEF LimitOf

LEMMA LedgersInit ==
  ASSUME Init
  PROVE  Ledgers
<1>1. Serving
  BY ServingInit
<1>2. now = 0 /\ windows = [k \in Keys |-> [start |-> 0, count |-> 0]]
      /\ admitted = [k \in Keys |-> {}]
  BY DEF Init
<1>3. ASSUME NEW k \in Keys
      PROVE  Ledger(windows[k], now, admitted[k], LimitOf(k[2]).window, LimitOf(k[2]).max)
  <2>1. k[2] \in Routes
    BY KeysOfRoutes
  <2>2. LimitOf(k[2]).window \in Nat /\ LimitOf(k[2]).max \in Nat
    BY <1>1, <2>1, SettingOK
  <2> QED
    BY <1>2, <2>2, LedgerEmpty
<1> QED
  BY <1>2, <1>3 DEF Ledgers

\* What a request that passes does to the window of its key.
LEMMA ConsumedLedger ==
  ASSUME Serving, Ledgers, NEW k \in Keys, Limited(k[2]), HasRoom(k)
  PROVE  /\ Consumed(k) \in [start : Nat, count : Nat] /\ Consumed(k).start <= now
         /\ Ledger(Consumed(k), now, admitted[k] \cup {LetIn(k)},
                   LimitOf(k[2]).window, LimitOf(k[2]).max)
<1> DEFINE W == LimitOf(k[2]).window
           M == LimitOf(k[2]).max
           w == windows[k]
           S == admitted[k]
           e == LetIn(k)
<1>1. k[2] \in Routes
  BY KeysOfRoutes
<1>2. W \in Nat /\ M \in Nat /\ W > 0 /\ M > 0
  BY <1>1, SettingOK DEF Limited
<1>3. now \in Nat /\ w \in [start : Nat, count : Nat] /\ Ledger(w, now, S, W, M)
      /\ w.start <= now
  BY DEF Ledgers
<1>4. Cardinality(S) + 1 \in Nat
  <2>1. IsFiniteSet(S)
    BY <1>3 DEF Ledger
  <2> QED
    BY <2>1, FS_CardinalityType
<1>5. CASE Expired(k)
  <2>1. Consumed(k) = [start |-> now, count |-> 1]
    BY <1>5 DEF Consumed
  <2>2. e \in Entry /\ e.at = now /\ e.window = now /\ e.nth = 1
    BY <1>3, <1>4, <2>1 DEF LetIn, Entry
  <2>3. w.count = 0 \/ now - w.start >= W
    BY <1>5 DEF Expired
  <2> HIDE DEF W, M, w, S, e
  <2>4. Ledger([start |-> now, count |-> 1], now, S \cup {e}, W, M)
    BY <1>2, <1>3, <2>2, <2>3, LedgerOpens
  <2> QED
    BY <1>3, <2>1, <2>4 DEF W, M, w, S, e
<1>6. CASE ~Expired(k)
  <2>1. Consumed(k) = [start |-> w.start, count |-> w.count + 1]
    BY <1>3, <1>6 DEF Consumed
  <2>2. e \in Entry /\ e.at = now /\ e.window = w.start /\ e.nth = w.count + 1
    BY <1>3, <1>4, <2>1 DEF LetIn, Entry
  <2>3. w.count # 0 /\ now - w.start < W /\ w.count < M
    BY <1>2, <1>3, <1>6 DEF Expired, HasRoom
  <2> DEFINE v == Consumed(k)
  <2> HIDE DEF W, M, w, S, e, v
  <2>4. Ledger(v, now, S \cup {e}, W, M)
    BY <1>2, <1>3, <2>1, <2>2, <2>3, LedgerCounts DEF v
  <2>5. v \in [start : Nat, count : Nat] /\ v.start = w.start
    BY <1>3, <2>1 DEF v
  <2> QED
    BY <1>3, <2>4, <2>5 DEF W, M, w, S, e, v
<1> QED
  BY <1>5, <1>6

LEMMA LedgersStep ==
  ASSUME Serving, Ledgers, [Next]_vars
  PROVE  Ledgers'
<1>0. UNCHANGED setting
  BY DEF Next, vars, Loop, Handle, Start, Step, StepReturns, Accept, PollFails, Receive,
         LengthThrows, Sent,
         LoopEnds, Authorize, HandleOverview, HandleRead, HandleReadAgain, HandleSignaling,
         PutBegins, PutSets, PutEnds, StopCloses, StopJoins, Application, Tick, Server,
         Untouched
<1>1. \A route \in Routes : /\ LimitOf(route)' = LimitOf(route)
                            /\ Limited(route)' = Limited(route)
  BY <1>0 DEF LimitOf, Limited
<1>2. \A k \in Keys : k[2] \in Routes
  BY KeysOfRoutes
<1>3. CASE UNCHANGED <<windows, now, admitted>>
  BY <1>1, <1>2, <1>3 DEF Ledgers
<1>4. CASE Authorize /\ ~UNCHANGED <<windows, now, admitted>>
  <2> DEFINE r == thread.req
             k == KeyOf(r)
  <2>1. /\ Refusal(r) = "none" /\ Limited(r.route) /\ UNCHANGED now
        /\ windows' = [windows EXCEPT ![k] = Consumed(k)]
        /\ admitted' = [admitted EXCEPT ![k] = @ \cup {LetIn(k)}]
    BY <1>4 DEF Authorize
  <2>2. k \in Keys /\ k[2] = r.route
    <3>1. r \in Requests
      BY <1>4 DEF Serving, ThreadOK, Authorize, Resting
    <3> QED
      BY <2>1, <3>1, RequestKeyed
  <2>3. HasRoom(k) /\ Limited(k[2])
    BY <2>1, <2>2 DEF Refusal
  <2> HIDE DEF k
  <2>4. /\ Consumed(k) \in [start : Nat, count : Nat] /\ Consumed(k).start <= now
        /\ Ledger(Consumed(k), now, admitted[k] \cup {LetIn(k)},
                  LimitOf(k[2]).window, LimitOf(k[2]).max)
    BY <2>2, <2>3, ConsumedLedger
  <2> DEFINE v == Consumed(k)
             T == admitted[k] \cup {LetIn(k)}
  <2> HIDE DEF v, T
  <2>5. windows' = [windows EXCEPT ![k] = v] /\ admitted' = [admitted EXCEPT ![k] = T]
    BY <2>1 DEF v, T
  <2>6. /\ v \in [start : Nat, count : Nat] /\ v.start <= now
        /\ Ledger(v, now, T, LimitOf(k[2]).window, LimitOf(k[2]).max)
    BY <2>4 DEF v, T
  <2>7. /\ now' \in Nat /\ windows' \in [Keys -> [start : Nat, count : Nat]]
        /\ \A j \in Keys : windows'[j].start <= now'
        /\ DOMAIN admitted' = Keys
    BY <2>1, <2>2, <2>5, <2>6 DEF Ledgers
  <2>8. ASSUME NEW j \in Keys, Limited(j[2])
        PROVE  Ledger(windows'[j], now, admitted'[j], LimitOf(j[2]).window, LimitOf(j[2]).max)
    <3>1. CASE j = k
      BY <2>2, <2>5, <2>6, <3>1 DEF Ledgers
    <3>2. CASE j # k
      BY <2>5, <2>8, <3>2 DEF Ledgers
    <3> QED
      BY <3>1, <3>2
  <2>9. now' = now
    BY <2>1
  <2>10. \A j \in Keys : Limited(j[2])' =>
           Ledger(windows'[j], now', admitted'[j], LimitOf(j[2])'.window, LimitOf(j[2])'.max)
    BY <1>1, <1>2, <2>8, <2>9
  <2> QED
    BY <2>7, <2>10 DEF Ledgers
<1>5. CASE Tick
  <2>1. /\ now' = now + 1 /\ UNCHANGED windows
        /\ admitted' = [k \in Keys |->
             {a \in admitted[k] : now + 1 - a.at < LimitOf(k[2]).window}]
    BY <1>5 DEF Tick
  <2>2. /\ now' \in Nat /\ windows' \in [Keys -> [start : Nat, count : Nat]]
        /\ \A j \in Keys : windows'[j].start <= now'
        /\ DOMAIN admitted' = Keys
    BY <2>1 DEF Ledgers
  <2>3. ASSUME NEW j \in Keys, Limited(j[2])
        PROVE  Ledger(windows[j], now + 1, admitted'[j],
                      LimitOf(j[2]).window, LimitOf(j[2]).max)
    <3>1. LimitOf(j[2]).window \in Nat /\ LimitOf(j[2]).max \in Nat
      BY <1>2, SettingOK
    <3>2. now \in Nat
          /\ Ledger(windows[j], now, admitted[j], LimitOf(j[2]).window, LimitOf(j[2]).max)
      BY <2>3 DEF Ledgers
    <3>3. admitted'[j] = {a \in admitted[j] : now + 1 - a.at < LimitOf(j[2]).window}
      BY <2>1
    <3> DEFINE W == LimitOf(j[2]).window
               M == LimitOf(j[2]).max
               w == windows[j]
               S == admitted[j]
    <3>4. W \in Nat /\ M \in Nat /\ now \in Nat /\ Ledger(w, now, S, W, M)
      BY <3>1, <3>2
    <3> HIDE DEF W, M, w, S
    <3>5. Ledger(w, now + 1, {a \in S : now + 1 - a.at < W}, W, M)
      BY <3>4, LedgerAges
    <3> QED
      BY <3>3, <3>5 DEF W, M, w, S
  <2>4. ASSUME NEW j \in Keys, Limited(j[2])
        PROVE  Ledger(windows'[j], now', admitted'[j], LimitOf(j[2]).window, LimitOf(j[2]).max)
    BY <2>1, <2>3, <2>4
  <2>5. \A j \in Keys : Limited(j[2])' =>
          Ledger(windows'[j], now', admitted'[j], LimitOf(j[2])'.window, LimitOf(j[2])'.max)
    BY <1>1, <1>2, <2>4
  <2> QED
    BY <2>2, <2>5 DEF Ledgers
<1> QED
  BY <1>3, <1>4, <1>5
  DEF Next, vars, Loop, Handle, Start, Step, StepReturns, Accept, PollFails, Receive,
         LengthThrows, Sent,
      LoopEnds, HandleOverview, HandleRead, HandleReadAgain, HandleSignaling,
      PutBegins, PutSets, PutEnds, StopCloses, StopJoins, Application, Server, Untouched

-----------------------------------------------------------------------------
(* A PUT and the stream.                                                   *)

StreamType == [life : Nat, gen : Nat, config : OutputConfig, frame : BOOLEAN]

\* What is seen of the stream after request r wrote it: if it is still that registration,
\* it is what r wrote or later.
Shows(wrote, seen, r) ==
  wrote.life = seen.life =>
    /\ seen.gen >= wrote.gen
    /\ seen.gen = wrote.gen => \A f \in r.fields : seen.config[f] = r.config[f]

StreamOK == made \in Nat /\ stream \in StreamType /\ stream.life <= made /\ Fit(stream.config)

\* The copies a request has: it has written nothing before it is at "persisted".
Copies ==
  /\ thread.read \in StreamType /\ thread.wrote \in StreamType /\ thread.reread \in StreamType
  /\ thread.wrote.life <= made
  /\ thread.pc \notin {"persisted", "answer"} => thread.wrote.life = 0

\* What a PUT that is over knows.
Answered ==
  IF thread.status = 200
  THEN thread.wrote.life # 0 /\ Shows(thread.wrote, thread.reread, thread.req)
  ELSE thread.wrote.life # 0 => thread.status = 404 /\ thread.reread.life = 0

PutGoing ==
  /\ thread.pc = "again" => thread.req.route # "config_put"
  /\ thread.pc \in {"put", "persisted"} => thread.req.route = "config_put"
  /\ thread.pc = "persisted" =>
       thread.wrote.life # 0 /\ Shows(thread.wrote, stream, thread.req)
  /\ thread.pc = "answer" /\ thread.req.route = "config_put" => Answered

Puts == StreamOK /\ Copies /\ PutGoing

LEMMA AbsentOK ==
  /\ Absent \in StreamType /\ Absent.life = 0 /\ Absent.gen = 0 /\ Absent.frame = FALSE
  /\ Fit(Absent.config)
<1>1. 0 \in Palettes /\ 1 \in Palettes
  BY HttpAssumption DEF HttpAssumption
<1>2. [min |-> 0, max |-> 1] \in OutputConfig
  BY <1>1 DEF OutputConfig
<1> QED
  BY <1>2 DEF Absent, StreamType, Fit

LEMMA PutsInit ==
  ASSUME Init
  PROVE  Puts
<1>1. thread = Away /\ stream = Absent /\ made = 0
  BY DEF Init
<1>2. StreamOK
  BY <1>1, AbsentOK DEF StreamOK
<1>3. Copies
  BY <1>1, AbsentOK, ThreadAway DEF Copies
<1>4. PutGoing
  BY <1>1, ThreadAway DEF PutGoing
<1> QED
  BY <1>2, <1>3, <1>4 DEF Puts

\* The merged configuration is one, and has the fields of the request.
LEMMA MergedOK ==
  ASSUME NEW r \in Requests, NEW c \in OutputConfig
  PROVE  /\ Merged(r, c) \in OutputConfig
         /\ \A f \in r.fields : Merged(r, c)[f] = r.config[f]
<1>1. r \in Request
  BY RequestsServed
<1>2. r.fields \subseteq {"min", "max"} /\ r.config \in OutputConfig
  BY <1>1 DEF Request
<1> DEFINE m == Merged(r, c)
<1>3. /\ m["min"] = IF "min" \in r.fields THEN r.config["min"] ELSE c["min"]
      /\ m["max"] = IF "max" \in r.fields THEN r.config["max"] ELSE c["max"]
      /\ m = [f \in {"min", "max"} |-> m[f]]
  BY DEF Merged
<1>4. /\ c.min \in Palettes /\ c.max \in Palettes
      /\ r.config.min \in Palettes /\ r.config.max \in Palettes
  BY <1>2 DEF OutputConfig
<1>5. m["min"] \in Palettes /\ m["max"] \in Palettes
  BY <1>3, <1>4
<1>6. m \in OutputConfig
  <2> HIDE DEF m
  <2>1. m = [min |-> m["min"], max |-> m["max"]]
    BY <1>3, Zenon
  <2> QED
    BY <1>5, <2>1 DEF OutputConfig
<1>7. \A f \in r.fields : m[f] = r.config[f]
  BY <1>2 DEF Merged
<1> QED
  BY <1>6, <1>7

\* Setting a configuration: the registration stays, the generation grows.
LEMMA ConfiguredOK ==
  ASSUME stream \in StreamType, NEW c \in OutputConfig
  PROVE  /\ Configured(c) \in StreamType
         /\ Configured(c).life = stream.life /\ Configured(c).gen = stream.gen + 1
         /\ Configured(c).config = c
<1>1. stream.life \in Nat /\ stream.gen \in Nat /\ stream.gen + 1 \in Nat
  BY DEF StreamType
<1> DEFINE g == stream.gen + 1
           u == [life |-> stream.life, gen |-> g, config |-> c, frame |-> FALSE]
<1>2. Configured(c) = u
  <2>1. Configured(c) = [stream EXCEPT !.gen = g, !.config = c, !.frame = FALSE]
    BY DEF Configured
  <2>2. DOMAIN stream = {"life", "gen", "config", "frame"}
    BY DEF StreamType
  <2> HIDE DEF g
  <2>3. DOMAIN Configured(c) = DOMAIN u /\ \A x \in DOMAIN u : Configured(c)[x] = u[x]
    BY <2>1, <2>2
  <2>4. Configured(c) = [x \in DOMAIN u |-> Configured(c)[x]]
    BY <2>1, <2>3
  <2>5. u = [x \in DOMAIN u |-> u[x]]
    OBVIOUS
  <2> HIDE DEF u
  <2> QED
    BY <2>3, <2>4, <2>5
<1>3. u \in StreamType /\ u.life = stream.life /\ u.gen = g /\ u.config = c
  BY <1>1 DEF StreamType
<1> HIDE DEF u
<1> QED
  BY <1>2, <1>3

\* The application's steps on the stream.
LEMMA ApplicationPuts ==
  ASSUME Puts, Application
  PROVE  Puts'
<1>1. UNCHANGED thread
  BY DEF Application
<1>2. /\ made' \in Nat /\ made <= made' /\ stream' \in StreamType /\ stream'.life <= made'
      /\ Fit(stream'.config)
      /\ \/ stream'.life # 0 /\ stream'.life > made
         \/ stream'.life = 0
         \/ stream'.life = stream.life /\ stream'.gen > stream.gen
         \/ /\ stream'.life = stream.life /\ stream'.gen = stream.gen
            /\ stream'.config = stream.config
  <2>1. made \in Nat /\ stream \in StreamType /\ stream.life <= made /\ Fit(stream.config)
    BY DEF Puts, StreamOK
  <2>2. CASE made' = made + 1 /\ stream' = [Absent EXCEPT !.life = made + 1]
    BY <2>1, <2>2, AbsentOK DEF StreamType
  <2>3. CASE made' = made + 1 /\ \E c \in OutputConfig : Fit(c) /\ stream' = Configured(c)
    <3>1. PICK c \in OutputConfig : Fit(c) /\ stream' = Configured(c)
      BY <2>3
    <3>2. /\ stream' \in StreamType /\ stream'.life = stream.life
          /\ stream'.gen = stream.gen + 1 /\ stream'.config = c
      BY <2>1, <3>1, ConfiguredOK
    <3>3. stream.life \in Nat /\ stream.gen \in Nat
      BY <2>1 DEF StreamType
    <3> QED
      BY <2>1, <2>3, <3>1, <3>2, <3>3
  <2>4. CASE stream' = Absent /\ UNCHANGED made
    BY <2>1, <2>4, AbsentOK
  <2>5. CASE stream' = [stream EXCEPT !.frame = TRUE] /\ UNCHANGED made
    <3>1. /\ stream' = [life |-> stream.life, gen |-> stream.gen, config |-> stream.config,
                        frame |-> TRUE]
          /\ stream.life \in Nat /\ stream.gen \in Nat /\ stream.config \in OutputConfig
      BY <2>1, <2>5 DEF StreamType
    <3>2. stream' \in StreamType
      BY <3>1 DEF StreamType
    <3> QED
      BY <2>1, <2>5, <3>1, <3>2
  <2> QED
    BY <2>2, <2>3, <2>4, <2>5 DEF Application
<1>3. StreamOK'
  BY <1>2 DEF StreamOK
<1>4. Copies'
  <2>1. thread.wrote.life \in Nat /\ made \in Nat /\ thread.wrote.life <= made
    BY DEF Puts, Copies, StreamOK, StreamType
  <2>2. thread.wrote.life <= made'
    BY <1>2, <2>1
  <2> QED
    BY <1>1, <2>2 DEF Puts, Copies
<1>5. PutGoing'
  <2>1. SUFFICES ASSUME thread.pc = "persisted"
                 PROVE  Shows(thread.wrote, stream', thread.req)
    BY <1>1 DEF Puts, PutGoing, Answered
  <2>2. /\ thread.wrote.life # 0 /\ Shows(thread.wrote, stream, thread.req)
        /\ thread.wrote.life <= made /\ thread.wrote \in StreamType /\ stream \in StreamType
        /\ made \in Nat
    BY <2>1 DEF Puts, PutGoing, Copies, StreamOK
  <2>3. /\ thread.wrote.life \in Nat /\ thread.wrote.gen \in Nat /\ stream.gen \in Nat
        /\ stream'.gen \in Nat /\ stream'.life \in Nat
    BY <1>2, <2>2 DEF StreamType
  <2> QED
    BY <1>2, <2>2, <2>3 DEF Shows
<1> QED
  BY <1>3, <1>4, <1>5 DEF Puts

\* A step of the thread that leaves the stream and what was written alone, and does not
\* go on with a PUT.
LEMMA ThreadPuts ==
  ASSUME Puts, UNCHANGED <<stream, made>>,
         thread'.read \in StreamType, thread'.wrote = thread.wrote \/ thread'.wrote = Absent,
         thread'.reread = thread.reread \/ thread'.reread = Absent,
         thread'.pc # "persisted",
         thread'.pc # "answer" => thread'.wrote.life = 0,
         thread'.pc = "again" => thread'.req.route # "config_put",
         thread'.pc = "put" => thread'.req.route = "config_put",
         thread'.pc = "answer" /\ thread'.req.route = "config_put" =>
           thread'.wrote.life = 0 /\ thread'.status # 200
  PROVE  Puts'
<1>1. StreamOK'
  BY DEF Puts, StreamOK
<1>2. Copies'
  BY AbsentOK DEF Puts, Copies, StreamOK
<1>3. PutGoing'
  BY DEF PutGoing, Answered
<1> QED
  BY <1>1, <1>2, <1>3 DEF Puts

LEMMA RequestPuts ==
  ASSUME Serving, Puts, Authorize \/ Handle
  PROVE  Puts'
<1>1. DOMAIN thread = ThreadFields /\ Puts
  BY DEF Serving, ThreadOK
<1>2. ASSUME NEW n, Respond(n), UNCHANGED <<stream, made>>,
             thread.pc \in {"authorize", "handle", "again", "put"},
             thread.req.route = "config_put" => n # 200
      PROVE  Puts'
  <2>1. /\ thread'.pc = "answer" /\ thread'.status = n /\ thread'.req = thread.req
        /\ thread'.read = thread.read /\ thread'.wrote = thread.wrote
        /\ thread'.reread = thread.reread
    BY <1>1, <1>2 DEF Respond, ThreadFields
  <2>2. thread.wrote.life = 0 /\ thread.read \in StreamType
    BY <1>2 DEF Puts, Copies
  <2> QED
    BY <1>2, <2>1, <2>2, ThreadPuts
<1>3. ASSUME NEW c, NEW n, Reject(c, n), UNCHANGED <<stream, made>>,
             thread.pc \in {"authorize", "handle", "again", "put"},
             thread.req.route = "config_put" => n # 200
      PROVE  Puts'
  <2>1. /\ thread'.pc = "answer" /\ thread'.status = n /\ thread'.req = thread.req
        /\ thread'.read = thread.read /\ thread'.wrote = thread.wrote
        /\ thread'.reread = thread.reread
    BY <1>1, <1>3 DEF Reject, ThreadFields
  <2>2. thread.wrote.life = 0 /\ thread.read \in StreamType
    BY <1>3 DEF Puts, Copies
  <2> QED
    BY <1>3, <2>1, <2>2, ThreadPuts
<1>4. ASSUME NEW p \in {"again", "put"}, thread' = [thread EXCEPT !.pc = p, !.read = stream],
             UNCHANGED <<stream, made>>, thread.pc = "handle",
             p = "put" <=> thread.req.route = "config_put"
      PROVE  Puts'
  <2>1. /\ thread'.pc = p /\ thread'.req = thread.req /\ thread'.read = stream
        /\ thread'.wrote = thread.wrote /\ thread'.reread = thread.reread
    BY <1>1, <1>4 DEF ThreadFields
  <2>2. thread.wrote.life = 0 /\ stream \in StreamType
    BY <1>4 DEF Puts, Copies, StreamOK
  <2> QED
    BY <1>4, <2>1, <2>2, ThreadPuts
<1>5. CASE Authorize
  <2>1. thread.pc = "authorize" /\ UNCHANGED <<stream, made>>
    BY <1>5 DEF Authorize
  <2>2. CASE Respond(IF thread.req.route = "preflight" THEN 204 ELSE 404)
    BY <1>2, <2>1, <2>2
  <2>3. CASE /\ Refusal(thread.req) # "none"
             /\ Reject(Refusal(thread.req), StatusOf(Refusal(thread.req)))
    <3>1. Refusal(thread.req) \in Reasons
      BY <2>3 DEF Refusal, Reasons
    <3>2. \A c \in Reasons : StatusOf(c) # 200
      BY DEF Reasons, StatusOf
    <3> QED
      BY <1>3, <2>1, <2>3, <3>1, <3>2
  <2>4. CASE At("handle")
    <3>1. /\ thread'.pc = "handle" /\ thread'.req = thread.req /\ thread'.read = thread.read
          /\ thread'.wrote = thread.wrote /\ thread'.reread = thread.reread
      BY <1>1, <2>4 DEF At, ThreadFields
    <3>2. thread.wrote.life = 0 /\ thread.read \in StreamType
      BY <2>1 DEF Puts, Copies
    <3> QED
      BY <2>1, <3>1, <3>2, ThreadPuts
  <2> QED
    BY <1>5, <2>2, <2>3, <2>4 DEF Authorize
<1>6. CASE HandleOverview
  BY <1>2, <1>6 DEF HandleOverview
<1>7. CASE HandleRead
  <2>1. thread.pc = "handle" /\ thread.req.route # "config_put" /\ UNCHANGED <<stream, made>>
    BY <1>7 DEF HandleRead
  <2> QED
    BY <1>2, <1>4, <1>7, <2>1 DEF HandleRead
<1>8. CASE HandleReadAgain
  <2>1. thread.pc = "again" /\ thread.req.route # "config_put" /\ UNCHANGED <<stream, made>>
    BY <1>8 DEF HandleReadAgain, Puts, PutGoing
  <2> QED
    BY <1>2, <1>8, <2>1 DEF HandleReadAgain
<1>9. CASE HandleSignaling
  <2>1. /\ thread.pc = "handle" /\ thread.req.route # "config_put"
        /\ UNCHANGED <<stream, made>>
    BY <1>9 DEF HandleSignaling, Signaling
  <2>2. (\E n : Respond(n)) \/ \E c, n : Reject(c, n)
    BY <1>9 DEF HandleSignaling
  <2> QED
    BY <1>2, <1>3, <2>1, <2>2
<1>10. CASE PutBegins
  <2>1. thread.pc = "handle" /\ thread.req.route = "config_put" /\ UNCHANGED <<stream, made>>
    BY <1>10 DEF PutBegins
  <2>2. CASE Respond(404)
    BY <1>2, <2>1, <2>2
  <2>3. CASE Reject("invalid", 413) \/ Reject("invalid", 400)
    BY <1>3, <2>1, <2>3
  <2>4. CASE thread' = [thread EXCEPT !.pc = "put", !.read = stream]
    BY <1>4, <2>1, <2>4
  <2> QED
    BY <1>10, <2>2, <2>3, <2>4 DEF PutBegins
<1>11. CASE PutSets
  <2> DEFINE r == thread.req
             c == Merged(r, thread.read.config)
  <2>1. /\ thread.pc = "put" /\ r \in Requests /\ r.route = "config_put"
        /\ thread.read \in StreamType
    BY <1>11 DEF PutSets, Puts, PutGoing, Copies, Serving, ThreadOK, Resting
  <2>2. CASE Reject("invalid", 400) /\ UNCHANGED <<stream, made>>
    BY <1>3, <2>1, <2>2
  <2>3. CASE /\ Acceptable(r) /\ Present
             /\ stream' = Configured(c) /\ made' = made + 1
             /\ thread' = [thread EXCEPT !.pc = "persisted", !.wrote = Configured(c)]
    <3>1. thread.read.config \in OutputConfig
      BY <2>1 DEF StreamType
    <3>2. c \in OutputConfig /\ \A f \in r.fields : c[f] = r.config[f]
      BY <2>1, <3>1, MergedOK
    <3>3. Fit(c)
      BY <2>3 DEF Acceptable
    <3> DEFINE u == Configured(c)
    <3>4. /\ stream \in StreamType /\ made \in Nat
          /\ stream.life \in Nat /\ stream.life # 0 /\ stream.life <= made
      BY <2>3 DEF Puts, StreamOK, Present, StreamType
    <3>5. u \in StreamType /\ u.life = stream.life /\ u.config = c /\ u.gen \in Nat
      <4> HIDE DEF c
      <4>1. u \in StreamType /\ u.life = stream.life /\ u.config = c
        BY <3>2, <3>4, ConfiguredOK
      <4> HIDE DEF u
      <4> QED
        BY <4>1 DEF StreamType
    <3>6. stream' = u /\ made' = made + 1
          /\ thread' = [thread EXCEPT !.pc = "persisted", !.wrote = u]
      BY <2>3
    <3> HIDE DEF u, c
    <3>7. /\ thread'.pc = "persisted" /\ thread'.req = r /\ thread'.read = thread.read
          /\ thread'.wrote = u /\ thread'.reread = thread.reread
      BY <1>1, <3>6 DEF ThreadFields
    <3>8. StreamOK'
      BY <3>3, <3>4, <3>5, <3>6 DEF StreamOK
    <3>9. Copies'
      BY <3>4, <3>5, <3>6, <3>7 DEF Puts, Copies
    <3>10. PutGoing'
      BY <2>1, <3>2, <3>4, <3>5, <3>6, <3>7 DEF PutGoing, Shows
    <3> QED
      BY <3>8, <3>9, <3>10 DEF Puts
  <2> QED
    BY <1>11, <2>2, <2>3 DEF PutSets
<1>12. CASE PutEnds
  <2>1. thread.pc = "persisted" /\ UNCHANGED <<stream, made>>
    BY <1>12 DEF PutEnds
  <2>2. /\ thread'.pc = "answer" /\ thread'.req = thread.req /\ thread'.read = thread.read
        /\ thread'.wrote = thread.wrote /\ thread'.reread = stream
        /\ thread'.status = IF Present THEN 200 ELSE 404
    BY <1>1, <1>12 DEF PutEnds, ThreadFields
  <2>3. stream \in StreamType
    BY DEF Puts, StreamOK
  <2>4. StreamOK'
    BY <2>1 DEF Puts, StreamOK
  <2>5. Copies'
    BY <2>1, <2>2, <2>3 DEF Puts, Copies
  <2>6. PutGoing'
    BY <2>1, <2>2 DEF Puts, PutGoing, Answered, Present
  <2> QED
    BY <2>4, <2>5, <2>6 DEF Puts
<1> QED
  BY <1>5, <1>6, <1>7, <1>8, <1>9, <1>10, <1>11, <1>12 DEF Handle

LEMMA PutsStep ==
  ASSUME Serving, Puts, [Next]_vars
  PROVE  Puts'
<1>1. DOMAIN thread = ThreadFields
  BY DEF Serving, ThreadOK
<1>2. ASSUME NEW p, thread' = [Away EXCEPT !.pc = p],
             p \notin {"persisted", "answer", "put", "again"}, UNCHANGED <<stream, made>>
      PROVE  Puts'
  <2>1. /\ thread'.pc = p /\ thread'.read = Absent /\ thread'.wrote = Absent
        /\ thread'.reread = Absent
    BY <1>2, ThreadAway DEF ThreadFields
  <2> QED
    BY <1>2, <2>1, AbsentOK, ThreadPuts
<1>3. ASSUME NEW p, At(p), p \notin {"persisted", "answer", "put", "again"},
             thread.pc \notin {"persisted", "answer"}, UNCHANGED <<stream, made>>
      PROVE  Puts'
  <2>1. /\ thread'.pc = p /\ thread'.read = thread.read /\ thread'.wrote = thread.wrote
        /\ thread'.reread = thread.reread
    BY <1>1, <1>3 DEF At, ThreadFields
  <2>2. thread.wrote.life = 0 /\ thread.read \in StreamType
    BY <1>3 DEF Puts, Copies
  <2> QED
    BY <1>3, <2>1, <2>2, ThreadPuts
<1>4. CASE Authorize \/ Handle
  BY <1>4, RequestPuts
<1>5. CASE Application
  BY <1>5, ApplicationPuts
<1>6. CASE Start
  BY <1>2, <1>6 DEF Start, Server
<1>7. CASE Step \/ LoopEnds
  BY <1>3, <1>7 DEF Step, LoopEnds, Server
<1>8. CASE StepReturns \/ StopJoins
  <2>1. thread' = [Away EXCEPT !.pc = "away"]
    BY <1>8, ThreadAway DEF StepReturns, StopJoins, Away
  <2> QED
    BY <1>2, <1>8, <2>1 DEF StepReturns, StopJoins, Server
<1>9. ASSUME NEW r \in Requests, Accept(r)
      PROVE  Puts'
  <2>1. /\ thread'.pc = "receive" /\ thread'.read = Absent /\ thread'.wrote = Absent
        /\ thread'.reread = Absent
    BY <1>9, ThreadAway DEF Accept, ThreadFields
  <2>2. UNCHANGED <<stream, made>>
    BY <1>9 DEF Accept, Server
  <2> QED
    BY <2>1, <2>2, AbsentOK, ThreadPuts
<1>10. CASE PollFails
  BY <1>2, <1>10 DEF PollFails, Server
<1>11. CASE Receive
  <2>1. thread.pc = "receive" /\ UNCHANGED <<stream, made>>
    BY <1>11 DEF Receive, Server
  <2>2. CASE At("authorize")
    BY <1>3, <2>1, <2>2
  <2>3. CASE \E n \in {400, 413} : Respond(n)
    <3>1. /\ thread'.pc = "answer" /\ thread'.status # 200 /\ thread'.wrote = thread.wrote
          /\ thread'.read = thread.read /\ thread'.reread = thread.reread
      BY <1>1, <2>3 DEF Respond, ThreadFields
    <3>2. thread.wrote.life = 0 /\ thread.read \in StreamType
      BY <2>1 DEF Puts, Copies
    <3> QED
      BY <2>1, <3>1, <3>2, ThreadPuts
  <2> QED
    BY <1>11, <2>2, <2>3 DEF Receive
<1>12. CASE Sent \/ LengthThrows
  BY <1>2, <1>12 DEF Sent, LengthThrows, Server
<1>13. CASE UNCHANGED <<thread, stream, made>>
  BY <1>13 DEF Puts, StreamOK, Copies, PutGoing, Answered
<1> QED
  BY <1>4, <1>5, <1>6, <1>7, <1>8, <1>9, <1>10, <1>11, <1>12, <1>13
  DEF Next, vars, Loop, StopCloses, Tick, Server

-----------------------------------------------------------------------------
(* The theorems.                                                           *)

\* In every reachable state the serving thread is at one of its places, with a request
\* exactly from the connection's acceptance to the end of its answer, the counters are
\* those of the security section, and no window begins in the future.
THEOREM HttpTypes == Spec => []HttpTypeOK
<1>1. Init => Serving /\ Ledgers /\ Puts
  BY ServingInit, LedgersInit, PutsInit
<1>2. Serving /\ Ledgers /\ Puts /\ [Next]_vars => (Serving /\ Ledgers /\ Puts)'
  BY ServingStep, LedgersStep, PutsStep
<1>3. Serving /\ Ledgers /\ Puts => HttpTypeOK
  <2> SUFFICES ASSUME Serving, Ledgers, Puts
               PROVE  HttpTypeOK
    OBVIOUS
  <2>1. thread.pc \in {"away", "poll", "ended", "terminated"} <=> thread.req = NoRequest
    BY RequestsServed DEF Serving, ThreadOK, Resting
  <2>2. stream.gen \in Nat /\ stream.config \in OutputConfig /\ stream.frame \in BOOLEAN
    BY DEF Puts, StreamOK, StreamType
  <2>3. \A k \in Keys : windows[k].start \in 0..now
    <3> SUFFICES ASSUME NEW k \in Keys PROVE windows[k].start \in 0..now
      OBVIOUS
    <3>1. windows[k].start \in Nat /\ windows[k].start <= now /\ now \in Nat
      BY DEF Ledgers
    <3> QED
      BY <3>1
  <2>4. thread.pc \in Places /\ thread.counted \in Reasons \cup {"none"}
    BY DEF Serving, ThreadOK
  <2> QED
    BY <2>1, <2>2, <2>3, <2>4 DEF Serving, HttpTypeOK, Places
<1> QED
  BY <1>1, <1>2, <1>3, PTL DEF Spec

\* The rate limit for any limits, windows, clients and requests: of the requests a client
\* sends to one path no window lets more than the configured number through, and no span as
\* long as a window twice that number.  The paths of a route are limited one by one.
THEOREM WindowsAlwaysHold == Spec => []WindowsHold
<1>1. Init => Serving /\ Ledgers
  BY ServingInit, LedgersInit
<1>2. Serving /\ Ledgers /\ [Next]_vars => (Serving /\ Ledgers)'
  BY ServingStep, LedgersStep
<1>3. Serving /\ Ledgers => WindowsHold
  <2> SUFFICES ASSUME Serving, Ledgers, NEW k \in Keys, Limited(k[2])
               PROVE  /\ windows[k].count <= LimitOf(k[2]).max
                      /\ Cardinality(admitted[k]) <= 2 * LimitOf(k[2]).max - 1
    BY DEF WindowsHold
  <2> DEFINE W == LimitOf(k[2]).window
             M == LimitOf(k[2]).max
             w == windows[k]
             S == admitted[k]
  <2>1. k[2] \in Routes
    BY KeysOfRoutes
  <2>2. W \in Nat /\ M \in Nat /\ W > 0 /\ M > 0
    BY <2>1, SettingOK DEF Limited
  <2>3. now \in Nat /\ Ledger(w, now, S, W, M)
    BY DEF Ledgers
  <2> HIDE DEF W, M, w, S
  <2>4. Cardinality(S) <= 2 * M - 1
    BY <2>2, <2>3, LedgerBound
  <2>5. w.count <= M
    BY <2>3 DEF Ledger
  <2> QED
    BY <2>4, <2>5 DEF W, M, w, S
<1> QED
  BY <1>1, <1>2, <1>3, PTL DEF Spec

\* A PUT of the output configuration works as a whole or not at all, for any requests and
\* whatever the application does to the stream between the three critical sections.
THEOREM PutsWorkWhole == Spec => []PutWhole
<1>1. Init => Serving /\ Puts
  BY ServingInit, PutsInit
<1>2. Serving /\ Puts /\ [Next]_vars => (Serving /\ Puts)'
  BY ServingStep, PutsStep
<1>3. Serving /\ Puts => PutWhole
  BY DEF Puts, StreamOK, PutGoing, Answered, Shows, PutWhole
<1> QED
  BY <1>1, <1>2, <1>3, PTL DEF Spec
=============================================================================
