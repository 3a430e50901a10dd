-------------------------------- MODULE HttpApi --------------------------------
(***************************************************************************)
(* The HTTP API of the WebRTC server: the blocking one-connection-at-a-    *)
(* time server of http_api_server.cpp, in its worker thread or inside      *)
(* step(), and the handler of webrtc_video_server.cpp, which classifies a  *)
(* request, authorizes it, counts what it refuses and calls the core and   *)
(* signaling.  Every call into the core is a critical section of its own,  *)
(* and the application goes on between them.                               *)
(*                                                                         *)
(* A request is who sends it, its route, which of the paths of that route  *)
(* it names, whether its key is valid, what its body is like and, for a    *)
(* PUT of the output configuration, the fields it names.  All requests     *)
(* concern one stream id; /output and /config are paths of one route, and  *)
(* a session id makes another path of "answer" and of "candidate".  Of the *)
(* output configuration two fields are kept that are only valid together.  *)
(***************************************************************************)
EXTENDS Integers, FiniteSets

CONSTANTS
  Settings,       \* the server configurations
  Clients,        \* remote addresses
  Paths,          \* what tells the request paths of one route apart
  Requests,       \* the requests clients send
  Palettes,       \* values of palette_min and palette_max
  MaxTime,        \* bound: seconds
  MaxChanges      \* bound: registrations and configuration changes

Buckets == {"signaling", "config", "debug"}
Routes == {"streams", "debug", "info", "frame", "config_get", "config_put",
           "ice_config", "offer", "answer", "candidate", "session",
           "preflight", "unknown"}
RateLimited == {"ice_config", "offer", "answer", "candidate", "config_put", "debug"}
Reasons == {"disabled", "invalid", "forbidden", "unauthorized", "rate_limited"}

OutputConfig == [min : Palettes, max : Palettes]

\* `fields` are those a PUT names, with their values in `config`; an "unfit" body
\* parses and names fields, of which one (not kept here) is out of its range.
Request == [client : Clients, route : Routes, path : Paths, goodId : BOOLEAN,
            goodKey : BOOLEAN,
            body : {"good", "unfit", "malformed", "empty", "large"},
            fields : SUBSET {"min", "max"}, config : OutputConfig]

\* WebRtcIceConfig: whether the port range has none, one or both of its ends, and
\* of a server the scheme of its URI and whether it has credentials.
IceServer == [scheme : {"stun", "turn", "other"}, user : BOOLEAN, credential : BOOLEAN]
IceConfig == [policy : {"all", "relay", "other"},
              ports : {"none", "one", "ordered", "reversed"}, servers : SUBSET IceServer]

\* WebRtcVideoServerConfig: an entry of the allowlist is the set of the addresses
\* it contains; entriesParse says that all are well-formed.
Setting == [http : BOOLEAN, worker : BOOLEAN, debugApi : BOOLEAN, configApi : BOOLEAN,
            loopback : BOOLEAN, unsafe : BOOLEAN, keyed : BOOLEAN,
            entriesParse : BOOLEAN, allowlist : SUBSET SUBSET Clients, ice : IceConfig,
            limit : [Buckets -> [max : Nat, window : Nat]]]

ASSUME HttpAssumption ==
  /\ Settings \subseteq Setting /\ Requests \subseteq Request
  /\ {0, 1} \subseteq Palettes /\ Palettes \subseteq Nat
  /\ MaxTime \in Nat /\ MaxChanges \in Nat

VARIABLES
  setting,    \* config_
  listener,   \* [open, running]: listen_fd_ >= 0 and running_
  thread,     \* the thread that serves: its place and its locals
  stopping,   \* some thread is inside stop(), waiting for the worker
  stream,     \* the stream in the core: [life, gen, config, frame]; life 0 is absent
  made,       \* registrations and configuration changes so far
  windows,    \* rate_limit_windows_: [start, count] of each key
  now,        \* the steady clock
  admitted    \* ghost: the limited requests let through in the span of one window that
              \* ends now, by key

vars == <<setting, listener, thread, stopping, stream, made, windows, now, admitted>>

\* The key of a window: "bucket|remote address|path|method".
Keys == Clients \X RateLimited \X Paths
KeyOf(r) == <<r.client, r.route, r.path>>
Absent == [life |-> 0, gen |-> 0, config |-> [min |-> 0, max |-> 1], frame |-> FALSE]
Present == stream.life # 0

NoRequest == [route |-> "none"]

\* `counted` is the one of security_counters_ that this request has increased; they
\* only grow.  `read` and `reread` are copies of the stream; `wrote` is a ghost: the
\* stream right after this request has set its configuration.
Away == [pc |-> "away", req |-> NoRequest, status |-> 0, counted |-> "none",
         read |-> Absent, wrote |-> Absent, reread |-> Absent]
At(pc) == thread' = [thread EXCEPT !.pc = pc]
Respond(status) == thread' = [thread EXCEPT !.pc = "answer", !.status = status]

Init ==
  /\ setting \in Settings
  /\ listener = [open |-> FALSE, running |-> FALSE]
  /\ thread = Away /\ stopping = FALSE
  /\ stream = Absent /\ made = 0
  /\ windows = [k \in Keys |-> [start |-> 0, count |-> 0]]
  /\ now = 0
  /\ admitted = [k \in Keys |-> {}]

-----------------------------------------------------------------------------
(* classify_route and authorize_request.                                   *)

Known(route) == route \notin {"preflight", "unknown"}
Signaling == {"ice_config", "offer", "answer", "candidate", "session"}
ConfigRoutes == {"config_get", "config_put"}
Sensitive(route) == route \in Signaling \cup ConfigRoutes \cup {"frame", "debug"}

\* validate_ice_config.
ValidIce(ice) ==
  /\ ice.policy # "other" /\ ice.ports \in {"none", "ordered"}
  /\ \A s \in ice.servers : /\ s.scheme # "other" /\ s.user = s.credential
                            /\ s.user => s.scheme = "turn"
  /\ ice.policy = "relay" => \E s \in ice.servers : s.scheme = "turn"

\* remote_sensitive_routes_allowed and is_remote_allowed.
RemoteSensitive ==
  setting.loopback \/ setting.unsafe \/ setting.keyed \/ setting.allowlist # {}
RemoteAllowed(client) ==
  setting.allowlist = {} \/ \E entry \in setting.allowlist : client \in entry

\* The bucket that sets the limit of a route which has one.
BucketOf(route) ==
  CASE route = "config_put" -> "config"
    [] route = "debug"      -> "debug"
    [] OTHER                -> "signaling"

LimitOf(route) == setting.limit[BucketOf(route)]
Limited(route) == route \in RateLimited /\ LimitOf(route).max > 0 /\ LimitOf(route).window > 0

\* consume_rate_limit: fixed windows that begin with a request.
Expired(k) == \/ windows[k].count = 0
              \/ now - windows[k].start >= LimitOf(k[2]).window
\* Mutant: one more request than the limit.
HasRoomOneMore(k) == Expired(k) \/ windows[k].count <= LimitOf(k[2]).max
HasRoom(k) == Expired(k) \/ windows[k].count < LimitOf(k[2]).max
Consumed(k) ==
  IF Expired(k) THEN [start |-> now, count |-> 1]
  ELSE [windows[k] EXCEPT !.count = @ + 1]

\* The ghost of the request that finds room now: when it came, the window it was
\* counted in and as which, and its place among those of the span, which alone
\* tells it from the others of the same instant.
LetIn(k) == [at |-> now, window |-> Consumed(k).start, nth |-> Consumed(k).count,
           place |-> Cardinality(admitted[k]) + 1]

\* The first test of authorize_request that refuses a request.
Refusal(r) ==
  IF \/ r.route \in ConfigRoutes /\ ~setting.configApi
     \/ r.route = "debug" /\ ~setting.debugApi THEN "disabled"
  ELSE IF r.route \notin {"streams", "debug"} /\ ~r.goodId THEN "invalid"
  ELSE IF \/ Sensitive(r.route) /\ ~RemoteSensitive
          \/ ~RemoteAllowed(r.client) THEN "forbidden"
  ELSE IF Sensitive(r.route) /\ setting.keyed /\ ~r.goodKey THEN "unauthorized"
  ELSE IF Limited(r.route) /\ ~HasRoom(KeyOf(r)) THEN "rate_limited"
  ELSE "none"

StatusOf(reason) ==
  CASE reason = "disabled"     -> 404
    [] reason = "invalid"      -> 400
    [] reason = "forbidden"    -> 403
    [] reason = "unauthorized" -> 401
    [] reason = "rate_limited" -> 429

\* Answers with a rejection, which is counted under its reason.
Reject(reason, status) ==
  thread' = [thread EXCEPT !.pc = "answer", !.status = status, !.counted = reason]

Authorize ==
  LET r == thread.req
      k == KeyOf(r)
      refusal == Refusal(r)
  IN
  /\ thread.pc = "authorize"
  /\ UNCHANGED <<setting, listener, stopping, stream, made, now>>
  /\ \/ /\ ~Known(r.route)      \* no authorization: the preflight and the last 404
        /\ Respond(IF r.route = "preflight" THEN 204 ELSE 404)
        /\ UNCHANGED <<windows, admitted>>
     \/ /\ Known(r.route) /\ refusal # "none"
        /\ Reject(refusal, StatusOf(refusal))
        /\ UNCHANGED <<windows, admitted>>
     \/ /\ Known(r.route) /\ refusal = "none"
        /\ At("handle")
        /\ IF Limited(r.route)
           THEN /\ windows' = [windows EXCEPT ![k] = Consumed(k)]
                /\ admitted' = [admitted EXCEPT ![k] = @ \cup {LetIn(k)}]
           ELSE UNCHANGED <<windows, admitted>>

-----------------------------------------------------------------------------
(* handle_http.  Handlers do not touch the server itself.                  *)

Untouched == UNCHANGED <<setting, listener, stopping, windows, now, admitted>>

\* One call into the core or signaling, or none.
HandleOverview ==
  /\ thread.pc = "handle" /\ thread.req.route \in {"streams", "debug", "ice_config"}
  /\ Respond(200)
  /\ Untouched /\ UNCHANGED <<stream, made>>

\* Reads of a stream: the first look at it decides between 404 and going on.
HandleRead ==
  /\ thread.pc = "handle" /\ thread.req.route \in {"info", "frame", "config_get"}
  /\ IF ~Present THEN Respond(404)
     ELSE IF thread.req.route = "config_get" THEN Respond(200)
     ELSE thread' = [thread EXCEPT !.pc = "again", !.read = stream]
  /\ Untouched /\ UNCHANGED <<stream, made>>

\* The latest frame and unit are read in a critical section of their own.
HandleReadAgain ==
  /\ thread.pc = "again"
  /\ IF thread.req.route = "info" THEN Respond(200)
     ELSE IF ~stream.frame THEN Respond(404)
     ELSE \E status \in {200, 500} : Respond(status)     \* 500: the PPM encoder
  /\ Untouched /\ UNCHANGED <<stream, made>>

\* Signaling, as Signaling.tla models it, answers a good body in one of these ways;
\* what is not a missing stream or session or the subscriber limit is counted.  A
\* candidate for a missing stream is a 400 that is not.
HandleSignaling ==
  LET r == thread.req IN
  /\ thread.pc = "handle" /\ r.route \in Signaling \ {"ice_config"}
  /\ \/ /\ r.route # "session" /\ r.body \in {"empty", "large"}
        /\ Reject("invalid", IF r.body = "empty" THEN 400 ELSE 413)
     \/ /\ r.route = "session" \/ r.body \notin {"empty", "large"}
        /\ \E status \in {200, 404} \cup (CASE r.route = "offer" -> {409}
                                          [] r.route = "candidate" -> {400}
                                          [] OTHER -> {}) :
             Respond(status)
     \/ /\ r.route # "session" /\ r.body \notin {"empty", "large"}
        /\ Reject("invalid", 400)
  /\ Untouched /\ UNCHANGED <<stream, made>>

Fit(c) == c.min < c.max

\* The configuration a PUT makes of the copy it has read.
Merged(r, c) == [f \in {"min", "max"} |-> IF f \in r.fields THEN r.config[f] ELSE c[f]]

\* VideoServerCore::set_stream_output_config on a registered stream.
Configured(c) == [stream EXCEPT !.gen = @ + 1, !.config = c, !.frame = FALSE]

\* PUT: a copy is read, then the body is judged.
PutBegins ==
  LET r == thread.req IN
  /\ thread.pc = "handle" /\ r.route = "config_put"
  /\ \/ ~Present /\ Respond(404)
     \/ Present /\ r.body = "large" /\ Reject("invalid", 413)
     \/ Present /\ r.body \in {"empty", "malformed"} /\ Reject("invalid", 400)
     \/ /\ Present /\ r.body \in {"good", "unfit"}
        /\ thread' = [thread EXCEPT !.pc = "put", !.read = stream]
  /\ Untouched /\ UNCHANGED <<stream, made>>

\* Mutant: only the copy that was read is judged, not what becomes of it.
AcceptableAsRead(r) == r.body = "good" /\ Fit(thread.read.config)
\* What set_stream_output_config accepts: the merged configuration as a whole.
Acceptable(r) == r.body = "good" /\ Fit(Merged(r, thread.read.config))

\* PUT: the merged copy is set, whatever the stream has become since.
PutSets ==
  LET r == thread.req
      updated == Configured(Merged(r, thread.read.config))
  IN
  /\ thread.pc = "put"
  /\ \/ /\ ~(Acceptable(r) /\ Present)
        /\ Reject("invalid", 400)
        /\ UNCHANGED <<stream, made>>
     \/ /\ Acceptable(r) /\ Present
        /\ stream' = updated /\ made' = made + 1
        /\ thread' = [thread EXCEPT !.pc = "persisted", !.wrote = updated]
  /\ Untouched

\* PUT: the answer is what the stream has by now.
PutEnds ==
  /\ thread.pc = "persisted"
  /\ thread' = [thread EXCEPT !.pc = "answer", !.status = IF Present THEN 200 ELSE 404,
                              !.reread = stream]
  /\ Untouched /\ UNCHANGED <<stream, made>>

Handle == \/ HandleOverview \/ HandleRead \/ HandleReadAgain \/ HandleSignaling
          \/ PutBegins \/ PutSets \/ PutEnds

-----------------------------------------------------------------------------
(* HttpApiServer.                                                          *)

Server == UNCHANGED <<setting, stream, made, windows, now, admitted>>

\* start(): refused with an invalid setting or while open; without HTTP it is empty.
Start ==
  /\ setting.entriesParse /\ ValidIce(setting.ice) /\ setting.http
  /\ ~listener.open /\ ~stopping
  /\ thread.pc = "away"
  /\ listener' = [open |-> TRUE, running |-> setting.worker]
  /\ thread' = [Away EXCEPT !.pc = IF setting.worker THEN "poll" ELSE "away"]
  /\ Server /\ UNCHANGED stopping

\* step() serves in the application's own thread.
Step ==
  /\ ~setting.worker /\ listener.open /\ thread.pc = "away"
  /\ At("poll")
  /\ Server /\ UNCHANGED <<listener, stopping>>

\* step() has served a round, or nobody has called.
StepReturns ==
  /\ ~setting.worker /\ thread.pc = "poll"
  /\ thread' = Away
  /\ Server /\ UNCHANGED <<listener, stopping>>

\* pump_once: a connection is accepted; its bytes are waited for without a limit.
\* (No PUT comes when MaxChanges is used up.)
Accept(r) ==
  /\ thread.pc = "poll" /\ listener.open
  /\ r.route = "config_put" => made < MaxChanges
  /\ thread' = [Away EXCEPT !.pc = "receive", !.req = r]
  /\ Server /\ UNCHANGED <<listener, stopping>>

\* select or accept fails: step() reports it, the worker leaves its loop.
PollFails ==
  /\ thread.pc = "poll" /\ listener.open
  /\ thread' = [Away EXCEPT !.pc = IF setting.worker THEN "ended" ELSE "away"]
  /\ Server /\ UNCHANGED <<listener, stopping>>

LoopEnds ==
  /\ setting.worker /\ thread.pc = "poll" /\ ~listener.running
  /\ At("ended")
  /\ Server /\ UNCHANGED <<listener, stopping>>

\* handle_client: the request has come, is too large, or ends too early.
Receive ==
  /\ thread.pc = "receive"
  /\ At("authorize") \/ Respond(413) \/ Respond(400)
  /\ Server /\ UNCHANGED <<listener, stopping>>

\* std::stoul of a Content-Length that is no number throws, and nothing catches it:
\* the worker takes the process with it, step() throws and its caller goes on.
LengthThrows ==
  /\ thread.pc = "receive"
  /\ thread' = [Away EXCEPT !.pc = IF setting.worker THEN "terminated" ELSE "away"]
  /\ Server /\ UNCHANGED <<listener, stopping>>

\* Mutant: the request stays for the next connection.
SentKeepsRequest ==
  /\ thread.pc = "answer"
  /\ At("poll")
  /\ Server /\ UNCHANGED <<listener, stopping>>
\* The answer has been sent, or the client has gone.
Sent ==
  /\ thread.pc = "answer"
  /\ thread' = [Away EXCEPT !.pc = "poll"]
  /\ Server /\ UNCHANGED <<listener, stopping>>

\* Mutant: the socket is closed, the loop is not told.
StopKeepsRunning ==
  /\ ~stopping /\ listener.open
  /\ ~setting.worker => thread.pc = "away"
  /\ listener' = [listener EXCEPT !.open = FALSE]
  /\ stopping' = setting.worker
  /\ Server /\ UNCHANGED thread
\* stop(), and the destructor; without a worker it is called between the steps.
StopCloses ==
  /\ ~stopping /\ listener.open
  /\ ~setting.worker => thread.pc = "away"
  /\ listener' = [open |-> FALSE, running |-> FALSE]
  /\ stopping' = setting.worker
  /\ Server /\ UNCHANGED thread

\* server_thread_.join().
StopJoins ==
  /\ stopping /\ thread.pc = "ended"
  /\ stopping' = FALSE /\ thread' = Away
  /\ Server /\ UNCHANGED listener

-----------------------------------------------------------------------------
(* The application on the same stream, and time.                           *)

Application ==
  /\ made < MaxChanges
  /\ \/ /\ ~Present /\ made' = made + 1
        /\ stream' = [Absent EXCEPT !.life = made + 1]
     \/ /\ Present /\ made' = made + 1
        /\ \E c \in OutputConfig : Fit(c) /\ stream' = Configured(c)
     \/ Present /\ stream' = Absent /\ UNCHANGED made
     \/ Present /\ stream' = [stream EXCEPT !.frame = TRUE] /\ UNCHANGED made
  /\ UNCHANGED <<setting, listener, thread, stopping, windows, now, admitted>>

\* The ghost forgets what is a whole window old.
Tick ==
  /\ now < MaxTime /\ now' = now + 1
  /\ admitted' = [k \in Keys |->
       {a \in admitted[k] : now + 1 - a.at < LimitOf(k[2]).window}]
  /\ UNCHANGED <<setting, listener, thread, stopping, stream, made, windows>>

Loop == LoopEnds \/ Authorize \/ Handle
Terminated == thread.pc = "terminated"
Next ==
  /\ ~Terminated
  /\ \/ Start \/ Step \/ StepReturns
     \/ \E r \in Requests : Accept(r)
     \/ PollFails \/ Receive \/ LengthThrows \/ Sent
     \/ Loop
     \/ StopCloses \/ StopJoins
     \/ Application \/ Tick

Spec == Init /\ [][Next]_vars
\* The worker and the thread inside stop() run; clients do what they want.
FairSpec == Spec /\ WF_vars(Loop) /\ WF_vars(StopJoins)

-----------------------------------------------------------------------------
(* Properties.                                                             *)

HttpTypeOK ==
  /\ setting \in Settings
  /\ listener \in [open : BOOLEAN, running : BOOLEAN]
  /\ thread.pc \in {"away", "poll", "receive", "authorize", "handle", "again", "put",
                    "persisted", "answer", "ended", "terminated"}
  /\ thread.pc \in {"away", "poll", "ended", "terminated"} <=> thread.req = NoRequest
  /\ stopping \in BOOLEAN
  /\ stream.gen \in Nat /\ stream.config \in OutputConfig /\ stream.frame \in BOOLEAN
  /\ \A k \in Keys : windows[k].start \in 0..now
  /\ thread.counted \in Reasons \cup {"none"}

\* However the requests of a client for one path are spread over time and over the
\* borders of windows, any span as long as the window lets fewer than twice the
\* configured number through, and no window more than the number (consume_rate_limit).
\* Each path of a route has a window of its own: nothing bounds a client's requests of
\* a route, or of a bucket, by the number.
WindowsHold ==
  \A k \in Keys : Limited(k[2]) =>
    /\ windows[k].count <= LimitOf(k[2]).max
    /\ Cardinality(admitted[k]) <= 2 * LimitOf(k[2]).max - 1

\* A PUT works as a whole or not at all, with the application at work between its
\* steps: no mixture of old and new fields makes a configuration that could not be
\* set, a refused PUT has changed nothing unless its stream is gone, and an answer
\* 200 shows the stream with this PUT's configuration or a later one.
PutWhole ==
  /\ Fit(stream.config)
  /\ thread.pc = "answer" /\ thread.req.route = "config_put" =>
       LET wrote == thread.wrote
           shown == thread.reread
       IN IF thread.status = 200
          THEN /\ wrote.life # 0
               /\ wrote.life = shown.life => shown.gen >= wrote.gen
               /\ wrote.life = shown.life /\ wrote.gen = shown.gen =>
                    \A f \in thread.req.fields : shown.config[f] = thread.req.config[f]
          ELSE wrote.life # 0 => thread.status = 404 /\ shown.life = 0

\* stop() returns, unless the client that is being served neither completes its
\* request nor takes its answer for ever (handle_client has no timeout), or its
\* Content-Length ends the process.
StopReturns ==
  stopping ~> (~stopping \/ Terminated \/ [](thread.pc \in {"receive", "answer"}))
=============================================================================
