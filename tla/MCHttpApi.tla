------------------------------- MODULE MCHttpApi -------------------------------
(***************************************************************************)
(* HttpApi for TLC: one client that reaches the configuration by two       *)
(* paths; a worker with everything enabled and a short limit, a stepped    *)
(* server without debug and configuration API, one that lets no remote     *)
(* client near a sensitive route, and one whose ICE configuration start()  *)
(* refuses.                                                                *)
(***************************************************************************)
EXTENDS HttpApi

\* Two requests in two seconds for the configuration, the rest without a limit.
NoLimit == [max |-> 0, window |-> 1]
ConfigLimit == [b \in Buckets |-> IF b = "config" THEN [max |-> 2, window |-> 2] ELSE NoLimit]

Turn == [scheme |-> "turn", user |-> TRUE, credential |-> TRUE]
Base == [http |-> TRUE, worker |-> TRUE, debugApi |-> TRUE, configApi |-> TRUE,
         loopback |-> FALSE, unsafe |-> FALSE, keyed |-> TRUE, entriesParse |-> TRUE,
         allowlist |-> {Clients}, limit |-> ConfigLimit,
         ice |-> [policy |-> "relay", ports |-> "ordered", servers |-> {Turn}]]

MCSettings ==
  {Base,
   [Base EXCEPT !.worker = FALSE, !.configApi = FALSE, !.debugApi = FALSE],
   [Base EXCEPT !.worker = FALSE, !.keyed = FALSE, !.allowlist = {}],
   [Base EXCEPT !.ice.servers = {[Turn EXCEPT !.scheme = "stun"]}]}

Plain(route_) ==
  [client |-> "c1", route |-> route_, path |-> "output", goodId |-> TRUE, goodKey |-> TRUE,
   body |-> "good", fields |-> {}, config |-> [min |-> 0, max |-> 1]]
Put(fields_, min_, max_) ==
  [Plain("config_put") EXCEPT !.fields = fields_, !.config = [min |-> min_, max |-> max_]]

MCRequests ==
  {Plain(route_) : route_ \in {"info", "frame", "config_get", "ice_config", "preflight"}}
  \cup {Put({"min"}, 1, 1), Put({"min", "max"}, 1, 2),
        [Put({"max"}, 0, 2) EXCEPT !.body = "malformed", !.path = "config"],
        [Plain("offer") EXCEPT !.body = "large"], Plain("candidate"),
        [Plain("session") EXCEPT !.goodKey = FALSE],
        [Plain("info") EXCEPT !.goodId = FALSE]}
=============================================================================
