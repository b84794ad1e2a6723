------------------------------- MODULE Config -------------------------------
(***************************************************************************)
(* The configuration file and what services make of it: ConfigService.get  *)
(* and the options of an RPC, RequestOption and createRequestOption.       *)
(* A parsed file is a function from the paths of its leaves to values;     *)
(* services ask for leaves only.                                           *)
(***************************************************************************)
EXTENDS Naturals, Sequences

CONSTANTS
  Null,        \* JavaScript's null
  Falsy        \* the values JavaScript takes for false: 0, "", false

\* The leaves that the type of the configuration knows of.
RPC == {"exchange", "queue", "routingKey"}

ConfigOption ==
  {<<"global", "db", "uri">>}
  \cup {<<"global", "redis", k>> : k \in {"host", "port", "db", "password", "expired"}}
  \cup {<<"global", "jwt", k>> : k \in {"secret", "issuer", "expire"}}
  \cup {<<"global", "rabbitmq", k>> : k \in {"uri", "enableControllerDiscovery"}}
  \cup {<<"global", "rabbitmq", "rpc", "exchange">>, <<"global", "mqtt">>}
  \cup {<<"http", "port">>, <<"system", "size">>}
  \cup {<<"system", "account", "token", "expire", k>> :
           k \in {"access_token", "refresh_token"}}
  \cup {<<"system", s, "size">> : s \in {"notice", "request", "friends"}}
  \cup {<<"system", "notice", "rpc", k>> : k \in RPC}
  \cup {<<"system", "request", k>> : k \in {"salt", "expire"}}
  \cup {<<"system", "request", f, k>> : f \in {"removeRequest", "addRequest"}, k \in RPC}
  \cup {<<"system", "pusher", "expire">>}

\* Tables and leaves: what the compiler lets a service ask for.  (Those of the
\* MQTT client, which nothing reads, are left out.)
ConfigTemplate == UNION {{[i \in 1..n |-> p[i]] : n \in 1..Len(p)} : p \in ConfigOption}

\* A missing key reads as null, and so does one whose value is falsy.
Get(file, path) ==
  IF path \in DOMAIN file /\ file[path] \notin Falsy THEN file[path] ELSE Null

\* The operator ??.
Otherwise(value, default) == IF value = Null THEN default ELSE value

\* The path below which a service looks for the options of an RPC.
RpcPath(system, fn, key) == <<system, fn, key>>

\* The cast to ConfigTemplate makes the compiler accept these paths.
RequestOption(file, system, fn) ==
  [exchange   |-> Otherwise(Get(file, RpcPath(system, fn, "exchange")),
                            Get(file, <<"global", "rabbitmq", "rpc", "exchange">>)),
   routingKey |-> Get(file, RpcPath(system, fn, "routingKey"))]

\* The same as a function: FriendsService.add asks it for request.addRequest,
\* which config.toml has.
CreateRequestOption(file, system, fn) == RequestOption(file, system, fn)
=============================================================================
