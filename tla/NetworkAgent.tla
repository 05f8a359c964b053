---------------------------- MODULE NetworkAgent ----------------------------
(***************************************************************************)
(* The external collaborators whose state the controller changes: the     *)
(* routing agent's forwarding table (FIB) on the controller's data-plane   *)
(* interface, written through collaborator/network_agent/dispatch, and    *)
(* the service registry (consul), written through collaborator/consul.    *)
(*                                                                         *)
(* fib maps a task IP to the underlay address its /32 route goes via, or  *)
(* to NoRoute.  registry maps a service name to the address last          *)
(* registered for it (consul replaces a registration of the same name).   *)
(***************************************************************************)
CONSTANTS
    Ips,            \* task overlay IPs (model values)
    NoIp,           \* the empty string ""
    Vias,           \* node underlay (external) IPs
    NoVia,          \* an external_ip that is the empty string
    NoRoute,        \* no route installed for an IP
    ConnPrefixes,   \* IPs the agent connection string starts with
    AgentType       \* network-agent.type from the configuration

\* connection.starts_with("") holds, so the empty IP is always a prefix.
ASSUME NoIp \in ConnPrefixes

\* The agent types the dispatcher forwards to; "undefined" and unknown
\* types only print.
KnownAgents == {"fboss", "snaproute"}

\* reset_fib: the agent clears every route on the interface.
ResetFib(fib) ==
    IF AgentType \in KnownAgents THEN [ip \in DOMAIN fib |-> NoRoute] ELSE fib

\* add_route: a no-op when via is empty or when the connection string
\* starts with the destination (self route, and the empty destination);
\* otherwise the agent installs destination/32 via via.
AddRoute(fib, to, via) ==
    IF \/ via = NoVia
       \/ to \in ConnPrefixes
       \/ AgentType \notin KnownAgents
    THEN fib
    ELSE [fib EXCEPT ![to] = via]

\* delete_route: a no-op for the empty destination, otherwise the agent
\* removes destination/32.
DeleteRoute(fib, to) ==
    IF to = NoIp \/ AgentType \notin KnownAgents
    THEN fib
    ELSE [fib EXCEPT ![to] = NoRoute]

\* register_running_task: POST {Name, Address} to the consul agent; the
\* result is ignored, a later registration of the same name replaces it.
Register(registry, name, ip) == [registry EXCEPT ![name] = ip]

\* The POST's result is dropped (`let _ = ... .send()`): when the consul
\* agent is down or refuses it, the registration is lost and nothing
\* retries it but a later call.
RegisterOutcomes(registry, name, ip) == {Register(registry, name, ip), registry}

=============================================================================
