------------------------------- MODULE Overlay -------------------------------
(***************************************************************************)
(* The overlay network administration of collaborator/calico/client.rs    *)
(* and its two endpoints in api/run_api.rs, GET /calico/configure and     *)
(* GET /calico/shutdown.  A handler lists the nodes through the state     *)
(* actor, then posts one command after another to the command executor   *)
(* of the slave nodes (send_command_to_node).  The handlers run on the     *)
(* HTTP server's threads; each holds its Mutex only for the node listing, *)
(* so two handlers interleave their commands.                              *)
(*                                                                         *)
(* calico[n] abstracts what the commands leave on node n: "running" after *)
(* `calicoctl node --libnetwork`, "stopped" after `node stop`, "none"     *)
(* after `node remove`.  The ip pool and the docker network live in etcd  *)
(* and are made or removed through one slave only.  Nodes are powered on  *)
(* and off by the environment (IPMI); a command to a node that is off has *)
(* no answer, and send_command_to_node's unwrap panics the handler.        *)
(***************************************************************************)
EXTENDS FiniteSets

CONSTANTS
    NodeNames,  \* the node table (request_list_nodes)
    NodeType,   \* node -> its node_type
    Admins      \* HTTP server threads serving the two endpoints

ASSUME NodeType \in [NodeNames -> {"master", "slave"}]
ASSUME \E n \in NodeNames : NodeType[n] = "slave"

VARIABLES
    calico,   \* node -> "none" | "running" | "stopped"
    pool,     \* the ip pool 192.168.0.0/16 exists
    network,  \* the docker network "torc" exists
    up,       \* node -> its command executor answers
    admin     \* handler thread -> [op, pc, todo, res]

ovVars == <<calico, pool, network, up, admin>>

SlaveNames == {n \in NodeNames : NodeType[n] = "slave"}

OvTypeOK ==
    /\ calico \in [NodeNames -> {"none", "running", "stopped"}]
    /\ pool \in BOOLEAN
    /\ network \in BOOLEAN
    /\ up \in [NodeNames -> BOOLEAN]
    /\ admin \in [Admins -> [op: {"configure", "shutdown"},
                             pc: {"idle", "nodes", "remove", "net"},
                             todo: SUBSET SlaveNames, cur: NodeNames,
                             res: {"none", "done", "aborted"}]]

OvInit ==
    /\ calico = [n \in NodeNames |-> "none"]
    /\ pool = FALSE
    /\ network = FALSE
    /\ up = [n \in NodeNames |-> TRUE]
    /\ admin = [a \in Admins |-> [op |-> "configure", pc |-> "idle", todo |-> {},
                                  cur |-> CHOOSE n \in NodeNames : TRUE, res |-> "none"]]

-----------------------------------------------------------------------------
IsSlaveNodeTypeMutant(n) == NodeType[n] # "slave"

\* `if node.node_type == "slave"`, the filter of every loop.
IsSlave(n) == NodeType[n] = "slave"

\* The handler thread panics: the rest of its loops is never run.
Abort(a) ==
    /\ admin' = [admin EXCEPT ![a].pc = "idle", ![a].todo = {}, ![a].res = "aborted"]
    /\ UNCHANGED <<calico, pool, network, up>>

\* send_command_to_node(node.ip, ...): the POST is unwrapped, so a node
\* that does not answer panics the handler thread; a reply other than
\* Accepted is only printed.  The server keeps serving on a new thread.
\* Cmd is the command's effect on the overlay and next the handler's
\* record for its following step.
SendCommand(a, n, Cmd, next) ==
    \/ /\ up[n]
       /\ Cmd
       /\ admin' = next
       /\ UNCHANGED up
    \/ /\ ~up[n]
       /\ Abort(a)

\* The handlers: request_list_nodes, then the first loop over the slaves.
HandleCalicoConfigure(a) ==
    /\ admin[a].pc = "idle"
    /\ admin' = [admin EXCEPT ![a] = [@ EXCEPT !.op = "configure", !.pc = "nodes",
                    !.todo = {n \in NodeNames : IsSlave(n)}, !.res = "none"]]
    /\ UNCHANGED <<calico, pool, network, up>>

HandleCalicoShutdown(a) ==
    /\ admin[a].pc = "idle"
    /\ admin' = [admin EXCEPT ![a] = [@ EXCEPT !.op = "shutdown", !.pc = "nodes",
                    !.todo = {n \in NodeNames : IsSlave(n)}, !.res = "none"]]
    /\ UNCHANGED <<calico, pool, network, up>>

ConfigureNodeBreakMutant(a, n) ==
    /\ admin[a].op = "configure" /\ admin[a].pc = "nodes" /\ n \in admin[a].todo
    /\ SendCommand(a, n, /\ calico' = [calico EXCEPT ![n] = "running"]
                         /\ UNCHANGED <<pool, network>>,
                   [admin EXCEPT ![a].todo = {}])

\* configure_network, first loop: `calicoctl node --libnetwork` on each slave.
ConfigureNode(a, n) ==
    /\ admin[a].op = "configure" /\ admin[a].pc = "nodes" /\ n \in admin[a].todo
    /\ SendCommand(a, n, /\ calico' = [calico EXCEPT ![n] = "running"]
                         /\ UNCHANGED <<pool, network>>,
                   [admin EXCEPT ![a].todo = @ \ {n}])

\* Second loop, on the first slave only (then `break`): `pool add`, then
\* `docker network create`, after which the handler replies "done".
ConfigurePool(a, n) ==
    /\ admin[a].op = "configure" /\ admin[a].pc = "nodes" /\ admin[a].todo = {}
    /\ IsSlave(n)
    /\ SendCommand(a, n, pool' = TRUE /\ UNCHANGED <<calico, network>>,
                   [admin EXCEPT ![a].pc = "net", ![a].cur = n])

ConfigureNetwork(a) ==
    /\ admin[a].op = "configure" /\ admin[a].pc = "net"
    /\ SendCommand(a, admin[a].cur, network' = TRUE /\ UNCHANGED <<calico, pool>>,
                   [admin EXCEPT ![a].pc = "idle", ![a].res = "done"])

\* shutdown_network, first loop: `node stop`, then `node remove
\* --remove-endpoints`, on each slave.
ShutdownStop(a, n) ==
    /\ admin[a].op = "shutdown" /\ admin[a].pc = "nodes" /\ n \in admin[a].todo
    /\ SendCommand(a, n, /\ calico' = [calico EXCEPT ![n] = "stopped"]
                         /\ UNCHANGED <<pool, network>>,
                   [admin EXCEPT ![a].pc = "remove", ![a].cur = n])

ShutdownRemove(a) ==
    /\ admin[a].op = "shutdown" /\ admin[a].pc = "remove"
    /\ SendCommand(a, admin[a].cur,
                   /\ calico' = [calico EXCEPT ![admin[a].cur] = "none"]
                   /\ UNCHANGED <<pool, network>>,
                   [admin EXCEPT ![a].pc = "nodes", ![a].todo = @ \ {admin[a].cur}])

\* Second loop, first slave only: `pool remove`, then `docker network rm`.
ShutdownPool(a, n) ==
    /\ admin[a].op = "shutdown" /\ admin[a].pc = "nodes" /\ admin[a].todo = {}
    /\ IsSlave(n)
    /\ SendCommand(a, n, pool' = FALSE /\ UNCHANGED <<calico, network>>,
                   [admin EXCEPT ![a].pc = "net", ![a].cur = n])

ShutdownNetwork(a) ==
    /\ admin[a].op = "shutdown" /\ admin[a].pc = "net"
    /\ SendCommand(a, admin[a].cur, network' = FALSE /\ UNCHANGED <<calico, pool>>,
                   [admin EXCEPT ![a].pc = "idle", ![a].res = "done"])

\* The environment: a node is powered off or on (IPMI, /node/shutdown and
\* /node/startup).  What calico left on the node stays.
NodePower(n) ==
    /\ up' = [up EXCEPT ![n] = ~@]
    /\ UNCHANGED <<calico, pool, network, admin>>

OvNext ==
    \/ \E a \in Admins :
          \/ HandleCalicoConfigure(a) \/ HandleCalicoShutdown(a)
          \/ ConfigureNetwork(a) \/ ShutdownRemove(a) \/ ShutdownNetwork(a)
          \/ \E n \in NodeNames :
                ConfigureNode(a, n) \/ ConfigurePool(a, n)
                \/ ShutdownStop(a, n) \/ ShutdownPool(a, n)
    \/ \E n \in NodeNames : NodePower(n)

OvSpec == OvInit /\ [][OvNext]_ovVars

-----------------------------------------------------------------------------
(* Properties *)

Replied(a, r) == admin[a].pc # "idle" /\ admin'[a].pc = "idle" /\ admin'[a].res = r

\* A "done" reply states the overlay: after /calico/configure every slave
\* runs calico and the pool and the network exist; after /calico/shutdown
\* no slave has calico left and both are gone.  The commands of the two
\* loops of configure_network and shutdown_network must all have been sent,
\* in that order, with none of another handler in between.
ReplyMatchesOverlay ==
    [][\A a \in Admins :
         Replied(a, "done") =>
            IF admin[a].op = "configure"
            THEN (\A n \in SlaveNames : calico'[n] = "running") /\ pool' /\ network'
            ELSE (\A n \in SlaveNames : calico'[n] = "none") /\ ~pool' /\ ~network'
      ]_ovVars

\* A slave that does not answer costs only its own configuration: when a
\* /calico/configure handler gives up, every slave that is powered on runs
\* calico.  send_command_to_node unwraps the POST, so the first node that is
\* off ends the whole loop.
ConfigureSparesReachable ==
    [][\A a \in Admins :
         (Replied(a, "aborted") /\ admin[a].op = "configure") =>
            \A n \in SlaveNames : up'[n] => calico'[n] = "running"
      ]_ovVars

=============================================================================
