# TLA+ models of the torc controller core

These modules model `src/src/state/state.rs`, the controller's state manager, the collaborators whose state it changes, and the overlay administration of `src/src/collaborator/calico/client.rs`. They are checked with TLC.

## The system

The state manager is an **actor**. The `state-serve` thread owns the task table and the node table. Every other thread sends it a request on an mpsc channel and blocks on the reply. One request is therefore one atomic step, and the client threads interleave between requests. The clients are:

| client | code | what it does |
|---|---|---|
| sync loop (`state-sync`) | `start_syncing`, state.rs:704-727 | every poll: list Running tasks; register each with consul; `send_announce_task` each of our own |
| clean loop (`state-clean`) | `start_cleaning`, state.rs:729-782 | every poll: list Running, remove expired foreign tasks and `delete_route` their ip; list Restart, promote own tasks past `restart_delay` to Requested; list nodes, mark stale active nodes inactive |
| peer announce (`POST /service/announce`) | run_api.rs:292-301 | `send_announce_task(peer record)` under the route's own Mutex |
| service-group start (`GET /start/group`) | run_api.rs:246-290 | `send_start_task` for each service of a group |
| admin node power (`/node/startup`, `/node/shutdown`) | run_api.rs:112-156 | `request_node(name)` for the query's name, then IPMI |
| overlay admin (`/calico/configure`, `/calico/shutdown`) | run_api.rs:209-225 | `request_list_nodes`, then `configure_network` or `shutdown_network` (calico/client.rs) |
| scheduler / executor (not in this repository) | `send_update_task_*`, `send_restart_task`, `send_update_node` | Mesos status updates |

`send_announce_task` (state.rs:319-356) is not one request but a procedure of up to four requests, with collaborator calls between them:
1. `request_task_name_by_id(id)`. A hit is a heartbeat: `UpdateTaskLastUpdate`.
2. Otherwise `request_node(node_name)`, then `add_route(ip, node.external_ip)`.
3. `request_task_ip(name)`, then `delete_route(old ip)`.
4. `StartTask(record)`, which replaces the record of that name.

The sync loop and the API handler run this procedure at the same time, and the clean loop acts on snapshots meanwhile. This is where the hazards are.

The collaborators are the routing agent (`collaborator/network_agent/dispatch`: `reset_fib`, `add_route`, `delete_route`) and the consul registry (`collaborator/consul`: `register`).

## Modules

| module | models | state |
|---|---|---|
| `TaskList` | the task table (task_list.rs is not in src/: operations from spec 4.A) | operators on a function name -> record |
| `NodeList` | the node table (spec 4.B; the record from `send_add_node`) | operators on name -> [active, age] |
| `NetworkAgent` | `reset_fib`/`add_route`/`delete_route` with their early returns; consul `register`, whose ignored POST result may be a lost registration (`RegisterOutcomes`) | operators on `fib` (ip -> via) and `registry` (name -> ip) |
| `StateManager` | the actor, the sync and clean loops, the announce procedure, and the environment (scheduler, admin, peer controller, time) | the variables below |
| `NodeStatus` | the abstract node promise (spec 4.F step 3, testable property 6, S6): a node is marked lost only after it has been silent past the timeout, and such a node is eventually marked lost | `active`, `age` |
| `MCStateManager` | model values and constant definitions for TLC | |
| `Overlay` | the two overlay handlers and calico/client.rs | `calico` (node -> none/running/stopped), `pool`, `network`, `up` (node answers), `admin` (handler thread -> op, pc, work list, result) |
| `MCOverlay` | nodes `n1`, `n2` (slaves) and `n3` (master), handler threads | |

`StateManager` variables and their code counterparts:
- `tasks` and `nodes` are `State.task_list` and `State.node_list`.
- `alive` is false once the `state-serve` thread has panicked.
- `fib` and `registry` are the collaborators' state.
- `ann[p]` is the program counter of one `send_announce_task` caller. `p` is `"api"` or `"sync"`. The frame holds the record being announced and the old ip it read.
- `sync` is the sync thread's pc and its remaining Running snapshot.
- `clean` is the clean thread's phase (`expire`, `delroute`, `promote`, `nodes`), its remaining snapshot, and the ip it is about to delete.
- `peer` is the peer controller's current incarnation of each foreign task.
- `group[h]` holds, for each HTTP server thread `h` in `GroupStarters`, the services of its `/start/group` request that it has not started yet. `HandleStartServiceGroup(h, g)` reads the group (`ServiceGroups`, as `MCServiceGroups`), and `StartService(h, s)` is one `send_start_task` of its loop. The handler takes the Mutex per statement, so other threads, other `/start/group` requests included, interleave between the starts.
- `assigned` is a history variable: the id the executor last reported for each own task.

`HandleNodeStartup` and `HandleNodeShutdown` are the admin handlers' `request_node` calls for any name in `AdminNodeNames`. Init's node table is `LoadNodeList`.

The client side of the read requests is named after the client wrappers: `RequestTaskNameById`, `RequestTaskIp`, `RequestListRunningTasks`, `RequestListRestartTasks` and `RequestListNodes` (state.rs:148-503). Each is the reply the actor computes in one step; the caller holds a value copy.

Each request handler is one action, and so is each step of a client between two requests. For example, `CleanExpire` is `send_remove_task_by_name` and `CleanDeleteRoute` is the following `delete_route`.

Abstractions:
- **Time.** A record carries `age = now - last_update`, saturated at `Horizon = max(timeout, restart_delay) + 1`. The code only compares `last_update + d < now` and sets `last_update = now`, which become `age > d` and `age = 0`. `Tick` ages the tables and every snapshot a thread holds, because the snapshots are value copies.
- **Ids and IPs** are model values. `StartsWith(id, prefix)` is a constant operator for `id.starts_with(prefix)`:
  - `MCStartsWith` is used for distinct UUIDs.
  - `MCPrefixStartsWith` makes `d2` start with `d1`.
- **Fresh values.** A new id is never in use (`IdsInUse`), and the overlay never gives two live containers one ip (`LiveIps`). An ip can be reused once its container has stopped.
- **Lost registrations.** `register` drops the POST's result (consul/client.rs:56), so `SyncRegister` and `UpdateTaskState` take `registry'` from `RegisterOutcomes`: the registration is made, or it is lost and the registry is unchanged.
- **Payload fields** (image, resources, SLA, volumes, ...) are never read by the core and are left out.

## The overlay module

Each overlay handler lists the nodes through the actor, then posts commands one at a time to each slave's command executor (`send_command_to_node`). The handler holds its Mutex only for the listing. One action stands for each command:
- **Configure.** `ConfigureNode` is `calicoctl node --libnetwork` on each slave. `ConfigurePool` and `ConfigureNetwork` are `pool add` and `docker network create` on the first slave, followed by the `break`.
- **Shutdown.** `ShutdownStop` and `ShutdownRemove` are `node stop` and `node remove` on each slave. `ShutdownPool` and `ShutdownNetwork` are `pool remove` and `docker network rm` on the first slave.

`SendCommand` models the call itself: the POST is unwrapped, so a node that does not answer panics the handler (`Abort`). The server then serves later requests on a new thread. `NodePower` is the environment powering a node off or on. The node's list order is unspecified (the table is spec-modelled), so a loop takes its slaves in any order, and the first slave is any slave.

## Runs

The `MCStateManager` runs have one configured node `n1` (via `v1`) and `timeout = restart_delay = 0`, so a record is due one tick after its last update. A peer's record arrives with age 0, except in foreign_live.

| run | cfg | expect | what it shows |
|---|---|---|---|
| foreign_live | ForeignLive.cfg | pass | A peer task `f1`, ids `{d1,d2}`, ip `{i1}`. Announced ages are `{0, 1}`, so the peer's clock may stamp a record that is already expired when it arrives (state.rs:749). A stopped task is expired (`ExpiredEventuallyRemoved`). A running one is eventually in the table with its current id, even after being dropped (`LiveForeignEventuallyKnown`). A Running task is eventually registered at its ip although consul may lose any registration (`RegistryEventuallyFresh`). 119,212 states, about 45 s. |
| own_live | OwnLive.cfg | pass | An own task `o1` through start, node, info, Accepted, Running, NotRunning and Restart. A Restart task is always promoted (`RestartEventuallyPromoted`), a stale node is marked inactive (`StaleNodeEventuallyInactive`), and a registration lost at `update_task_state` is repaired by the sync loop (`RegistryEventuallyFresh`). One `/start/group` thread. 191,376 states, about 90 s. |
| actor_panic | ActorPanic.cfg | violation | `ActorAlive`: the name `n2`, which is not in our node table, reaches `request_node`. It can arrive as the node of an announced peer task (state.rs:330) or as the query of `/node/startup` or `/node/shutdown` (run_api.rs:123, 146). The handlers expect None, but `get_node` unwraps and the actor dies (state.rs:960). TLC reports the shorter path, the admin request. |
| stale_writeback | StaleWriteBack.cfg | violation | `OwnTaskIdCurrent`: the sync loop snapshots `o1` Running with id `d1`. The task is restarted and given `d2`. The sync loop's announce misses on `d1` and `StartTask` writes the `d1` record back (state.rs:348-353). |
| clean_stale_remove | CleanStaleRemove.cfg | violation | `CleanRemovesOnlyExpired`: the clean loop's snapshot shows `f1` expired. A heartbeat refreshes it. The clean loop removes it anyway and deletes its route (state.rs:749-753). |
| stale_promote | StalePromote.cfg | violation | `RunningLeavesOnlyByReport`: the clean loop lists `o1` in Restart. The group is started again, and `o1` is launched and reported Running. The clean loop then promotes it to Requested from its stale list (state.rs:763), and the executor launches a second copy. |
| route_leak | RouteLeak.cfg | violation | `RoutesEventuallyReleased`: the peer relaunches `f1` at `i2`. The announce installs `i2` and replaces the record. The clean loop, holding the old record, removes `f1` by name and deletes `i1` (state.rs:750-753). Once the peer stops `f1`, no record names `i2`, and the route is never deleted. About 65 s. |
| node_stale_inactive | NodeStaleInactive.cfg | violation | `NodeTableRefinesStatus` (`NS!NSSpec`): the clean loop lists the nodes, the node reports, and the clean loop marks it inactive at age 0 (state.rs:773). TLC reports this as a violated action property of `NodeStatus`. |
| route_loss | RouteLoss.cfg | violation | `RoutesCoverForeignTasks`: the peer relaunches `f1` with a new id at the same ip. `add_route(i1)` is followed by `delete_route(i1)` of the "old" ip, and the new record has no route. Later heartbeats never restore it (state.rs:330-346). |
| prefix_heartbeat | PrefixHeartbeat.cfg | violation | `LiveForeignEventuallyKnown` with `MCPrefixStartsWith`: the table holds `f1` with id `d2`. The peer relaunches `f1` as `d1`, and `d2` starts with `d1`. Every announce of `d1` is taken for a heartbeat of the `d2` record (state.rs:322), so `d1` is never learned. Spec 4.G step 1 says "the same id", and open question 3 asks for an exact match. |
| overlay_admin | OverlayAdmin.cfg | pass | `MCOverlay`, one admin thread, nodes powered off and on. A "done" reply always matches the overlay (`ReplyMatchesOverlay`): after configure, every slave runs calico and the pool and network exist. After shutdown, none of them is left. 3,552 states, 1 s. |
| overlay_unreachable | OverlayUnreachable.cfg | violation | `ConfigureSparesReachable`: a slave is powered off and `/calico/configure` reaches it first. `send_command_to_node` unwraps the POST (calico/client.rs:116), and the other slave, which is up, never gets calico. `configure_network` does not skip inactive nodes. |

Every property of the passing runs has a mutant in `PROJECT.json` that breaks it. The mutant operators sit just before the definitions they replace:
- `GetTaskIp` replying with the task id instead of its ip.
- `ExpireDue` with the ownership test inverted.
- `AnnLookup` always taking the heartbeat branch.
- `SyncRegister` registering only our own tasks (breaks `RegistryEventuallyFresh` in foreign_live).
- `SyncRegister` registering only foreign tasks, leaving ours to `update_task_state` (breaks it in own_live). Without the lost-registration outcome this mutant survives own_live, so the run checks the repair of a lost registration.
- `PromoteDue` with the expiry loop's ownership test.
- `InactivateDue` with the active test inverted.
- `IsSlave` with the node-type test inverted (the work list then holds the master).
- `ConfigureNode` with its `break` in the first loop.

**Refinement.** `StateManager` instantiates `NodeStatus` with the mapping `active <- [n |-> nodes[n].active]` and `age <- [n |-> nodes[n].age]`. `update_node` maps to `Heard`, `CleanInactivate` maps to `Lost`, `Tick` maps to `Elapse`, and every other step is a stutter. The refinement holds on every path except one: the clean loop's stale snapshot. That path is the finding of node_stale_inactive. Its weak-fairness conjunct does hold, which the passing property `StaleNodeEventuallyInactive` of own_live also shows. The same kind of abstract spec was tried for the task table and the routes. Each is broken by one of the races above (stale_writeback, clean_stale_remove, route_loss, route_leak), so no refinement of them passes against this code.

**Bounds.**
- One name per side is enough to interleave the three threads on one record, which is where every race found sits.
- Two ids give a relaunch under a new id.
- The liveness runs use one ip. With two ips the foreign liveness run grows past 10 minutes.
- clean_stale_remove and route_loss use two ips; actor_panic and stale_writeback need only one.
- The overlay has two slaves, so a loop can stop between them, and one master that every loop must skip. One handler thread is enough for the reply check. Two threads break it: a configure replies "done" while a concurrent shutdown has stopped a slave. The spec promises nothing for concurrent admin calls, so this is not a run.
- The runs have one `/start/group` thread. own_live with two (`GroupStarters = {h1, h2}`) also passes, with 382,752 states in about 3 minutes, too close to the time budget to keep as a run.
- Own and foreign tasks are checked in separate runs. Together the state space is over 11M states.

**Fairness.** `WF` is assumed on:
- each announce frame (a running `send_announce_task` finishes: the actor serves every request);
- the sync and clean loops (they loop forever with a finite sleep);
- the peer's announce of each running task. This is an assumption about the environment, not code of this repository: nothing under src/ posts to `/service/announce` (this controller's sync loop calls `send_announce_task` locally, state.rs:721). It says that a peer keeps announcing a task while it runs, as a peer that runs this code against us would have to; without it no foreign task need ever be learned;
- `Tick`.

`SF` is assumed, for each name, on a sync-loop registration that consul accepts: the sync loop posts the registration of a Running task again on every pass, and the consul agent is not down forever. Weak fairness would not do: the registration step is enabled only while the task is in the sync loop's snapshot.

The scheduler, the admin API and the peer's launches and stops get no fairness, since nothing obliges them to act. Deadlock is checked: time can always pass.

## Not modelled
- The IPMI call itself and `kill_task`. These are I/O with no controller state. The node handlers' `request_node` is modelled.
- The command executor's reply to an overlay command. It is not in this repository. The model takes an answering node to run the command, although `send_command_to_node` only prints a rejected one (calico/client.rs:124).
- A node's `node_type` is a constant in `Overlay`. `update_node` may rewrite it, but the overlay module is not composed with the node table.
- The read-only HTTP handlers (`/nodes`, `/services/...`, `/service?id=`) as actions. Each is a single actor request that changes no state; the requests themselves are the `Request*` operators the loops use.
- Task names shared between two controllers (state.rs:878). The model assumes the own and foreign names are disjoint. With a shared name, the clean loop, deciding on the peer's record, removes by name whatever record holds the name by then, ours included. The spec leaves name uniqueness across controllers open.
- YAML parsing and its unwraps.
- The fboss/snaproute clients (not in src/). The FIB is abstract.
- The `initialized` flag and ping.

## Left open
- Own and foreign tasks in one run: over 11M states, past the time budget.
- Lost or failed `add_route`/`delete_route` calls. `add_route` returns nothing, so a failure would go unseen, but the fboss and snaproute clients that make the call are not in this repository, so how a call fails is unknown.
- `Overlay` composed with the node table, so that `node_type` comes from `update_node`. The overlay reads the node table once per request and never writes it, so the composition adds only a changing constant.
