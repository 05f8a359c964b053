---------------------------- MODULE StateManager ----------------------------
(***************************************************************************)
(* The controller core of state/state.rs: the state actor ("state-serve"  *)
(* thread) that owns the task and node tables, and the clients that talk  *)
(* to it through request/reply messages:                                   *)
(*   - the sync loop ("state-sync" thread, start_syncing),                *)
(*   - the clean loop ("state-clean" thread, start_cleaning),             *)
(*   - the peer announce handler (POST /service/announce, run_api.rs,     *)
(*     which calls send_announce_task under its own Mutex),                *)
(*   - the scheduler and the admin API, which are outside this repository *)
(*     and are modelled as the environment sending the actor's messages.  *)
(*                                                                         *)
(* Every client blocks on the reply of each request, so one request is    *)
(* one atomic step of the actor; the clients interleave between requests. *)
(* send_announce_task is a procedure of several requests and collaborator *)
(* calls, run by two threads (the API handler and the sync loop); its pc  *)
(* is kept per caller in ann.                                              *)
(***************************************************************************)
EXTENDS Naturals, FiniteSets, Functions

CONSTANTS
    MyName,         \* configuration "name" of this controller
    Peer,           \* the name of a peer controller
    OwnNames,       \* names of tasks this controller starts
    ForeignNames,   \* names of tasks the peer starts and announces
    NodeNames,      \* the configured nodes (load_node_list)
    ExternalIp,     \* node -> its configured external_ip
    NoNode,         \* the empty node_name ""
    TaskNodeNames,  \* node_name values our own tasks are started with
    PeerNodeNames,  \* node_name values of the peer's tasks
    Ids,            \* executor task ids (model values)
    Timeout,        \* stateclean.timeout_in_seconds
    RestartDelay,   \* stateclean.restart_delay_in_seconds
    AnnouncedAges,  \* now - last_update of a record when a peer sends it
    Stopped,        \* a peer task that is not running
    NoTask,         \* no record in hand
    NoReg,          \* a name never registered with the registry
    AdminNodeNames, \* names passed to /node/startup and /node/shutdown
    ServiceGroups,  \* api.service-groups: group -> its <<name, node_name>> services
    GroupStarters   \* HTTP server threads serving /start/group

\* The collaborator constants (Ips, NoIp, Vias, NoVia, NoRoute,
\* ConnPrefixes, AgentType) are those of NetworkAgent.
CONSTANTS Ips, NoIp, Vias, NoVia, NoRoute, ConnPrefixes, AgentType

\* NoId and StartsWith(id, prefix) are those of TaskList.
CONSTANTS NoId, StartsWith(_, _)

ASSUME OwnNames \cap ForeignNames = {}
ASSUME ExternalIp \in [NodeNames -> Vias \cup {NoVia}]
ASSUME {Timeout, RestartDelay} \subseteq Nat
ASSUME \A g \in DOMAIN ServiceGroups : ServiceGroups[g] \subseteq OwnNames \X TaskNodeNames

\* Ages are saturated one above the largest delay the code compares with.
Horizon == IF Timeout > RestartDelay THEN Timeout + 1 ELSE RestartDelay + 1

INSTANCE TaskList
INSTANCE NodeList
INSTANCE NetworkAgent

VARIABLES
    tasks,      \* State.task_list: name -> task record
    nodes,      \* State.node_list: name -> node record
    alive,      \* the state-serve thread is still serving
    fib,        \* the routing agent's routes (NetworkAgent)
    registry,   \* the service registry (NetworkAgent)
    peer,       \* the peer's current incarnation of each foreign task
    ann,        \* send_announce_task frames: caller -> [pc, rec, oldIp]
    sync,       \* the sync thread: [pc, pending running-task snapshot]
    clean,      \* the clean thread: [pc, pending snapshot, cur ip]
    assigned,   \* history: the id the scheduler last reported per own task
    group       \* /start/group thread -> the services it has still to start

vars == <<tasks, nodes, alive, fib, registry, peer, ann, sync, clean, assigned, group>>

AllNames == OwnNames \cup ForeignNames
Announcers == {"api", "sync"}

TaskRec == [name: AllNames, controller: {MyName, Peer}, id: Ids \cup {NoId},
            ip: Ips \cup {NoIp}, node_name: TaskNodeNames \cup PeerNodeNames,
            state: TaskStates, age: 0..Horizon]
NodeRec == [name: NodeNames, active: BOOLEAN, age: 0..Horizon]
PeerRec == [id: Ids, ip: Ips, node_name: PeerNodeNames]

TypeOK ==
    /\ \E D \in SUBSET AllNames : tasks \in [D -> TaskRec]
    /\ \A n \in DOMAIN tasks : tasks[n].name = n
    /\ nodes \in [NodeNames -> NodeRec]
    /\ alive \in BOOLEAN
    /\ fib \in [Ips -> Vias \cup {NoRoute}]
    /\ registry \in [AllNames -> Ips \cup {NoIp, NoReg}]
    /\ peer \in [ForeignNames -> PeerRec \cup {Stopped}]
    /\ ann \in [Announcers -> [pc: {"idle", "ann_lookup", "ann_touch", "ann_node",
                                     "ann_getip", "ann_delroute", "ann_start"},
                               rec: TaskRec \cup {NoTask}, oldIp: Ips \cup {NoIp}]]
    /\ sync \in [pc: {"sleep", "next"}, pending: SUBSET TaskRec]
    /\ clean \in [pc: {"sleep", "expire", "delroute", "promote", "nodes"},
                  pending: SUBSET TaskRec \cup SUBSET NodeRec, cur: Ips \cup {NoIp}]
    /\ assigned \in [OwnNames -> Ids \cup {NoId}]
    /\ group \in [GroupStarters -> SUBSET (OwnNames \X TaskNodeNames)]

-----------------------------------------------------------------------------
(* Environment: ids and ips handed out by the executor and the overlay.   *)

\* Ids are UUIDs: a new one is never one that is still held anywhere.
IdsInUse ==
    {tasks[n].id : n \in DOMAIN tasks} \cup {assigned[n] : n \in OwnNames}
    \cup {peer[f].id : f \in {g \in ForeignNames : peer[g] # Stopped}}
    \cup {ann[p].rec.id : p \in {q \in Announcers : ann[q].pc # "idle"}}
    \cup {t.id : t \in sync.pending}
    \cup (IF clean.pc \in {"expire", "promote"} THEN {t.id : t \in clean.pending} ELSE {})

\* The overlay's IPAM never gives two live containers the same address;
\* an address is reused once its container has stopped.
LiveIps ==
    {peer[f].ip : f \in {g \in ForeignNames : peer[g] # Stopped}}
    \cup {tasks[n].ip : n \in {m \in DOMAIN tasks \cap OwnNames :
                                  tasks[m].state \in {"Accepted", "Running"}}}

\* The record a peer posts: its own copy of a running task.
PeerRecord(f, age) ==
    [name |-> f, controller |-> Peer, id |-> peer[f].id, ip |-> peer[f].ip,
     node_name |-> peer[f].node_name, state |-> "Running", age |-> age]

-----------------------------------------------------------------------------
(* The actor's read requests.  A client sends the request with its own    *)
(* reply channel and blocks on the answer, which carries value copies;    *)
(* one request is one atomic step of the state-serve thread.              *)

\* request_task_name_by_id(id_prefix): the names whose id starts with it.
RequestTaskNameById(id) == TaskNamesById(tasks, id)

\* request_task_ip(task_name): the record's ip, "" for an unknown name.
RequestTaskIp(name) == GetTaskIp(tasks, name, NoIp)

\* request_list_running_tasks and request_list_restart_tasks.
RequestListRunningTasks == GetTasksWithState(tasks, "Running")

RequestListRestartTasks == GetTasksWithState(tasks, "Restart")

\* request_list_nodes: copies of every node record.
RequestListNodes == GetNodes(nodes)

-----------------------------------------------------------------------------
\* load_node_list: send_add_node for every configured node, before the
\* sync and clean threads start.
LoadNodeList == [n \in NodeNames |-> NewNode(n)]

Init ==
    /\ tasks = [n \in {} |-> NoTask]
    /\ nodes = LoadNodeList
    /\ alive = TRUE
    /\ \E old \in [Ips -> Vias \cup {NoRoute}] : fib = ResetFib(old)
    /\ registry = [n \in AllNames |-> NoReg]
    /\ peer = [f \in ForeignNames |-> Stopped]
    /\ ann = [p \in Announcers |-> [pc |-> "idle", rec |-> NoTask, oldIp |-> NoIp]]
    /\ sync = [pc |-> "sleep", pending |-> {}]
    /\ clean = [pc |-> "sleep", pending |-> {}, cur |-> NoIp]
    /\ assigned = [n \in OwnNames |-> NoId]
    /\ group = [h \in GroupStarters |-> {}]

-----------------------------------------------------------------------------
(* send_announce_task(task), run by the caller p.                          *)

Return(p) == ann' = [ann EXCEPT ![p] = [pc |-> "idle", rec |-> NoTask, oldIp |-> NoIp]]

Goto(p, pc) == ann' = [ann EXCEPT ![p].pc = pc]

\* Mutant of AnnLookup: the emptiness test of the looked-up name is always
\* true (len() >= 0), so every announce is taken for a heartbeat.
AnnLookupAlwaysFoundMutant(p) ==
    /\ alive
    /\ ann[p].pc = "ann_lookup"
    /\ Goto(p, "ann_touch")
    /\ UNCHANGED <<tasks, nodes, alive, fib, registry, peer, sync, clean, assigned, group>>

\* request_task_name_by_id(task.id): a known id is a heartbeat.
AnnLookup(p) ==
    /\ alive
    /\ ann[p].pc = "ann_lookup"
    /\ Goto(p, IF RequestTaskNameById(ann[p].rec.id) # {} THEN "ann_touch" ELSE "ann_node")
    /\ UNCHANGED <<tasks, nodes, alive, fib, registry, peer, sync, clean, assigned, group>>

\* UpdateTaskLastUpdate for the announced name.
AnnTouch(p) ==
    /\ alive
    /\ ann[p].pc = "ann_touch"
    /\ tasks' = UpdateTaskLastUpdate(tasks, ann[p].rec.name)
    /\ Return(p)
    /\ UNCHANGED <<nodes, alive, fib, registry, peer, sync, clean, assigned, group>>

\* get_node unwraps the node lookup: for an unknown name the state-serve
\* thread panics, and every later request fails.
GetNodePanics(node) == node \notin DOMAIN nodes

\* request_node: the GetNode request.  The client maps any other reply to
\* None, but the actor never sends one: it serves or it dies.
RequestNode(node) == alive' = ~GetNodePanics(node)

\* request_node(task.node_name), then add_route(task.ip, node.external_ip).
AnnRequestNode(p) ==
    LET node == ann[p].rec.node_name IN
    /\ alive
    /\ ann[p].pc = "ann_node"
    /\ RequestNode(node)
    /\ fib' = IF alive' THEN AddRoute(fib, ann[p].rec.ip, ExternalIp[node]) ELSE fib
    /\ ann' = IF alive' THEN [ann EXCEPT ![p].pc = "ann_getip"] ELSE ann
    /\ UNCHANGED <<tasks, nodes, registry, peer, sync, clean, assigned, group>>

\* request_task_ip(task.name): the ip of a record of the same name.
AnnGetIp(p) ==
    /\ alive
    /\ ann[p].pc = "ann_getip"
    /\ ann' = [ann EXCEPT ![p].pc = "ann_delroute",
                          ![p].oldIp = RequestTaskIp(ann[p].rec.name)]
    /\ UNCHANGED <<tasks, nodes, alive, fib, registry, peer, sync, clean, assigned, group>>

\* if ip.len() > 0 { delete_route(ip) }: a client-side call.
AnnDeleteRoute(p) ==
    /\ ann[p].pc = "ann_delroute"
    /\ fib' = DeleteRoute(fib, ann[p].oldIp)
    /\ Goto(p, "ann_start")
    /\ UNCHANGED <<tasks, nodes, alive, registry, peer, sync, clean, assigned, group>>

\* StartTask(task): add_new_task replaces any record of the same name.
AnnStart(p) ==
    /\ alive
    /\ ann[p].pc = "ann_start"
    /\ tasks' = AddNewTask(tasks, ann[p].rec)
    /\ Return(p)
    /\ UNCHANGED <<nodes, alive, fib, registry, peer, sync, clean, assigned, group>>

AnnStep(p) ==
    \/ AnnLookup(p) \/ AnnTouch(p) \/ AnnRequestNode(p)
    \/ AnnGetIp(p) \/ AnnDeleteRoute(p) \/ AnnStart(p)

\* handle_task_announce: a peer posts its record of a running task.
HandleTaskAnnounce(f, age) ==
    /\ peer[f] # Stopped
    /\ ann["api"].pc = "idle"
    /\ ann' = [ann EXCEPT !["api"] = [pc |-> "ann_lookup", rec |-> PeerRecord(f, age),
                                      oldIp |-> NoIp]]
    /\ UNCHANGED <<tasks, nodes, alive, fib, registry, peer, sync, clean, assigned, group>>

\* handle_node_startup and handle_node_shutdown: request_node(name) for
\* the name of the query, then an IPMI call (not modelled) if Some(node).
HandleNodeStartup(name) ==
    /\ alive
    /\ RequestNode(name)
    /\ UNCHANGED <<tasks, nodes, fib, registry, peer, ann, sync, clean, assigned, group>>

HandleNodeShutdown(name) ==
    /\ alive
    /\ RequestNode(name)
    /\ UNCHANGED <<tasks, nodes, fib, registry, peer, ann, sync, clean, assigned, group>>

-----------------------------------------------------------------------------
(* The sync loop.                                                          *)

\* request_list_running_tasks after the sleep.
SyncList ==
    /\ alive
    /\ sync.pc = "sleep"
    /\ sync' = [pc |-> "next", pending |-> RequestListRunningTasks]
    /\ UNCHANGED <<tasks, nodes, alive, fib, registry, peer, ann, clean, assigned, group>>

\* Mutant of SyncRegister: only our own tasks are registered (the reading
\* of the specification's open question 1 that calls it a bug).
SyncRegisterOwnOnlyMutant(t) ==
    /\ sync.pc = "next"
    /\ ann["sync"].pc = "idle"
    /\ t \in sync.pending
    /\ registry' \in IF t.controller = MyName THEN RegisterOutcomes(registry, t.name, t.ip) ELSE {registry}
    /\ sync' = [sync EXCEPT !.pending = @ \ {t}]
    /\ ann' = IF t.controller = MyName
              THEN [ann EXCEPT !["sync"] = [pc |-> "ann_lookup", rec |-> t, oldIp |-> NoIp]]
              ELSE ann
    /\ UNCHANGED <<tasks, nodes, alive, fib, peer, clean, assigned, group>>

\* Mutant of SyncRegister: our own tasks are left to update_task_state,
\* which registered them on entering Running.
SyncRegisterForeignOnlyMutant(t) ==
    /\ sync.pc = "next"
    /\ ann["sync"].pc = "idle"
    /\ t \in sync.pending
    /\ registry' \in IF t.controller # MyName THEN RegisterOutcomes(registry, t.name, t.ip) ELSE {registry}
    /\ sync' = [sync EXCEPT !.pending = @ \ {t}]
    /\ ann' = IF t.controller = MyName
              THEN [ann EXCEPT !["sync"] = [pc |-> "ann_lookup", rec |-> t, oldIp |-> NoIp]]
              ELSE ann
    /\ UNCHANGED <<tasks, nodes, alive, fib, peer, clean, assigned, group>>

\* For one task of the snapshot: register_running_task, and for our own
\* tasks send_announce_task (run by this thread, see ann["sync"]).
SyncRegister(t) ==
    /\ sync.pc = "next"
    /\ ann["sync"].pc = "idle"
    /\ t \in sync.pending
    /\ registry' \in RegisterOutcomes(registry, t.name, t.ip)
    /\ sync' = [sync EXCEPT !.pending = @ \ {t}]
    /\ ann' = IF t.controller = MyName
              THEN [ann EXCEPT !["sync"] = [pc |-> "ann_lookup", rec |-> t, oldIp |-> NoIp]]
              ELSE ann
    /\ UNCHANGED <<tasks, nodes, alive, fib, peer, clean, assigned, group>>

SyncDone ==
    /\ sync.pc = "next"
    /\ ann["sync"].pc = "idle"
    /\ sync.pending = {}
    /\ sync' = [sync EXCEPT !.pc = "sleep"]
    /\ UNCHANGED <<tasks, nodes, alive, fib, registry, peer, ann, clean, assigned, group>>

SyncStep == SyncList \/ (\E t \in sync.pending : SyncRegister(t)) \/ SyncDone

-----------------------------------------------------------------------------
(* The clean loop: expire foreign tasks, promote delayed restarts, mark   *)
(* stale nodes inactive, each over a snapshot taken by one request.       *)

\* Mutants of the three checks: the ownership test inverted, the
\* ownership test copied from the expiry loop, the active test inverted.
ExpireDueOwnMutant(t) == t.controller = MyName /\ t.age > Timeout
PromoteDueForeignMutant(t) == t.controller # MyName /\ t.age > RestartDelay
InactivateDueInvertedMutant(r) == ~r.active /\ r.age > Timeout

\* (task.last_update + timeout) < now, for a task of another controller.
ExpireDue(t) == t.controller # MyName /\ t.age > Timeout

\* (task.last_update + restart_delay) < now, for a task of ours.
PromoteDue(t) == t.controller = MyName /\ t.age > RestartDelay

\* node.active and (node.last_seen + timeout) < now.
InactivateDue(r) == r.active /\ r.age > Timeout

\* The check of the phase the clean thread is in.
CleanDue(r) ==
    CASE clean.pc = "expire"  -> ExpireDue(r)
      [] clean.pc = "promote" -> PromoteDue(r)
      [] clean.pc = "nodes"   -> InactivateDue(r)

\* request_list_running_tasks after the sleep.
CleanListRunning ==
    /\ alive
    /\ clean.pc = "sleep"
    /\ clean' = [clean EXCEPT !.pc = "expire", !.pending = RequestListRunningTasks]
    /\ UNCHANGED <<tasks, nodes, alive, fib, registry, peer, ann, sync, assigned, group>>

\* An element of the snapshot the check rejects: continue.
CleanSkip(r) ==
    /\ clean.pc \in {"expire", "promote", "nodes"}
    /\ r \in clean.pending
    /\ ~CleanDue(r)
    /\ clean' = [clean EXCEPT !.pending = @ \ {r}]
    /\ UNCHANGED <<tasks, nodes, alive, fib, registry, peer, ann, sync, assigned, group>>

\* send_remove_task_by_name(task.name) for an expired snapshot element.
CleanExpire(t) ==
    /\ alive
    /\ clean.pc = "expire"
    /\ t \in clean.pending
    /\ ExpireDue(t)
    /\ tasks' = RemoveTaskByName(tasks, t.name)
    /\ clean' = [pc |-> "delroute", pending |-> clean.pending \ {t}, cur |-> t.ip]
    /\ UNCHANGED <<nodes, alive, fib, registry, peer, ann, sync, assigned, group>>

\* then delete_route(task.ip), with the ip of the snapshot.
CleanDeleteRoute ==
    /\ clean.pc = "delroute"
    /\ fib' = DeleteRoute(fib, clean.cur)
    /\ clean' = [clean EXCEPT !.pc = "expire", !.cur = NoIp]
    /\ UNCHANGED <<tasks, nodes, alive, registry, peer, ann, sync, assigned, group>>

\* request_list_restart_tasks.
CleanListRestart ==
    /\ alive
    /\ clean.pc = "expire"
    /\ clean.pending = {}
    /\ clean' = [clean EXCEPT !.pc = "promote", !.pending = RequestListRestartTasks]
    /\ UNCHANGED <<tasks, nodes, alive, fib, registry, peer, ann, sync, assigned, group>>

\* send_update_task_state(task.name, Requested) (no registration: the
\* state is not Running).
CleanPromote(t) ==
    /\ alive
    /\ clean.pc = "promote"
    /\ t \in clean.pending
    /\ PromoteDue(t)
    /\ tasks' = SetTaskState(tasks, t.name, "Requested")
    /\ clean' = [clean EXCEPT !.pending = @ \ {t}]
    /\ UNCHANGED <<nodes, alive, fib, registry, peer, ann, sync, assigned, group>>

\* request_list_nodes.
CleanListNodes ==
    /\ alive
    /\ clean.pc = "promote"
    /\ clean.pending = {}
    /\ clean' = [clean EXCEPT !.pc = "nodes", !.pending = RequestListNodes]
    /\ UNCHANGED <<tasks, nodes, alive, fib, registry, peer, ann, sync, assigned, group>>

\* send_set_node_inactive(node.name).
CleanInactivate(r) ==
    /\ alive
    /\ clean.pc = "nodes"
    /\ r \in clean.pending
    /\ InactivateDue(r)
    /\ nodes' = SetNodeInactive(nodes, r.name)
    /\ clean' = [clean EXCEPT !.pending = @ \ {r}]
    /\ UNCHANGED <<tasks, alive, fib, registry, peer, ann, sync, assigned, group>>

CleanDone ==
    /\ clean.pc = "nodes"
    /\ clean.pending = {}
    /\ clean' = [clean EXCEPT !.pc = "sleep"]
    /\ UNCHANGED <<tasks, nodes, alive, fib, registry, peer, ann, sync, assigned, group>>

CleanStep ==
    \/ CleanListRunning \/ CleanDeleteRoute \/ CleanListRestart
    \/ CleanListNodes \/ CleanDone
    \/ \E r \in clean.pending : CleanSkip(r) \/ CleanExpire(r) \/ CleanPromote(r)
                                \/ CleanInactivate(r)

-----------------------------------------------------------------------------
(* The scheduler and the admin API (outside this repository) send the     *)
(* actor's messages for our own tasks, in the order a Mesos framework     *)
(* reports them: launch a Requested task (node, id and ip), Accepted,     *)
(* Running, and a failure that is restarted or that ends the task.        *)

SchedUnchanged == UNCHANGED <<nodes, alive, fib, peer, ann, sync, clean>>

\* send_start_task: a new Requested record, replacing one of the same name.
StartTask(n, node) ==
    /\ alive
    /\ tasks' = AddNewTask(tasks, [name |-> n, controller |-> MyName, id |-> NoId,
                                   ip |-> NoIp, node_name |-> node,
                                   state |-> "Requested", age |-> 0])
    /\ assigned' = [assigned EXCEPT ![n] = NoId]
    /\ UNCHANGED registry
    /\ SchedUnchanged

OwnIn(n, states) == n \in DOMAIN tasks /\ tasks[n].state \in states

\* send_update_task_node_name
UpdateTaskNodeName(n, node) ==
    /\ alive
    /\ OwnIn(n, {"Requested"})
    /\ tasks' = SetTaskNodeName(tasks, n, node)
    /\ UNCHANGED <<registry, assigned, group>>
    /\ SchedUnchanged

\* send_update_task_info with a fresh id and a free ip.
UpdateTaskInfo(n, id, ip) ==
    /\ alive
    /\ OwnIn(n, {"Requested"})
    /\ id \notin IdsInUse
    /\ ip \notin LiveIps
    /\ tasks' = SetTaskInfo(tasks, n, id, ip)
    /\ assigned' = [assigned EXCEPT ![n] = id]
    /\ UNCHANGED <<registry, group>>
    /\ SchedUnchanged

\* The status updates the scheduler reports, as (from, to) pairs.
SchedulerTransitions ==
    {<<"Requested", "Accepted">>, <<"Accepted", "Running">>,
     <<"Accepted", "NotRunning">>, <<"Running", "NotRunning">>}

\* send_update_task_state -> update_task_state: set the state; entering
\* Running also registers the task with the ip of the record.
UpdateTaskState(n, s) ==
    /\ alive
    /\ n \in DOMAIN tasks \cap OwnNames
    /\ <<tasks[n].state, s>> \in SchedulerTransitions
    /\ s = "Accepted" => tasks[n].id # NoId
    /\ tasks' = SetTaskState(tasks, n, s)
    /\ registry' \in IF s = "Running" THEN RegisterOutcomes(registry, n, tasks'[n].ip) ELSE {registry}
    /\ UNCHANGED <<assigned, group>>
    /\ SchedUnchanged

\* send_restart_task -> restart_task: last_update := now, state := Restart.
RestartTask(n) ==
    /\ alive
    /\ OwnIn(n, {"Running"})
    /\ tasks' = SetTaskState(UpdateTaskLastUpdate(tasks, n), n, "Restart")
    /\ UNCHANGED <<registry, assigned, group>>
    /\ SchedUnchanged

\* send_update_node: the scheduler heard from the node.
SchedUpdateNode(n) ==
    /\ alive
    /\ nodes' = UpdateNode(nodes, n)
    /\ UNCHANGED <<tasks, alive, fib, registry, peer, ann, sync, clean, assigned, group>>

\* handle_start_service_group(name): the services of the configured group
\* of that name; each is then started by its own send_start_task, with
\* the other threads running in between.  The services are taken in any
\* order (the configured order is one of them).  The handler takes the
\* Mutex per statement, so the threads of two requests interleave.
HandleStartServiceGroup(h, g) ==
    /\ group[h] = {}
    /\ group' = [group EXCEPT ![h] = ServiceGroups[g]]
    /\ UNCHANGED <<tasks, nodes, alive, fib, registry, peer, ann, sync, clean, assigned>>

StartService(h, s) ==
    /\ s \in group[h]
    /\ StartTask(s[1], s[2])
    /\ group' = [group EXCEPT ![h] = @ \ {s}]

ServiceGroupStep ==
    \E h \in GroupStarters :
        \/ \E g \in DOMAIN ServiceGroups : HandleStartServiceGroup(h, g)
        \/ \E s \in group[h] : StartService(h, s)

SchedulerStep ==
    \/ \E n \in OwnNames, node \in TaskNodeNames : UpdateTaskNodeName(n, node)
    \/ \E n \in OwnNames, id \in Ids, ip \in Ips : UpdateTaskInfo(n, id, ip)
    \/ \E n \in OwnNames, s \in TaskStates : UpdateTaskState(n, s)
    \/ \E n \in OwnNames : RestartTask(n)
    \/ \E n \in NodeNames : SchedUpdateNode(n)

-----------------------------------------------------------------------------
(* The peer controller launches and stops its tasks; while one runs, its  *)
(* sync loop keeps posting it to us (HandleTaskAnnounce).                 *)

PeerLaunch(f, id, ip, node) ==
    /\ peer[f] = Stopped
    /\ id \notin IdsInUse
    /\ ip \notin LiveIps
    /\ peer' = [peer EXCEPT ![f] = [id |-> id, ip |-> ip, node_name |-> node]]
    /\ UNCHANGED <<tasks, nodes, alive, fib, registry, ann, sync, clean, assigned, group>>

PeerStop(f) ==
    /\ peer[f] # Stopped
    /\ peer' = [peer EXCEPT ![f] = Stopped]
    /\ UNCHANGED <<tasks, nodes, alive, fib, registry, ann, sync, clean, assigned, group>>

PeerStep ==
    \/ \E f \in ForeignNames, id \in Ids, ip \in Ips, node \in PeerNodeNames :
          PeerLaunch(f, id, ip, node)
    \/ \E f \in ForeignNames : PeerStop(f)

-----------------------------------------------------------------------------
(* Time: one second passes.  Every last_update and last_seen, in the      *)
(* tables and in the snapshots the threads hold, grows one older.         *)

Older(r) == [r EXCEPT !.age = IF @ < Horizon THEN @ + 1 ELSE Horizon]

Tick ==
    /\ tasks' = [n \in DOMAIN tasks |-> Older(tasks[n])]
    /\ nodes' = [n \in DOMAIN nodes |-> Older(nodes[n])]
    /\ sync' = [sync EXCEPT !.pending = {Older(t) : t \in @}]
    /\ clean' = [clean EXCEPT !.pending = {Older(r) : r \in @}]
    /\ ann' = [p \in Announcers |->
                 IF ann[p].pc = "idle" THEN ann[p] ELSE [ann[p] EXCEPT !.rec = Older(@)]]
    /\ UNCHANGED <<alive, fib, registry, peer, assigned, group>>

-----------------------------------------------------------------------------
Next ==
    \/ \E p \in Announcers : AnnStep(p)
    \/ \E f \in ForeignNames, age \in AnnouncedAges : HandleTaskAnnounce(f, age)
    \/ \E name \in AdminNodeNames : HandleNodeStartup(name) \/ HandleNodeShutdown(name)
    \/ SyncStep
    \/ CleanStep
    \/ SchedulerStep
    \/ ServiceGroupStep
    \/ PeerStep
    \/ Tick

\* The state-serve, state-sync and state-clean threads loop forever with
\* finite sleeps, and so never stop taking steps; time passes.  That a
\* peer keeps posting /service/announce for a task while it runs is an
\* assumption about the environment, not code of this repository.  The
\* scheduler, the admin and the peer's launches and stops are not bound to
\* happen.  The consul agent is not down forever: a registration the
\* sync loop posts again on every pass is eventually accepted.
Fairness ==
    /\ \A p \in Announcers : WF_vars(AnnStep(p))
    /\ WF_vars(SyncStep)
    /\ WF_vars(CleanStep)
    /\ \A f \in ForeignNames : WF_vars(\E age \in AnnouncedAges : HandleTaskAnnounce(f, age))
    /\ WF_vars(Tick)
    /\ \A n \in AllNames : SF_vars(\E t \in sync.pending :
                                    t.name = n /\ SyncRegister(t) /\ registry'[n] = t.ip)

Spec == Init /\ [][Next]_vars /\ Fairness

-----------------------------------------------------------------------------
(* Properties.                                                             *)

Running(n) == n \in DOMAIN tasks /\ tasks[n].state = "Running"

\* The state-serve thread never dies.  get_node unwraps the node lookup,
\* so a send_announce_task (from the API or from the sync loop) that
\* reaches request_node for a node_name missing from the node table
\* panics the actor; the specification (section 7) requires a NotFound
\* reply instead.  /node/startup?name=... and /node/shutdown?name=... pass
\* a name from the query string to request_node too, and their callers
\* handle None (`_ => {}`), which the actor never sends.
ActorAlive == alive

\* The id of each of our task records is the one the scheduler reported
\* last for it (none since start_task).  Broken if a thread writes back a
\* snapshot of an earlier incarnation: the sync loop's send_announce_task
\* of an own task whose id has since changed ends in StartTask(snapshot).
OwnTaskIdCurrent ==
    \A n \in DOMAIN tasks \cap OwnNames : tasks[n].id = assigned[n]

\* The clean loop removes only records that are expired when removed: it
\* decides on a running-task snapshot and then calls remove_task_by_name,
\* which removes whatever record holds that name by then, e.g. one a
\* heartbeat has just refreshed or a newer incarnation.
CleanRemovesOnlyExpired ==
    [][\A n \in DOMAIN tasks : n \notin DOMAIN tasks' => ExpireDue(tasks[n])]_tasks

\* No thread is between the steps of a route update.
RoutesSettled ==
    /\ \A p \in Announcers : ann[p].pc = "idle"
    /\ clean.pc # "delroute"

\* Whenever no route update is under way, every foreign task in the table
\* that the agent can route (on a node with an external ip, at an ip that
\* is not a prefix of the connection) has its /32 route via that node.
\* At stake: send_announce_task's add_route then delete_route of the old
\* ip of the same name, and the clean loop's delete_route of a snapshot ip.
RoutesCoverForeignTasks ==
    RoutesSettled =>
        \A f \in DOMAIN tasks \cap ForeignNames :
            LET via == ExternalIp[tasks[f].node_name] IN
            (via # NoVia /\ tasks[f].ip \notin ConnPrefixes) => fib[tasks[f].ip] = via

\* A route the agent holds for an ip no record has is eventually deleted:
\* routes are only removed for an ip read from a record (the clean loop's
\* snapshot, send_announce_task's old ip), so a route whose record was
\* replaced or removed by name before its ip was read is never deleted.
RoutesEventuallyReleased ==
    \A ip \in Ips :
        (fib[ip] # NoRoute /\ \A n \in DOMAIN tasks : tasks[n].ip # ip)
            ~> (fib[ip] = NoRoute \/ \E n \in DOMAIN tasks : tasks[n].ip = ip)

\* A task of ours leaves Running only as the scheduler reports it
\* (NotRunning, Restart) or by a new start of the service (send_start_task,
\* id reset).  At stake: the clean loop's promotion of a Restart-list
\* snapshot sets Requested by name on whatever record holds the name by
\* then; if the task was started again and is Running, the executor is
\* asked to launch a second copy.
RunningLeavesOnlyByReport ==
    [][\A n \in DOMAIN tasks \cap OwnNames :
          (tasks[n].state = "Running" /\ n \in DOMAIN tasks' /\ tasks'[n].state # "Running")
              => (tasks'[n].state \in {"NotRunning", "Restart"} \/ tasks'[n].id = NoId)]_tasks

\* A task the peer has stopped announcing is eventually dropped from the
\* table (clean loop expiry of foreign tasks).
ExpiredEventuallyRemoved ==
    \A f \in ForeignNames :
        (f \in DOMAIN tasks /\ peer[f] = Stopped) ~> (f \notin DOMAIN tasks \/ peer[f] # Stopped)

\* A task the peer keeps running is eventually in our table with the id
\* of its current incarnation: an announce of a new id is not taken for a
\* heartbeat, and a record the clean loop dropped is announced back.
LiveForeignEventuallyKnown ==
    \A f \in ForeignNames, id \in Ids :
        (peer[f] # Stopped /\ peer[f].id = id)
            ~> (peer[f] = Stopped \/ peer[f].id # id \/ (f \in DOMAIN tasks /\ tasks[f].id = id))

\* Every task that stays Running at an ip is eventually registered at that
\* ip: the sync loop's re-registration repairs a registration it made
\* from a stale snapshot, and covers foreign tasks, which never go through
\* update_task_state.
RegistryEventuallyFresh ==
    \A n \in AllNames, ip \in Ips \cup {NoIp} :
        (Running(n) /\ tasks[n].ip = ip) ~> (registry[n] = ip \/ ~(Running(n) /\ tasks[n].ip = ip))

\* A task of ours in Restart eventually leaves it (clean loop promotion to
\* Requested once restart_delay has passed).
RestartEventuallyPromoted ==
    \A n \in OwnNames :
        (n \in DOMAIN tasks /\ tasks[n].state = "Restart")
            ~> ~(n \in DOMAIN tasks /\ tasks[n].state = "Restart")

\* An active node that stops reporting is eventually marked inactive.
StaleNodeEventuallyInactive ==
    \A n \in NodeNames :
        (nodes[n].active /\ nodes[n].age > Timeout) ~> (~nodes[n].active \/ nodes[n].age <= Timeout)

-----------------------------------------------------------------------------
(* Refinement: the node table, as the clean loop and update_node change   *)
(* it, implements the NodeStatus promise.  The mapping reads each node's  *)
(* flag and age off the table; every other variable is hidden.            *)

NS == INSTANCE NodeStatus WITH
        active <- [n \in NodeNames |-> nodes[n].active],
        age <- [n \in NodeNames |-> nodes[n].age]

\* The node table implements NodeStatus: a node is marked inactive only
\* while it is silent past the timeout, and a silent node eventually is.
\* At stake: the clean loop decides on a request_list_nodes snapshot and
\* calls set_node_inactive by name, after update_node may have refreshed
\* the node.
NodeTableRefinesStatus == NS!NSSpec

=============================================================================
