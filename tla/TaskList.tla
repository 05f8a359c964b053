------------------------------ MODULE TaskList ------------------------------
(***************************************************************************)
(* The task table (state/task_list.rs, which is not part of the source    *)
(* excerpt; its operations are taken from the specification, section     *)
(* 4.A).  The table is a function from task name to task record, so names *)
(* are unique by construction; every operation on an unknown name is a    *)
(* no-op.                                                                  *)
(*                                                                         *)
(* A record keeps the fields the controller's decisions read: its owner,  *)
(* the executor-assigned id, the overlay ip, the node it is placed on,    *)
(* its state and its age.  The age stands for now - last_update,          *)
(* saturated at Horizon: the code only ever compares                      *)
(* last_update + d < now for d in {timeout, restart_delay}, and           *)
(* last_update = now becomes age 0.  Image, resources, SLA and the other  *)
(* payload fields are never read by the core and are left out.           *)
(***************************************************************************)
EXTENDS Naturals, Functions, TLC

CONSTANTS
    NoId,               \* the empty id (not reported by the executor yet)
    StartsWith(_, _)    \* StartsWith(id, prefix): id.starts_with(prefix)

TaskStates == {"NotRunning", "Restart", "Requested", "Accepted", "Running"}

\* add_new_task: insert, replacing a record of the same name.
AddNewTask(tbl, t) == (t.name :> t) @@ tbl

\* remove_task_by_name
RemoveTaskByName(tbl, n) == Restrict(tbl, DOMAIN tbl \ {n})

\* Update one record when the name is known; no-op otherwise.
UpdateIfKnown(tbl, n, Upd(_)) ==
    IF n \in DOMAIN tbl THEN [tbl EXCEPT ![n] = Upd(@)] ELSE tbl

\* set_task_state
SetTaskState(tbl, n, s) == UpdateIfKnown(tbl, n, LAMBDA t : [t EXCEPT !.state = s])

\* set_task_info: the runtime fields reported by the executor.
SetTaskInfo(tbl, n, id, ip) ==
    UpdateIfKnown(tbl, n, LAMBDA t : [t EXCEPT !.id = id, !.ip = ip])

\* set_task_node_name
SetTaskNodeName(tbl, n, node) ==
    UpdateIfKnown(tbl, n, LAMBDA t : [t EXCEPT !.node_name = node])

\* update_task_last_update: last_update := now.
UpdateTaskLastUpdate(tbl, n) ==
    UpdateIfKnown(tbl, n, LAMBDA t : [t EXCEPT !.age = 0])

\* get_tasks_with_state: value copies of the matching records.
GetTasksWithState(tbl, s) == {tbl[n] : n \in {m \in DOMAIN tbl : tbl[m].state = s}}

\* get_task_name_by_id: the names of the tasks whose id starts with the
\* given non-empty prefix; the code returns the first of them, or "" when
\* there is none.  Callers only test the result for emptiness.
TaskNamesById(tbl, prefix) ==
    {n \in DOMAIN tbl : prefix # NoId /\ StartsWith(tbl[n].id, prefix)}

\* Mutant of GetTaskIp: the reply built from the wrong field, task.id.
GetTaskIdAsIpMutant(tbl, n, noIp) == IF n \in DOMAIN tbl THEN tbl[n].id ELSE noIp

\* get_task (through get_task_ip): the ip, or "" for an unknown name.
GetTaskIp(tbl, n, noIp) == IF n \in DOMAIN tbl THEN tbl[n].ip ELSE noIp

=============================================================================
