------------------------------ MODULE NodeList ------------------------------
(***************************************************************************)
(* The node table (state/node_list.rs, not part of the source excerpt;    *)
(* operations from the specification, section 4.B).  A node record keeps *)
(* its name, whether it is active and its age, now - last_seen saturated *)
(* at Horizon.  The addresses are configuration constants: external_ip   *)
(* is never changed after load_node_list.                                 *)
(***************************************************************************)
EXTENDS Naturals

\* add_new_node with the record StateManager::send_add_node builds:
\* active = false, last_seen = now.
NewNode(n) == [name |-> n, active |-> FALSE, age |-> 0]

\* update_node: active := true, last_seen := now (type, function and
\* slave id are not modelled); no-op for an unknown name.
UpdateNode(tbl, n) ==
    IF n \in DOMAIN tbl THEN [tbl EXCEPT ![n].active = TRUE, ![n].age = 0] ELSE tbl

\* set_node_inactive
SetNodeInactive(tbl, n) ==
    IF n \in DOMAIN tbl THEN [tbl EXCEPT ![n].active = FALSE] ELSE tbl

\* get_nodes: value copies.
GetNodes(tbl) == {tbl[n] : n \in DOMAIN tbl}

=============================================================================
