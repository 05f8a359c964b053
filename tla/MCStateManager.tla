--------------------------- MODULE MCStateManager ---------------------------
(***************************************************************************)
(* Model-checking instance of StateManager.  Names, ids, IPs and nodes    *)
(* are model values; the cfg files choose how many of each.               *)
(***************************************************************************)
EXTENDS StateManager, TLC

CONSTANTS n1, n2, v1, v2, d1, d2, h1, h2

\* Distinct UUIDs: no id starts with another one.
MCStartsWith(id, prefix) == id = prefix

\* d2 is an id that starts with d1, as "z-10" starts with "z-1".
MCPrefixStartsWith(id, prefix) == id = prefix \/ (id = d2 /\ prefix = d1)

MCExternalIp == [n \in NodeNames |-> IF n = n1 THEN v1 ELSE v2]

\* One service group that starts each of our tasks on n1.
MCServiceGroups == [g \in {"g1"} |-> {<<o, n1>> : o \in OwnNames}]

\* Ids and Ips are symmetric in the safety runs.
MCSymmetry == Permutations(Ids) \cup Permutations(Ips)

=============================================================================
