----------------------------- MODULE NodeStatus -----------------------------
(***************************************************************************)
(* What the controller promises about its nodes (specification 4.F step  *)
(* 3, testable property 6 and scenario S6), stated without threads or     *)
(* snapshots.  A node is active once it has reported; an active node is   *)
(* marked inactive only when it has been silent longer than the timeout,  *)
(* and such a node is eventually marked inactive.                         *)
(*                                                                         *)
(* age[n] is now - last_seen, saturated at Horizon, as in StateManager.   *)
(***************************************************************************)
EXTENDS Naturals

CONSTANTS NodeNames, Timeout, Horizon

VARIABLES active, age

nsVars == <<active, age>>

NSTypeOK ==
    /\ active \in [NodeNames -> BOOLEAN]
    /\ age \in [NodeNames -> 0..Horizon]

NSInit ==
    /\ active = [n \in NodeNames |-> FALSE]
    /\ age = [n \in NodeNames |-> 0]

\* The node reported to the scheduler.
Heard(n) ==
    /\ active' = [active EXCEPT ![n] = TRUE]
    /\ age' = [age EXCEPT ![n] = 0]

\* The node is declared lost: only an active node silent past the timeout.
Lost(n) ==
    /\ active[n]
    /\ age[n] > Timeout
    /\ active' = [active EXCEPT ![n] = FALSE]
    /\ UNCHANGED age

\* One second passes.
Elapse ==
    /\ age' = [n \in NodeNames |-> IF age[n] < Horizon THEN age[n] + 1 ELSE Horizon]
    /\ UNCHANGED active

NSNext == Elapse \/ \E n \in NodeNames : Heard(n) \/ Lost(n)

\* A lost node stays due until it reports again, so weak fairness on each
\* node's Lost step is the promise that it is eventually declared lost.
NSSpec == NSInit /\ [][NSNext]_nsVars /\ \A n \in NodeNames : WF_nsVars(Lost(n))

=============================================================================
