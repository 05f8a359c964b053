----------------------------- MODULE MCOverlay -----------------------------
(***************************************************************************)
(* Model-checking instance of Overlay: two slaves, so that a loop can stop *)
(* between them, and one master that every loop must skip.                *)
(***************************************************************************)
EXTENDS Overlay, TLC

CONSTANTS n1, n2, n3, a1, a2

MCNodeType == (n1 :> "slave") @@ (n2 :> "slave") @@ (n3 :> "master")

=============================================================================
