------------------------------ MODULE MCPamJit ------------------------------
(* Instances of PamJit for TLC. *)
EXTENDS PamJit, TLC

CONSTANTS e1, e2, p1, p2, x1, x2
=============================================================================
