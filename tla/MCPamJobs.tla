------------------------------ MODULE MCPamJobs ------------------------------
(* Instances of PamJobs for TLC. *)
EXTENDS PamJobs

CONSTANTS j1, j2, w1, w2, r1, q1, q2
=============================================================================
