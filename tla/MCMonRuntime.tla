---------------------------- MODULE MCMonRuntime ----------------------------
(* Instances of MonRuntime for TLC. *)
EXTENDS MonRuntime, TLC

CONSTANTS t1, t2, p1, p2, p3, p4

=============================================================================
