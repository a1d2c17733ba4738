----------------------------- MODULE MCMonAlerts -----------------------------
(* Instances of MonAlerts for TLC. *)
EXTENDS MonAlerts, TLC

CONSTANTS d1, d2, i1, i2, e1, e2
=============================================================================
