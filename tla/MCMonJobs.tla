------------------------------ MODULE MCMonJobs ------------------------------
(* Small instances of MonJobs for TLC. *)
EXTENDS MonJobs, TLC

CONSTANTS n1, n2, j1, j2, j3, x1, x2, x3, d1, d2, s1, g1, g2, c1, c2

OneGroup == [n \in Node |-> g1]

Identities == Permutations(Job) \cup Permutations(Exec)
=============================================================================
