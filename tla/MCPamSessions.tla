---------------------------- MODULE MCPamSessions ----------------------------
(* Instances of PamSessions for TLC. *)
EXTENDS PamSessions, TLC

CONSTANTS g1, s1, s2, s3, t1, t2, x1, x2, c1, c2

Identities == Permutations(Session) \cup Permutations(Token)
                \cup Permutations(Handler) \cup Permutations(Conn)

(* bound: sessions of administrators, which need no grant, started or about to be *)
OneAdmin ==
  Cardinality({s \in Session : sess[s].state # "none" /\ sess[s].grant = None}
              \cup {x \in Handler : In(x, "insert") /\ h[x].grant = None}) <= 1

(* Nothing reads or writes a session any more that is over and that no handler
   and no connection holds, nor its tokens. *)
Gone(s) ==
  /\ sess[s].state \in {"terminated", "ended", "error"}
  /\ \A x \in Handler : h[x] # None => h[x].session # s
  /\ \A c \in Conn : conn[c] # None => conn[c].session # s

SessionRest(s) == IF Gone(s) THEN "gone" ELSE sess[s]

(* A checkout asks whether the row is fresh, and only of a token that verifies
   or that it has verified before; what was exchanged matters no more to a
   session that is terminated. *)
Fresh(t) ==
  /\ tok[t].row = "fresh"
  /\ tok[t].signed \/ \E c \in Conn : ConnIn(c, "consume") /\ conn[c].token = t

Spent(t) == used[t] - (IF sess[tok[t].session].state = "terminated" THEN 1 ELSE 0)

TokenRest(t) ==
  LET s == tok[t].session
  IN IF s = None THEN "none"
     ELSE IF Gone(s) THEN "gone"
     ELSE <<s, tok[t].signed, Fresh(t), IF Spent(t) < 0 THEN 0 ELSE Spent(t)>>

ConnRest(c) ==
  IF conn[c] = None THEN "none" ELSE <<conn[c].pc, conn[c].token, conn[c].session>>

(* What the rest of a behaviour depends on: `missed' is history that only
   RevocationPropagates reads, and a grant that is over is so whatever its
   window and whoever ended it. *)
GrantRest(g) ==
  IF grant[g] \in {"none", "active"} THEN <<grant[g], window[g]>> ELSE "over"

Essence ==
  <<[g \in Grant |-> GrantRest(g)], [s \in Session |-> SessionRest(s)],
    [t \in Token |-> TokenRest(t)], job, h, [c \in Conn |-> ConnRest(c)]>>
=============================================================================
