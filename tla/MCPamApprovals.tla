--------------------------- MODULE MCPamApprovals ---------------------------
(* Instances of PamApprovals for TLC. *)
EXTENDS PamApprovals, TLC

CONSTANTS r1, a1, ann, bob, eve, x1, x2, g1, g2

OneRequester == [r \in Request |-> ann]
OneAccount == [r \in Request |-> {a1}]
Anyone == [l \in Level |-> Person]

Pol(type, ticket, rules) ==
  [type |-> type, ticket |-> ticket, self |-> FALSE, rules |-> rules]

Edited == {Pol("multi_level", FALSE, <<3, 1>>), Pol("none", TRUE, <<0, 0>>)}

\* ann makes the request; the two who may approve it are alike
Identities ==
  Permutations(Handler) \cup Permutations(Grant) \cup Permutations({bob, eve})

(* What a handler in flight will still read of what it holds: handlers that
   differ in the rest only go on alike.  (Who sent a request is read by Free, but
   only in a run without "double".) *)
Rest(f) ==
  IF f = None THEN <<>>
  ELSE CASE f.pc \in {"insert", "ticket"} -> <<f.pc, f.req, f.policy>>
         [] f.pc \in {"policy", "rejectSlots"} -> <<f.pc, f.req, f.who>>
         [] f.pc = "level" -> <<f.pc, f.req, f.who, f.policy>>
         [] f.pc \in {"distinct", "pick"} -> <<f.pc, f.req, f.who, f.policy, f.level>>
         [] f.pc = "fill" -> <<f.pc, f.req, f.who, f.policy, f.slot>>
         [] f.pc \in {"evaluate", "mark", "grant"} -> <<f.pc, f.req, f.policy, f.todo>>
         [] OTHER -> <<f.pc, f.req>>

Essence == <<policy, edit, req, slot, grants, [x \in Handler |-> Rest(h[x])]>>
=============================================================================
