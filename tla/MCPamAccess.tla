----------------------------- MODULE MCPamAccess -----------------------------
(* Instances of PamAccess for TLC. *)
EXTENDS PamAccess, TLC

CONSTANTS r1, a1, ann, bob, eve

OneRequester == [r \in Request |-> ann]
OneAccount == [r \in Request |-> {a1}]
Anyone == [l \in Level |-> Person]

Pol(type, ticket, rules) ==
  [type |-> type, ticket |-> ticket, self |-> FALSE, rules |-> rules]

Written == {Pol("multi_level", FALSE, <<2>>), Pol("none", TRUE, <<1>>)}
=============================================================================
