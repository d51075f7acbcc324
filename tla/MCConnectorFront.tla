---------------------------- MODULE MCConnectorFront ----------------------------
(* Instances of ConnectorFront for TLC. *)
EXTENDS ConnectorFront, TLC

CONSTANTS c1, c2, u1

(* Limits on tool calls and on all registrations; the others are off. *)
Settings == [l \in {"tool", "write", "consent", "register", "total", "oauth"} |->
                CASE l = "tool" -> 2 [] l = "total" -> 1 [] OTHER -> 0]

TwoHalves == {{"tool", "consent"}, {"register", "oauth"}}

AnyCall == Permutations({c1, c2})
=============================================================================
