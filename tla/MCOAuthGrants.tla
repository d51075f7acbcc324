----------------------------- MODULE MCOAuthGrants -----------------------------
(* Instances of OAuthGrants for TLC. *)
EXTENDS OAuthGrants, TLC

CONSTANTS r1, r2, r3, first     \* first: the exchange before the model starts

LaterRequest == Permutations({r1, r2, r3})
=============================================================================
