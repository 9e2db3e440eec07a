---------------------------- MODULE MCOAuthTokens ----------------------------
(* Instances of OAuthTokens for TLC.                                       *)
EXTENDS OAuthTokens, TLC

CONSTANTS c1, c2, a1, a2

OneAppOf == [c \in {c1} |-> a1]
TwoAppsOf == (c1 :> a1) @@ (c2 :> a2)
SecretClient == [c \in {c1} |-> "secret"]
SecretAndPublic == (c1 :> "secret") @@ (c2 :> "none")

RequestSymmetry == Permutations(Requests)
=============================================================================
