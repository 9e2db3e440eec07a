---------------------------- MODULE MCSigningKeys ----------------------------
(* Instances of SigningKeys for TLC: two server processes, one of them     *)
(* with two goroutines, and a single process with two goroutines.          *)
EXTENDS SigningKeys, TLC

CONSTANTS p1, p2, p3, h1, h2

OneHost == (p1 :> h1) @@ (p2 :> h1)
TwoHosts == (p1 :> h1) @@ (p2 :> h1) @@ (p3 :> h2)
Mirrored == (p1 :> p2) @@ (p2 :> p1)
KeySymmetry == Permutations(Keys) \cup {f @@ Mirrored : f \in Permutations(Keys)}
=============================================================================
