------------------------------ MODULE MCWallet ------------------------------
(* Values and symmetry for the runs of Wallet.                              *)
EXTENDS Wallet, TLC

CONSTANTS o1, c1

OneEach == c1 :> 1

SameRequests == Permutations(Requests)
=============================================================================
