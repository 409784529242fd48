--------------------------- MODULE MCTokenRingRPC ---------------------------
(* TokenRingRPC for TLC: clients are interchangeable.                      *)
EXTENDS TokenRingRPC, TLC

ClientSymmetry == Permutations(Client)
=============================================================================
