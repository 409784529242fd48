---------------------------- MODULE MCTokenRing ----------------------------
(* TokenRing for TLC: clients are interchangeable.                         *)
EXTENDS TokenRing, TLC

ClientSymmetry == Permutations(Client)
=============================================================================
