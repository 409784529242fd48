----------------------------- MODULE MCElection -----------------------------
(* Election for TLC: nodes are interchangeable.                            *)
EXTENDS Election, TLC

NodeSymmetry == Permutations(Node)
=============================================================================
