----------------------------- MODULE MCRaftLog -----------------------------
(* RaftLog for TLC: nodes are interchangeable, and so are proposals.       *)
EXTENDS RaftLog, TLC

Symmetry == Permutations(Node) \cup Permutations(Proposal)
=============================================================================
