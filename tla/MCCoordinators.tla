--------------------------- MODULE MCCoordinators ---------------------------
(* Coordinators for TLC: nodes are interchangeable, and so are proposals.  *)
EXTENDS Coordinators, TLC

Symmetry == Permutations(Node) \cup Permutations(Proposal)

(* What is proved of the log for every instance, on this one.              *)
LogIsSafe == Log!SafeUnderOneLeader /\ Log!CommittedOnMajority /\ Log!LogTermsWon
=============================================================================
