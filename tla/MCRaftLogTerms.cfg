\* Two nodes that may both be elected, one of them twice, and two proposals.
SPECIFICATION FairSpec
CONSTANTS
    Node = {n1, n2}
    NoNode = NoNode
    Proposal = {p1, p2}
    Term = {1, 2}
INVARIANTS
    LogTermsWon
    OnePlacePerProposal
    SafeUnderOneLeader
PROPERTIES
    NothingLost
    CommittedReachesAll
CHECK_DEADLOCK FALSE
