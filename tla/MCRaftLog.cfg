\* Three nodes, of which one is elected once, and two proposals.
SPECIFICATION Spec
CONSTANTS
    Node = {n1, n2, n3}
    NoNode = NoNode
    Proposal = {p1, p2}
    Term = {1}
SYMMETRY Symmetry
INVARIANTS
    TypeOK
    SafeUnderOneLeader
    CommittedOnMajority
PROPERTY
    ImplementsJournal
CHECK_DEADLOCK FALSE
