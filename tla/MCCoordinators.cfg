\* Three nodes, one of which may be elected, and one proposal.
SPECIFICATION CoordinatorSpec
CONSTANTS
    Node = {n1, n2, n3}
    None = None
    MaxTerm = 1
    Proposal = {p1}
SYMMETRY Symmetry
INVARIANT
    LogIsSafe
PROPERTIES
    ImplementsElection
    ImplementsLog
CHECK_DEADLOCK FALSE
