\* Three nodes of which any may be elected in each of two terms.
SPECIFICATION Spec
CONSTANTS
    Node = {n1, n2, n3}
    NoNode = NoNode
    Proposal = {p1, p2}
    Term = {1, 2}
SYMMETRY Symmetry
INVARIANT
    StateMachineSafety
CHECK_DEADLOCK FALSE
