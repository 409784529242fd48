\* Two nodes that are elected in turn and take a proposal each.
SPECIFICATION CoordinatorSpec
CONSTANTS
    Node = {n1, n2}
    None = None
    MaxTerm = 2
    Proposal = {p1, p2}
SYMMETRY Symmetry
INVARIANT
    StateMachineSafety
CHECK_DEADLOCK FALSE
