\* Three nodes and one term, and processes that end and are launched again.
SPECIFICATION RelaunchSpec
CONSTANTS
    Node = {n1, n2, n3}
    None = None
    MaxTerm = 1
SYMMETRY NodeSymmetry
INVARIANT
    ElectionSafety
CHECK_DEADLOCK FALSE
