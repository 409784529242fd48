\* Three nodes and two terms.
SPECIFICATION Spec
CONSTANTS
    Node = {n1, n2, n3}
    None = None
    MaxTerm = 2
SYMMETRY NodeSymmetry
INVARIANTS
    TypeOK
    ElectionSafety
    OneVotePerTerm
    EveryVoteCountedOnce
    AuthorityIsElected
PROPERTIES
    DeposedOnlyByHigherTerm
    ImplementsLeadership
CHECK_DEADLOCK FALSE
