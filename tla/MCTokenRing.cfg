\* Three nodes, two of which may be killed, and three clients.
SPECIFICATION Spec
CONSTANTS
    N = 3
    Client = {c1, c2, c3}
    NoClient = NoClient
    IntSpan = 6
    MaxKills = 2
SYMMETRY ClientSymmetry
INVARIANTS
    TypeOK
    MutualExclusion
    OneToken
    CSOnlyWithToken
    NoIdleWaiter
    HolderAgreement
    QueueAgreement
    TokenKeptUntilKill
PROPERTIES
    OneLap
    NoOvertaking
    ImplementsMutex
CHECK_DEADLOCK FALSE
