\* Three processes; any may end, the two higher IDs may be launched again, and
\* any dial may fail.
SPECIFICATION RPCSpec
CONSTANTS
    N = 3
    Client = {c1, c2}
    NoClient = NoClient
    IntSpan = 4
    MaxKills = 0
    Relaunchable = {1, 2}
    MayExit = {0, 1, 2}
    DialMayFail = TRUE
SYMMETRY ClientSymmetry
INVARIANTS
    MutualExclusion
    OneToken
    NoIdleWaiter
    HolderAgreement
PROPERTIES
    TokenBornWithLowest
    ImplementsDeployedMutex
CHECK_DEADLOCK FALSE
