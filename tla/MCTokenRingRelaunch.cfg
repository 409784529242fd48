\* Two processes, no failed dials; the process of the lowest ID may end and be
\* launched again.
SPECIFICATION RPCSpec
CONSTANTS
    N = 2
    Client = {c1, c2}
    NoClient = NoClient
    IntSpan = 4
    MaxKills = 0
    Relaunchable = {0}
    MayExit = {0}
    DialMayFail = FALSE
INVARIANT
    MutualExclusion
CHECK_DEADLOCK FALSE
