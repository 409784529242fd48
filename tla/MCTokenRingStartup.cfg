\* Three processes launched one after the other; none ends and no dial to a
\* process that is up fails.
SPECIFICATION RPCSpec
CONSTANTS
    N = 3
    Client = {c1, c2}
    NoClient = NoClient
    IntSpan = 4
    MaxKills = 0
    Relaunchable = {}
    MayExit = {}
    DialMayFail = FALSE
INVARIANT
    TokenSurvivesStartup
CHECK_DEADLOCK FALSE
