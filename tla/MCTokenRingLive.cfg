\* Two nodes, either or both of which may be killed, and three clients.
SPECIFICATION FairSpec
CONSTANTS
    N = 2
    Client = {c1, c2, c3}
    NoClient = NoClient
    IntSpan = 4
    MaxKills = 2
PROPERTIES
    LocalQueueServed
    ServedUnlessStranded
CHECK_DEADLOCK FALSE
