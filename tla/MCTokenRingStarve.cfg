\* Two nodes, three clients, nobody is killed: two clients that keep asking at
\* one node keep the token from the other.
SPECIFICATION FairSpec
CONSTANTS
    N = 2
    Client = {c1, c2, c3}
    NoClient = NoClient
    IntSpan = 4
    MaxKills = 0
PROPERTY
    EveryNodeReceivesToken
