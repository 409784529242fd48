\* Two servers, with the room or without it at first, two clients and two
\* messages.
SPECIFICATION Spec
CONSTANTS
    Server = {s1, s2}
    Client = {c1, c2}
    Message = {m1, m2}
    NoServer = NoServer
    NoMessage = NoMessage
SYMMETRY ChatSymmetry
INVARIANTS
    TypeOK
    ExactlyOnce
    AnswersFollow
    NothingSkipped
PROPERTIES
    ImplementsFeed
