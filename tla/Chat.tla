-------------------------------- MODULE Chat --------------------------------
(***************************************************************************)
(* One chat room on several servers: internal/chatserver/chatserver.go,    *)
(* the client of internal/client/client.go, and the relay between servers  *)
(* that demo/demo_cross_server_chat/main.go wires them with.               *)
(*                                                                         *)
(* Rooms are independent of each other, so one is enough.  A message       *)
(* (sender and content) is a member of Message that one client sends once. *)
(* A client makes one call at a time.  Its connection may break at any     *)
(* time, during a call too: the call then returns an error while the       *)
(* server handles it all the same, later or, if it was still on its way,   *)
(* never.  The body of one mutex section is one action.                    *)
(*                                                                         *)
(* A server whose listener is not open yet, or is closed again, goes on    *)
(* serving the connections it has; a dial to it fails, as any dial may.    *)
(*                                                                         *)
(* Who is a member of a room and who is connected to a server is recorded  *)
(* by the code and read by none of it: it is left out.                     *)
(*                                                                         *)
(* A definition named X_y is X with the fault y: the specification never   *)
(* uses it, and the properties are checked to tell it from X.              *)
(***************************************************************************)
EXTENDS Naturals, Sequences, Functions

CONSTANTS
    Server, Client, Message,
    NoServer, NoMessage     \* the server of a client that has no connection,
                            \* and the message of one that is not sending

ASSUME ChatAssumption == NoServer \notin Server /\ NoMessage \notin Message

VARIABLES
    (* The servers *)
    hasRoom,    \* those that have the room
    messages,   \* messages[s]: the room's messages at s
    (* Goroutines that outlive the call or the connection they serve *)
    creating,   \* <<c, s>>: JoinRoom of c at s has found no room
    sends,      \* messages on their way to the server they were sent to
    relays,     \* <<m, t>>: m is on its way from the server that took it to t
    (* The clients *)
    conn,       \* the server of rpcClient
    lastSeen,
    joining,    \* the clients whose JoinRoom call is one of creating
    sending,    \* sending[c]: the message whose call c waits for
    reading,    \* the clients whose poll has read the messages, not their number
    result,     \* result[c]: what it has read
    (* History *)
    origin,     \* the server a message was sent to
    lost,       \* <<m, t>>: the call that took m to t failed or was refused
    inSession,  \* clients whose cursor counts the messages of conn[c]
    shown,      \* shown[c]: what PollMessages has returned since conn or a join
    late,       \* late[c]: the messages stored while c was in reading
    answers     \* <<x, m>>: who sent m had been shown x

serverVars  == <<hasRoom, messages>>
clientVars  == <<conn, lastSeen, joining, sending, reading, result>>
sessionVars == <<inSession, shown, late>>
sentVars    == <<origin, answers>>
vars == <<serverVars, creating, sends, relays, clientVars, sentVars, lost, sessionVars>>

Stored(s) == Range(messages[s])

-----------------------------------------------------------------------------
(* The rooms are created before the listeners are opened, if at all.       *)
Init ==
    /\ hasRoom   \in SUBSET Server
    /\ messages  = [s \in Server |-> <<>>]
    /\ creating  = {}
    /\ sends     = {}
    /\ relays    = {}
    /\ conn      = [c \in Client |-> NoServer]
    /\ lastSeen  = [c \in Client |-> 0]
    /\ joining   = {}
    /\ sending   = [c \in Client |-> NoMessage]
    /\ reading   = {}
    /\ result    = [c \in Client |-> <<>>]
    /\ origin    = [m \in Message |-> NoServer]
    /\ lost      = {}
    /\ inSession = {}
    /\ shown     = [c \in Client |-> <<>>]
    /\ late      = [c \in Client |-> {}]
    /\ answers   = {}

-----------------------------------------------------------------------------
(* The servers.                                                            *)

(* AddMessage, and its place among the reads of GetMessages under way.     *)
AddMessage(s, m) ==
    /\ messages' = [messages EXCEPT ![s] = Append(@, m)]
    /\ late' = [c \in Client |-> IF c \in reading /\ conn[c] = s THEN late[c] \cup {m} ELSE late[c]]

(* OnMessageReceived: one goroutine for each other server.                 *)
OnMessageReceived(s, m) == relays' = relays \cup ({m} \X (Server \ {s}))

(* The sender's call returns, whatever reply.OK is: the client ignores it. *)
SendReply(m) == sending' = [c \in Client |-> IF sending[c] = m THEN NoMessage ELSE sending[c]]

SendMessage_relayed(m) ==
    /\ m \in sends /\ origin[m] \in hasRoom
    /\ relays' = relays \cup ({m} \X Server)
    /\ sends'  = sends \ {m}
    /\ SendReply(m)
    /\ UNCHANGED <<serverVars, creating, conn, lastSeen, joining, reading, result, sentVars,
                   lost, sessionVars>>

(* ChatServer.SendMessage where the room is.                               *)
SendMessage(m) ==
    /\ m \in sends /\ origin[m] \in hasRoom
    /\ AddMessage(origin[m], m)
    /\ OnMessageReceived(origin[m], m)
    /\ sends' = sends \ {m}
    /\ SendReply(m)
    /\ UNCHANGED <<hasRoom, creating, conn, lastSeen, joining, reading, result,
                   sentVars, lost, inSession, shown>>

(* And where it is not.                                                    *)
RefuseMessage(m) ==
    /\ m \in sends /\ origin[m] \notin hasRoom
    /\ sends' = sends \ {m}
    /\ lost'  = lost \cup {<<m, origin[m]>>}
    /\ SendReply(m)
    /\ UNCHANGED <<serverVars, creating, relays, conn, lastSeen, joining, reading, result,
                   sentVars, sessionVars>>

(* A call whose caller has lost its connection may never be read from it.  *)
LoseMessage(m) ==
    /\ m \in sends /\ \A c \in Client : sending[c] # m
    /\ sends' = sends \ {m}
    /\ lost'  = lost \cup {<<m, origin[m]>>}
    /\ UNCHANGED <<serverVars, creating, relays, clientVars, sentVars, sessionVars>>

RelayMessage_withCallback(m, t) ==
    /\ <<m, t>> \in relays /\ t \in hasRoom
    /\ AddMessage(t, m)
    /\ relays' = (relays \ {<<m, t>>}) \cup ({m} \X (Server \ {t}))
    /\ UNCHANGED <<hasRoom, creating, sends, clientVars, sentVars, lost, inSession, shown>>

(* RelayMessage stores the message and calls nobody back.                  *)
RelayMessage(m, t) ==
    /\ <<m, t>> \in relays /\ t \in hasRoom
    /\ AddMessage(t, m)
    /\ relays' = relays \ {<<m, t>>}
    /\ UNCHANGED <<hasRoom, creating, sends, clientVars, sentVars, lost, inSession, shown>>

(* The dial or the call fails, or t has no such room: nobody tries again.  *)
LoseRelay(m, t) ==
    /\ <<m, t>> \in relays
    /\ relays' = relays \ {<<m, t>>}
    /\ lost'   = lost \cup {<<m, t>>}
    /\ UNCHANGED <<serverVars, creating, sends, clientVars, sentVars, sessionVars>>

-----------------------------------------------------------------------------
(* The clients.                                                            *)

NoCall(c) == /\ c \notin joining \cup reading
             /\ sending[c] = NoMessage

(* Nothing has been shown yet in what c does next.                         *)
ShowAfresh(c) ==
    /\ shown' = [shown EXCEPT ![c] = <<>>]
    /\ late'  = [late EXCEPT ![c] = {}]

(* ConnectToServer: lastSeen is kept from the last connection, if any, and *)
(* the old one is not closed.                                              *)
ConnectToServer(c, s) ==
    /\ NoCall(c)
    /\ conn' = [conn EXCEPT ![c] = s]
    /\ inSession' = IF lastSeen[c] = 0 THEN inSession \cup {c} ELSE inSession \ {c}
    /\ ShowAfresh(c)
    /\ UNCHANGED <<serverVars, creating, sends, relays, lastSeen, joining, sending, reading,
                   result, sentVars, lost>>

(* Disconnect, or the connection breaks: calls return an error from then   *)
(* on, the one under way too.                                              *)
Disconnect(c) ==
    /\ conn[c] # NoServer
    /\ conn'      = [conn EXCEPT ![c] = NoServer]
    /\ joining'   = joining \ {c}
    /\ sending'   = [sending EXCEPT ![c] = NoMessage]
    /\ reading'   = reading \ {c}
    /\ result'    = [result EXCEPT ![c] = <<>>]
    /\ inSession' = inSession \ {c}
    /\ ShowAfresh(c)
    /\ UNCHANGED <<serverVars, creating, sends, relays, lastSeen, sentVars, lost>>

JoinReply_cursorKept(c) ==
    /\ inSession' = inSession \cup {c}
    /\ ShowAfresh(c)
    /\ UNCHANGED lastSeen

(* JoinRoomRPC returns: the client reads the room from its start.          *)
JoinReply(c) ==
    /\ lastSeen'  = [lastSeen EXCEPT ![c] = 0]
    /\ inSession' = inSession \cup {c}
    /\ ShowAfresh(c)

(* JoinRoom finds the room, or not.                                        *)
JoinRoom(c) ==
    /\ NoCall(c) /\ conn[c] \in hasRoom
    /\ JoinReply(c)
    /\ UNCHANGED <<serverVars, creating, sends, relays, conn, joining, sending, reading, result,
                   sentVars, lost>>

JoinMissingRoom(c) ==
    /\ NoCall(c) /\ conn[c] \in Server \ hasRoom
    /\ joining'  = joining \cup {c}
    /\ creating' = creating \cup {<<c, conn[c]>>}
    /\ UNCHANGED <<serverVars, sends, relays, conn, lastSeen, sending, reading, result, sentVars,
                   lost, sessionVars>>

CreateRoom_anew(s) ==
    /\ hasRoom'  = hasRoom \cup {s}
    /\ messages' = [messages EXCEPT ![s] = <<>>]

(* CreateRoom returns the room that another call has created since.        *)
CreateRoom(s) == hasRoom' = hasRoom \cup {s} /\ UNCHANGED messages

(* The rest of JoinRoom; its caller may be waiting for it or have left.    *)
JoinCreatedRoom(c, s) ==
    /\ <<c, s>> \in creating
    /\ creating' = creating \ {<<c, s>>}
    /\ CreateRoom(s)
    /\ \/ /\ c \in joining /\ conn[c] = s
          /\ joining' = joining \ {c}
          /\ JoinReply(c)
       \/ /\ ~(c \in joining /\ conn[c] = s)
          /\ UNCHANGED <<joining, lastSeen, sessionVars>>
    /\ UNCHANGED <<sends, relays, conn, sending, reading, result, sentVars, lost>>

(* SendMessageRPC.  What c has been shown it may be answering.             *)
SendMessageRPC(c, m) ==
    /\ NoCall(c) /\ conn[c] # NoServer
    /\ origin[m] = NoServer
    /\ origin'  = [origin EXCEPT ![m] = conn[c]]
    /\ answers' = answers \cup (Range(shown[c]) \X {m})
    /\ sends'   = sends \cup {m}
    /\ sending' = [sending EXCEPT ![c] = m]
    /\ UNCHANGED <<serverVars, creating, relays, conn, lastSeen, joining, reading, result, lost,
                   sessionVars>>

-----------------------------------------------------------------------------
(* PollMessages.                                                           *)

GetMessagesAfter_inclusive(s, after) ==
    SubSeq(messages[s], IF after = 0 THEN 1 ELSE after, Len(messages[s]))

GetMessagesAfter(s, after) == SubSeq(messages[s], after + 1, Len(messages[s]))

(* The first of the two reads of GetMessages.                              *)
GetMessages(c) ==
    /\ NoCall(c) /\ conn[c] \in hasRoom
    /\ reading' = reading \cup {c}
    /\ result'  = [result EXCEPT ![c] = GetMessagesAfter(conn[c], lastSeen[c])]
    /\ UNCHANGED <<serverVars, creating, sends, relays, conn, lastSeen, joining, sending,
                   sentVars, lost, sessionVars>>

MessageCount_rest(c) ==
    /\ c \in reading
    /\ reading'  = reading \ {c}
    /\ lastSeen' = [lastSeen EXCEPT ![c] = Len(messages[conn[c]]) - lastSeen[c]]
    /\ shown'    = [shown EXCEPT ![c] = @ \o result[c]]
    /\ result'   = [result EXCEPT ![c] = <<>>]
    /\ UNCHANGED <<serverVars, creating, sends, relays, conn, joining, sending, sentVars, lost,
                   inSession, late>>

(* The second, MessageCount, and the reply: the result is shown and the    *)
(* cursor is set to the count.                                             *)
MessageCount(c) ==
    /\ c \in reading
    /\ reading'  = reading \ {c}
    /\ lastSeen' = [lastSeen EXCEPT ![c] = Len(messages[conn[c]])]
    /\ shown'    = [shown EXCEPT ![c] = @ \o result[c]]
    /\ result'   = [result EXCEPT ![c] = <<>>]
    /\ UNCHANGED <<serverVars, creating, sends, relays, conn, joining, sending, sentVars, lost,
                   inSession, late>>

(* No room: nothing, and a count of zero.                                  *)
PollNoRoom(c) ==
    /\ NoCall(c) /\ conn[c] \in Server \ hasRoom
    /\ lastSeen' = [lastSeen EXCEPT ![c] = 0]
    /\ UNCHANGED <<serverVars, creating, sends, relays, conn, joining, sending, reading, result,
                   sentVars, lost, sessionVars>>

-----------------------------------------------------------------------------
ServerNext == \E m \in Message : \/ SendMessage(m) \/ RefuseMessage(m) \/ LoseMessage(m)
                                 \/ \E t \in Server : RelayMessage(m, t) \/ LoseRelay(m, t)

Next ==
    \/ ServerNext
    \/ \E c \in Client :
          \/ \E s \in Server : ConnectToServer(c, s) \/ JoinCreatedRoom(c, s)
          \/ Disconnect(c) \/ JoinRoom(c) \/ JoinMissingRoom(c)
          \/ \E m \in Message : SendMessageRPC(c, m)
          \/ GetMessages(c) \/ MessageCount(c) \/ PollNoRoom(c)

Spec == Init /\ [][Next]_vars

-----------------------------------------------------------------------------
TypeOK ==
    /\ hasRoom   \in SUBSET Server
    /\ messages  \in [Server -> Seq(Message)]
    /\ creating  \in SUBSET (Client \X Server)
    /\ sends     \in SUBSET Message
    /\ relays    \in SUBSET (Message \X Server)
    /\ conn      \in [Client -> Server \cup {NoServer}]
    /\ lastSeen  \in [Client -> Nat]
    /\ joining   \in SUBSET Client
    /\ sending   \in [Client -> Message \cup {NoMessage}]
    /\ reading   \in SUBSET Client
    /\ result    \in [Client -> Seq(Message)]
    /\ origin    \in [Message -> Server \cup {NoServer}]
    /\ lost      \in SUBSET (Message \X Server)
    /\ inSession \in SUBSET Client
    /\ shown     \in [Client -> Seq(Message)]
    /\ late      \in [Client -> SUBSET Message]
    /\ answers   \in SUBSET (Message \X Message)

(* Where a message is due: at the server it was sent to and, once that has *)
(* stored it, at every other.                                              *)
Due(m, t) == origin[m] # NoServer /\ (t = origin[m] \/ m \in Stored(origin[m]))
OnItsWay(m, t) == <<m, t>> \in relays \/ (m \in sends /\ t = origin[m])

(* A MESSAGE REACHES A SERVER ONCE, OR IS LOST, AND IS NEVER BOTH.  No     *)
(* loop of relays, retry, abandoned call or room created twice stores a    *)
(* message twice or drops it without a failed call: when nothing is on its *)
(* way and no call has failed, the servers' histories have the same        *)
(* messages.                                                               *)
ExactlyOnce ==
    /\ \A s \in Server : IsInjective(messages[s])
    /\ \A m \in Message, t \in Server :
        /\ Due(m, t) <=> m \in Stored(t) \/ OnItsWay(m, t) \/ <<m, t>> \in lost
        /\ ~(m \in Stored(t) /\ OnItsWay(m, t))
        /\ ~(m \in Stored(t) /\ <<m, t>> \in lost)
        /\ ~(OnItsWay(m, t) /\ <<m, t>> \in lost)

(* AN ANSWER FOLLOWS WHAT IT ANSWERS at the two servers concerned: a       *)
(* message sent by a client that had been shown x comes after x at the     *)
(* server it was sent to and at the one x was sent to.  Relays have no     *)
(* order, so a third server may store the answer first.                    *)
AnswersFollow ==
    \A p \in answers : \A s \in {origin[p[1]], origin[p[2]]} :
        \A j \in DOMAIN messages[s] :
            messages[s][j] = p[2] => \E i \in 1 .. (j - 1) : messages[s][i] = p[1]

(* NOTHING IS SKIPPED: what a session's cursor has passed has been shown,  *)
(* but for the messages stored between the two reads of one of its polls.  *)
(* The cursor never counts messages of another server.                     *)
NothingSkipped ==
    \A c \in inSession :
        /\ conn[c] \in Server
        /\ lastSeen[c] <= Len(messages[conn[c]])
        /\ \A i \in 1 .. lastSeen[c] : messages[conn[c]][i] \in Range(shown[c]) \cup late[c]

SessionOf(c) == IF c \in inSession THEN conn[c] ELSE NoServer

FeedOfServers == INSTANCE Feed WITH
    feed    <- messages,
    session <- [c \in Client |-> SessionOf(c)],
    next    <- [c \in Client |-> IF c \in inSession THEN lastSeen[c] ELSE 0],
    shown   <- [c \in Client |-> IF c \in inSession THEN shown[c] ELSE <<>>]

(* THE SERVERS IMPLEMENT A FEED each, whatever calls race: no server       *)
(* forgets, repeats or reorders, and a session is shown its server's feed  *)
(* in order and without repetition.                                        *)
ImplementsFeed == FeedOfServers!FeedSpec
=============================================================================
