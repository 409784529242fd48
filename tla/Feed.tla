-------------------------------- MODULE Feed --------------------------------
(***************************************************************************)
(* What a chat room kept on several servers promises its readers, with no  *)
(* call, relay or cursor on the wire: each server has a feed that only     *)
(* grows and holds a message once, and a reader's session at a server      *)
(* shows that feed from its start, in its order and without repetition.    *)
(* Nothing is promised about the order two servers store messages in, nor  *)
(* that every server stores every message, nor that a session shows what   *)
(* arrives while a poll is being answered.                                 *)
(***************************************************************************)
EXTENDS Naturals, Sequences, Functions

CONSTANTS Server, Client, Message, NoServer

VARIABLES
    feed,      \* feed[s]: what server s has stored, in order
    session,   \* session[c]: the server c is reading at
    next,      \* next[c]: how much of that feed c has been answered about
    shown      \* shown[c]: what it has been shown in this session

feedVars == <<feed, session, next, shown>>

FeedInit ==
    /\ feed    = [s \in Server |-> <<>>]
    /\ session = [c \in Client |-> NoServer]
    /\ next    = [c \in Client |-> 0]
    /\ shown   = [c \in Client |-> <<>>]

Publish(s, m) ==
    /\ m \notin Range(feed[s])
    /\ feed' = [feed EXCEPT ![s] = Append(@, m)]
    /\ UNCHANGED <<session, next, shown>>

(* A session begins, again or for the first time, or ends.                 *)
Turn(c, s) ==
    /\ session' = [session EXCEPT ![c] = s]
    /\ next'    = [next EXCEPT ![c] = 0]
    /\ shown'   = [shown EXCEPT ![c] = <<>>]
    /\ UNCHANGED feed

(* A poll shows the messages up to the k-th and is answered about the      *)
(* first j: those between them are never shown in this session.            *)
Poll(c, k, j) ==
    /\ shown' = [shown EXCEPT ![c] = @ \o SubSeq(feed[session[c]], next[c] + 1, k)]
    /\ next'  = [next EXCEPT ![c] = j]
    /\ UNCHANGED <<feed, session>>

FeedNext ==
    \/ \E s \in Server, m \in Message : Publish(s, m)
    \/ \E c \in Client, s \in Server \cup {NoServer} : Turn(c, s)
    \/ \E c \in Client :
           /\ session[c] \in Server
           /\ \E k, j \in next[c] .. Len(feed[session[c]]) : k <= j /\ Poll(c, k, j)

FeedSpec == FeedInit /\ [][FeedNext]_feedVars
=============================================================================
