---------------------------- MODULE Chat_proofs ----------------------------
(***************************************************************************)
(* Theorems about Chat for every number of servers, clients and messages.  *)
(***************************************************************************)
EXTENDS Chat, TLAPS, SequenceTheorems

-----------------------------------------------------------------------------
(* What appending to a sequence and slicing it do.                         *)

LEMMA AppendFacts ==
    ASSUME NEW S, NEW q \in Seq(S), NEW x \in S
    PROVE  /\ Append(q, x) \in Seq(S)
           /\ Len(Append(q, x)) = Len(q) + 1
           /\ \A i \in 1 .. Len(q) : Append(q, x)[i] = q[i]
           /\ Append(q, x)[Len(q) + 1] = x
           /\ Range(Append(q, x)) = Range(q) \cup {x}
           /\ IsInjective(q) /\ x \notin Range(q) => IsInjective(Append(q, x))
<1> DEFINE r == Append(q, x)
<1>1. /\ r \in Seq(S) /\ Len(r) = Len(q) + 1 /\ r[Len(q) + 1] = x
      /\ DOMAIN r = 1 .. Len(q) + 1 /\ DOMAIN q = 1 .. Len(q)
      /\ \A i \in 1 .. Len(q) : r[i] = q[i]
  OBVIOUS
<1>2. Len(q) \in Nat
  OBVIOUS
<1> HIDE DEF r
<1>3. Range(r) = Range(q) \cup {x}
  <2>1. ASSUME NEW y \in Range(r) PROVE y \in Range(q) \cup {x}
    <3>1. PICK i \in 1 .. Len(q) + 1 : r[i] = y
      BY <1>1 DEF Range
    <3> QED BY <1>1, <1>2, <3>1 DEF Range
  <2>2. ASSUME NEW y \in Range(q) PROVE y \in Range(r)
    <3>1. PICK i \in 1 .. Len(q) : q[i] = y
      BY <1>1 DEF Range
    <3> QED BY <1>1, <1>2, <3>1 DEF Range
  <2>3. x \in Range(r)
    BY <1>1, <1>2 DEF Range
  <2> QED BY <2>1, <2>2, <2>3
<1>4. IsInjective(q) /\ x \notin Range(q) => IsInjective(r)
  BY <1>1, <1>2 DEF IsInjective, Range
<1> QED BY <1>1, <1>3, <1>4 DEF r

LEMMA SliceFacts ==
    ASSUME NEW S, NEW q \in Seq(S), NEW a \in Nat, NEW b \in Nat, b <= Len(q)
    PROVE  /\ SubSeq(q, a + 1, b) \in Seq(S)
           /\ Len(SubSeq(q, a + 1, b)) = IF a <= b THEN b - a ELSE 0
           /\ \A i \in 1 .. Len(SubSeq(q, a + 1, b)) : SubSeq(q, a + 1, b)[i] = q[a + i]
<1>1. \A i \in a + 1 .. b : q[i] \in S
  OBVIOUS
<1>2. /\ SubSeq(q, a + 1, b) \in Seq(S)
      /\ Len(SubSeq(q, a + 1, b)) = IF a + 1 <= b THEN b - (a + 1) + 1 ELSE 0
  BY <1>1, SubSeqProperties
<1>3. \A i \in 1 .. b - (a + 1) + 1 : SubSeq(q, a + 1, b)[i] = q[a + 1 + i - 1]
  BY <1>1, SubSeqProperties
<1> QED BY <1>2, <1>3

-----------------------------------------------------------------------------
(* TYPES.                                                                  *)

LEMMA AddMessageTypes ==
    ASSUME TypeOK, NEW s \in Server, NEW m \in Message, AddMessage(s, m)
    PROVE  /\ messages' \in [Server -> Seq(Message)]
           /\ late' \in [Client -> SUBSET Message]
<1>1. Append(messages[s], m) \in Seq(Message)
  BY AppendFacts DEF TypeOK
<1> QED BY <1>1 DEF TypeOK, AddMessage

(* A call under way has a server, and a client makes one call at a time.   *)
Addressed ==
    /\ \A m \in sends : origin[m] \in Server
    /\ \A c \in joining \cup reading \cup inSession : conn[c] \in Server
    /\ joining \cap reading = {}

LEMMA TypeOKInductive ==
    ASSUME TypeOK, Addressed, [Next]_vars
    PROVE  TypeOK'
<1> USE DEF TypeOK, serverVars, clientVars, sessionVars, sentVars
<1>1. CASE UNCHANGED vars
  BY <1>1 DEF vars
<1>2. ASSUME NEW m \in Message, SendMessage(m)
      PROVE  TypeOK'
  <2>1. origin[m] \in Server
    BY <1>2 DEF SendMessage
  <2>2. messages' \in [Server -> Seq(Message)] /\ late' \in [Client -> SUBSET Message]
    BY <1>2, <2>1, AddMessageTypes DEF SendMessage
  <2>3. relays' \in SUBSET (Message \X Server)
    BY <1>2, <2>1 DEF SendMessage, OnMessageReceived
  <2>4. sending' \in [Client -> Message \cup {NoMessage}]
    BY <1>2 DEF SendMessage, SendReply
  <2> QED BY <1>2, <2>2, <2>3, <2>4 DEF SendMessage
<1>3. ASSUME NEW m \in Message, RefuseMessage(m) \/ LoseMessage(m)
      PROVE  TypeOK'
  <2>1. origin[m] \in Server
    BY <1>3 DEF RefuseMessage, LoseMessage, Addressed
  <2>2. sending' \in [Client -> Message \cup {NoMessage}]
    BY <1>3 DEF RefuseMessage, LoseMessage, SendReply
  <2>3. lost' \in SUBSET (Message \X Server)
    BY <1>3, <2>1 DEF RefuseMessage, LoseMessage
  <2> QED BY <1>3, <2>2, <2>3 DEF RefuseMessage, LoseMessage
<1>4. ASSUME NEW m \in Message, NEW t \in Server, RelayMessage(m, t)
      PROVE  TypeOK'
  <2>1. messages' \in [Server -> Seq(Message)] /\ late' \in [Client -> SUBSET Message]
    BY <1>4, AddMessageTypes DEF RelayMessage
  <2> QED BY <1>4, <2>1 DEF RelayMessage
<1>5. ASSUME NEW m \in Message, NEW t \in Server, LoseRelay(m, t)
      PROVE  TypeOK'
  BY <1>5 DEF LoseRelay
<1>6. ASSUME NEW c \in Client, NEW s \in Server, ConnectToServer(c, s)
      PROVE  TypeOK'
  BY <1>6 DEF ConnectToServer, ShowAfresh
<1>7. ASSUME NEW c \in Client, NEW s \in Server, JoinCreatedRoom(c, s)
      PROVE  TypeOK'
  <2>1. /\ lastSeen' \in [Client -> Nat] /\ inSession' \in SUBSET Client
        /\ shown' \in [Client -> Seq(Message)] /\ late' \in [Client -> SUBSET Message]
        /\ joining' \in SUBSET Client
    <3>1. CASE joining' = joining \ {c} /\ JoinReply(c)
      BY <3>1 DEF JoinReply, ShowAfresh
    <3>2. CASE UNCHANGED <<joining, lastSeen, sessionVars>>
      BY <3>2
    <3> QED BY <1>7, <3>1, <3>2 DEF JoinCreatedRoom
  <2>2. hasRoom' \in SUBSET Server /\ messages' = messages
    BY <1>7 DEF JoinCreatedRoom, CreateRoom
  <2> QED BY <1>7, <2>1, <2>2 DEF JoinCreatedRoom
<1>8. ASSUME NEW c \in Client, Disconnect(c)
      PROVE  TypeOK'
  BY <1>8 DEF Disconnect, ShowAfresh
<1>9. ASSUME NEW c \in Client, JoinRoom(c)
      PROVE  TypeOK'
  BY <1>9 DEF JoinRoom, JoinReply, ShowAfresh
<1>10. ASSUME NEW c \in Client, JoinMissingRoom(c)
       PROVE  TypeOK'
  BY <1>10 DEF JoinMissingRoom
<1>11. ASSUME NEW c \in Client, NEW m \in Message, SendMessageRPC(c, m)
       PROVE  TypeOK'
  <2>1. Range(shown[c]) \subseteq Message
    BY DEF Range
  <2> QED BY <1>11, <2>1 DEF SendMessageRPC
<1>12. ASSUME NEW c \in Client, GetMessages(c)
       PROVE  TypeOK'
  <2>1. conn[c] \in Server
    BY <1>12 DEF GetMessages
  <2>2. GetMessagesAfter(conn[c], lastSeen[c]) \in Seq(Message)
    BY <2>1, SliceFacts DEF GetMessagesAfter
  <2> QED BY <1>12, <2>2 DEF GetMessages
<1>13. ASSUME NEW c \in Client, MessageCount(c)
       PROVE  TypeOK'
  <2>1. shown[c] \o result[c] \in Seq(Message) /\ Len(messages[conn[c]]) \in Nat
    BY <1>13 DEF MessageCount, Addressed
  <2> QED BY <1>13, <2>1 DEF MessageCount
<1>14. ASSUME NEW c \in Client, PollNoRoom(c)
       PROVE  TypeOK'
  BY <1>14 DEF PollNoRoom
<1> QED BY <1>1, <1>2, <1>3, <1>4, <1>5, <1>6, <1>7, <1>8, <1>9, <1>10, <1>11, <1>12, <1>13,
           <1>14 DEF Next, ServerNext

LEMMA AddressedInductive ==
    ASSUME TypeOK, Addressed, [Next]_vars
    PROVE  Addressed'
<1> USE DEF TypeOK, Addressed, serverVars, clientVars, sessionVars, sentVars
<1>1. CASE UNCHANGED vars
  BY <1>1 DEF vars
<1>2. CASE ServerNext
  BY <1>2 DEF ServerNext, SendMessage, RefuseMessage, LoseMessage, RelayMessage, LoseRelay
<1>3. ASSUME NEW c \in Client, NEW s \in Server, ConnectToServer(c, s)
      PROVE  Addressed'
  BY <1>3 DEF ConnectToServer, NoCall
<1>4. ASSUME NEW c \in Client, NEW s \in Server, JoinCreatedRoom(c, s)
      PROVE  Addressed'
  BY <1>4 DEF JoinCreatedRoom, JoinReply
<1>5. ASSUME NEW c \in Client, Disconnect(c)
      PROVE  Addressed'
  BY <1>5 DEF Disconnect
<1>6. ASSUME NEW c \in Client, JoinRoom(c) \/ JoinMissingRoom(c) \/ GetMessages(c)
      PROVE  Addressed'
  BY <1>6 DEF JoinRoom, JoinReply, JoinMissingRoom, GetMessages, NoCall
<1>7. ASSUME NEW c \in Client, NEW m \in Message, SendMessageRPC(c, m)
      PROVE  Addressed'
  BY <1>7 DEF SendMessageRPC
<1>8. ASSUME NEW c \in Client, MessageCount(c) \/ PollNoRoom(c)
      PROVE  Addressed'
  BY <1>8 DEF MessageCount, PollNoRoom
<1> QED BY <1>1, <1>2, <1>3, <1>4, <1>5, <1>6, <1>7, <1>8 DEF Next

(* Every field holds what its Go type and its use allow, always.           *)
THEOREM TypeCorrect == Spec => []TypeOK
<1>1. Init => TypeOK /\ Addressed
  BY DEF Init, TypeOK, Addressed
<1>2. TypeOK /\ Addressed /\ [Next]_vars => (TypeOK /\ Addressed)'
  BY TypeOKInductive, AddressedInductive
<1> QED BY <1>1, <1>2, PTL DEF Spec

-----------------------------------------------------------------------------
(* EXACTLY ONCE.  A relay is never to the server that sends it: that one   *)
(* has stored the message before.                                          *)

RelaysElsewhere == \A m \in Message, t \in Server : <<m, t>> \in relays => t # origin[m]

DeliveryInv == TypeOK /\ Addressed /\ ExactlyOnce /\ RelaysElsewhere

LEMMA StoreFacts ==
    ASSUME TypeOK, NEW s \in Server, NEW m \in Message, AddMessage(s, m)
    PROVE  /\ \A t \in Server : Stored(t)' = IF t = s THEN Stored(t) \cup {m} ELSE Stored(t)
           /\ \A t \in Server : IsInjective(messages[t]) /\ (t = s => m \notin Stored(t))
                                    => IsInjective(messages'[t])
<1>1. messages[s] \in Seq(Message)
  BY DEF TypeOK
<1>2. /\ messages'[s] = Append(messages[s], m)
      /\ \A t \in Server \ {s} : messages'[t] = messages[t]
  BY DEF AddMessage, TypeOK
<1>3. Range(Append(messages[s], m)) = Range(messages[s]) \cup {m}
  BY <1>1, AppendFacts
<1>4. IsInjective(messages[s]) /\ m \notin Range(messages[s])
          => IsInjective(Append(messages[s], m))
  BY <1>1, AppendFacts
<1> QED BY <1>2, <1>3, <1>4 DEF Stored

(* Steps that move no message.                                             *)
LEMMA DeliveryUnmoved ==
    ASSUME DeliveryInv, UNCHANGED <<messages, sends, relays, origin, lost>>
    PROVE  ExactlyOnce' /\ RelaysElsewhere'
BY DEF DeliveryInv, ExactlyOnce, RelaysElsewhere, Due, OnItsWay, Stored

LEMMA DeliveryInductive ==
    ASSUME DeliveryInv, [Next]_vars
    PROVE  DeliveryInv'
<1> SUFFICES ExactlyOnce' /\ RelaysElsewhere'
  BY TypeOKInductive, AddressedInductive DEF DeliveryInv
<1> USE DEF serverVars, clientVars, sessionVars, sentVars
<1>1. ASSUME NEW m \in Message, SendMessage(m)
      PROVE  ExactlyOnce' /\ RelaysElsewhere'
  <2>1. /\ m \in sends /\ origin[m] \in Server
        /\ sends' = sends \ {m} /\ relays' = relays \cup ({m} \X (Server \ {origin[m]}))
        /\ AddMessage(origin[m], m)
        /\ UNCHANGED <<origin, lost>>
    BY <1>1 DEF SendMessage, OnMessageReceived, DeliveryInv, Addressed
  <2>2. OnItsWay(m, origin[m]) /\ m \notin Stored(origin[m]) /\ <<m, origin[m]>> \notin lost
    BY <2>1 DEF OnItsWay, DeliveryInv, ExactlyOnce
  <2>3. \A t \in Server \ {origin[m]} :
            /\ ~Due(m, t)
            /\ m \notin Stored(t) /\ ~OnItsWay(m, t) /\ <<m, t>> \notin lost
    BY <2>2 DEF DeliveryInv, ExactlyOnce, Due
  <2>4. /\ \A t \in Server : Stored(t)' = IF t = origin[m] THEN Stored(t) \cup {m} ELSE Stored(t)
        /\ \A t \in Server : IsInjective(messages'[t])
    BY <2>1, <2>2, StoreFacts DEF DeliveryInv, ExactlyOnce
  <2>5. RelaysElsewhere'
    BY <2>1 DEF DeliveryInv, RelaysElsewhere
  <2>6. ASSUME NEW x \in Message, NEW t \in Server
        PROVE  /\ OnItsWay(x, t)' <=> IF x = m THEN t # origin[m] ELSE OnItsWay(x, t)
               /\ Due(x, t)' <=> (x = m \/ Due(x, t))
    <3>1. CASE x = m
      <4>1. OnItsWay(m, t)' <=> t # origin[m]
        BY <2>1 DEF OnItsWay, DeliveryInv, RelaysElsewhere
      <4>2. Due(m, t)'
        BY <2>1, <2>4, ChatAssumption DEF Due
      <4> QED BY <3>1, <4>1, <4>2
    <3>2. CASE x # m
      BY <2>1, <2>4, <3>2 DEF OnItsWay, Due, DeliveryInv, TypeOK
    <3> QED BY <3>1, <3>2
  <2> QED BY <2>1, <2>2, <2>3, <2>4, <2>5, <2>6 DEF DeliveryInv, ExactlyOnce
<1>2. ASSUME NEW m \in Message, RefuseMessage(m) \/ LoseMessage(m)
      PROVE  ExactlyOnce' /\ RelaysElsewhere'
  <2>1. /\ m \in sends /\ sends' = sends \ {m} /\ lost' = lost \cup {<<m, origin[m]>>}
        /\ UNCHANGED <<messages, relays, origin>>
    BY <1>2 DEF RefuseMessage, LoseMessage
  <2> QED BY <2>1 DEF DeliveryInv, ExactlyOnce, RelaysElsewhere, Due, OnItsWay, Stored
<1>3. ASSUME NEW m \in Message, NEW t \in Server, RelayMessage(m, t)
      PROVE  ExactlyOnce' /\ RelaysElsewhere'
  <2>1. /\ <<m, t>> \in relays /\ relays' = relays \ {<<m, t>>}
        /\ AddMessage(t, m)
        /\ UNCHANGED <<sends, origin, lost>>
    BY <1>3 DEF RelayMessage
  <2>2. t # origin[m] /\ OnItsWay(m, t) /\ m \notin Stored(t)
    BY <2>1 DEF DeliveryInv, RelaysElsewhere, ExactlyOnce, OnItsWay
  <2>3. /\ \A s \in Server : Stored(s)' = IF s = t THEN Stored(s) \cup {m} ELSE Stored(s)
        /\ \A s \in Server : IsInjective(messages'[s])
    BY <2>1, <2>2, StoreFacts DEF DeliveryInv, ExactlyOnce
  <2>4. RelaysElsewhere'
    BY <2>1 DEF DeliveryInv, RelaysElsewhere
  <2>5. ASSUME NEW x \in Message, NEW s \in Server
        PROVE  /\ OnItsWay(x, s)' <=> OnItsWay(x, s) /\ <<x, s>> # <<m, t>>
               /\ Due(x, s)' <=> Due(x, s)
    <3>1. OnItsWay(x, s)' <=> OnItsWay(x, s) /\ <<x, s>> # <<m, t>>
      BY <2>1, <2>2 DEF OnItsWay
    <3>2. origin[x] \in Server => (x \in Stored(origin[x])' <=> x \in Stored(origin[x]))
      BY <2>1, <2>2, <2>3 DEF Stored
    <3>3. origin[x] \in Server \cup {NoServer} /\ origin'[x] = origin[x]
      BY <2>1 DEF DeliveryInv, TypeOK
    <3>4. Due(x, s)' <=> Due(x, s)
      BY <3>2, <3>3, <2>1 DEF Due, Stored
    <3> QED BY <3>1, <3>4
  <2> QED BY <2>1, <2>2, <2>3, <2>4, <2>5 DEF DeliveryInv, ExactlyOnce
<1>4. ASSUME NEW m \in Message, NEW t \in Server, LoseRelay(m, t)
      PROVE  ExactlyOnce' /\ RelaysElsewhere'
  <2>1. /\ <<m, t>> \in relays /\ relays' = relays \ {<<m, t>>}
        /\ lost' = lost \cup {<<m, t>>}
        /\ UNCHANGED <<messages, sends, origin>>
    BY <1>4 DEF LoseRelay
  <2> QED BY <2>1 DEF DeliveryInv, ExactlyOnce, RelaysElsewhere, Due, OnItsWay, Stored
<1>5. ASSUME NEW c \in Client, NEW m \in Message, SendMessageRPC(c, m)
      PROVE  ExactlyOnce' /\ RelaysElsewhere'
  <2>1. /\ origin[m] = NoServer /\ conn[c] \in Server
        /\ origin' = [origin EXCEPT ![m] = conn[c]] /\ sends' = sends \cup {m}
        /\ UNCHANGED <<messages, relays, lost>>
    BY <1>5 DEF SendMessageRPC, DeliveryInv, TypeOK
  <2>2. \A t \in Server : /\ ~Due(m, t) /\ m \notin Stored(t) /\ ~OnItsWay(m, t)
                          /\ <<m, t>> \notin lost /\ <<m, t>> \notin relays
    BY <2>1 DEF DeliveryInv, ExactlyOnce, Due, OnItsWay
  <2>3. RelaysElsewhere'
    BY <2>1, <2>2 DEF DeliveryInv, RelaysElsewhere, TypeOK
  <2>4. \A t \in Server : Stored(t)' = Stored(t)
    BY <2>1 DEF Stored
  <2>5. ASSUME NEW x \in Message, NEW t \in Server
        PROVE  /\ OnItsWay(x, t)' <=> IF x = m THEN t = conn[c] ELSE OnItsWay(x, t)
               /\ Due(x, t)' <=> IF x = m THEN t = conn[c] ELSE Due(x, t)
    <3>1. CASE x = m
      BY <2>1, <2>2, <2>4, <3>1, ChatAssumption DEF OnItsWay, Due, DeliveryInv, TypeOK
    <3>2. CASE x # m
      BY <2>1, <2>4, <3>2 DEF OnItsWay, Due, DeliveryInv, TypeOK, Stored
    <3> QED BY <3>1, <3>2
  <2> QED BY <2>1, <2>2, <2>3, <2>4, <2>5 DEF DeliveryInv, ExactlyOnce
<1>6. CASE UNCHANGED <<messages, sends, relays, origin, lost>>
  BY <1>6, DeliveryUnmoved
<1> QED
  BY <1>1, <1>2, <1>3, <1>4, <1>5, <1>6 DEF Next, ServerNext, vars, ConnectToServer,
     JoinCreatedRoom, CreateRoom, Disconnect, JoinRoom, JoinMissingRoom, GetMessages,
     MessageCount, PollNoRoom

LEMMA DeliveryInitially == Init => DeliveryInv
BY ChatAssumption
   DEF Init, DeliveryInv, TypeOK, Addressed, ExactlyOnce, RelaysElsewhere, Due, OnItsWay,
       Stored, IsInjective, Range

LEMMA DeliveryHolds == Spec => []DeliveryInv
BY DeliveryInitially, DeliveryInductive, PTL DEF Spec

(* A message reaches a server once, or is lost, and is never both,         *)
(* whatever relays, joins and abandoned calls race.                        *)
THEOREM ExactlyOnceHolds == Spec => []ExactlyOnce
<1>1. DeliveryInv => ExactlyOnce
  BY DEF DeliveryInv
<1> QED BY <1>1, DeliveryHolds, PTL

-----------------------------------------------------------------------------
(* NOTHING IS SKIPPED.  Between its two reads a poll has what its server   *)
(* had stored up to some k, and what has been stored since is late.        *)

Covered(c) ==
    /\ conn[c] \in Server
    /\ lastSeen[c] <= Len(messages[conn[c]])
    /\ \A i \in 1 .. lastSeen[c] : messages[conn[c]][i] \in Range(shown[c]) \cup late[c]

ReadUpTo(c, k) ==
    /\ result[c] = SubSeq(messages[conn[c]], lastSeen[c] + 1, k)
    /\ \A i \in k + 1 .. Len(messages[conn[c]]) : messages[conn[c]][i] \in late[c]

SessionInv ==
    /\ DeliveryInv
    /\ \A c \in inSession :
          /\ Covered(c)
          /\ c \in reading => \E k \in lastSeen[c] .. Len(messages[conn[c]]) : ReadUpTo(c, k)

LEMMA SliceOfAppend ==
    ASSUME NEW S, NEW q \in Seq(S), NEW x \in S, NEW a \in Nat, NEW b \in Nat, b <= Len(q)
    PROVE  SubSeq(Append(q, x), a + 1, b) = SubSeq(q, a + 1, b)
<1> DEFINE r == Append(q, x)
           u == SubSeq(r, a + 1, b)
           v == SubSeq(q, a + 1, b)
<1>1. /\ r \in Seq(S) /\ Len(r) = Len(q) + 1
      /\ \A i \in 1 .. Len(q) : r[i] = q[i]
  BY AppendFacts
<1>2. Len(q) \in Nat
  OBVIOUS
<1> HIDE DEF r
<1>3. /\ v \in Seq(S) /\ Len(v) = IF a <= b THEN b - a ELSE 0
      /\ \A i \in 1 .. Len(v) : v[i] = q[a + i]
  BY SliceFacts
<1>4. b <= Len(r)
  BY <1>1, <1>2
<1>5. /\ u \in Seq(S) /\ Len(u) = IF a <= b THEN b - a ELSE 0
      /\ \A i \in 1 .. Len(u) : u[i] = r[a + i]
  BY <1>1, <1>4, SliceFacts
<1> HIDE DEF u, v
<1>6. Len(u) = Len(v)
  BY <1>3, <1>5
<1>7. ASSUME NEW i \in 1 .. Len(u) PROVE u[i] = v[i]
  <2>1. a + i \in 1 .. Len(q)
    BY <1>2, <1>5
  <2>2. u[i] = r[a + i] /\ v[i] = q[a + i]
    BY <1>3, <1>5, <1>6
  <2> QED BY <1>1, <2>1, <2>2
<1> QED BY <1>3, <1>5, <1>6, <1>7, SeqEqual DEF r, u, v

LEMMA JoinFacts ==
    ASSUME NEW S, NEW p \in Seq(S), NEW q \in Seq(S)
    PROVE  p \o q \in Seq(S) /\ Range(p \o q) = Range(p) \cup Range(q)
<1> DEFINE r == p \o q
<1>1. /\ r \in Seq(S) /\ Len(r) = Len(p) + Len(q)
      /\ \A i \in 1 .. Len(p) + Len(q) : r[i] = IF i <= Len(p) THEN p[i] ELSE q[i - Len(p)]
  BY ConcatProperties
<1>2. /\ DOMAIN r = 1 .. Len(p) + Len(q) /\ DOMAIN p = 1 .. Len(p) /\ DOMAIN q = 1 .. Len(q)
      /\ Len(p) \in Nat /\ Len(q) \in Nat
  BY <1>1, LenProperties
<1> HIDE DEF r
<1>3. ASSUME NEW y \in Range(r) PROVE y \in Range(p) \cup Range(q)
  <2>1. PICK i \in 1 .. Len(p) + Len(q) : r[i] = y
    BY <1>2 DEF Range
  <2>2. CASE i <= Len(p)
    BY <1>1, <1>2, <2>1, <2>2 DEF Range
  <2>3. CASE ~(i <= Len(p))
    <3>1. i - Len(p) \in 1 .. Len(q) /\ q[i - Len(p)] = y
      BY <1>1, <1>2, <2>1, <2>3
    <3> QED BY <1>2, <3>1 DEF Range
  <2> QED BY <2>2, <2>3
<1>4. ASSUME NEW y \in Range(p) PROVE y \in Range(r)
  <2>1. PICK i \in 1 .. Len(p) : p[i] = y
    BY <1>2 DEF Range
  <2> QED BY <1>1, <1>2, <2>1 DEF Range
<1>5. ASSUME NEW y \in Range(q) PROVE y \in Range(r)
  <2>1. PICK i \in 1 .. Len(q) : q[i] = y
    BY <1>2 DEF Range
  <2>2. Len(p) + i \in 1 .. Len(p) + Len(q) /\ ~(Len(p) + i <= Len(p))
    BY <1>2
  <2>3. r[Len(p) + i] = q[Len(p) + i - Len(p)] /\ Len(p) + i - Len(p) = i
    BY <1>1, <1>2, <2>2
  <2> QED BY <1>2, <2>1, <2>2, <2>3 DEF Range
<1> QED BY <1>1, <1>3, <1>4, <1>5 DEF r

(* A client for which nothing has changed.                                 *)
SameFor(c) ==
    /\ messages' = messages
    /\ conn'[c] = conn[c] /\ lastSeen'[c] = lastSeen[c] /\ shown'[c] = shown[c]
    /\ late'[c] = late[c] /\ result'[c] = result[c]

LEMMA SessionUntouched ==
    ASSUME NEW c, SameFor(c)
    PROVE  /\ Covered(c) => Covered(c)'
           /\ lastSeen[c] .. Len(messages[conn[c]]) = (lastSeen[c] .. Len(messages[conn[c]]))'
           /\ \A k : ReadUpTo(c, k) => ReadUpTo(c, k)'
BY DEF SameFor, Covered, ReadUpTo

(* A message stored at s changes nothing for the cursors, and is late for  *)
(* the polls under way at s.                                               *)
LEMMA SessionsThroughAddMessage ==
    ASSUME SessionInv, NEW s \in Server, NEW m \in Message, AddMessage(s, m),
           UNCHANGED <<conn, lastSeen, reading, result, inSession, shown>>,
           NEW c \in inSession
    PROVE  /\ Covered(c)'
           /\ c \in reading => (\E k \in lastSeen[c] .. Len(messages[conn[c]]) : ReadUpTo(c, k))'
<1>1. /\ messages \in [Server -> Seq(Message)] /\ c \in Client /\ lastSeen[c] \in Nat
      /\ conn[c] \in Server /\ Covered(c)
  BY DEF SessionInv, DeliveryInv, TypeOK, Covered
<1>2. late[c] \subseteq late'[c]
  BY <1>1 DEF AddMessage
<1> DEFINE q == messages[conn[c]]
<1>3. q \in Seq(Message) /\ Len(q) \in Nat
  BY <1>1
<1>4. CASE conn[c] # s
  <2>1. messages'[conn[c]] = q /\ late'[c] = late[c]
    BY <1>1, <1>4 DEF AddMessage
  <2>2. Covered(c)'
    BY <1>1, <2>1 DEF Covered
  <2>3. ASSUME c \in reading
        PROVE  (\E k \in lastSeen[c] .. Len(messages[conn[c]]) : ReadUpTo(c, k))'
    <3>1. PICK k \in lastSeen[c] .. Len(messages[conn[c]]) : ReadUpTo(c, k)
      BY <2>3 DEF SessionInv
    <3> QED BY <2>1, <3>1 DEF ReadUpTo
  <2> QED BY <2>2, <2>3
<1>5. CASE conn[c] = s
  <2>1. messages'[conn[c]] = Append(q, m) /\ (c \in reading => m \in late'[c])
    BY <1>1, <1>5 DEF AddMessage
  <2>2. /\ Len(Append(q, m)) = Len(q) + 1
        /\ \A i \in 1 .. Len(q) : Append(q, m)[i] = q[i]
        /\ Append(q, m)[Len(q) + 1] = m
    BY <1>3, AppendFacts
  <2>3. Covered(c)'
    BY <1>1, <1>2, <1>3, <2>1, <2>2 DEF Covered
  <2>4. ASSUME c \in reading
        PROVE  (\E k \in lastSeen[c] .. Len(messages[conn[c]]) : ReadUpTo(c, k))'
    <3>1. PICK k \in lastSeen[c] .. Len(messages[conn[c]]) : ReadUpTo(c, k)
      BY <2>4 DEF SessionInv
    <3>2. k \in Nat /\ k <= Len(q)
      BY <1>1, <1>3
    <3>3. SubSeq(Append(q, m), lastSeen[c] + 1, k) = SubSeq(q, lastSeen[c] + 1, k)
      BY ZenonT(40), <1>1, <1>3, <3>2, SliceOfAppend
    <3>4. \A i \in k + 1 .. Len(q) + 1 : Append(q, m)[i] \in late'[c]
      BY <1>2, <1>3, <2>1, <2>2, <2>4, <3>1, <3>2 DEF ReadUpTo
    <3>5. ReadUpTo(c, k)'
      BY <2>1, <2>2, <3>1, <3>3, <3>4 DEF ReadUpTo
    <3>6. k \in lastSeen'[c] .. Len(messages'[conn'[c]])
      BY <1>1, <1>3, <2>1, <2>2, <3>2
    <3> QED BY <3>5, <3>6
  <2> QED BY <2>3, <2>4
<1> QED BY <1>4, <1>5

LEMMA SessionInductive ==
    ASSUME SessionInv, [Next]_vars
    PROVE  SessionInv'
<1> DEFINE Goal(c) == /\ Covered(c)
                      /\ c \in reading => \E k \in lastSeen[c] .. Len(messages[conn[c]]) : ReadUpTo(c, k)
<1>0. SessionInv <=> DeliveryInv /\ \A c \in inSession : Goal(c)
  BY DEF SessionInv
<1>1. DeliveryInv'
  BY DeliveryInductive DEF SessionInv
<1>2. TypeOK /\ Addressed
  BY DEF SessionInv, DeliveryInv
<1> SUFFICES ASSUME NEW d \in inSession' PROVE Goal(d)'
  BY <1>1 DEF SessionInv
<1> USE DEF serverVars, clientVars, sessionVars, sentVars
<1>3. d \in Client
  BY <1>1 DEF DeliveryInv, TypeOK
<1>4. ASSUME d \in inSession, SameFor(d), d \in reading' => d \in reading
      PROVE  Goal(d)'
  <2>1. Goal(d)
    BY <1>4 DEF SessionInv
  <2> QED BY <1>4, <2>1, SessionUntouched
<1>5. ASSUME NEW c \in Client, NEW s \in Server, d = c, c \notin reading', s = conn'[c],
             lastSeen'[c] = 0, UNCHANGED messages
      PROVE  Goal(d)'
  <2>1. Len(messages[s]) \in Nat
    BY <1>2 DEF TypeOK
  <2> QED BY <1>5, <2>1 DEF Covered
<1>6. ASSUME NEW s \in Server, NEW m \in Message, AddMessage(s, m),
             UNCHANGED <<conn, lastSeen, reading, result, inSession, shown>>
      PROVE  Goal(d)'
  BY <1>6, SessionsThroughAddMessage
<1>7. ASSUME NEW m \in Message, SendMessage(m)
      PROVE  Goal(d)'
  <2>1. origin[m] \in Server
    BY <1>2, <1>7 DEF SendMessage, Addressed
  <2> QED BY <1>6, <1>7, <2>1 DEF SendMessage
<1>8. ASSUME NEW m \in Message, NEW t \in Server, RelayMessage(m, t)
      PROVE  Goal(d)'
  BY <1>6, <1>8 DEF RelayMessage
<1>9. CASE UNCHANGED <<messages, conn, lastSeen, reading, result, inSession, shown, late>>
  BY <1>4, <1>9 DEF SameFor
<1>10. ASSUME NEW c \in Client, NEW s \in Server, ConnectToServer(c, s)
       PROVE  Goal(d)'
  <2>1. CASE d = c
    <3>1. lastSeen[c] = 0 /\ c \notin reading
      BY <1>2, <1>10, <2>1 DEF ConnectToServer, NoCall
    <3> QED BY <1>2, <1>5, <1>10, <2>1, <3>1 DEF ConnectToServer, TypeOK
  <2>2. CASE d # c
    BY <1>2, <1>3, <1>4, <1>10, <2>2 DEF ConnectToServer, ShowAfresh, SameFor, TypeOK
  <2> QED BY <2>1, <2>2
<1>11. ASSUME NEW c \in Client, JoinReply(c), c \notin reading, conn[c] \in Server,
              UNCHANGED <<messages, conn, reading, result>>
       PROVE  Goal(d)'
  <2>1. CASE d = c
    BY <1>2, <1>5, <1>11, <2>1 DEF JoinReply, TypeOK
  <2>2. CASE d # c
    BY <1>2, <1>3, <1>4, <1>11, <2>2 DEF JoinReply, ShowAfresh, SameFor, TypeOK
  <2> QED BY <2>1, <2>2
<1>12. ASSUME NEW c \in Client, NEW s \in Server, JoinCreatedRoom(c, s)
       PROVE  Goal(d)'
  <2>1. CASE c \in joining /\ conn[c] = s /\ JoinReply(c)
    BY <1>2, <1>11, <1>12, <2>1 DEF JoinCreatedRoom, CreateRoom, Addressed
  <2>2. CASE UNCHANGED <<joining, lastSeen, sessionVars>>
    BY <1>9, <1>12, <2>2 DEF JoinCreatedRoom, CreateRoom
  <2> QED BY <1>12, <2>1, <2>2 DEF JoinCreatedRoom
<1>13. ASSUME NEW c \in Client, JoinRoom(c)
       PROVE  Goal(d)'
  BY <1>2, <1>11, <1>13 DEF JoinRoom, NoCall, TypeOK
<1>14. ASSUME NEW c \in Client, Disconnect(c)
       PROVE  Goal(d)'
  BY <1>2, <1>3, <1>4, <1>14 DEF Disconnect, ShowAfresh, SameFor, TypeOK
<1>15. ASSUME NEW c \in Client, GetMessages(c)
       PROVE  Goal(d)'
  <2>1. CASE d = c
    <3>1. Covered(c) /\ lastSeen[c] \in Nat /\ Len(messages[conn[c]]) \in Nat
      BY <1>2, <1>15, <2>1 DEF GetMessages, SessionInv, Covered, TypeOK
    <3>2. Covered(c)'
      BY <1>15, <3>1 DEF GetMessages, Covered
    <3>3. result'[c] = SubSeq(messages[conn[c]], lastSeen[c] + 1, Len(messages[conn[c]]))
      BY <1>2, <1>15 DEF GetMessages, GetMessagesAfter, TypeOK
    <3>4. ReadUpTo(c, Len(messages[conn[c]]))'
      BY <1>15, <3>1, <3>3 DEF GetMessages, ReadUpTo
    <3>5. Len(messages'[conn'[c]]) \in lastSeen'[c] .. Len(messages'[conn'[c]])
      BY <1>15, <3>1 DEF GetMessages, Covered
    <3> QED BY <1>15, <2>1, <3>2, <3>4, <3>5 DEF GetMessages
  <2>2. CASE d # c
    BY <1>2, <1>3, <1>4, <1>15, <2>2 DEF GetMessages, SameFor, TypeOK
  <2> QED BY <2>1, <2>2
<1>16. ASSUME NEW c \in Client, MessageCount(c)
       PROVE  Goal(d)'
  <2>1. CASE d = c
    <3> DEFINE q == messages[conn[c]]
    <3>1. /\ Covered(c) /\ lastSeen[c] \in Nat
          /\ q \in Seq(Message) /\ Len(q) \in Nat
          /\ shown[c] \in Seq(Message) /\ result[c] \in Seq(Message)
      BY <1>2, <1>16, <2>1 DEF MessageCount, SessionInv, Covered, TypeOK
    <3>2. PICK k \in lastSeen[c] .. Len(messages[conn[c]]) : ReadUpTo(c, k)
      BY <1>16, <2>1 DEF MessageCount, SessionInv
    <3>3. k \in Nat /\ lastSeen[c] <= k /\ k <= Len(q)
      BY <3>1
    <3>4. /\ Len(result[c]) = k - lastSeen[c]
          /\ \A i \in 1 .. Len(result[c]) : result[c][i] = q[lastSeen[c] + i]
      <4>1. result[c] = SubSeq(q, lastSeen[c] + 1, k)
        BY <3>2 DEF ReadUpTo
      <4> HIDE DEF q
      <4>2. /\ Len(SubSeq(q, lastSeen[c] + 1, k)) = IF lastSeen[c] <= k THEN k - lastSeen[c] ELSE 0
            /\ \A i \in 1 .. Len(SubSeq(q, lastSeen[c] + 1, k)) :
                  SubSeq(q, lastSeen[c] + 1, k)[i] = q[lastSeen[c] + i]
        BY SMTT(30), <3>1, <3>3, SliceFacts
      <4> QED BY <3>3, <4>1, <4>2
    <3>5. /\ messages' = messages /\ conn' = conn /\ lastSeen'[c] = Len(q)
          /\ shown'[c] = shown[c] \o result[c] /\ late' = late /\ c \notin reading'
      BY <1>2, <1>16 DEF MessageCount, TypeOK
    <3>6. Range(shown'[c]) = Range(shown[c]) \cup Range(result[c])
      BY <3>1, <3>5, JoinFacts
    <3>7. ASSUME NEW i \in 1 .. Len(q)
          PROVE  q[i] \in Range(shown'[c]) \cup late[c]
      <4>1. CASE i <= lastSeen[c]
        BY <3>1, <3>6, <4>1 DEF Covered
      <4>2. CASE lastSeen[c] < i /\ i <= k
        <5>1. i - lastSeen[c] \in 1 .. Len(result[c]) /\ lastSeen[c] + (i - lastSeen[c]) = i
          BY <3>1, <3>3, <3>4, <4>2
        <5>2. result[c][i - lastSeen[c]] = q[i]
          BY <3>4, <5>1
        <5>3. DOMAIN result[c] = 1 .. Len(result[c])
          BY <3>1
        <5>4. q[i] \in Range(result[c])
          BY <5>1, <5>2, <5>3 DEF Range
        <5> QED BY <3>6, <5>4
      <4>3. CASE k < i
        BY SMTT(30), <3>1, <3>2, <3>3, <4>3 DEF ReadUpTo
      <4> QED BY <3>1, <3>3, <4>1, <4>2, <4>3
    <3> QED BY <2>1, <3>1, <3>5, <3>7 DEF Covered
  <2>2. CASE d # c
    BY <1>2, <1>3, <1>4, <1>16, <2>2 DEF MessageCount, SameFor, TypeOK
  <2> QED BY <2>1, <2>2
<1>17. ASSUME NEW c \in Client, PollNoRoom(c)
       PROVE  Goal(d)'
  <2>1. CASE d = c
    BY <1>2, <1>5, <1>17, <2>1 DEF PollNoRoom, NoCall, TypeOK
  <2>2. CASE d # c
    BY <1>2, <1>3, <1>4, <1>17, <2>2 DEF PollNoRoom, SameFor, TypeOK
  <2> QED BY <2>1, <2>2
<1> QED
  BY <1>7, <1>8, <1>9, <1>10, <1>12, <1>13, <1>14, <1>15, <1>16, <1>17
     DEF Next, ServerNext, vars, RefuseMessage, LoseMessage, LoseRelay, JoinMissingRoom,
         SendMessageRPC

LEMMA SessionsHold == Spec => []SessionInv
<1>1. Init => SessionInv
  BY DeliveryInitially DEF Init, SessionInv
<1> QED BY <1>1, SessionInductive, PTL DEF Spec

(* What a session's cursor has passed has been shown or came between two   *)
(* reads of a poll, whichever servers it has been to before.               *)
THEOREM NothingSkippedHolds == Spec => []NothingSkipped
<1>1. SessionInv => NothingSkipped
  BY DEF SessionInv, NothingSkipped, Covered
<1> QED BY <1>1, SessionsHold, PTL

-----------------------------------------------------------------------------
(* ANSWERS.  What a client is shown is stored at its server and, as it is  *)
(* relayed only from there, at the server it was sent to.                  *)

Seen(c) == Range(shown[c]) \cup IF c \in reading THEN Range(result[c]) ELSE {}

ShownStored ==
    \A c \in Client : Seen(c) # {} => conn[c] \in Server /\ Seen(c) \subseteq Stored(conn[c])

AnswersStored ==
    \A p \in answers : \A s \in {origin[p[1]], origin[p[2]]} : s \in Server /\ p[1] \in Stored(s)

AnswerInv == DeliveryInv /\ ShownStored /\ AnswersStored /\ AnswersFollow

LEMMA RangeOfEmpty == Range(<<>>) = {}
BY DEF Range

LEMMA AnswersThroughAddMessage ==
    ASSUME AnswerInv, NEW s \in Server, NEW m \in Message, AddMessage(s, m),
           UNCHANGED <<conn, reading, result, shown, origin, answers>>
    PROVE  ShownStored' /\ AnswersStored' /\ AnswersFollow'
<1>1. TypeOK /\ ShownStored /\ AnswersStored /\ AnswersFollow
  BY DEF AnswerInv, DeliveryInv
<1>2. \A t \in Server : Stored(t)' = IF t = s THEN Stored(t) \cup {m} ELSE Stored(t)
  BY <1>1, StoreFacts
<1>3. ShownStored'
  BY <1>1, <1>2 DEF ShownStored, Stored, Seen
<1>4. AnswersStored'
  BY <1>1, <1>2 DEF AnswersStored, Stored
<1>5. ASSUME NEW p \in answers, NEW t \in {origin[p[1]], origin[p[2]]},
             NEW j \in DOMAIN messages'[t], messages'[t][j] = p[2]
      PROVE  \E i \in 1 .. (j - 1) : messages'[t][i] = p[1]
  <2>1. t \in Server /\ p[1] \in Stored(t)
    BY <1>1, <1>5 DEF AnswersStored
  <2>2. CASE t # s
    <3>1. messages'[t] = messages[t]
      BY <1>1, <2>1, <2>2 DEF AddMessage, TypeOK
    <3> QED BY <1>1, <1>5, <3>1 DEF AnswersFollow
  <2>3. CASE t = s
    <3> DEFINE q == messages[s]
               r == Append(q, m)
    <3>1. q \in Seq(Message) /\ messages'[t] = r
      BY <1>1, <2>1, <2>3 DEF AddMessage, TypeOK
    <3>2. /\ r \in Seq(Message) /\ Len(r) = Len(q) + 1
          /\ \A i \in 1 .. Len(q) : r[i] = q[i]
      BY <3>1, AppendFacts
    <3>3. DOMAIN q = 1 .. Len(q) /\ DOMAIN r = 1 .. Len(q) + 1 /\ Len(q) \in Nat
      BY <3>1, <3>2, LenProperties
    <3> HIDE DEF r
    <3>4. CASE j \in 1 .. Len(q)
      <4>1. q[j] = p[2]
        BY <1>5, <3>1, <3>2, <3>4
      <4>2. PICK i \in 1 .. (j - 1) : q[i] = p[1]
        BY <1>1, <1>5, <2>3, <3>3, <3>4, <4>1 DEF AnswersFollow
      <4>3. i \in 1 .. Len(q)
        BY <3>3, <3>4
      <4> QED BY <3>1, <3>2, <4>2, <4>3
    <3>5. CASE j = Len(q) + 1
      <4>1. PICK i \in 1 .. Len(q) : q[i] = p[1]
        BY <2>1, <2>3, <3>3 DEF Stored, Range
      <4>2. i \in 1 .. (j - 1)
        BY <3>3, <3>5
      <4> QED BY <3>1, <3>2, <4>1, <4>2
    <3> QED BY <1>5, <3>1, <3>3, <3>4, <3>5
  <2> QED BY <2>2, <2>3
<1>6. AnswersFollow'
  BY <1>5 DEF AnswersFollow
<1> QED BY <1>3, <1>4, <1>6

LEMMA AnswerInductive ==
    ASSUME AnswerInv, [Next]_vars
    PROVE  AnswerInv'
<1>1. /\ TypeOK /\ Addressed /\ ExactlyOnce
      /\ ShownStored /\ AnswersStored /\ AnswersFollow
  BY DEF AnswerInv, DeliveryInv
<1> SUFFICES ShownStored' /\ AnswersStored' /\ AnswersFollow'
  BY DeliveryInductive DEF AnswerInv
<1> USE DEF serverVars, clientVars, sessionVars, sentVars
<1>2. ASSUME NEW m \in Message, SendMessage(m)
      PROVE  ShownStored' /\ AnswersStored' /\ AnswersFollow'
  <2>1. origin[m] \in Server
    BY <1>1, <1>2 DEF SendMessage, Addressed
  <2> QED BY <1>2, <2>1, AnswersThroughAddMessage DEF SendMessage
<1>3. ASSUME NEW m \in Message, NEW t \in Server, RelayMessage(m, t)
      PROVE  ShownStored' /\ AnswersStored' /\ AnswersFollow'
  BY <1>3, AnswersThroughAddMessage DEF RelayMessage
<1>4. CASE UNCHANGED <<messages, origin, answers>> /\ ShownStored'
  BY <1>1, <1>4 DEF AnswersStored, AnswersFollow, Stored
<1>5. ASSUME UNCHANGED <<messages, origin, answers>>,
             \A d \in Client : Seen(d)' = {} \/ (Seen(d)' = Seen(d) /\ conn'[d] = conn[d])
      PROVE  ShownStored' /\ AnswersStored' /\ AnswersFollow'
  <2>1. ShownStored'
    BY <1>1, <1>5 DEF ShownStored, Stored
  <2> QED BY <1>4, <1>5, <2>1
<1>6. CASE UNCHANGED <<messages, conn, reading, result, shown, origin, answers>>
  BY <1>5, <1>6 DEF Seen
<1>7. ASSUME NEW c \in Client, shown' = [shown EXCEPT ![c] = <<>>], c \notin reading',
             result' = result \/ result' = [result EXCEPT ![c] = <<>>],
             reading' = reading \ {c},
             \A d \in Client \ {c} : conn'[d] = conn[d],
             UNCHANGED <<messages, origin, answers>>
      PROVE  ShownStored' /\ AnswersStored' /\ AnswersFollow'
  <2>1. Seen(c)' = {}
    BY <1>1, <1>7, RangeOfEmpty DEF Seen, TypeOK
  <2>2. \A d \in Client \ {c} : Seen(d)' = Seen(d)
    BY <1>1, <1>7 DEF Seen, TypeOK
  <2> QED BY <1>5, <1>7, <2>1, <2>2
<1>8. ASSUME NEW c \in Client, NEW s \in Server, ConnectToServer(c, s)
      PROVE  ShownStored' /\ AnswersStored' /\ AnswersFollow'
  <2>1. c \notin reading /\ reading' = reading /\ result' = result
    BY <1>8 DEF ConnectToServer, NoCall
  <2>2. \A d \in Client \ {c} : conn'[d] = conn[d]
    BY <1>1, <1>8 DEF ConnectToServer, TypeOK
  <2> QED BY <1>7, <1>8, <2>1, <2>2 DEF ConnectToServer, ShowAfresh
<1>9. ASSUME NEW c \in Client, NEW s \in Server, JoinCreatedRoom(c, s)
      PROVE  ShownStored' /\ AnswersStored' /\ AnswersFollow'
  <2>1. CASE c \in joining /\ JoinReply(c)
    BY <1>1, <1>7, <1>9, <2>1 DEF JoinCreatedRoom, CreateRoom, JoinReply, ShowAfresh, Addressed
  <2>2. CASE UNCHANGED <<joining, lastSeen, sessionVars>>
    BY <1>6, <1>9, <2>2 DEF JoinCreatedRoom, CreateRoom
  <2> QED BY <1>9, <2>1, <2>2 DEF JoinCreatedRoom
<1>10. ASSUME NEW c \in Client, JoinRoom(c)
       PROVE  ShownStored' /\ AnswersStored' /\ AnswersFollow'
  BY <1>1, <1>7, <1>10 DEF JoinRoom, JoinReply, ShowAfresh, NoCall
<1>11. ASSUME NEW c \in Client, Disconnect(c)
       PROVE  ShownStored' /\ AnswersStored' /\ AnswersFollow'
  BY <1>1, <1>7, <1>11 DEF Disconnect, ShowAfresh, TypeOK
<1>12. ASSUME NEW c \in Client, GetMessages(c)
       PROVE  ShownStored' /\ AnswersStored' /\ AnswersFollow'
  <2>1. conn[c] \in Server /\ messages[conn[c]] \in Seq(Message) /\ lastSeen[c] \in Nat
    BY <1>1, <1>12 DEF GetMessages, TypeOK
  <2>2. Range(GetMessagesAfter(conn[c], lastSeen[c])) \subseteq Stored(conn[c])
    <3> DEFINE q == messages[conn[c]]
               u == SubSeq(q, lastSeen[c] + 1, Len(q))
    <3>1. q \in Seq(Message) /\ Len(q) \in Nat /\ DOMAIN q = 1 .. Len(q)
      BY <2>1
    <3> HIDE DEF q
    <3>2. /\ u \in Seq(Message)
          /\ Len(u) = IF lastSeen[c] <= Len(q) THEN Len(q) - lastSeen[c] ELSE 0
          /\ \A i \in 1 .. Len(u) : u[i] = q[lastSeen[c] + i]
      <4>1. Len(q) <= Len(q)
        BY <3>1
      <4> HIDE DEF u
      <4>2. u = SubSeq(q, lastSeen[c] + 1, Len(q))
        BY DEF u
      <4>3. /\ SubSeq(q, lastSeen[c] + 1, Len(q)) \in Seq(Message)
            /\ Len(SubSeq(q, lastSeen[c] + 1, Len(q)))
                  = IF lastSeen[c] <= Len(q) THEN Len(q) - lastSeen[c] ELSE 0
            /\ \A i \in 1 .. Len(SubSeq(q, lastSeen[c] + 1, Len(q))) :
                  SubSeq(q, lastSeen[c] + 1, Len(q))[i] = q[lastSeen[c] + i]
        BY SMTT(30), <2>1, <3>1, <4>1, SliceFacts
      <4> QED BY <4>2, <4>3
    <3>3. DOMAIN u = 1 .. Len(u)
      BY <3>2, LenProperties
    <3> HIDE DEF u
    <3>4. ASSUME NEW i \in 1 .. Len(u) PROVE u[i] \in Range(q)
      <4>1. lastSeen[c] + i \in 1 .. Len(q)
        BY <2>1, <3>1, <3>2
      <4> QED BY <3>1, <3>2, <4>1 DEF Range
    <3>5. Range(u) \subseteq Range(q)
      BY <3>3, <3>4 DEF Range
    <3> QED BY <3>5 DEF GetMessagesAfter, Stored, u, q
  <2>3. Seen(c)' \subseteq Stored(conn[c])
    <3>1. Seen(c)' = Range(shown[c]) \cup Range(GetMessagesAfter(conn[c], lastSeen[c]))
      BY <1>1, <1>12 DEF GetMessages, Seen, TypeOK
    <3> QED BY <1>1, <2>2, <3>1 DEF ShownStored, Seen
  <2>4. \A d \in Client \ {c} : Seen(d)' = Seen(d)
    BY <1>1, <1>12 DEF GetMessages, Seen, TypeOK
  <2>5. ShownStored'
    BY <1>1, <1>12, <2>1, <2>3, <2>4 DEF GetMessages, ShownStored, Stored
  <2> QED BY <1>4, <1>12, <2>5 DEF GetMessages
<1>13. ASSUME NEW c \in Client, MessageCount(c)
       PROVE  ShownStored' /\ AnswersStored' /\ AnswersFollow'
  <2>1. Seen(c)' = Seen(c)
    <3>1. Range(shown[c] \o result[c]) = Range(shown[c]) \cup Range(result[c])
      BY <1>1, JoinFacts DEF TypeOK
    <3> QED BY <1>1, <1>13, <3>1 DEF MessageCount, Seen, TypeOK
  <2>2. \A d \in Client \ {c} : Seen(d)' = Seen(d)
    BY <1>1, <1>13 DEF MessageCount, Seen, TypeOK
  <2> QED BY <1>5, <1>13, <2>1, <2>2 DEF MessageCount
<1>14. ASSUME NEW c \in Client, NEW m \in Message, SendMessageRPC(c, m)
       PROVE  ShownStored' /\ AnswersStored' /\ AnswersFollow'
  <2>1. /\ origin[m] = NoServer /\ conn[c] \in Server
        /\ origin' = [origin EXCEPT ![m] = conn[c]]
        /\ answers' = answers \cup (Range(shown[c]) \X {m})
        /\ UNCHANGED <<messages, conn, reading, result, shown>>
    BY <1>1, <1>14 DEF SendMessageRPC, TypeOK
  <2>2. \A t \in Server : m \notin Stored(t)
    BY <1>1, <2>1 DEF ExactlyOnce, Due
  <2>3. \A x \in Message : (\E t \in Server : x \in Stored(t)) =>
            /\ origin[x] \in Server /\ x \in Stored(origin[x])
            /\ x # m /\ origin'[x] = origin[x]
    BY <1>1, <2>1, <2>2, ChatAssumption DEF ExactlyOnce, Due, TypeOK
  <2>4. ShownStored'
    BY <1>1, <2>1 DEF ShownStored, Seen, Stored
  <2>5. ASSUME NEW p \in answers
        PROVE  /\ origin'[p[1]] = origin[p[1]] /\ origin'[p[2]] = origin[p[2]]
    <3>1. p[1] \in Message /\ p[2] \in Message
      BY <1>1 DEF TypeOK
    <3>2. origin[p[1]] \in Server /\ origin[p[2]] \in Server
      BY <1>1 DEF AnswersStored
    <3> QED BY <1>1, <2>1, <3>1, <3>2, ChatAssumption DEF TypeOK
  <2>6. ASSUME NEW x \in Range(shown[c])
        PROVE  \A s \in {origin'[x], origin'[m]} : s \in Server /\ x \in Stored(s)
    <3>1. x \in Stored(conn[c])
      BY <1>1 DEF ShownStored, Seen
    <3>2. messages[conn[c]] \in Seq(Message)
      BY <1>1, <2>1 DEF TypeOK
    <3>3. x \in Message
      BY <3>1, <3>2 DEF Stored, Range
    <3>4. origin'[x] = origin[x] /\ origin[x] \in Server /\ x \in Stored(origin[x])
      BY <2>1, <2>3, <3>1, <3>3
    <3>5. origin'[m] = conn[c]
      BY <1>1, <2>1 DEF TypeOK
    <3> QED BY <2>1, <3>1, <3>4, <3>5
  <2>7. ASSUME NEW p \in answers'
        PROVE  \/ p \in answers
               \/ p[1] \in Range(shown[c]) /\ p[2] = m
    BY <2>1
  <2>8. AnswersStored'
    <3>1. \A p \in answers' : \A s \in {origin'[p[1]], origin'[p[2]]} :
              s \in Server /\ p[1] \in Stored(s)
      BY <1>1, <2>5, <2>6, <2>7 DEF AnswersStored
    <3> QED BY <2>1, <3>1 DEF AnswersStored, Stored
  <2>9. ASSUME NEW p \in answers', NEW s \in {origin'[p[1]], origin'[p[2]]},
               NEW j \in DOMAIN messages[s], messages[s][j] = p[2]
        PROVE  \E i \in 1 .. (j - 1) : messages[s][i] = p[1]
    <3>1. CASE p \in answers
      BY <1>1, <2>5, <2>9, <3>1 DEF AnswersFollow
    <3>2. CASE p[1] \in Range(shown[c]) /\ p[2] = m
      <4>1. s \in Server
        BY <2>6, <3>2
      <4> QED BY <2>2, <2>9, <3>2, <4>1 DEF Stored, Range
    <3> QED BY <2>7, <3>1, <3>2
  <2>10. AnswersFollow'
    BY <2>1, <2>9 DEF AnswersFollow
  <2> QED BY <2>4, <2>8, <2>10
<1> QED
  BY <1>2, <1>3, <1>6, <1>8, <1>9, <1>10, <1>11, <1>12, <1>13, <1>14
     DEF Next, ServerNext, vars, RefuseMessage, LoseMessage, LoseRelay, JoinMissingRoom,
         PollNoRoom

LEMMA AnswersHold == Spec => []AnswerInv
<1>1. Init => ShownStored /\ AnswersStored /\ AnswersFollow
  BY RangeOfEmpty DEF Init, ShownStored, Seen, AnswersStored, AnswersFollow
<1>2. Init => AnswerInv
  BY <1>1, DeliveryInitially DEF AnswerInv
<1> QED BY <1>2, AnswerInductive, PTL DEF Spec

(* A message sent by a client that had been shown x comes after x, at its  *)
(* own server and at that of x, in whatever order relays arrive.           *)
THEOREM AnswersFollowHolds == Spec => []AnswersFollow
<1>1. AnswerInv => AnswersFollow
  BY DEF AnswerInv
<1> QED BY <1>1, AnswersHold, PTL

-----------------------------------------------------------------------------
(* THE REFINEMENT.  A session is what its server's feed has been read to   *)
(* by a client whose cursor counts that server's messages.                 *)

EmptyWithoutRoom == \A s \in Server \ hasRoom : messages[s] = <<>>

FeedInv == SessionInv /\ EmptyWithoutRoom

LEMMA FeedInvInductive ==
    ASSUME FeedInv, [Next]_vars
    PROVE  FeedInv'
<1> SUFFICES EmptyWithoutRoom'
  BY SessionInductive DEF FeedInv
<1> USE DEF FeedInv, EmptyWithoutRoom, serverVars
<1>1. messages \in [Server -> Seq(Message)] /\ hasRoom \subseteq Server
  BY DEF SessionInv, DeliveryInv, TypeOK
<1>2. ASSUME NEW s \in hasRoom, NEW m \in Message, AddMessage(s, m), UNCHANGED hasRoom
      PROVE  EmptyWithoutRoom'
  BY <1>1, <1>2 DEF AddMessage
<1>3. ASSUME NEW m \in Message, SendMessage(m)
      PROVE  EmptyWithoutRoom'
  BY <1>2, <1>3 DEF SendMessage
<1>4. ASSUME NEW m \in Message, NEW t \in Server, RelayMessage(m, t)
      PROVE  EmptyWithoutRoom'
  BY <1>2, <1>4 DEF RelayMessage
<1>5. CASE messages' = messages /\ hasRoom \subseteq hasRoom'
  BY <1>5
<1> QED
  BY <1>3, <1>4, <1>5
     DEF Next, ServerNext, vars, RefuseMessage, LoseMessage, LoseRelay, ConnectToServer,
         JoinCreatedRoom, CreateRoom, Disconnect, JoinRoom, JoinMissingRoom, SendMessageRPC,
         GetMessages, MessageCount, PollNoRoom

NextOf(c)  == IF c \in inSession THEN lastSeen[c] ELSE 0
ShownTo(c) == IF c \in inSession THEN shown[c] ELSE <<>>

LEMMA FeedStutters ==
    ASSUME UNCHANGED <<messages, conn, inSession>>,
           \A c \in inSession : lastSeen'[c] = lastSeen[c] /\ shown'[c] = shown[c]
    PROVE  UNCHANGED FeedOfServers!feedVars
BY DEF FeedOfServers!feedVars, SessionOf

LEMMA FeedPublishes ==
    ASSUME DeliveryInv, NEW s \in Server, NEW m \in Message, m \notin Stored(s), AddMessage(s, m),
           UNCHANGED <<conn, lastSeen, inSession, shown>>
    PROVE  FeedOfServers!FeedNext
<1>1. FeedOfServers!Publish(s, m)
  BY DEF FeedOfServers!Publish, FeedOfServers!Range, AddMessage, Stored, Range, SessionOf
<1> QED BY <1>1 DEF FeedOfServers!FeedNext

LEMMA FeedTurns ==
    ASSUME DeliveryInv, NEW c \in Client, UNCHANGED messages,
           \A d \in Client \ {c} : /\ SessionOf(d)' = SessionOf(d)
                                   /\ NextOf(d)' = NextOf(d) /\ ShownTo(d)' = ShownTo(d),
           SessionOf(c)' \in Server \cup {NoServer}, NextOf(c)' = 0, ShownTo(c)' = <<>>
    PROVE  FeedOfServers!FeedNext
<1>1. PICK s \in Server \cup {NoServer} : SessionOf(c)' = s
  OBVIOUS
<1>2. FeedOfServers!Turn(c, s)
  <2>1. [d \in Client |-> SessionOf(d)]' = [[d \in Client |-> SessionOf(d)] EXCEPT ![c] = s]
    BY <1>1
  <2>2. [d \in Client |-> NextOf(d)]' = [[d \in Client |-> NextOf(d)] EXCEPT ![c] = 0]
    OBVIOUS
  <2>3. [d \in Client |-> ShownTo(d)]' = [[d \in Client |-> ShownTo(d)] EXCEPT ![c] = <<>>]
    OBVIOUS
  <2> QED BY <2>1, <2>2, <2>3 DEF FeedOfServers!Turn, NextOf, ShownTo
<1> QED BY <1>2 DEF FeedOfServers!FeedNext

LEMMA FeedIsPolled ==
    ASSUME SessionInv, NEW c \in Client, MessageCount(c)
    PROVE  FeedOfServers!FeedNext \/ UNCHANGED FeedOfServers!feedVars
<1>1. TypeOK
  BY DEF SessionInv, DeliveryInv
<1> USE DEF serverVars, clientVars, sessionVars, sentVars
<1>2. CASE c \notin inSession
  BY <1>1, <1>2, FeedStutters DEF MessageCount, TypeOK
<1>3. CASE c \in inSession
  <2> DEFINE q == messages[conn[c]]
  <2>1. /\ c \in reading /\ conn[c] \in Server /\ Len(q) \in Nat /\ lastSeen[c] \in Nat
        /\ lastSeen[c] <= Len(q)
    BY <1>1, <1>3 DEF MessageCount, SessionInv, Covered, TypeOK
  <2>2. PICK k \in lastSeen[c] .. Len(q) : ReadUpTo(c, k)
    BY <1>3, <2>1 DEF SessionInv
  <2>3. /\ SessionOf(c) = conn[c] /\ NextOf(c) = lastSeen[c] /\ ShownTo(c) = shown[c]
        /\ result[c] = SubSeq(q, lastSeen[c] + 1, k)
    BY <1>3, <2>2 DEF SessionOf, NextOf, ShownTo, ReadUpTo
  <2>4. PICK n \in Nat : n = Len(q)
    BY <2>1
  <2>5. FeedOfServers!Poll(c, k, n)
    <3>1. [d \in Client |-> SessionOf(d)]' = [d \in Client |-> SessionOf(d)]
      BY DEF MessageCount, SessionOf
    <3>2. [d \in Client |-> NextOf(d)]' = [[d \in Client |-> NextOf(d)] EXCEPT ![c] = n]
      BY <1>1, <1>3, <2>4 DEF MessageCount, NextOf, TypeOK
    <3>3. [d \in Client |-> ShownTo(d)]'
              = [[d \in Client |-> ShownTo(d)] EXCEPT ![c] = @ \o SubSeq(q, lastSeen[c] + 1, k)]
      BY <1>1, <1>3, <2>3 DEF MessageCount, ShownTo, TypeOK
    <3>4. /\ [d \in Client |-> SessionOf(d)][c] = conn[c]
          /\ [d \in Client |-> NextOf(d)][c] = lastSeen[c]
      BY <2>3
    <3> QED BY <3>1, <3>2, <3>3, <3>4 DEF FeedOfServers!Poll, MessageCount, NextOf, ShownTo
  <2>6. k \in lastSeen[c] .. Len(q) /\ n \in lastSeen[c] .. Len(q) /\ k <= n
    BY <2>1, <2>4
  <2>7. /\ [d \in Client |-> SessionOf(d)][c] = conn[c]
        /\ [d \in Client |-> NextOf(d)][c] = lastSeen[c]
    BY <2>3
  <2>8. \E i, j \in [d \in Client |-> NextOf(d)][c] .. Len(messages[[d \in Client |-> SessionOf(d)][c]]) :
            i <= j /\ FeedOfServers!Poll(c, i, j)
    <3> HIDE DEF q
    <3>1. \E i, j \in lastSeen[c] .. Len(q) : i <= j /\ FeedOfServers!Poll(c, i, j)
      BY <2>5, <2>6
    <3> QED BY <2>7, <3>1 DEF q
  <2> QED BY <2>1, <2>7, <2>8 DEF FeedOfServers!FeedNext, NextOf
<1> QED BY <1>2, <1>3

LEMMA FeedStep ==
    ASSUME FeedInv, FeedInv', [Next]_vars
    PROVE  [FeedOfServers!FeedNext]_FeedOfServers!feedVars
<1>1. /\ SessionInv /\ DeliveryInv /\ TypeOK /\ Addressed /\ TypeOK' /\ Addressed'
  BY DEF FeedInv, SessionInv, DeliveryInv
<1> USE DEF serverVars, clientVars, sessionVars, sentVars
<1>2. ASSUME NEW m \in Message, SendMessage(m)
      PROVE  FeedOfServers!FeedNext
  <2>1. origin[m] \in Server /\ m \notin Stored(origin[m])
    BY <1>1, <1>2 DEF SendMessage, Addressed, DeliveryInv, ExactlyOnce, OnItsWay
  <2> QED BY <1>1, <1>2, <2>1, FeedPublishes DEF SendMessage
<1>3. ASSUME NEW m \in Message, NEW t \in Server, RelayMessage(m, t)
      PROVE  FeedOfServers!FeedNext
  <2>1. m \notin Stored(t)
    BY <1>1, <1>3 DEF RelayMessage, DeliveryInv, ExactlyOnce, OnItsWay
  <2> QED BY <1>1, <1>3, <2>1, FeedPublishes DEF RelayMessage
<1>4. CASE UNCHANGED <<messages, conn, inSession, lastSeen, shown>>
  BY <1>4, FeedStutters
<1>5. ASSUME NEW c \in Client, UNCHANGED messages, shown' = [shown EXCEPT ![c] = <<>>],
             \A d \in Client \ {c} : /\ conn'[d] = conn[d] /\ lastSeen'[d] = lastSeen[d]
                                     /\ d \in inSession' <=> d \in inSession,
             c \in inSession' => lastSeen'[c] = 0
      PROVE  FeedOfServers!FeedNext
  <2>1. \A d \in Client \ {c} : /\ SessionOf(d)' = SessionOf(d)
                                /\ NextOf(d)' = NextOf(d) /\ ShownTo(d)' = ShownTo(d)
    BY <1>1, <1>5 DEF SessionOf, NextOf, ShownTo, TypeOK
  <2>2. NextOf(c)' = 0 /\ ShownTo(c)' = <<>>
    BY <1>1, <1>5 DEF NextOf, ShownTo, TypeOK
  <2>3. SessionOf(c)' \in Server \cup {NoServer}
    BY <1>1 DEF SessionOf, TypeOK
  <2> QED BY <1>1, <1>5, <2>1, <2>2, <2>3, FeedTurns
<1>6. ASSUME NEW c \in Client, NEW s \in Server, ConnectToServer(c, s)
      PROVE  FeedOfServers!FeedNext
  BY <1>1, <1>5, <1>6 DEF ConnectToServer, ShowAfresh, TypeOK
<1>7. ASSUME NEW c \in Client, JoinReply(c), UNCHANGED <<messages, conn>>
      PROVE  FeedOfServers!FeedNext
  BY <1>1, <1>5, <1>7 DEF JoinReply, ShowAfresh, TypeOK
<1>8. ASSUME NEW c \in Client, NEW s \in Server, JoinCreatedRoom(c, s)
      PROVE  [FeedOfServers!FeedNext]_FeedOfServers!feedVars
  BY <1>4, <1>7, <1>8 DEF JoinCreatedRoom, CreateRoom
<1>9. ASSUME NEW c \in Client, JoinRoom(c)
      PROVE  FeedOfServers!FeedNext
  BY <1>7, <1>9 DEF JoinRoom
<1>10. ASSUME NEW c \in Client, Disconnect(c)
       PROVE  FeedOfServers!FeedNext
  BY <1>1, <1>5, <1>10 DEF Disconnect, ShowAfresh, TypeOK
<1>11. ASSUME NEW c \in Client, MessageCount(c)
       PROVE  FeedOfServers!FeedNext \/ UNCHANGED FeedOfServers!feedVars
  BY <1>1, <1>11, FeedIsPolled
<1>12. ASSUME NEW c \in Client, PollNoRoom(c)
       PROVE  UNCHANGED FeedOfServers!feedVars
  <2>1. c \in inSession => lastSeen[c] = 0
    <3>1. Len(<<>>) = 0
      OBVIOUS
    <3> QED BY <1>1, <1>12, <3>1
            DEF PollNoRoom, FeedInv, EmptyWithoutRoom, SessionInv, Covered, TypeOK
  <2> QED BY <1>1, <1>12, <2>1, FeedStutters DEF PollNoRoom, TypeOK
<1> QED
  BY <1>2, <1>3, <1>4, <1>6, <1>8, <1>9, <1>10, <1>11, <1>12
     DEF Next, ServerNext, vars, RefuseMessage, LoseMessage, LoseRelay, JoinMissingRoom,
         GetMessages, SendMessageRPC

(* The servers, their relays and their clients' polls implement the feeds: *)
(* nothing is forgotten, repeated or shown out of order.                   *)
THEOREM ChatImplementsFeed == Spec => ImplementsFeed
<1>1. Init => FeedInv
  BY DeliveryInitially DEF Init, FeedInv, SessionInv, EmptyWithoutRoom
<1>2. Init => FeedOfServers!FeedInit
  BY DEF Init, FeedOfServers!FeedInit, SessionOf
<1>3. FeedInv /\ [Next]_vars => FeedInv'
  BY FeedInvInductive
<1>4. FeedInv /\ FeedInv' /\ [Next]_vars => [FeedOfServers!FeedNext]_FeedOfServers!feedVars
  BY FeedStep
<1> QED BY <1>1, <1>2, <1>3, <1>4, PTL DEF Spec, ImplementsFeed, FeedOfServers!FeedSpec
=============================================================================
