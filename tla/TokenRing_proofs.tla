-------------------------- MODULE TokenRing_proofs --------------------------
(***************************************************************************)
(* Proofs about TokenRing for every number of nodes, every set of clients, *)
(* every int width and every number of kills.                              *)
(***************************************************************************)
EXTENDS TokenRing, Integers, TLAPS

LEMMA SliceSeq ==
    ASSUME NEW S, NEW s \in Seq(S), NEW a \in 1 .. Len(s) + 1, NEW b \in 0 .. Len(s), a <= b + 1
    PROVE  SubSeq(s, a, b) \in Seq(S) /\ Len(SubSeq(s, a, b)) = b - a + 1
OBVIOUS

(* Removing any element of a sequence leaves a sequence over the same set, *)
(* shorter by one.                                                         *)
LEMMA RemoveAtSeq ==
    ASSUME NEW S, NEW s \in Seq(S), NEW i \in DOMAIN s
    PROVE  /\ RemoveAt(s, i) \in Seq(S)
           /\ Len(RemoveAt(s, i)) = Len(s) - 1
<1>1. i \in 1 .. Len(s) /\ Len(s) \in Nat
  OBVIOUS
<1>2. SubSeq(s, 1, i - 1) \in Seq(S) /\ Len(SubSeq(s, 1, i - 1)) = i - 1
  BY <1>1, SliceSeq
<1>3. SubSeq(s, i + 1, Len(s)) \in Seq(S) /\ Len(SubSeq(s, i + 1, Len(s))) = Len(s) - i
  BY <1>1, SliceSeq
<1>4. PICK u \in Seq(S) : u = SubSeq(s, 1, i - 1) /\ Len(u) = i - 1
  BY <1>2
<1>5. PICK v \in Seq(S) : v = SubSeq(s, i + 1, Len(s)) /\ Len(v) = Len(s) - i
  BY <1>3
<1>6. u \o v \in Seq(S) /\ Len(u \o v) = Len(u) + Len(v)
  OBVIOUS
<1>7. RemoveAt(s, i) = u \o v /\ i - 1 + (Len(s) - i) = Len(s) - 1
  BY <1>1, <1>4, <1>5 DEF RemoveAt
<1> QED
  BY <1>4, <1>5, <1>6, <1>7

(* The ring: the successor of a node is a node.                            *)
LEMMA NextNodeType == ASSUME NEW n \in Node PROVE NextNode(n) \in Node
BY RingAssumption DEF NextNode, Node

(* The number of a passed token is an int.                                 *)
LEMMA SeqNumType ==
    ASSUME NEW k \in SeqNum
    PROVE  (k + 1) % IntSpan \in SeqNum /\ Carrier((k + 1) % IntSpan) \in Carried
BY IntAssumption DEF SeqNum, Carrier, Carried

(* The steps of the ring, and the token put on its way without a question, *)
(* as a call over the network puts it.                                     *)
RingNext == Next \/ \E n \in Node : \E i \in DOMAIN passing[n] : PutToken(n, i)

(* Every goroutine carries the token it carried before.                    *)
SameCarriers ==
    \A m \in Node : /\ Len(passing'[m]) = Len(passing[m])
                    /\ passing'[m] = <<>> <=> passing[m] = <<>>
                    /\ DOMAIN passing'[m] = DOMAIN passing[m]
                    /\ \A j \in DOMAIN passing[m] : passing'[m][j].seq = passing[m][j].seq

(* Asking leaves every goroutine with the token it carries.                *)
LEMMA AskKeepsCarriers ==
    ASSUME passing \in [Node -> Seq(Carried)],
           NEW n \in Node, NEW i \in DOMAIN passing[n], AskAlive(n, i)
    PROVE  passing' \in [Node -> Seq(Carried)] /\ SameCarriers
<1>1. PICK s \in Seq(Carried) : s = passing[n]
  OBVIOUS
<1>2. PICK e \in Carried : e = [s[i] EXCEPT !.found = TRUE]
  <2>1. s[i] \in Carried
    BY <1>1
  <2>2. [s[i] EXCEPT !.found = TRUE] \in Carried
    BY <2>1 DEF Carried
  <2> QED
    BY <2>2
<1>3. PICK t : t = [s EXCEPT ![i] = e]
  OBVIOUS
<1>4. /\ t \in Seq(Carried) /\ Len(t) = Len(s) /\ DOMAIN t = DOMAIN s
      /\ t = <<>> <=> s = <<>>
  BY <1>1, <1>3
<1>5. \A j \in DOMAIN s : t[j].seq = s[j].seq
  <2>1. e.seq = s[i].seq
    BY <1>1, <1>2 DEF Carried
  <2> QED
    BY <1>1, <1>3, <2>1
<1>6. passing' = [passing EXCEPT ![n] = t]
  BY <1>1, <1>2, <1>3 DEF AskAlive
<1> QED
  BY <1>1, <1>4, <1>5, <1>6 DEF SameCarriers

-----------------------------------------------------------------------------
LEMMA TypeInductive == TypeOK /\ [RingNext]_vars => TypeOK'
<1> SUFFICES ASSUME TypeOK, [RingNext]_vars PROVE TypeOK'
  OBVIOUS
<1> USE DEF TypeOK
<1>1. ASSUME NEW n \in Node, NEW c \in Client, GrantAtOnce(n, c) PROVE TypeOK'
  BY <1>1 DEF GrantAtOnce, nodeVars, Phase
<1>2. ASSUME NEW n \in Node, NEW c \in Client, Enqueue(n, c) PROVE TypeOK'
  BY <1>2 DEF Enqueue, nodeVars, Phase
<1>3. ASSUME NEW n \in Node, NEW c \in Client, ReleaseToNext(n, c) PROVE TypeOK'
  <2>1. waitQueue[n] \in Seq(Client) /\ waitQueue[n] # <<>>
    BY <1>3 DEF ReleaseToNext
  <2>2. Head(waitQueue[n]) \in Client /\ Tail(waitQueue[n]) \in Seq(Client)
    BY <2>1
  <2>3. PhaseAfterRelease(n, c) \in Phase
    BY DEF PhaseAfterRelease, Phase
  <2>4. phase' \in [Client -> Phase]
    BY <1>3, <2>2, <2>3 DEF ReleaseToNext, Phase
  <2> QED
    BY <1>3, <2>2, <2>4 DEF ReleaseToNext, GrantFirst, nodeVars
<1>4. ASSUME NEW n \in Node, NEW c \in Client, ReleaseAndPass(n, c) PROVE TypeOK'
  <2>1. PhaseAfterRelease(n, c) \in Phase
    BY DEF PhaseAfterRelease, Phase
  <2> QED
    BY <1>4, <2>1, SeqNumType DEF ReleaseAndPass, passTokenLocked, nodeVars
<1>5. ASSUME NEW c \in Client, Return(c) PROVE TypeOK'
  BY <1>5 DEF Return, nodeVars, managerVars, Phase
<1>6. ASSUME NEW n \in Node, handleTokenReceive(n) PROVE TypeOK'
  <2>1. TokenCh[n] \in Seq(SeqNum) /\ TokenCh[n] # <<>>
    BY <1>6 DEF handleTokenReceive
  <2>2. Head(TokenCh[n]) \in SeqNum /\ Tail(TokenCh[n]) \in Seq(SeqNum)
    BY <2>1
  <2>3. CASE ReceiveGrant(n)
    <3>1. waitQueue[n] \in Seq(Client) /\ waitQueue[n] # <<>>
      BY <2>3 DEF ReceiveGrant
    <3>2. Head(waitQueue[n]) \in Client /\ Tail(waitQueue[n]) \in Seq(Client)
      BY <3>1
    <3> QED
      BY <1>6, <2>2, <2>3, <3>2
         DEF handleTokenReceive, ReceiveGrant, GrantFirst, nodeVars, Phase
  <2>4. CASE ReceiveIdle(n)
    BY <1>6, <2>2, <2>4 DEF handleTokenReceive, ReceiveIdle, nodeVars
  <2> QED
    BY <1>6, <2>3, <2>4 DEF handleTokenReceive
<1>7. ASSUME NEW n \in Node, idlePass(n) PROVE TypeOK'
  BY <1>7, SeqNumType DEF idlePass, passTokenLocked, nodeVars, clientVars
<1>8. ASSUME NEW n \in Node, NEW i \in DOMAIN passing[n],
             AskAlive(n, i) \/ DropToken(n, i) \/ PutToken(n, i)
      PROVE  TypeOK'
  <2>1. RemoveAt(passing[n], i) \in Seq(Carried) /\ passing[n][i].seq \in SeqNum
    <3>1. passing[n] \in Seq(Carried) /\ passing[n][i] \in Carried
      OBVIOUS
    <3> QED
      BY <3>1, RemoveAtSeq DEF Carried
  <2>2. CASE AskAlive(n, i)
    <3>1. passing' \in [Node -> Seq(Carried)]
      BY <2>2, AskKeepsCarriers
    <3> QED
      BY <2>2, <3>1 DEF AskAlive, nodeVars, managerVars, clientVars
  <2>3. CASE DropToken(n, i)
    BY <2>1, <2>3 DEF DropToken, nodeVars, managerVars, clientVars
  <2>4. CASE PutToken(n, i)
    BY <2>1, <2>4, NextNodeType DEF PutToken, nodeVars, managerVars, clientVars
  <2> QED
    BY <1>8, <2>2, <2>3, <2>4
<1>9. ASSUME NEW n \in Node, LoopExit(n) \/ Kill(n) \/ Stop(n) PROVE TypeOK'
  <2>1. UNCHANGED <<managerVars, TokenCh, passing, clientVars>>
    BY <1>9 DEF LoopExit, Kill, Stop
  <2>2. /\ alive' \in [Node -> BOOLEAN]
        /\ stopClosed' \in [Node -> BOOLEAN]
        /\ running' \in [Node -> BOOLEAN]
    BY <1>9 DEF LoopExit, Kill, Stop
  <2> QED
    BY <2>1, <2>2 DEF managerVars, clientVars
<1>10. CASE UNCHANGED vars
  BY <1>10 DEF vars, nodeVars, managerVars, clientVars
<1> QED
  BY <1>1, <1>2, <1>3, <1>4, <1>5, <1>6, <1>7, <1>8, <1>9, <1>10
     DEF RingNext, Next, Loop, OnPassToken, DeliverToken, RequestAccess, ReleaseAccess

(* Every action keeps the state of managers, channels and callers typed.   *)
THEOREM TypeCorrect == Spec => []TypeOK
<1>1. Init => TypeOK
  BY RingAssumption, IntAssumption DEF Init, TypeOK, Node, SeqNum, Phase
<1>2. TypeOK /\ [Next]_vars => TypeOK'
  BY TypeInductive DEF RingNext
<1> QED
  BY <1>1, <1>2, PTL DEF Spec

-----------------------------------------------------------------------------
(* The token is apart from any other token: TokenPlaces has at most one    *)
(* element, said place by place.                                           *)
TokenApart ==
    /\ \A m, n \in Node : hasToken[m] /\ hasToken[n] => m = n
    /\ \A m, n \in Node : hasToken[m] => TokenCh[n] = <<>> /\ passing[n] = <<>>
    /\ \A m, n \in Node : TokenCh[m] # <<>> => passing[n] = <<>>
    /\ \A m, n \in Node : TokenCh[m] # <<>> /\ TokenCh[n] # <<>> => m = n
    /\ \A m, n \in Node : passing[m] # <<>> /\ passing[n] # <<>> => m = n
    /\ \A n \in Node : Len(TokenCh[n]) <= 1 /\ Len(passing[n]) <= 1

LEMMA ShortSeq ==
    ASSUME NEW S, NEW s \in Seq(S), Len(s) <= 1
    PROVE  /\ s # <<>> => Tail(s) = <<>>
           /\ \A i \in DOMAIN s : i = 1 /\ RemoveAt(s, i) = <<>>
BY DEF RemoveAt

(* A pass moves the token from the manager into one goroutine.             *)
LEMMA PassKeepsApart ==
    ASSUME TypeOK, TokenApart, NEW n \in Node, hasToken[n], passTokenLocked(n),
           UNCHANGED TokenCh
    PROVE  TokenApart'
<1>1. PICK k \in SeqNum, car \in Carried :
         /\ seqNum'   = [seqNum EXCEPT ![n] = k]
         /\ hasToken' = [hasToken EXCEPT ![n] = FALSE]
         /\ passing'  = [passing EXCEPT ![n] = Append(@, car)]
  BY SeqNumType DEF TypeOK, passTokenLocked
<1> QED
  BY <1>1 DEF TypeOK, TokenApart

LEMMA TokenInvInductive ==
    ASSUME TypeOK, TokenApart, CSOnlyWithToken, [RingNext]_vars
    PROVE  TokenApart' /\ CSOnlyWithToken'
<1> USE DEF TypeOK
<1>1. ASSUME NEW n \in Node, NEW c \in Client, GrantAtOnce(n, c)
      PROVE  TokenApart' /\ CSOnlyWithToken'
  BY <1>1 DEF GrantAtOnce, TokenApart, CSOnlyWithToken
<1>2. ASSUME NEW n \in Node, NEW c \in Client, Enqueue(n, c)
      PROVE  TokenApart' /\ CSOnlyWithToken'
  BY <1>2 DEF Enqueue, TokenApart, CSOnlyWithToken
<1>3. ASSUME NEW n \in Node, NEW c \in Client, ReleaseToNext(n, c)
      PROVE  TokenApart' /\ CSOnlyWithToken'
  BY <1>3 DEF ReleaseToNext, MayRelease, GrantFirst, TokenApart, CSOnlyWithToken
<1>4. ASSUME NEW n \in Node, NEW c \in Client, ReleaseAndPass(n, c)
      PROVE  TokenApart' /\ CSOnlyWithToken'
  <2>1. hasToken[n]
    BY <1>4 DEF ReleaseAndPass, MayRelease, CSOnlyWithToken
  <2>2. TokenApart'
    BY <1>4, <2>1, PassKeepsApart DEF ReleaseAndPass
  <2>3. CSOnlyWithToken'
    BY <1>4 DEF ReleaseAndPass, passTokenLocked, CSOnlyWithToken
  <2> QED
    BY <2>2, <2>3
<1>5. ASSUME NEW c \in Client, Return(c) PROVE TokenApart' /\ CSOnlyWithToken'
  BY <1>5 DEF Return, managerVars, TokenApart, CSOnlyWithToken
<1>6. ASSUME NEW n \in Node, handleTokenReceive(n) PROVE TokenApart' /\ CSOnlyWithToken'
  <2>1. TokenCh[n] # <<>> /\ Tail(TokenCh[n]) = <<>>
    BY <1>6, ShortSeq DEF handleTokenReceive, TokenApart
  <2>2. TokenApart'
    BY <1>6, <2>1 DEF handleTokenReceive, TokenApart
  <2>3. CSOnlyWithToken'
    BY <1>6 DEF handleTokenReceive, ReceiveGrant, ReceiveIdle, GrantFirst, CSOnlyWithToken
  <2> QED
    BY <2>2, <2>3
<1>7. ASSUME NEW n \in Node, idlePass(n) PROVE TokenApart' /\ CSOnlyWithToken'
  <2>1. TokenApart'
    BY <1>7, PassKeepsApart DEF idlePass
  <2>2. CSOnlyWithToken'
    BY <1>7 DEF idlePass, passTokenLocked, CSOnlyWithToken
  <2> QED
    BY <2>1, <2>2
<1>8. ASSUME NEW n \in Node, NEW i \in DOMAIN passing[n],
             AskAlive(n, i) \/ DropToken(n, i) \/ PutToken(n, i)
      PROVE  TokenApart' /\ CSOnlyWithToken'
  <2>1. CASE AskAlive(n, i)
    <3>1. SameCarriers
      BY <2>1, AskKeepsCarriers
    <3> QED
      BY <2>1, <3>1 DEF SameCarriers, AskAlive, managerVars, TokenApart, CSOnlyWithToken
  <2>2. passing[n] # <<>> /\ RemoveAt(passing[n], i) = <<>>
    BY ShortSeq DEF TokenApart
  <2>3. CASE PutToken(n, i)
    <3>1. TokenCh' = [TokenCh EXCEPT ![NextNode(n)] = Append(@, passing[n][i].seq)]
      BY <2>3 DEF PutToken
    <3>2. TokenCh[NextNode(n)] = <<>> /\ NextNode(n) \in Node
      BY <2>2, NextNodeType DEF TokenApart
    <3>3. passing' = [passing EXCEPT ![n] = <<>>]
      BY <2>2, <2>3 DEF PutToken
    <3>4. \A m \in Node : m = NextNode(n) => Len(TokenCh'[m]) = 1
      BY <3>1, <3>2
    <3>5. /\ \A m \in Node : passing'[m] = <<>>
          /\ \A m \in Node : m # NextNode(n) => TokenCh'[m] = <<>>
          /\ \A m \in Node : ~hasToken'[m]
      BY <2>2, <2>3, <3>1, <3>2, <3>3 DEF PutToken, managerVars, TokenApart
    <3>6. \A m \in Node : Len(TokenCh'[m]) <= 1 /\ Len(passing'[m]) <= 1
      <4> SUFFICES ASSUME NEW m \in Node PROVE Len(TokenCh'[m]) <= 1 /\ Len(passing'[m]) <= 1
        OBVIOUS
      <4>1. Len(passing'[m]) = 0
        BY <3>5
      <4>2. CASE m = NextNode(n)
        <5>1. Len(TokenCh'[m]) = 1
          BY <3>4, <4>2
        <5> QED
          BY <4>1, <5>1
      <4>3. CASE m # NextNode(n)
        BY <3>5, <4>1, <4>3
      <4> QED
        BY <4>2, <4>3
    <3>7. TokenApart'
      BY <3>5, <3>6 DEF TokenApart
    <3> QED
      BY <2>3, <3>7 DEF PutToken, managerVars, CSOnlyWithToken
  <2>4. CASE DropToken(n, i)
    BY <2>2, <2>4 DEF DropToken, managerVars, TokenApart, CSOnlyWithToken
  <2> QED
    BY <1>8, <2>1, <2>3, <2>4
<1>9. ASSUME NEW n \in Node, LoopExit(n) \/ Kill(n) \/ Stop(n)
      PROVE  TokenApart' /\ CSOnlyWithToken'
  BY <1>9 DEF LoopExit, Kill, Stop, managerVars, TokenApart, CSOnlyWithToken
<1>10. CASE UNCHANGED vars
  BY <1>10 DEF vars, managerVars, TokenApart, CSOnlyWithToken
<1> QED
  BY <1>1, <1>2, <1>3, <1>4, <1>5, <1>6, <1>7, <1>8, <1>9, <1>10
     DEF RingNext, Next, Loop, OnPassToken, DeliverToken, RequestAccess, ReleaseAccess

(* At most one token and a critical section only where it is: these two    *)
(* are inductive together.                                                 *)
THEOREM TokenInvariant == Spec => [](TokenApart /\ CSOnlyWithToken)
<1>1. Init => TokenApart /\ CSOnlyWithToken
  <2> SUFFICES ASSUME Init PROVE TokenApart /\ CSOnlyWithToken
    OBVIOUS
  <2>1. \A n \in Node : /\ hasToken[n] <=> n = 0
                        /\ TokenCh[n] = <<>> /\ passing[n] = <<>>
                        /\ ~inCS[n]
    BY DEF Init
  <2>2. Len(<<>>) = 0
    OBVIOUS
  <2> QED
    BY <2>1, <2>2 DEF TokenApart, CSOnlyWithToken
<1>2. TypeOK /\ TokenApart /\ CSOnlyWithToken /\ [Next]_vars => (TokenApart /\ CSOnlyWithToken)'
  BY TokenInvInductive DEF RingNext
<1> QED
  BY <1>1, <1>2, TypeCorrect, PTL DEF Spec

LEMMA OneTokenFollows == TypeOK /\ TokenApart => OneToken
<1> SUFFICES ASSUME TypeOK, TokenApart, NEW x \in TokenPlaces, NEW y \in TokenPlaces
             PROVE  x = y
  BY DEF OneToken
<1>1. \A m \in Node : /\ \A i \in DOMAIN TokenCh[m] : i = 1
                      /\ \A i \in DOMAIN passing[m] : i = 1
  BY ShortSeq DEF TypeOK, TokenApart
<1>2. ASSUME NEW z \in TokenPlaces
      PROVE  \/ \E n \in Node : hasToken[n] /\ z = <<"held", n, 1>>
             \/ \E n \in Node : TokenCh[n] # <<>> /\ z = <<"TokenCh", n, 1>>
             \/ \E n \in Node : passing[n] # <<>> /\ z = <<"passing", n, 1>>
  <2>1. CASE z \in {<<"held", n, 1>> : n \in {m \in Node : hasToken[m]}}
    BY <2>1
  <2>2. CASE z \in UNION {{<<"TokenCh", n, i>> : i \in DOMAIN TokenCh[n]} : n \in Node}
    <3>1. PICK n \in Node : z \in {<<"TokenCh", n, i>> : i \in DOMAIN TokenCh[n]}
      BY <2>2
    <3>2. PICK i \in DOMAIN TokenCh[n] : z = <<"TokenCh", n, i>>
      BY <3>1
    <3> QED
      BY <1>1, <3>2
  <2>3. CASE z \in UNION {{<<"passing", n, i>> : i \in DOMAIN passing[n]} : n \in Node}
    <3>1. PICK n \in Node : z \in {<<"passing", n, i>> : i \in DOMAIN passing[n]}
      BY <2>3
    <3>2. PICK i \in DOMAIN passing[n] : z = <<"passing", n, i>>
      BY <3>1
    <3> QED
      BY <1>1, <3>2
  <2> QED
    BY <2>1, <2>2, <2>3 DEF TokenPlaces
<1> QED
  BY <1>2 DEF TokenApart

(* "A single token circulates".                                            *)
THEOREM SingleToken == Spec => []OneToken
<1> QED
  BY OneTokenFollows, TypeCorrect, TokenInvariant, PTL

-----------------------------------------------------------------------------
LEMMA NoIdleInductive == TypeOK /\ NoIdleWaiter /\ [RingNext]_vars => NoIdleWaiter'
<1> SUFFICES ASSUME TypeOK, NoIdleWaiter, [RingNext]_vars PROVE NoIdleWaiter'
  OBVIOUS
<1> USE DEF TypeOK, NoIdleWaiter
<1>1. ASSUME NEW n \in Node, NEW c \in Client, RequestAccess(n, c) PROVE NoIdleWaiter'
  BY <1>1 DEF RequestAccess, GrantAtOnce, Enqueue
<1>2. ASSUME NEW n \in Node, NEW c \in Client, ReleaseAccess(n, c) PROVE NoIdleWaiter'
  <2>1. CASE ReleaseToNext(n, c)
    BY <2>1 DEF ReleaseToNext, GrantFirst
  <2>2. CASE ReleaseAndPass(n, c)
    BY <2>2 DEF ReleaseAndPass, passTokenLocked
  <2> QED
    BY <1>2, <2>1, <2>2 DEF ReleaseAccess
<1>3. ASSUME NEW n \in Node, handleTokenReceive(n) PROVE NoIdleWaiter'
  BY <1>3 DEF handleTokenReceive, ReceiveGrant, ReceiveIdle, GrantFirst
<1>4. ASSUME NEW n \in Node, idlePass(n) PROVE NoIdleWaiter'
  BY <1>4 DEF idlePass, passTokenLocked
<1>5. ASSUME NEW n \in Node, NEW i \in DOMAIN passing[n],
             AskAlive(n, i) \/ DropToken(n, i) \/ PutToken(n, i)
      PROVE  NoIdleWaiter'
  BY <1>5 DEF AskAlive, DropToken, PutToken, managerVars
<1>6. ASSUME NEW c \in Client, Return(c) PROVE NoIdleWaiter'
  BY <1>6 DEF Return, managerVars
<1>7. ASSUME NEW n \in Node, LoopExit(n) \/ Kill(n) \/ Stop(n) PROVE NoIdleWaiter'
  BY <1>7 DEF LoopExit, Kill, Stop, managerVars
<1>8. CASE UNCHANGED vars
  BY <1>8 DEF vars, managerVars
<1> QED
  BY <1>1, <1>2, <1>3, <1>4, <1>5, <1>6, <1>7, <1>8
     DEF RingNext, Next, Loop, OnPassToken, DeliverToken

(* No lost wake-up, for every interleaving of requests, tokens and ticks.  *)
THEOREM NoLostWakeUp == Spec => []NoIdleWaiter
<1>1. Init => NoIdleWaiter
  BY DEF Init, NoIdleWaiter
<1>2. TypeOK /\ NoIdleWaiter /\ [Next]_vars => NoIdleWaiter'
  BY NoIdleInductive DEF RingNext
<1> QED
  BY <1>1, <1>2, TypeCorrect, PTL DEF Spec

-----------------------------------------------------------------------------
(* Facts about a queue without repetitions.                                *)
Distinct(s) == \A i, j \in DOMAIN s : s[i] = s[j] => i = j
In(s, e) == \E i \in DOMAIN s : s[i] = e

LEMMA AppendDistinct ==
    ASSUME NEW S, NEW s \in Seq(S), NEW e \in S
    PROVE  /\ \A d : In(Append(s, e), d) <=> In(s, d) \/ d = e
           /\ Distinct(s) /\ ~In(s, e) => Distinct(Append(s, e))
<1>1. /\ Append(s, e) \in Seq(S) /\ Len(Append(s, e)) = Len(s) + 1
      /\ DOMAIN s = 1 .. Len(s) /\ DOMAIN Append(s, e) = 1 .. Len(s) + 1
      /\ \A i \in DOMAIN s : Append(s, e)[i] = s[i]
      /\ Append(s, e)[Len(s) + 1] = e
  OBVIOUS
<1>2. \A i \in DOMAIN Append(s, e) : i \in DOMAIN s \/ i = Len(s) + 1
  BY <1>1
<1>3. ASSUME NEW d PROVE In(Append(s, e), d) <=> In(s, d) \/ d = e
  <2>1. ASSUME In(s, d) PROVE In(Append(s, e), d)
    BY <1>1, <2>1 DEF In
  <2>2. In(Append(s, e), e)
    BY <1>1 DEF In
  <2>3. ASSUME In(Append(s, e), d) PROVE In(s, d) \/ d = e
    BY <1>1, <1>2, <2>3 DEF In
  <2> QED
    BY <2>1, <2>2, <2>3
<1>4. ASSUME Distinct(s), ~In(s, e) PROVE Distinct(Append(s, e))
  BY <1>1, <1>2, <1>4 DEF In, Distinct
<1> QED
  BY <1>3, <1>4

LEMMA TailDistinct ==
    ASSUME NEW S, NEW s \in Seq(S), s # <<>>, Distinct(s)
    PROVE  /\ In(s, Head(s))
           /\ \A d : In(Tail(s), d) <=> In(s, d) /\ d # Head(s)
           /\ Distinct(Tail(s))
<1>1. /\ Tail(s) \in Seq(S) /\ Len(Tail(s)) = Len(s) - 1
      /\ Len(s) >= 1 /\ Head(s) = s[1]
      /\ \A i \in DOMAIN Tail(s) : i + 1 \in DOMAIN s /\ Tail(s)[i] = s[i + 1]
  OBVIOUS
<1>2. \A i \in DOMAIN s : i # 1 => i - 1 \in DOMAIN Tail(s) /\ Tail(s)[i - 1] = s[i]
  BY <1>1
<1>3. In(s, Head(s))
  BY <1>1 DEF In
<1>4. ASSUME NEW d PROVE In(Tail(s), d) <=> In(s, d) /\ d # Head(s)
  <2>1. ASSUME In(Tail(s), d) PROVE In(s, d) /\ d # Head(s)
    <3>1. PICK i \in DOMAIN Tail(s) : Tail(s)[i] = d
      BY <2>1 DEF In
    <3>2. i \in Nat /\ i >= 1 /\ i + 1 \in DOMAIN s /\ s[i + 1] = d /\ 1 \in DOMAIN s
      BY <1>1, <3>1
    <3> QED
      BY <1>1, <3>2 DEF In, Distinct
  <2>2. ASSUME In(s, d), d # Head(s) PROVE In(Tail(s), d)
    <3>1. PICK i \in DOMAIN s : s[i] = d
      BY <2>2 DEF In
    <3>2. i # 1
      BY <1>1, <2>2, <3>1
    <3> QED
      BY <1>2, <3>1, <3>2 DEF In
  <2> QED
    BY <2>1, <2>2
<1>5. Distinct(Tail(s))
  BY <1>1 DEF Distinct
<1> QED
  BY <1>3, <1>4, <1>5

-----------------------------------------------------------------------------
(* QueueAgreement in the words of the lemmas above.                        *)
Queues ==
    /\ \A n \in Node : Distinct(waitQueue[n])
    /\ \A n \in Node, c \in Client :
          In(waitQueue[n], c) <=> phase[c] = "queued" /\ at[c] = n

LEMMA QueuesAgree == Queues <=> QueueAgreement
BY DEF Queues, QueueAgreement, In, Distinct

(* Granting to the head of a queue, with the holder who was there (if any) *)
(* leaving: the managers and the callers still agree.                      *)
LEMMA GrantKeepsAgreement ==
    ASSUME TypeOK, HolderAgreement, Queues, NEW n \in Node, waitQueue[n] # <<>>,
           GrantFirst(n), UNCHANGED at, phase' \in [Client -> Phase],
           phase'[Head(waitQueue[n])] = "granted",
           csHolder[n] # NoClient => phase'[csHolder[n]] = "idle",
           \A d \in Client : d # Head(waitQueue[n]) /\ d # csHolder[n] => phase'[d] = phase[d]
    PROVE  HolderAgreement' /\ Queues'
<1> USE DEF TypeOK
<1> DEFINE h == Head(waitQueue[n])
<1>1. waitQueue[n] \in Seq(Client) /\ Distinct(waitQueue[n])
  BY DEF Queues
<1>2. /\ h \in Client /\ In(waitQueue[n], h)
      /\ \A d : In(Tail(waitQueue[n]), d) <=> In(waitQueue[n], d) /\ d # h
      /\ Distinct(Tail(waitQueue[n]))
  BY <1>1, TailDistinct
<1>3. phase[h] = "queued" /\ at[h] = n
  BY <1>2 DEF Queues
<1>4. csHolder[n] # NoClient => /\ csHolder[n] \in Client /\ csHolder[n] # h
                               /\ at[csHolder[n]] = n /\ InCS(csHolder[n])
  BY <1>3 DEF HolderAgreement, InCS
<1>5. /\ inCS' = [inCS EXCEPT ![n] = TRUE]
      /\ csHolder' = [csHolder EXCEPT ![n] = h]
      /\ waitQueue' = [waitQueue EXCEPT ![n] = Tail(@)]
      /\ at' = at
  BY DEF GrantFirst
<1>6. HolderAgreement'
  <2>1. \A m \in Node : inCS'[m] <=> csHolder'[m] # NoClient
    BY <1>2, <1>5, NameAssumption DEF HolderAgreement
  <2>2. ASSUME NEW m \in Node, NEW d \in Client
        PROVE  csHolder'[m] = d <=> InCS(d)' /\ at'[d] = m
    <3>1. CASE d = h
      BY <1>2, <1>3, <1>5, <3>1 DEF InCS, HolderAgreement
    <3>2. CASE d = csHolder[n]
      BY <1>2, <1>4, <1>5, <3>2, NameAssumption DEF InCS, HolderAgreement
    <3>3. CASE d # h /\ d # csHolder[n]
      BY SMTT(30), <1>3, <1>5, <3>3 DEF InCS, HolderAgreement
    <3> QED
      BY <3>1, <3>2, <3>3
  <2> QED
    BY <2>1, <2>2 DEF HolderAgreement
<1>7. Queues'
  <2>1. \A m \in Node : Distinct(waitQueue'[m])
    BY <1>2, <1>5 DEF Queues
  <2>2. ASSUME NEW m \in Node, NEW d \in Client
        PROVE  In(waitQueue'[m], d) <=> phase'[d] = "queued" /\ at'[d] = m
    <3>0. /\ m # n => waitQueue'[m] = waitQueue[m]
          /\ m = n => waitQueue'[m] = Tail(waitQueue[n])
      BY <1>5
    <3>1. CASE d = h
      BY <1>2, <1>3, <1>5, <3>0, <3>1 DEF Queues
    <3>2. CASE d = csHolder[n]
      BY SMTT(30), <1>2, <1>4, <1>5, <3>0, <3>2, NameAssumption DEF Queues, InCS
    <3>3. CASE d # h /\ d # csHolder[n]
      BY SMTT(30), <1>2, <1>5, <3>0, <3>3 DEF Queues
    <3> QED
      BY <3>1, <3>2, <3>3
  <2> QED
    BY <2>1, <2>2 DEF Queues
<1> QED
  BY <1>6, <1>7

LEMMA AgreementInductive ==
    ASSUME TypeOK, TypeOK', TokenApart, CSOnlyWithToken,
           HolderAgreement, Queues, [RingNext]_vars
    PROVE  HolderAgreement' /\ Queues'
<1> USE DEF TypeOK
<1>1. ASSUME NEW n \in Node, NEW c \in Client, GrantAtOnce(n, c)
      PROVE  HolderAgreement' /\ Queues'
  <2>1. HolderAgreement'
    BY <1>1, NameAssumption DEF GrantAtOnce, HolderAgreement, InCS
  <2>2. Queues'
    BY <1>1 DEF GrantAtOnce, Queues
  <2> QED
    BY <2>1, <2>2
<1>2. ASSUME NEW n \in Node, NEW c \in Client, Enqueue(n, c)
      PROVE  HolderAgreement' /\ Queues'
  <2>1. HolderAgreement'
    BY <1>2 DEF Enqueue, HolderAgreement, InCS
  <2>2. waitQueue[n] \in Seq(Client) /\ Distinct(waitQueue[n]) /\ ~In(waitQueue[n], c)
    BY <1>2 DEF Enqueue, Queues
  <2>3. /\ \A d : In(Append(waitQueue[n], c), d) <=> In(waitQueue[n], d) \/ d = c
        /\ Distinct(Append(waitQueue[n], c))
    BY <2>2, AppendDistinct
  <2>4. \A m \in Node : /\ m # n => waitQueue'[m] = waitQueue[m]
                        /\ m = n => waitQueue'[m] = Append(waitQueue[n], c)
    BY <1>2 DEF Enqueue
  <2>5. \A m \in Node : Distinct(waitQueue'[m])
    BY ZenonT(30), <2>3, <2>4 DEF Queues
  <2>6. ASSUME NEW m \in Node, NEW d \in Client
        PROVE  In(waitQueue'[m], d) <=> phase'[d] = "queued" /\ at'[d] = m
    <3>1. CASE d = c
      BY <1>2, <2>3, <2>4, <3>1 DEF Enqueue, Queues
    <3>2. CASE d # c
      BY <1>2, <2>3, <2>4, <3>2 DEF Enqueue, Queues
    <3> QED
      BY <3>1, <3>2
  <2>7. Queues'
    BY <2>5, <2>6 DEF Queues
  <2> QED
    BY <2>1, <2>7
<1>3. ASSUME NEW n \in Node, NEW c \in Client, MayRelease(n, c)
      PROVE  phase[c] = "holding" /\ at[c] = n /\ PhaseAfterRelease(n, c) = "idle"
  BY <1>3 DEF MayRelease, HolderAgreement, InCS, PhaseAfterRelease
<1>4. ASSUME NEW n \in Node, NEW c \in Client, ReleaseToNext(n, c)
      PROVE  HolderAgreement' /\ Queues'
  <2>1. /\ csHolder[n] = c /\ phase[c] = "holding" /\ PhaseAfterRelease(n, c) = "idle"
        /\ waitQueue[n] # <<>>
    BY <1>3, <1>4 DEF ReleaseToNext, MayRelease
  <2>2. Head(waitQueue[n]) \in Client /\ Head(waitQueue[n]) # c
    <3>1. waitQueue[n] \in Seq(Client) /\ Distinct(waitQueue[n])
      BY DEF Queues
    <3>2. Head(waitQueue[n]) \in Client /\ In(waitQueue[n], Head(waitQueue[n]))
      BY SMTT(30), <2>1, <3>1, TailDistinct
    <3> QED
      BY ZenonT(30), <2>1, <3>2 DEF Queues
  <2>3. /\ phase'[Head(waitQueue[n])] = "granted"
        /\ phase'[csHolder[n]] = "idle"
        /\ \A d \in Client : d # Head(waitQueue[n]) /\ d # csHolder[n] => phase'[d] = phase[d]
    BY <1>4, <2>1, <2>2 DEF ReleaseToNext
  <2> QED
    BY <1>4, <2>1, <2>3, GrantKeepsAgreement DEF ReleaseToNext
<1>5. ASSUME NEW n \in Node, NEW c \in Client, ReleaseAndPass(n, c)
      PROVE  HolderAgreement' /\ Queues'
  <2>1. csHolder[n] = c /\ phase[c] = "holding" /\ at[c] = n /\ PhaseAfterRelease(n, c) = "idle"
    BY <1>3, <1>5 DEF ReleaseAndPass, MayRelease
  <2>2. HolderAgreement'
    BY <1>5, <2>1, NameAssumption DEF ReleaseAndPass, HolderAgreement, InCS
  <2>3. Queues'
    BY <1>5, <2>1 DEF ReleaseAndPass, Queues
  <2> QED
    BY <2>2, <2>3
<1>6. ASSUME NEW c \in Client, Return(c) PROVE HolderAgreement' /\ Queues'
  BY <1>6 DEF Return, managerVars, HolderAgreement, Queues, InCS
<1>7. ASSUME NEW n \in Node, handleTokenReceive(n) PROVE HolderAgreement' /\ Queues'
  <2>1. CASE ReceiveIdle(n)
    BY <1>7, <2>1 DEF handleTokenReceive, ReceiveIdle, HolderAgreement, Queues, InCS
  <2>2. CASE ReceiveGrant(n)
    <3>1. csHolder[n] = NoClient /\ waitQueue[n] # <<>>
      BY <1>7, <2>2
         DEF handleTokenReceive, ReceiveGrant, TokenApart, CSOnlyWithToken, HolderAgreement
    <3>2. Head(waitQueue[n]) \in Client
      <4>1. waitQueue[n] \in Seq(Client)
        OBVIOUS
      <4> QED
        BY <3>1, <4>1
    <3>3. /\ phase'[Head(waitQueue[n])] = "granted"
          /\ \A d \in Client : d # Head(waitQueue[n]) => phase'[d] = phase[d]
      BY <2>2, <3>2 DEF ReceiveGrant
    <3> QED
      BY <1>7, <2>2, <3>1, <3>3, GrantKeepsAgreement DEF handleTokenReceive, ReceiveGrant
  <2> QED
    BY <1>7, <2>1, <2>2 DEF handleTokenReceive
<1>8. ASSUME NEW n \in Node, idlePass(n) PROVE HolderAgreement' /\ Queues'
  BY <1>8 DEF idlePass, clientVars, HolderAgreement, Queues, InCS
<1>9. ASSUME NEW n \in Node, NEW i \in DOMAIN passing[n],
             AskAlive(n, i) \/ DropToken(n, i) \/ PutToken(n, i)
      PROVE  HolderAgreement' /\ Queues'
  <2>1. UNCHANGED <<inCS, csHolder, waitQueue, phase, at>>
    BY <1>9 DEF AskAlive, DropToken, PutToken, managerVars, clientVars
  <2> QED
    BY <2>1 DEF HolderAgreement, Queues, InCS
<1>10. ASSUME NEW n \in Node, LoopExit(n) \/ Kill(n) \/ Stop(n)
       PROVE  HolderAgreement' /\ Queues'
  BY <1>10 DEF LoopExit, Kill, Stop, managerVars, clientVars, HolderAgreement, Queues, InCS
<1>11. CASE UNCHANGED vars
  BY <1>11 DEF vars, managerVars, clientVars, HolderAgreement, Queues, InCS
<1> QED
  BY <1>1, <1>2, <1>4, <1>5, <1>6, <1>7, <1>8, <1>9, <1>10, <1>11
     DEF RingNext, Next, Loop, OnPassToken, DeliverToken, RequestAccess, ReleaseAccess

(* The managers and the callers agree on holders and queues.               *)
THEOREM Agreement == Spec => [](HolderAgreement /\ QueueAgreement)
<1>1. Init => HolderAgreement /\ Queues
  BY NameAssumption DEF Init, HolderAgreement, Queues, InCS, In, Distinct
<1>2. TypeOK /\ TypeOK' /\ TokenApart /\ CSOnlyWithToken /\
      HolderAgreement /\ Queues /\ [Next]_vars => (HolderAgreement /\ Queues)'
  BY AgreementInductive DEF RingNext
<1>3. Spec => [](HolderAgreement /\ Queues)
  BY <1>1, <1>2, TypeCorrect, TokenInvariant, PTL DEF Spec
<1> QED
  BY <1>3, QueuesAgree, PTL

(* Between the managers and the callers: every blocked caller is queued    *)
(* once, at the node it called.                                            *)
THEOREM QueueAgreementHolds == Spec => []QueueAgreement
<1> QED
  BY Agreement, PTL

LEMMA EntersInOrder ==
    ASSUME TypeOK, NoIdleWaiter, HolderAgreement, QueueAgreement, [Next]_vars,
           NEW c \in Client, ~InCS(c), InCS(c)'
    PROVE  waitQueue[at'[c]] = <<>> \/ Head(waitQueue[at'[c]]) = c
<1> USE DEF TypeOK
<1>1. ASSUME NEW n \in Node, waitQueue[n] # <<>>
      PROVE  Head(waitQueue[n]) \in Client /\ at[Head(waitQueue[n])] = n
  <2>1. PICK s \in Seq(Client) : s = waitQueue[n]
    OBVIOUS
  <2>2. 1 \in DOMAIN s /\ Head(s) = s[1] /\ Head(s) \in Client
    BY <1>1, <2>1
  <2> QED
    BY <2>1, <2>2 DEF QueueAgreement
<1>2. ASSUME NEW n \in Node, waitQueue[n] # <<>>, at' = at,
             NEW d \in Client,
             \A e \in Client : e # d /\ e # Head(waitQueue[n]) => phase'[e] = phase[e],
             phase'[d] \in {phase[d], "idle"} \/ d = Head(waitQueue[n])
      PROVE  Head(waitQueue[at'[c]]) = c
  <2>1. c = Head(waitQueue[n])
    BY <1>2 DEF InCS
  <2> QED
    BY <1>1, <1>2, <2>1
<1>3. ASSUME NEW n \in Node, NEW d \in Client, GrantAtOnce(n, d)
      PROVE  waitQueue[at'[c]] = <<>>
  <2>1. d = c /\ at'[c] = n
    BY <1>3 DEF GrantAtOnce, InCS
  <2> QED
    BY <1>3, <2>1 DEF GrantAtOnce, NoIdleWaiter
<1>4. ASSUME NEW n \in Node, NEW d \in Client, ReleaseToNext(n, d)
      PROVE  Head(waitQueue[at'[c]]) = c
  <2>1. PICK h \in Client : h = Head(waitQueue[n])
    BY <1>1, <1>4 DEF ReleaseToNext
  <2>2. phase' = [phase EXCEPT ![d] = PhaseAfterRelease(n, d), ![h] = "granted"]
    BY <1>4, <2>1 DEF ReleaseToNext
  <2>3. PhaseAfterRelease(n, d) \in {phase[d], "idle"}
    BY DEF PhaseAfterRelease
  <2>4. /\ \A e \in Client : e # d /\ e # h => phase'[e] = phase[e]
        /\ phase'[d] \in {phase[d], "idle"} \/ d = h
    BY <2>2, <2>3
  <2>5. waitQueue[n] # <<>> /\ at' = at
    BY <1>4 DEF ReleaseToNext
  <2> QED
    BY <1>2, <2>1, <2>4, <2>5
<1>5. ASSUME NEW n \in Node, handleTokenReceive(n) PROVE Head(waitQueue[at'[c]]) = c
  <2>1. ~ReceiveIdle(n)
    BY <1>5 DEF handleTokenReceive, ReceiveIdle, InCS
  <2>2. ReceiveGrant(n) /\ at' = at
    BY <1>5, <2>1 DEF handleTokenReceive
  <2>3. PICK h \in Client : h = Head(waitQueue[n])
    BY <1>1, <2>2 DEF ReceiveGrant
  <2>4. \A e \in Client : e # h => phase'[e] = phase[e]
    BY <2>2, <2>3 DEF ReceiveGrant
  <2>5. waitQueue[n] # <<>>
    BY <2>2 DEF ReceiveGrant
  <2> QED
    BY <1>2, <2>2, <2>3, <2>4, <2>5
<1>6. ASSUME NEW n \in Node, NEW d \in Client, Enqueue(n, d) \/ ReleaseAndPass(n, d)
      PROVE  FALSE
  BY <1>6 DEF Enqueue, ReleaseAndPass, PhaseAfterRelease, InCS
<1>7. ASSUME NEW d \in Client, Return(d) PROVE FALSE
  BY <1>7 DEF Return, InCS
<1>8. ASSUME NEW n \in Node, \/ idlePass(n) \/ OnPassToken(n)
                            \/ LoopExit(n) \/ Kill(n) \/ Stop(n)
      PROVE  FALSE
  BY <1>8 DEF idlePass, OnPassToken, AskAlive, DropToken, DeliverToken, PutToken,
              LoopExit, Kill, Stop, clientVars, InCS
<1>9. CASE UNCHANGED vars
  BY <1>9 DEF vars, clientVars, InCS
<1> QED
  BY <1>3, <1>4, <1>5, <1>6, <1>7, <1>8, <1>9 DEF Next, Loop, RequestAccess, ReleaseAccess

(* Whoever enters the critical section at a node is the oldest in its      *)
(* queue, or the queue is empty: RequestAccess, ReleaseAccess and          *)
(* handleTokenReceive never let a caller overtake another.                 *)
THEOREM NoOvertakingHolds == Spec => NoOvertaking
<1>1. TypeOK /\ NoIdleWaiter /\ HolderAgreement /\ QueueAgreement /\ [Next]_vars
        => [\A c \in Client : ~InCS(c) /\ InCS(c)' =>
              waitQueue[at'[c]] = <<>> \/ Head(waitQueue[at'[c]]) = c]_vars
  BY EntersInOrder
<1> QED
  BY <1>1, TypeCorrect, NoLostWakeUp, Agreement, PTL DEF Spec, NoOvertaking

-----------------------------------------------------------------------------
(* The order of the ring.                                                  *)

LEMMA NextNodeCases ==
    ASSUME NEW n \in Node
    PROVE  NextNode(n) = IF n = N - 1 THEN 0 ELSE n + 1
<1>1. n \in Nat /\ n <= N - 1 /\ N \in Nat \ {0}
  BY RingAssumption DEF Node
<1>2. CASE n = N - 1
  <2>1. N % N = 0 /\ n + 1 = N
    BY <1>1, <1>2
  <2> QED
    BY <1>2, <2>1 DEF NextNode
<1>3. CASE n # N - 1
  BY <1>1, <1>3 DEF NextNode
<1> QED
  BY <1>2, <1>3

LEMMA NextNodeInjective ==
    ASSUME NEW m \in Node, NEW n \in Node, NextNode(m) = NextNode(n)
    PROVE  m = n
<1>1. m \in Nat /\ n \in Nat
  BY DEF Node
<1> QED
  BY <1>1, NextNodeCases

(* One lap.  Numbers are compared modulo the span of an int, as integers   *)
(* that differ by a multiple of it.                                        *)

LEMMA DivMod ==
    ASSUME NEW a \in Int
    PROVE  /\ a % IntSpan \in SeqNum
           /\ \E j \in Int : a = (a % IntSpan) + j * IntSpan
<1>1. PICK K \in Nat \ {0} : K = IntSpan
  BY IntAssumption
<1>2. /\ a = K * (a \div K) + (a % K)
      /\ a % K \in 0 .. K - 1
      /\ a \div K \in Int
  OBVIOUS
<1>3. a = (a % K) + (a \div K) * K
  BY <1>2
<1> QED
  BY <1>1, <1>2, <1>3 DEF SeqNum

LEMMA MultipleIsBig == ASSUME NEW K \in Nat \ {0}, NEW d \in Int, d >= 1 PROVE d * K >= K
OBVIOUS

(* Two numbers below the span that differ by a multiple of it are equal.   *)
LEMMA ModUnique ==
    ASSUME NEW s \in SeqNum, NEW t \in SeqNum, NEW i \in Int, NEW j \in Int,
           s + i * IntSpan = t + j * IntSpan
    PROVE  s = t
<1>1. PICK K \in Nat \ {0} : K = IntSpan
  BY IntAssumption
<1>2. /\ s \in 0 .. K - 1 /\ t \in 0 .. K - 1
      /\ (i - j) * K = t - s /\ (j - i) * K = s - t
  BY <1>1 DEF SeqNum
<1>3. CASE i - j >= 1
  BY <1>2, <1>3, MultipleIsBig
<1>4. CASE j - i >= 1
  BY <1>2, <1>4, MultipleIsBig
<1> QED
  BY <1>2, <1>3, <1>4

(* a and b are the same number of IntSpan values.                          *)
Congruent(a, b) == \E j \in Int : a = b + j * IntSpan

LEMMA CongruentMod ==
    ASSUME NEW a \in Int, NEW s \in SeqNum, Congruent(a, s)
    PROVE  a % IntSpan = s
<1>1. PICK j \in Int : a = s + j * IntSpan
  BY DEF Congruent
<1>2. PICK i \in Int : a = (a % IntSpan) + i * IntSpan
  BY DivMod
<1>3. a % IntSpan \in SeqNum
  BY DivMod
<1> QED
  BY <1>1, <1>2, <1>3, ModUnique

(* Counting up by one, with the wrap-around, on one side and without it on *)
(* the other.                                                              *)
LEMMA CongruentStep ==
    ASSUME NEW a \in Int, NEW s \in SeqNum, Congruent(a, s)
    PROVE  Congruent(a + 1, (s + 1) % IntSpan)
<1>1. PICK K \in Nat \ {0} : K = IntSpan
  BY IntAssumption
<1>2. PICK j \in Int : a = s + j * K
  BY <1>1 DEF Congruent
<1>3. s \in Int
  BY <1>1 DEF SeqNum
<1>4. PICK i \in Int : s + 1 = ((s + 1) % K) + i * K
  <2>1. s + 1 \in Int
    BY <1>3
  <2>2. \E i \in Int : s + 1 = ((s + 1) % IntSpan) + i * IntSpan
    BY <2>1, DivMod
  <2> QED
    BY <1>1, <2>2
<1>5. (s + 1) % K \in Int
  BY <1>3
<1>6. a + 1 = ((s + 1) % K) + (i + j) * K
  <2>1. i * K + j * K = (i + j) * K /\ i * K \in Int /\ j * K \in Int
    OBVIOUS
  <2> QED
    BY <1>2, <1>3, <1>4, <1>5, <2>1
<1> QED
  BY <1>1, <1>6 DEF Congruent

(* How many hops a token that q has passed on has made since, when it is   *)
(* with p or on its last hop to p.                                         *)
Hops(q, p) == IF q < p THEN p - 1 - q ELSE p - 1 - q + N

(* What the number s of a token at p, or on its way to p, says of q: it is *)
(* q's own number and the hops since q passed the token on, or, if q has   *)
(* never had the token, the hops from node 0.                              *)
Behind(q, p, s) ==
    \/ Congruent(seqNum[q] + Hops(q, p), s)
    \/ q # 0 /\ seqNum[q] = 0 /\ p <= q /\ Congruent(p, s)

LapInv ==
    /\ \A n, q \in Node : hasToken[n] /\ q # n => Behind(q, n, seqNum[n])
    /\ \A n, q \in Node : \A i \in DOMAIN TokenCh[n] : Behind(q, n, TokenCh[n][i])
    /\ \A n, q \in Node : \A i \in DOMAIN passing[n] :
          Behind(q, NextNode(n), passing[n][i].seq)

(* One hop more at every pass, except for the node that passes.            *)
LEMMA HopsStep ==
    ASSUME NEW n \in Node, NEW q \in Node
    PROVE  /\ Hops(q, n) \in Int
           /\ q # n => Hops(q, NextNode(n)) = Hops(q, n) + 1
           /\ Hops(n, NextNode(n)) = 0
           /\ q # n /\ n <= q => NextNode(n) = n + 1 /\ n + 1 <= q
BY NextNodeCases, RingAssumption DEF Hops, Node

LEMMA PassKeepsLap ==
    ASSUME TypeOK, TokenApart, LapInv, NEW n \in Node, hasToken[n],
           passTokenLocked(n), UNCHANGED TokenCh
    PROVE  LapInv'
<1>1. PICK s \in SeqNum : s = seqNum[n]
  BY DEF TypeOK
<1>2. PICK t \in SeqNum : t = (s + 1) % IntSpan /\ Carrier(t) \in Carried
  BY SeqNumType
<1>3. /\ seqNum'   = [seqNum EXCEPT ![n] = t]
      /\ hasToken' = [hasToken EXCEPT ![n] = FALSE]
      /\ passing'  = [passing EXCEPT ![n] = Append(@, Carrier(t))]
  BY <1>1, <1>2 DEF passTokenLocked
<1>4. \A m \in Node : /\ ~hasToken'[m]
                      /\ TokenCh'[m] = <<>>
                      /\ m # n => passing'[m] = <<>>
  BY <1>3 DEF TypeOK, TokenApart
<1>5. passing'[n] = <<Carrier(t)>>
  <2>1. passing[n] = <<>>
    BY DEF TokenApart
  <2> QED
    BY <1>3, <2>1 DEF TypeOK
<1>6. ASSUME NEW q \in Node PROVE Behind(q, NextNode(n), t)'
  <2>1. CASE q = n
    <3>1. t \in Int /\ t + Hops(n, NextNode(n)) = t + 0 * IntSpan
      BY HopsStep, IntAssumption DEF SeqNum
    <3>2. seqNum'[q] = t
      BY <1>3, <2>1 DEF TypeOK
    <3> QED
      BY <2>1, <3>1, <3>2 DEF Behind, Congruent, Hops, NextNode
  <2>2. CASE q # n
    <3>1. seqNum'[q] = seqNum[q] /\ seqNum[q] \in Int
      BY <1>3, <2>2 DEF TypeOK, SeqNum
    <3>2. CASE Congruent(seqNum[q] + Hops(q, n), s)
      <4>1. Congruent(seqNum[q] + Hops(q, n) + 1, t)
        BY <1>2, <3>1, <3>2, HopsStep, CongruentStep
      <4>2. seqNum[q] + Hops(q, NextNode(n)) = seqNum[q] + Hops(q, n) + 1
        BY <2>2, <3>1, HopsStep
      <4> QED
        BY <3>1, <4>1, <4>2 DEF Behind, Congruent, Hops, NextNode
    <3>3. CASE q # 0 /\ seqNum[q] = 0 /\ n <= q /\ Congruent(n, s)
      <4>1. NextNode(n) = n + 1 /\ n + 1 <= q
        BY <2>2, <3>3, HopsStep
      <4>2. Congruent(n + 1, t)
        BY <1>2, <3>3, CongruentStep DEF Node
      <4> QED
        BY <3>1, <3>3, <4>1, <4>2 DEF Behind, Congruent, NextNode
    <3> QED
      BY <1>1, <2>2, <3>2, <3>3 DEF LapInv, Behind
  <2> QED
    BY <2>1, <2>2
<1>7. ASSUME NEW m \in Node, NEW q \in Node
      PROVE  \A i \in DOMAIN passing'[m] : Behind(q, NextNode(m), passing[m][i].seq)'
  <2>1. CASE m = n
    <3>1. passing'[n][1].seq = t /\ DOMAIN passing'[n] = {1}
      BY <1>5 DEF Carrier
    <3> QED
      BY <1>6, <2>1, <3>1
  <2>2. CASE m # n
    BY <1>4, <2>2
  <2> QED
    BY <2>1, <2>2
<1> QED
  BY <1>4, <1>7 DEF LapInv

LEMMA LapInductive ==
    ASSUME TypeOK, TypeOK', TokenApart, CSOnlyWithToken, LapInv, [Next]_vars
    PROVE  LapInv'
<1>1. ASSUME UNCHANGED <<hasToken, seqNum, TokenCh, passing>> PROVE LapInv'
  BY <1>1 DEF LapInv, Behind, Congruent, Hops, NextNode
<1>2. ASSUME NEW n \in Node, NEW c \in Client, ReleaseAndPass(n, c) PROVE LapInv'
  <2>1. hasToken[n]
    BY <1>2 DEF ReleaseAndPass, MayRelease, CSOnlyWithToken
  <2> QED
    BY <1>2, <2>1, PassKeepsLap DEF ReleaseAndPass
<1>3. ASSUME NEW n \in Node, idlePass(n) PROVE LapInv'
  BY <1>3, PassKeepsLap DEF idlePass
<1>4. ASSUME NEW n \in Node, handleTokenReceive(n) PROVE LapInv'
  <2>1. PICK s \in Seq(SeqNum) : s = TokenCh[n]
    BY DEF TypeOK
  <2>2. s # <<>> /\ Tail(s) = <<>> /\ 1 \in DOMAIN s /\ Head(s) = s[1]
    <3>1. s # <<>> /\ Len(s) <= 1
      BY <1>4, <2>1 DEF handleTokenReceive, TokenApart
    <3> QED
      BY <3>1, ShortSeq
  <2>3. /\ hasToken' = [hasToken EXCEPT ![n] = TRUE]
        /\ seqNum' = [seqNum EXCEPT ![n] = s[1]]
        /\ TokenCh' = [TokenCh EXCEPT ![n] = <<>>]
        /\ passing' = passing
    BY <1>4, <2>1, <2>2 DEF handleTokenReceive
  <2>4. \A m \in Node : /\ TokenCh'[m] = <<>> /\ passing'[m] = <<>>
                        /\ hasToken'[m] => m = n
    BY <2>1, <2>2, <2>3 DEF TypeOK, TokenApart
  <2>5. ASSUME NEW q \in Node, q # n PROVE Behind(q, n, seqNum[n])'
    <3>1. Behind(q, n, s[1])
      BY <2>1, <2>2 DEF LapInv
    <3>2. seqNum'[q] = seqNum[q] /\ seqNum'[n] = s[1]
      BY <2>3, <2>5 DEF TypeOK
    <3> QED
      BY <3>1, <3>2 DEF Behind, Congruent, Hops
  <2> QED
    BY <2>4, <2>5 DEF LapInv
<1>10. ASSUME NEW n \in Node, NEW i \in DOMAIN passing[n], AskAlive(n, i) PROVE LapInv'
  <2>1. SameCarriers
    BY <1>10, AskKeepsCarriers DEF TypeOK
  <2>2. UNCHANGED <<hasToken, seqNum, TokenCh>>
    BY <1>10 DEF AskAlive, managerVars
  <2>3. \A m, q \in Node : hasToken'[m] /\ q # m => Behind(q, m, seqNum[m])'
    <3> SUFFICES ASSUME NEW m \in Node, NEW q \in Node, hasToken'[m], q # m
                 PROVE  Behind(q, m, seqNum[m])'
      OBVIOUS
    <3>1. Behind(q, m, seqNum[m])
      BY <2>2 DEF LapInv
    <3> QED
      BY <2>2, <3>1 DEF Behind, Congruent, Hops
  <2>4. \A m, q \in Node : \A j \in DOMAIN TokenCh'[m] : Behind(q, m, TokenCh[m][j])'
    <3> SUFFICES ASSUME NEW m \in Node, NEW q \in Node, NEW j \in DOMAIN TokenCh'[m]
                 PROVE  Behind(q, m, TokenCh[m][j])'
      OBVIOUS
    <3>1. Behind(q, m, TokenCh[m][j])
      BY <2>2 DEF LapInv
    <3> QED
      BY <2>2, <3>1 DEF Behind, Congruent, Hops
  <2>5. \A m, q \in Node : \A j \in DOMAIN passing'[m] :
          Behind(q, NextNode(m), passing[m][j].seq)'
    <3> SUFFICES ASSUME NEW m \in Node, NEW q \in Node, NEW j \in DOMAIN passing'[m]
                 PROVE  Behind(q, NextNode(m), passing[m][j].seq)'
      OBVIOUS
    <3>1. j \in DOMAIN passing[m] /\ passing'[m][j].seq = passing[m][j].seq
      BY <2>1 DEF SameCarriers
    <3>2. Behind(q, NextNode(m), passing[m][j].seq)
      BY <3>1 DEF LapInv
    <3> QED
      BY <2>2, <3>1, <3>2 DEF Behind, Congruent, Hops, NextNode
  <2> QED
    BY <2>3, <2>4, <2>5 DEF LapInv
<1>5. ASSUME NEW n \in Node, NEW i \in DOMAIN passing[n], DropToken(n, i) \/ PutToken(n, i)
      PROVE  LapInv'
  <2>2. PICK k \in SeqNum : k = passing[n][i].seq
    <3>1. passing[n][i] \in Carried
      BY DEF TypeOK
    <3> QED
      BY <3>1 DEF Carried
  <2>3. passing[n] # <<>> /\ RemoveAt(passing[n], i) = <<>>
    BY ShortSeq DEF TokenApart, TypeOK
  <2>4. /\ hasToken' = hasToken /\ seqNum' = seqNum
        /\ passing' = [passing EXCEPT ![n] = <<>>]
        /\ \/ TokenCh' = [TokenCh EXCEPT ![NextNode(n)] = Append(@, k)]
           \/ TokenCh' = TokenCh
    BY <1>5, <2>2, <2>3 DEF PutToken, DropToken, managerVars
  <2>5. /\ NextNode(n) \in Node
        /\ \A m \in Node : TokenCh[m] = <<>> /\ passing'[m] = <<>> /\ ~hasToken'[m]
    BY <2>3, <2>4, NextNodeType DEF TokenApart, TypeOK
  <2>6. /\ TokenCh'[NextNode(n)] \in {<<k>>, <<>>}
        /\ \A m \in Node : m # NextNode(n) => TokenCh'[m] = <<>>
    <3>1. CASE TokenCh' = TokenCh
      BY <2>5, <3>1
    <3>2. CASE TokenCh' = [TokenCh EXCEPT ![NextNode(n)] = Append(@, k)]
      <4>1. TokenCh' = [TokenCh EXCEPT ![NextNode(n)] = <<k>>]
        <5>1. TokenCh[NextNode(n)] = <<>>
          BY <2>5
        <5>2. Append(<<>>, k) = <<k>>
          OBVIOUS
        <5> QED
          BY <3>2, <5>1, <5>2
      <4> QED
        BY <2>5, <4>1 DEF TypeOK
    <3> QED
      BY <2>4, <3>1, <3>2
  <2>7. ASSUME NEW q \in Node PROVE Behind(q, NextNode(n), k)'
    <3>1. Behind(q, NextNode(n), k)
      BY <2>2 DEF LapInv
    <3> QED
      BY <2>4, <3>1 DEF Behind, Congruent, Hops, NextNode
  <2>8. ASSUME NEW m \in Node, NEW q \in Node
        PROVE  /\ ~hasToken'[m] /\ passing'[m] = <<>>
               /\ \A j \in DOMAIN TokenCh'[m] : Behind(q, m, TokenCh[m][j])'
    <3>1. CASE m = NextNode(n)
      BY <2>5, <2>6, <2>7, <3>1
    <3>2. CASE m # NextNode(n)
      BY <2>5, <2>6, <3>2
    <3> QED
      BY <3>1, <3>2
  <2> QED
    BY <2>8 DEF LapInv
<1>6. ASSUME NEW n \in Node, NEW c \in Client, RequestAccess(n, c) \/ ReleaseToNext(n, c)
      PROVE  LapInv'
  BY <1>1, <1>6 DEF RequestAccess, GrantAtOnce, Enqueue, ReleaseToNext
<1>7. ASSUME NEW c \in Client, Return(c) PROVE LapInv'
  BY <1>1, <1>7 DEF Return, managerVars
<1>8. ASSUME NEW n \in Node, LoopExit(n) \/ Kill(n) \/ Stop(n) PROVE LapInv'
  BY <1>1, <1>8 DEF LoopExit, Kill, Stop, managerVars
<1>9. CASE UNCHANGED vars
  BY <1>1, <1>9 DEF vars, managerVars
<1> QED
  BY <1>2, <1>3, <1>4, <1>5, <1>6, <1>7, <1>8, <1>9, <1>10
     DEF Next, Loop, ReleaseAccess, OnPassToken, DeliverToken

(* A node gets the token only by taking it off its channel, and the number *)
(* it finds there is its own and one lap.                                  *)
LEMMA LapAtReceive ==
    ASSUME TypeOK, LapInv, [Next]_vars, NEW n \in Node, ~hasToken[n], hasToken'[n]
    PROVE  \/ seqNum'[n] = (seqNum[n] + N - 1) % IntSpan
           \/ n # 0 /\ seqNum[n] = 0 /\ seqNum'[n] = n % IntSpan
<1>1. handleTokenReceive(n)
  <2>1. ASSUME NEW m \in Node, handleTokenReceive(m) PROVE m = n
    BY <2>1 DEF handleTokenReceive, TypeOK
  <2>2. ASSUME NEW m \in Node, NEW c \in Client, RequestAccess(m, c) \/ ReleaseAccess(m, c)
        PROVE  FALSE
    BY <2>2 DEF RequestAccess, GrantAtOnce, Enqueue, ReleaseAccess, ReleaseToNext,
                ReleaseAndPass, passTokenLocked, TypeOK
  <2>3. ASSUME NEW c \in Client, Return(c) PROVE FALSE
    BY <2>3 DEF Return, managerVars
  <2>4. ASSUME NEW m \in Node, \/ idlePass(m) \/ OnPassToken(m)
                              \/ LoopExit(m) \/ Kill(m) \/ Stop(m)
        PROVE  FALSE
    BY <2>4 DEF idlePass, passTokenLocked, OnPassToken, AskAlive, DropToken, DeliverToken, PutToken,
                LoopExit, Kill, Stop, managerVars, TypeOK
  <2>5. CASE UNCHANGED vars
    BY <2>5 DEF vars, managerVars
  <2> QED
    BY <2>1, <2>2, <2>3, <2>4, <2>5 DEF Next, Loop
<1>2. PICK s \in Seq(SeqNum) : s = TokenCh[n]
  BY DEF TypeOK
<1>3. s # <<>> /\ 1 \in DOMAIN s /\ Head(s) = s[1] /\ s[1] \in SeqNum
  BY <1>1, <1>2 DEF handleTokenReceive
<1>4. seqNum'[n] = s[1]
  BY <1>1, <1>2, <1>3 DEF handleTokenReceive, TypeOK
<1>5. Behind(n, n, s[1])
  BY <1>2, <1>3 DEF LapInv
<1>6. n \in Int /\ seqNum[n] \in Int /\ N \in Int /\ Hops(n, n) = N - 1
  BY RingAssumption DEF Hops, TypeOK, SeqNum, Node
<1>7. CASE Congruent(seqNum[n] + Hops(n, n), s[1])
  <2>1. seqNum[n] + Hops(n, n) = seqNum[n] + N - 1
    BY <1>6
  <2>2. Congruent(seqNum[n] + N - 1, s[1])
    BY <1>7, <2>1
  <2>3. (seqNum[n] + N - 1) % IntSpan = s[1]
    BY <1>3, <1>6, <2>2, CongruentMod
  <2> QED
    BY <1>4, <2>3
<1>8. CASE n # 0 /\ seqNum[n] = 0 /\ Congruent(n, s[1])
  BY <1>3, <1>4, <1>6, <1>8, CongruentMod
<1> QED
  BY <1>5, <1>7, <1>8 DEF Behind

(* From the moment a node passes the token on to the moment it has it back *)
(* the number has grown by exactly the other nodes' hops, for every width  *)
(* of an int and every order of passes, deliveries and kills.              *)
THEOREM OneLapHolds == Spec => OneLap
<1>1. Init => LapInv
  <2> SUFFICES ASSUME Init PROVE LapInv
    OBVIOUS
  <2>1. \A n \in Node : /\ hasToken[n] <=> n = 0
                        /\ seqNum[n] = 0
                        /\ TokenCh[n] = <<>> /\ passing[n] = <<>>
    BY DEF Init
  <2>2. ASSUME NEW q \in Node, q # 0 PROVE Behind(q, 0, 0)
    <3>1. 0 = 0 + 0 * IntSpan /\ 0 <= q
      BY IntAssumption DEF Node
    <3> QED
      BY <2>1, <2>2, <3>1 DEF Behind, Congruent
  <2> QED
    BY <2>1, <2>2 DEF LapInv
<1>2. TypeOK /\ TypeOK' /\ TokenApart /\ CSOnlyWithToken /\ LapInv /\ [Next]_vars => LapInv'
  BY LapInductive
<1>3. TypeOK /\ LapInv /\ [Next]_vars
        => [\A n \in Node : ~hasToken[n] /\ hasToken'[n] =>
              \/ seqNum'[n] = (seqNum[n] + N - 1) % IntSpan
              \/ n # 0 /\ seqNum[n] = 0 /\ seqNum'[n] = n % IntSpan]_vars
  BY LapAtReceive
<1> QED
  BY <1>1, <1>2, <1>3, TypeCorrect, TokenInvariant, PTL DEF Spec, OneLap

-----------------------------------------------------------------------------
(* The token while nobody has been killed.                                 *)

(* A loop returns only after a Kill, and until there is one the token is   *)
(* somewhere.                                                              *)
KeptInv ==
    /\ \A n \in Node : stopClosed[n] => ~alive[n]
    /\ \A n \in Node : ~running[n] => stopClosed[n]
    /\ \/ \E n \in Node : ~alive[n]
       \/ \E n \in Node : hasToken[n] \/ TokenCh[n] # <<>> \/ passing[n] # <<>>

LEMMA AppendNonEmpty ==
    ASSUME NEW S, NEW s \in Seq(S), NEW e \in S
    PROVE  Append(s, e) # <<>>
<1>1. Len(Append(s, e)) = Len(s) + 1 /\ Len(s) \in Nat /\ Len(<<>>) = 0
  OBVIOUS
<1> QED
  BY <1>1

LEMMA KeptInductive ==
    ASSUME TypeOK, TypeOK', KeptInv, [Next]_vars
    PROVE  KeptInv'
<1> USE DEF TypeOK
<1>1. ASSUME UNCHANGED nodeVars,
             \/ UNCHANGED <<hasToken, TokenCh, passing>>
             \/ \E n \in Node : hasToken'[n] \/ TokenCh'[n] # <<>> \/ passing'[n] # <<>>
      PROVE  KeptInv'
  BY <1>1 DEF KeptInv, nodeVars
<1>2. ASSUME NEW n \in Node, passTokenLocked(n) PROVE passing'[n] # <<>>
  <2>1. PICK car \in Carried : passing' = [passing EXCEPT ![n] = Append(@, car)]
    BY <1>2, SeqNumType DEF passTokenLocked
  <2>2. passing'[n] = Append(passing[n], car) /\ passing[n] \in Seq(Carried)
    BY <2>1
  <2> QED
    BY <2>2, AppendNonEmpty
<1>3. ASSUME NEW n \in Node, NEW c \in Client, RequestAccess(n, c) PROVE KeptInv'
  BY <1>1, <1>3 DEF RequestAccess, GrantAtOnce, Enqueue
<1>4. ASSUME NEW n \in Node, NEW c \in Client, ReleaseAccess(n, c) PROVE KeptInv'
  BY <1>1, <1>2, <1>4 DEF ReleaseAccess, ReleaseToNext, ReleaseAndPass
<1>5. ASSUME NEW c \in Client, Return(c) PROVE KeptInv'
  BY <1>1, <1>5 DEF Return, managerVars
<1>6. ASSUME NEW n \in Node, handleTokenReceive(n) PROVE KeptInv'
  <2>1. hasToken'[n]
    BY <1>6 DEF handleTokenReceive
  <2> QED
    BY <1>1, <1>6, <2>1 DEF handleTokenReceive
<1>7. ASSUME NEW n \in Node, idlePass(n) PROVE KeptInv'
  BY <1>1, <1>2, <1>7 DEF idlePass
<1>8. ASSUME NEW n \in Node, NEW i \in DOMAIN passing[n], AskAlive(n, i) PROVE KeptInv'
  <2>1. passing'[n] # <<>>
    BY <1>8, AskKeepsCarriers DEF SameCarriers
  <2> QED
    BY <1>1, <1>8, <2>1 DEF AskAlive
<1>9. ASSUME NEW n \in Node, NEW i \in DOMAIN passing[n], DropToken(n, i) PROVE KeptInv'
  BY <1>9, NextNodeType DEF DropToken, KeptInv, nodeVars
<1>10. ASSUME NEW n \in Node, NEW i \in DOMAIN passing[n], PutToken(n, i) PROVE KeptInv'
  <2>1. passing[n][i].seq \in SeqNum /\ NextNode(n) \in Node
    <3>1. passing[n][i] \in Carried
      OBVIOUS
    <3> QED
      BY <3>1, NextNodeType DEF Carried
  <2>2. PICK k \in SeqNum, m \in Node : TokenCh' = [TokenCh EXCEPT ![m] = Append(@, k)]
    BY <1>10, <2>1 DEF PutToken
  <2>3. TokenCh'[m] # <<>>
    <3>1. TokenCh'[m] = Append(TokenCh[m], k) /\ TokenCh[m] \in Seq(SeqNum)
      BY <2>2
    <3> QED
      BY <3>1, AppendNonEmpty
  <2> QED
    BY <1>1, <1>10, <2>3 DEF PutToken
<1>11. ASSUME NEW n \in Node, LoopExit(n) \/ Kill(n) \/ Stop(n) PROVE KeptInv'
  BY <1>11 DEF LoopExit, Kill, Stop, managerVars, KeptInv
<1>12. CASE UNCHANGED vars
  BY <1>1, <1>12 DEF vars, managerVars
<1> QED
  BY <1>3, <1>4, <1>5, <1>6, <1>7, <1>8, <1>9, <1>10, <1>11, <1>12
     DEF Next, Loop, OnPassToken, DeliverToken

(* Until a node is killed the token is neither lost nor at rest where      *)
(* nobody takes it up, whatever requests, releases, ticks and deliveries   *)
(* race with each other.                                                   *)
THEOREM TokenKeptUntilKillHolds == Spec => []TokenKeptUntilKill
<1>1. Init => KeptInv
  <2> SUFFICES ASSUME Init PROVE KeptInv
    OBVIOUS
  <2>1. 0 \in Node /\ hasToken[0]
    BY RingAssumption DEF Init, Node
  <2> QED
    BY <2>1 DEF Init, KeptInv
<1>2. TypeOK /\ TypeOK' /\ KeptInv /\ [Next]_vars => KeptInv'
  BY KeptInductive
<1>3. KeptInv => TokenKeptUntilKill
  BY DEF KeptInv, TokenKeptUntilKill, TokenStranded
<1> QED
  BY <1>1, <1>2, <1>3, TypeCorrect, PTL DEF Spec

-----------------------------------------------------------------------------
LEMMA MutexFollows == TypeOK /\ TokenApart /\ CSOnlyWithToken /\ HolderAgreement => MutualExclusion
<1> SUFFICES ASSUME TypeOK, TokenApart, CSOnlyWithToken, HolderAgreement,
                    NEW c \in Client, NEW d \in Client, InCS(c), InCS(d)
             PROVE  c = d
  BY DEF MutualExclusion
<1>1. csHolder[at[c]] = c /\ csHolder[at[d]] = d /\ at[c] \in Node /\ at[d] \in Node
  BY DEF HolderAgreement, TypeOK
<1>2. hasToken[at[c]] /\ hasToken[at[d]]
  BY <1>1, NameAssumption DEF HolderAgreement, CSOnlyWithToken
<1>3. at[c] = at[d]
  BY <1>1, <1>2 DEF TokenApart
<1> QED
  BY <1>1, <1>3

-----------------------------------------------------------------------------
(* Mutual exclusion between the callers: whoever is in the critical        *)
(* section is there as the csHolder of a node with the token, and at most  *)
(* one node has it.                                                        *)
THEOREM MutualExclusionHolds == Spec => []MutualExclusion
<1> QED
  BY MutexFollows, TypeCorrect, TokenInvariant, Agreement, PTL

-----------------------------------------------------------------------------
(* Nobody is in the critical section when a node with the token is not.    *)
LEMMA IdleTokenMeansFree ==
    ASSUME TypeOK, TokenApart, CSOnlyWithToken, HolderAgreement,
           NEW n \in Node, ~inCS[n], hasToken[n] \/ TokenCh[n] # <<>>
    PROVE  \A d \in Client : ~InCS(d)
<1> SUFFICES ASSUME NEW d \in Client, InCS(d) PROVE FALSE
  OBVIOUS
<1>1. at[d] \in Node /\ inCS[at[d]]
  BY NameAssumption DEF TypeOK, HolderAgreement
<1>2. hasToken[at[d]]
  BY <1>1 DEF CSOnlyWithToken
<1> QED
  BY <1>1, <1>2 DEF TokenApart

(* The step simulation.                                                    *)
LEMMA StepImplements ==
    ASSUME TypeOK, TypeOK', TokenApart, CSOnlyWithToken, HolderAgreement, Queues, [Next]_vars
    PROVE  [Lock!MutexNext]_(Lock!mutexVars)
<1> USE DEF TypeOK
<1> DEFINE Stutter == LockStatus' = LockStatus
           Step == [Lock!MutexNext]_(Lock!mutexVars)
<1>0. Stutter => Step
  BY DEF Lock!mutexVars
<1>1. ASSUME NEW n \in Node, NEW c \in Client, GrantAtOnce(n, c) PROVE Step
  <2>1. \A d \in Client : ~InCS(d)
    BY <1>1, IdleTokenMeansFree DEF GrantAtOnce
  <2>2. Lock!Enter(c)
    BY <1>1, <2>1 DEF GrantAtOnce, Lock!Enter, Lock!Free, LockStatus, InCS
  <2> QED
    BY <2>2 DEF Lock!MutexNext
<1>2. ASSUME NEW n \in Node, NEW c \in Client, Enqueue(n, c) PROVE Step
  <2>1. Lock!Wait(c)
    BY <1>2 DEF Enqueue, Lock!Wait, LockStatus, InCS
  <2> QED
    BY <2>1 DEF Lock!MutexNext
<1>3. ASSUME NEW n \in Node, NEW c \in Client, MayRelease(n, c)
      PROVE  phase[c] = "holding" /\ PhaseAfterRelease(n, c) = "idle"
  BY <1>3 DEF MayRelease, HolderAgreement, InCS, PhaseAfterRelease
<1>4. ASSUME NEW n \in Node, NEW c \in Client, ReleaseToNext(n, c) PROVE Step
  <2> DEFINE h == Head(waitQueue[n])
  <2>1. h \in Client /\ phase[h] = "queued"
    <3>1. waitQueue[n] \in Seq(Client) /\ Distinct(waitQueue[n]) /\ waitQueue[n] # <<>>
      BY <1>4 DEF Queues, ReleaseToNext
    <3>2. h \in Client /\ In(waitQueue[n], h)
      BY SMTT(30), <3>1, TailDistinct
    <3> QED
      BY <3>2 DEF Queues
  <2>2. phase[c] = "holding" /\ phase' = [phase EXCEPT ![c] = "idle", ![h] = "granted"]
    BY <1>3, <1>4 DEF ReleaseToNext
  <2>3. Lock!HandOver(c, h)
    BY <2>1, <2>2 DEF Lock!HandOver, LockStatus, InCS
  <2> QED
    BY <2>1, <2>3 DEF Lock!MutexNext
<1>5. ASSUME NEW n \in Node, NEW c \in Client, ReleaseAndPass(n, c) PROVE Step
  <2>1. phase[c] = "holding" /\ phase' = [phase EXCEPT ![c] = "idle"]
    BY <1>3, <1>5 DEF ReleaseAndPass
  <2>2. Lock!Leave(c)
    BY <2>1 DEF Lock!Leave, LockStatus, InCS
  <2> QED
    BY <2>2 DEF Lock!MutexNext
<1>6. ASSUME NEW n \in Node, handleTokenReceive(n) PROVE Step
  <2>1. CASE ReceiveIdle(n)
    BY <1>0, <2>1 DEF ReceiveIdle, LockStatus, InCS
  <2>2. CASE ReceiveGrant(n)
    <3> DEFINE h == Head(waitQueue[n])
    <3>1. h \in Client /\ phase[h] = "queued"
      <4>1. waitQueue[n] \in Seq(Client) /\ Distinct(waitQueue[n]) /\ waitQueue[n] # <<>>
        BY <2>2 DEF Queues, ReceiveGrant
      <4>2. h \in Client /\ In(waitQueue[n], h)
        BY <4>1, TailDistinct
      <4> QED
        BY <4>2 DEF Queues
    <3>2. \A d \in Client : ~InCS(d)
      <4>1. ~inCS[n] /\ TokenCh[n] # <<>>
        BY <1>6 DEF handleTokenReceive, TokenApart, CSOnlyWithToken
      <4> QED
        BY <4>1, IdleTokenMeansFree
    <3>3. Lock!Enter(h)
      BY <2>2, <3>1, <3>2 DEF ReceiveGrant, Lock!Enter, Lock!Free, LockStatus, InCS
    <3> QED
      BY <3>1, <3>3 DEF Lock!MutexNext
  <2> QED
    BY <1>6, <2>1, <2>2 DEF handleTokenReceive
<1>7. ASSUME NEW c \in Client, Return(c) PROVE Step
  BY <1>0, <1>7 DEF Return, LockStatus, InCS
<1>8. ASSUME NEW n \in Node, idlePass(n) \/ OnPassToken(n) PROVE Step
  BY <1>0, <1>8 DEF idlePass, OnPassToken, AskAlive, DropToken, DeliverToken, PutToken,
                    clientVars, LockStatus, InCS
<1>9. ASSUME NEW n \in Node, LoopExit(n) \/ Kill(n) \/ Stop(n) PROVE Step
  BY <1>0, <1>9 DEF LoopExit, Kill, Stop, clientVars, LockStatus, InCS
<1>10. CASE UNCHANGED vars
  BY <1>0, <1>10 DEF vars, clientVars, LockStatus, InCS
<1> QED
  BY <1>1, <1>2, <1>4, <1>5, <1>6, <1>7, <1>8, <1>9, <1>10
     DEF Next, Loop, RequestAccess, ReleaseAccess

(* The distributed lock implements the abstract one.                       *)
THEOREM LockImplementsMutex == Spec => ImplementsMutex
<1>1. Init => Lock!MutexInit
  BY DEF Init, Lock!MutexInit, LockStatus, InCS
<1>2. TypeOK /\ TypeOK' /\ TokenApart /\ CSOnlyWithToken /\ HolderAgreement /\ Queues /\ [Next]_vars
        => [Lock!MutexNext]_(Lock!mutexVars)
  BY StepImplements
<1> QED
  BY <1>1, <1>2, TypeCorrect, TokenInvariant, Agreement, QueuesAgree, PTL
     DEF Spec, ImplementsMutex, Lock!MutexSpec
=============================================================================
