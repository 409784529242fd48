------------------------ MODULE TokenRingRPC_proofs ------------------------
(***************************************************************************)
(* Theorems about the lock as it is deployed, for every number of          *)
(* processes and clients: as long as the lowest ID's process is not        *)
(* launched a second time, the launches, the exits and the lost calls do   *)
(* not put a second token into the ring or a second client into the        *)
(* critical section.                                                       *)
(***************************************************************************)
EXTENDS TokenRingRPC, TokenRing_proofs

LowestStartsOnce == 0 \notin Relaunchable

(* A node whose process is not up has nothing.                             *)
Bare(n) ==
    /\ ~running[n] /\ ~hasToken[n] /\ ~inCS[n] /\ csHolder[n] = NoClient
    /\ waitQueue[n] = <<>> /\ TokenCh[n] = <<>> /\ passing[n] = <<>>

DownIsBare == \A n \in Node : ~alive[n] => Bare(n)

(* There is no token before the lowest ID's process is launched.           *)
TokenFree == \A n \in Node : ~hasToken[n] /\ TokenCh[n] = <<>> /\ passing[n] = <<>>
Unborn    == 0 \notin launched => TokenFree

(* The steps of one process that are steps of the ring.                    *)
RingStep(n) ==
    \/ alive[n] /\ \E c \in Client : RequestAccess(n, c) \/ ReleaseAccess(n, c)
    \/ handleTokenReceive(n) \/ idlePass(n)
    \/ \E i \in DOMAIN passing[n] : SendToken(n, i)

LEMMA RingStepIsNext == ASSUME NEW n \in Node, RingStep(n) PROVE RingNext
BY DEF RingStep, RingNext, Next, Loop, SendToken

LEMMA StepCases ==
    ASSUME [RPCNext]_rpcVars
    PROVE  \/ \E n \in Node : Launch(n) \/ Exit(n)
           \/ /\ UNCHANGED launched
              /\ \/ \E n \in Node : RingStep(n)
                 \/ \E c \in Client : Return(c)
                 \/ \E n \in Node : \E i \in DOMAIN passing[n] : LoseToken(n, i)
                 \/ UNCHANGED vars
BY DEF RPCNext, RingStep, CallPassToken, rpcVars

-----------------------------------------------------------------------------
LEMMA RPCTypeInductive ==
    ASSUME TypeOK, launched \subseteq Node, [RPCNext]_rpcVars
    PROVE  TypeOK' /\ launched' \subseteq Node
<1>1. ASSUME NEW n \in Node, Launch(n) PROVE TypeOK' /\ launched' \subseteq Node
  BY <1>1 DEF Launch, NewTokenRingManager, clientVars, TypeOK
<1>2. ASSUME NEW n \in Node, Exit(n) PROVE TypeOK' /\ launched' \subseteq Node
  <2>1. /\ 0 \in SeqNum /\ "idle" \in Phase
        /\ <<>> \in Seq(Client) /\ <<>> \in Seq(SeqNum) /\ <<>> \in Seq(Carried)
    BY IntAssumption DEF SeqNum, Phase
  <2> QED
    BY <1>2, <2>1 DEF Exit, TypeOK
<1>3. ASSUME NEW n \in Node, RingStep(n), UNCHANGED launched
      PROVE  TypeOK' /\ launched' \subseteq Node
  BY <1>3, RingStepIsNext, TypeInductive
<1>4. ASSUME NEW c \in Client, Return(c), UNCHANGED launched
      PROVE  TypeOK' /\ launched' \subseteq Node
  BY <1>4, TypeInductive DEF RingNext, Next
<1>5. ASSUME NEW n \in Node, NEW i \in DOMAIN passing[n], LoseToken(n, i), UNCHANGED launched
      PROVE  TypeOK' /\ launched' \subseteq Node
  <2>1. RemoveAt(passing[n], i) \in Seq(Carried)
    BY RemoveAtSeq DEF TypeOK
  <2> QED
    BY <1>5, <2>1 DEF LoseToken, nodeVars, managerVars, clientVars, TypeOK
<1>6. ASSUME UNCHANGED vars, UNCHANGED launched PROVE TypeOK' /\ launched' \subseteq Node
  BY <1>6, TypeInductive
<1> QED
  BY <1>1, <1>2, <1>3, <1>4, <1>5, <1>6, StepCases

LEMMA RPCTypeInit == RPCInit => TypeOK /\ launched \subseteq Node
<1> SUFFICES ASSUME RPCInit PROVE TypeOK /\ launched \subseteq Node
  OBVIOUS
<1>1. 0 \in SeqNum /\ 0 \in Node /\ "idle" \in Phase
  BY RingAssumption, IntAssumption DEF SeqNum, Node, Phase
<1>2. <<>> \in Seq(Client) /\ <<>> \in Seq(SeqNum) /\ <<>> \in Seq(Carried)
  OBVIOUS
<1> QED
  BY <1>1, <1>2 DEF RPCInit, TypeOK

(* Launches, exits and lost calls keep managers, channels and callers      *)
(* typed.                                                                  *)
THEOREM RPCTypeCorrect == RPCSpec => [](TypeOK /\ launched \subseteq Node)
<1>1. TypeOK /\ launched \subseteq Node /\ [RPCNext]_rpcVars
        => (TypeOK /\ launched \subseteq Node)'
  BY RPCTypeInductive
<1> QED
  BY <1>1, RPCTypeInit, PTL DEF RPCSpec

-----------------------------------------------------------------------------
(* What a process does touches no process that is down.                    *)

LEMMA DownInductive ==
    ASSUME TypeOK, DownIsBare, [RPCNext]_rpcVars
    PROVE  DownIsBare'
<1> USE DEF TypeOK
<1>1. ASSUME NEW n \in Node, Launch(n) PROVE DownIsBare'
  BY <1>1 DEF Launch, NewTokenRingManager, DownIsBare, Bare
<1>2. ASSUME NEW n \in Node, Exit(n) PROVE DownIsBare'
  BY <1>2 DEF Exit, DownIsBare, Bare
<1>3. ASSUME NEW n \in Node, RingStep(n) PROVE DownIsBare'
  <2>1. ASSUME alive[n], NEW c \in Client, RequestAccess(n, c) \/ ReleaseAccess(n, c)
        PROVE  DownIsBare'
    <3>1. UNCHANGED nodeVars /\ UNCHANGED TokenCh
      BY <2>1 DEF RequestAccess, GrantAtOnce, Enqueue, ReleaseAccess, ReleaseToNext, ReleaseAndPass
    <3>2. ASSUME NEW m \in Node, m # n
          PROVE  /\ hasToken'[m] = hasToken[m] /\ inCS'[m] = inCS[m]
                 /\ csHolder'[m] = csHolder[m] /\ waitQueue'[m] = waitQueue[m]
                 /\ passing'[m] = passing[m]
      BY <2>1, <3>2 DEF RequestAccess, GrantAtOnce, Enqueue, ReleaseAccess, ReleaseToNext,
                        ReleaseAndPass, GrantFirst, passTokenLocked
    <3> QED
      BY <2>1, <3>1, <3>2 DEF DownIsBare, Bare, nodeVars
  <2>2. CASE handleTokenReceive(n)
    <3>1. UNCHANGED nodeVars /\ running[n] /\ passing' = passing
      BY <2>2 DEF handleTokenReceive
    <3>2. ASSUME NEW m \in Node, m # n
          PROVE  /\ hasToken'[m] = hasToken[m] /\ inCS'[m] = inCS[m]
                 /\ csHolder'[m] = csHolder[m] /\ waitQueue'[m] = waitQueue[m]
                 /\ TokenCh'[m] = TokenCh[m]
      BY <2>2, <3>2 DEF handleTokenReceive, ReceiveGrant, ReceiveIdle, GrantFirst
    <3> QED
      BY <3>1, <3>2 DEF DownIsBare, Bare, nodeVars
  <2>3. CASE idlePass(n)
    BY <2>3 DEF idlePass, passTokenLocked, nodeVars, DownIsBare, Bare
  <2>4. ASSUME NEW i \in DOMAIN passing[n], SendToken(n, i) PROVE DownIsBare'
    <3>1. alive[NextNode(n)] /\ NextNode(n) \in Node /\ passing[n] # <<>>
      BY <2>4, NextNodeType DEF SendToken, PutToken
    <3>2. \A m \in Node : /\ m # NextNode(n) => TokenCh'[m] = TokenCh[m]
                          /\ m # n => passing'[m] = passing[m]
      BY <2>4, <3>1 DEF SendToken, PutToken
    <3>3. UNCHANGED <<nodeVars, managerVars>>
      BY <2>4 DEF SendToken, PutToken
    <3> QED
      BY <3>1, <3>2, <3>3 DEF DownIsBare, Bare, nodeVars, managerVars
  <2> QED
    BY <1>3, <2>1, <2>2, <2>3, <2>4 DEF RingStep
<1>4. ASSUME NEW c \in Client, Return(c) PROVE DownIsBare'
  BY <1>4 DEF Return, nodeVars, managerVars, DownIsBare, Bare
<1>5. ASSUME NEW n \in Node, NEW i \in DOMAIN passing[n], LoseToken(n, i) PROVE DownIsBare'
  <2>1. \A m \in Node : m # n => passing'[m] = passing[m]
    BY <1>5 DEF LoseToken
  <2>2. UNCHANGED <<nodeVars, managerVars, TokenCh>> /\ passing[n] # <<>>
    BY <1>5 DEF LoseToken
  <2> QED
    BY <2>1, <2>2 DEF DownIsBare, Bare, nodeVars, managerVars
<1>6. CASE UNCHANGED vars
  BY <1>6 DEF vars, nodeVars, managerVars, DownIsBare, Bare
<1> QED
  BY <1>1, <1>2, <1>3, <1>4, <1>5, <1>6, StepCases

LEMMA DownHolds == RPCSpec => []DownIsBare
<1>1. RPCInit => DownIsBare
  BY DEF RPCInit, DownIsBare, Bare
<1>2. TypeOK /\ DownIsBare /\ [RPCNext]_rpcVars => DownIsBare'
  BY DownInductive
<1> QED
  BY <1>1, <1>2, RPCTypeCorrect, PTL DEF RPCSpec

-----------------------------------------------------------------------------
(* Where tokens come from.                                                 *)

LEMMA CSInductive ==
    ASSUME TypeOK, DownIsBare, CSOnlyWithToken, [RPCNext]_rpcVars
    PROVE  CSOnlyWithToken'
<1> USE DEF TypeOK
<1>1. ASSUME NEW n \in Node, Launch(n) PROVE CSOnlyWithToken'
  BY <1>1 DEF Launch, NewTokenRingManager, DownIsBare, Bare, CSOnlyWithToken
<1>2. ASSUME NEW n \in Node, Exit(n) PROVE CSOnlyWithToken'
  BY <1>2 DEF Exit, CSOnlyWithToken
<1>3. ASSUME NEW n \in Node, RingStep(n) PROVE CSOnlyWithToken'
  <2>1. ASSUME NEW c \in Client, RequestAccess(n, c) PROVE CSOnlyWithToken'
    BY <2>1 DEF RequestAccess, GrantAtOnce, Enqueue, CSOnlyWithToken
  <2>2. ASSUME NEW c \in Client, ReleaseAccess(n, c) PROVE CSOnlyWithToken'
    BY ZenonT(30), <2>2 DEF ReleaseAccess, ReleaseToNext, ReleaseAndPass, MayRelease, GrantFirst,
                passTokenLocked, CSOnlyWithToken
  <2>3. CASE handleTokenReceive(n)
    BY <2>3 DEF handleTokenReceive, ReceiveGrant, ReceiveIdle, GrantFirst, CSOnlyWithToken
  <2>4. CASE idlePass(n)
    BY <2>4 DEF idlePass, passTokenLocked, CSOnlyWithToken
  <2>5. ASSUME NEW i \in DOMAIN passing[n], SendToken(n, i) PROVE CSOnlyWithToken'
    BY <2>5 DEF SendToken, PutToken, managerVars, CSOnlyWithToken
  <2> QED
    BY <1>3, <2>1, <2>2, <2>3, <2>4, <2>5 DEF RingStep
<1>4. CASE /\ UNCHANGED launched
           /\ \/ \E c \in Client : Return(c)
              \/ \E n \in Node : \E i \in DOMAIN passing[n] : LoseToken(n, i)
              \/ UNCHANGED vars
  BY <1>4 DEF Return, LoseToken, vars, managerVars, CSOnlyWithToken
<1> QED
  BY <1>1, <1>2, <1>3, <1>4, StepCases

LEMMA CSHolds == RPCSpec => []CSOnlyWithToken
<1>1. RPCInit => CSOnlyWithToken
  BY DEF RPCInit, CSOnlyWithToken
<1>2. TypeOK /\ DownIsBare /\ CSOnlyWithToken /\ [RPCNext]_rpcVars => CSOnlyWithToken'
  BY CSInductive
<1> QED
  BY <1>1, <1>2, RPCTypeCorrect, DownHolds, PTL DEF RPCSpec

(* No step but the launch of the lowest ID makes a token.                  *)
LEMMA FreeStaysFree ==
    ASSUME TypeOK, CSOnlyWithToken, TokenFree, [RPCNext]_rpcVars
    PROVE  TokenFree' \/ Launch(0)
<1> USE DEF TypeOK
<1>1. ASSUME NEW n \in Node, Launch(n), n # 0 PROVE TokenFree'
  BY <1>1 DEF Launch, NewTokenRingManager, TokenFree
<1>2. ASSUME NEW n \in Node, Exit(n) PROVE TokenFree'
  BY <1>2 DEF Exit, TokenFree
<1>3. ASSUME NEW n \in Node, RingStep(n) PROVE TokenFree'
  <2>1. ASSUME NEW c \in Client, RequestAccess(n, c) PROVE TokenFree'
    BY <2>1 DEF RequestAccess, GrantAtOnce, Enqueue, TokenFree
  <2>2. ASSUME NEW c \in Client, ReleaseAccess(n, c) PROVE FALSE
    BY <2>2 DEF ReleaseAccess, ReleaseToNext, ReleaseAndPass, MayRelease, CSOnlyWithToken, TokenFree
  <2> QED
    BY <1>3, <2>1, <2>2 DEF RingStep, handleTokenReceive, idlePass, TokenFree
<1>4. ASSUME NEW c \in Client, Return(c) PROVE TokenFree'
  BY <1>4 DEF Return, managerVars, TokenFree
<1>5. ASSUME NEW n \in Node, NEW i \in DOMAIN passing[n] PROVE FALSE
  BY <1>5 DEF TokenFree
<1>6. CASE UNCHANGED vars
  BY <1>6 DEF vars, managerVars, TokenFree
<1> QED
  BY <1>1, <1>2, <1>3, <1>4, <1>5, <1>6, StepCases

LEMMA FreeMeansNoPlace == TypeOK => (TokenFree <=> TokenPlaces = {})
<1> SUFFICES ASSUME TypeOK PROVE TokenFree <=> TokenPlaces = {}
  OBVIOUS
<1>1. ASSUME TokenFree, NEW x \in TokenPlaces PROVE FALSE
  <2>1. \A n \in Node : DOMAIN TokenCh[n] = {} /\ DOMAIN passing[n] = {}
    BY <1>1 DEF TokenFree
  <2> QED
    BY <1>1, <2>1 DEF TokenFree, TokenPlaces
<1>2. ASSUME NEW n \in Node, hasToken[n] PROVE TokenPlaces # {}
  <2>1. <<"held", n, 1>> \in TokenPlaces
    BY <1>2 DEF TokenPlaces
  <2> QED
    BY <2>1
<1>3. ASSUME NEW n \in Node, TokenCh[n] # <<>> PROVE TokenPlaces # {}
  <2>1. 1 \in DOMAIN TokenCh[n]
    BY <1>3 DEF TypeOK
  <2>2. <<"TokenCh", n, 1>> \in {<<"TokenCh", n, i>> : i \in DOMAIN TokenCh[n]}
    BY <2>1
  <2>3. <<"TokenCh", n, 1>> \in TokenPlaces
    BY <2>2 DEF TokenPlaces
  <2> QED
    BY <2>3
<1>4. ASSUME NEW n \in Node, passing[n] # <<>> PROVE TokenPlaces # {}
  <2>1. 1 \in DOMAIN passing[n]
    BY <1>4 DEF TypeOK
  <2>2. <<"passing", n, 1>> \in {<<"passing", n, i>> : i \in DOMAIN passing[n]}
    BY <2>1
  <2>3. <<"passing", n, 1>> \in TokenPlaces
    BY <2>2 DEF TokenPlaces
  <2> QED
    BY <2>3
<1> QED
  BY <1>1, <1>2, <1>3, <1>4 DEF TokenFree

(* A ring that has lost its token gets one again only from a launch of the *)
(* lowest ID's process, whatever else is launched, ends or is lost.        *)
THEOREM TokenBornWithLowestHolds == RPCSpec => TokenBornWithLowest
<1>0. (TypeOK => (TokenFree <=> TokenPlaces = {}))'
  BY FreeMeansNoPlace, PTL
<1>1. TypeOK /\ TypeOK' /\ CSOnlyWithToken /\ [RPCNext]_rpcVars
        => [TokenPlaces = {} /\ TokenPlaces' # {} => ~alive[0] /\ alive'[0]]_rpcVars
  <2> SUFFICES ASSUME TypeOK, TypeOK', CSOnlyWithToken, [RPCNext]_rpcVars,
                      TokenPlaces = {}, TokenPlaces' # {}
               PROVE  ~alive[0] /\ alive'[0]
    OBVIOUS
  <2>1. TokenFree
    BY FreeMeansNoPlace
  <2>2. ~TokenFree'
    BY <1>0
  <2>3. Launch(0)
    BY <2>1, <2>2, FreeStaysFree
  <2>4. 0 \in Node
    BY RingAssumption DEF Node
  <2> QED
    BY <2>3, <2>4 DEF Launch, TypeOK
<1> QED
  BY <1>1, RPCTypeCorrect, CSHolds, PTL DEF RPCSpec, TokenBornWithLowest

-----------------------------------------------------------------------------
(* One token, when the lowest ID's process is launched once.               *)

LEMMA OneTokenInductive ==
    ASSUME LowestStartsOnce, TypeOK, DownIsBare, CSOnlyWithToken, TokenApart, Unborn,
           [RPCNext]_rpcVars
    PROVE  TokenApart' /\ Unborn'
<1>1. Unborn'
  <2>1. CASE 0 \notin launched'
    <3>1. 0 \notin launched /\ ~Launch(0)
      BY <2>1, StepCases DEF Launch, Exit
    <3> QED
      BY <3>1, FreeStaysFree DEF Unborn
  <2> QED
    BY <2>1 DEF Unborn
<1>2. CASE Launch(0)
  <2>1. 0 \notin launched
    BY <1>2 DEF Launch, LowestStartsOnce
  <2>2. \A n \in Node : /\ hasToken'[n] => n = 0
                        /\ TokenCh'[n] = <<>> /\ passing'[n] = <<>>
    BY <1>2, <2>1 DEF Launch, NewTokenRingManager, Unborn, TokenFree, TypeOK
  <2>3. Len(<<>>) <= 1
    OBVIOUS
  <2>4. TokenApart'
    BY <2>2, <2>3 DEF TokenApart
  <2> QED
    BY <1>1, <2>4
<1>3. ASSUME NEW n \in Node, n # 0, Launch(n) PROVE TokenApart'
  BY <1>3 DEF Launch, NewTokenRingManager, TokenApart, TypeOK
<1>4. ASSUME NEW n \in Node, Exit(n) PROVE TokenApart'
  <2>1. \A m \in Node : /\ hasToken'[m] => hasToken[m]
                        /\ TokenCh'[m] = TokenCh[m] \/ TokenCh'[m] = <<>>
                        /\ passing'[m] = passing[m] \/ passing'[m] = <<>>
    BY <1>4 DEF Exit, TypeOK
  <2>2. Len(<<>>) <= 1
    OBVIOUS
  <2> QED
    BY <2>1, <2>2 DEF TokenApart
<1>5. ASSUME NEW n \in Node, RingStep(n) PROVE TokenApart'
  BY <1>5, RingStepIsNext, TokenInvInductive
<1>6. ASSUME NEW n \in Node, NEW i \in DOMAIN passing[n], LoseToken(n, i) PROVE TokenApart'
  <2>1. RemoveAt(passing[n], i) = <<>>
    BY ShortSeq DEF TokenApart, TypeOK
  <2>2. UNCHANGED <<hasToken, TokenCh>> /\ passing' = [passing EXCEPT ![n] = <<>>]
    BY <1>6, <2>1 DEF LoseToken, managerVars
  <2>3. \A m \in Node : passing'[m] = passing[m] \/ passing'[m] = <<>>
    BY <2>2 DEF TypeOK
  <2>4. Len(<<>>) <= 1
    OBVIOUS
  <2> QED
    BY <2>2, <2>3, <2>4 DEF TokenApart
<1>7. CASE (\E c \in Client : Return(c)) \/ UNCHANGED vars
  <2>1. [RingNext]_vars
    BY <1>7 DEF RingNext, Next
  <2> QED
    BY <1>1, <2>1, TokenInvInductive
<1>8. TokenApart'
  BY <1>1, <1>2, <1>3, <1>4, <1>5, <1>6, <1>7, StepCases
<1> QED
  BY <1>1, <1>8

LEMMA RPCTokenApart == ASSUME LowestStartsOnce PROVE RPCSpec => []TokenApart
<1>1. RPCInit => TokenApart /\ Unborn
  <2> SUFFICES ASSUME RPCInit PROVE TokenApart /\ Unborn
    OBVIOUS
  <2>1. \A n \in Node : ~hasToken[n] /\ TokenCh[n] = <<>> /\ passing[n] = <<>>
    BY DEF RPCInit
  <2>2. Len(<<>>) <= 1
    OBVIOUS
  <2> QED
    BY <2>1, <2>2 DEF TokenApart, Unborn, TokenFree
<1>2. TypeOK /\ DownIsBare /\ CSOnlyWithToken /\ TokenApart /\ Unborn /\ [RPCNext]_rpcVars
        => (TokenApart /\ Unborn)'
  BY OneTokenInductive
<1> QED
  BY <1>1, <1>2, RPCTypeCorrect, DownHolds, CSHolds, PTL DEF RPCSpec

(* The deployed ring never has two tokens, whichever processes end, are    *)
(* launched late or again, and whichever calls are lost, provided that the *)
(* lowest ID's process is launched once.                                   *)
THEOREM RPCSingleToken == ASSUME LowestStartsOnce PROVE RPCSpec => []OneToken
<1> QED
  BY RPCTokenApart, RPCTypeCorrect, OneTokenFollows, PTL

-----------------------------------------------------------------------------
(* The managers and the callers.                                           *)

(* A process that is down has no caller.                                   *)
LEMMA RPCAgreementInductive ==
    ASSUME TypeOK, TypeOK', DownIsBare, TokenApart, CSOnlyWithToken,
           HolderAgreement, Queues, [RPCNext]_rpcVars
    PROVE  HolderAgreement' /\ Queues'
<1>1. ASSUME NEW n \in Node, Launch(n) PROVE HolderAgreement' /\ Queues'
  <2>1. UNCHANGED <<inCS, csHolder, waitQueue, phase, at>>
    BY <1>1 DEF Launch, clientVars
  <2> QED
    BY <2>1 DEF HolderAgreement, Queues, InCS
<1>2. ASSUME NEW n \in Node, Exit(n) PROVE HolderAgreement' /\ Queues'
  <2>1. /\ inCS' = [inCS EXCEPT ![n] = FALSE] /\ csHolder' = [csHolder EXCEPT ![n] = NoClient]
        /\ waitQueue' = [waitQueue EXCEPT ![n] = <<>>] /\ at' = at
    BY <1>2 DEF Exit
  <2>2. \A c \in Client : phase'[c] = IF at[c] = n THEN "idle" ELSE phase[c]
    BY <1>2 DEF Exit
  <2>3. HolderAgreement'
    BY <2>1, <2>2, NameAssumption DEF HolderAgreement, InCS, TypeOK
  <2>4. \A m \in Node : waitQueue'[m] = IF m = n THEN <<>> ELSE waitQueue[m]
    BY <2>1 DEF TypeOK
  <2>5. ASSUME NEW m \in Node PROVE Distinct(waitQueue[m])'
    BY <2>4 DEF Queues, Distinct
  <2>6. ASSUME NEW m \in Node, NEW c \in Client
        PROVE  In(waitQueue'[m], c) <=> phase'[c] = "queued" /\ at'[c] = m
    <3>1. CASE m = n
      BY <2>1, <2>2, <2>4, <3>1 DEF In
    <3>2. CASE m # n
      BY <2>1, <2>2, <2>4, <3>2 DEF Queues
    <3> QED
      BY <3>1, <3>2
  <2> QED
    BY <2>3, <2>5, <2>6 DEF Queues, In
<1>3. ASSUME NEW n \in Node, RingStep(n) PROVE HolderAgreement' /\ Queues'
  BY <1>3, RingStepIsNext, AgreementInductive
<1>4. ASSUME NEW c \in Client, Return(c) PROVE HolderAgreement' /\ Queues'
  BY <1>4, AgreementInductive DEF RingNext, Next
<1>5. ASSUME NEW n \in Node, NEW i \in DOMAIN passing[n], LoseToken(n, i)
      PROVE  HolderAgreement' /\ Queues'
  <2>1. UNCHANGED <<inCS, csHolder, waitQueue, phase, at>>
    BY <1>5 DEF LoseToken, managerVars, clientVars
  <2> QED
    BY <2>1 DEF HolderAgreement, Queues, InCS
<1>6. CASE UNCHANGED vars
  BY <1>6, AgreementInductive
<1> QED
  BY <1>1, <1>2, <1>3, <1>4, <1>5, <1>6, StepCases

(* The terminals and the managers agree, after every exit and launch, on   *)
(* who holds the lock and who waits: a process that is launched again      *)
(* neither remembers a holder nor owes anybody an answer.                  *)
THEOREM RPCAgreement ==
    ASSUME LowestStartsOnce PROVE RPCSpec => [](HolderAgreement /\ QueueAgreement)
<1>1. RPCInit => HolderAgreement /\ Queues
  BY NameAssumption DEF RPCInit, HolderAgreement, Queues, InCS, In, Distinct
<1>2. TypeOK /\ TypeOK' /\ DownIsBare /\ TokenApart /\ CSOnlyWithToken /\
      HolderAgreement /\ Queues /\ [RPCNext]_rpcVars => (HolderAgreement /\ Queues)'
  BY RPCAgreementInductive
<1>3. RPCSpec => [](HolderAgreement /\ Queues)
  BY <1>1, <1>2, RPCTypeCorrect, DownHolds, CSHolds, RPCTokenApart, PTL DEF RPCSpec
<1> QED
  BY <1>3, QueuesAgree, PTL

(* Mutual exclusion between all terminals of the deployed cluster, under   *)
(* the same proviso.                                                       *)
THEOREM RPCMutualExclusion == ASSUME LowestStartsOnce PROVE RPCSpec => []MutualExclusion
<1> QED
  BY RPCAgreement, RPCTokenApart, RPCTypeCorrect, CSHolds, MutexFollows, PTL

LEMMA RPCNoIdleInductive ==
    ASSUME TypeOK, DownIsBare, NoIdleWaiter, [RPCNext]_rpcVars
    PROVE  NoIdleWaiter'
<1>1. ASSUME NEW n \in Node, Launch(n) PROVE NoIdleWaiter'
  BY <1>1 DEF Launch, NewTokenRingManager, DownIsBare, Bare, NoIdleWaiter, TypeOK
<1>2. ASSUME NEW n \in Node, Exit(n) PROVE NoIdleWaiter'
  BY <1>2 DEF Exit, NoIdleWaiter, TypeOK
<1>3. ASSUME NEW n \in Node, RingStep(n) PROVE NoIdleWaiter'
  BY <1>3, RingStepIsNext, NoIdleInductive
<1>4. ASSUME NEW c \in Client, Return(c) PROVE NoIdleWaiter'
  BY <1>4, NoIdleInductive DEF RingNext, Next
<1>5. ASSUME NEW n \in Node, NEW i \in DOMAIN passing[n], LoseToken(n, i) PROVE NoIdleWaiter'
  BY <1>5 DEF LoseToken, managerVars, NoIdleWaiter
<1>6. CASE UNCHANGED vars
  BY <1>6, NoIdleInductive
<1> QED
  BY <1>1, <1>2, <1>3, <1>4, <1>5, <1>6, StepCases

(* No request waits next to an idle token, whatever is launched again.     *)
THEOREM RPCNoLostWakeUp == RPCSpec => []NoIdleWaiter
<1>1. RPCInit => NoIdleWaiter
  BY DEF RPCInit, NoIdleWaiter
<1>2. TypeOK /\ DownIsBare /\ NoIdleWaiter /\ [RPCNext]_rpcVars => NoIdleWaiter'
  BY RPCNoIdleInductive
<1> QED
  BY <1>1, <1>2, RPCTypeCorrect, DownHolds, PTL DEF RPCSpec

-----------------------------------------------------------------------------
(* The abstract lock with processes that end.                              *)

LEMMA RPCStepImplements ==
    ASSUME TypeOK, TypeOK', TokenApart, CSOnlyWithToken, HolderAgreement, Queues,
           [RPCNext]_rpcVars
    PROVE  [Deployed!DeployedNext]_(Deployed!deployedVars)
<1> USE DEF TypeOK
<1> DEFINE Step == [Deployed!DeployedNext]_(Deployed!deployedVars)
<1>0. ASSUME LockStatus' = LockStatus, at' = at PROVE Step
  BY <1>0 DEF Deployed!deployedVars, Deployed!mutexVars
<1>1. ASSUME NEW n \in Node, NEW c \in Client, GrantAtOnce(n, c) PROVE Step
  <2>1. \A d \in Client : ~InCS(d)
    BY <1>1, IdleTokenMeansFree DEF GrantAtOnce
  <2>2. Deployed!Enter(c) /\ LockStatus[c] = "out"
    BY <1>1, <2>1 DEF GrantAtOnce, Deployed!Enter, Deployed!Free, LockStatus, InCS
  <2>3. Deployed!CallAt(c, n)
    BY <1>1, <2>2 DEF GrantAtOnce, Deployed!CallAt
  <2> QED
    BY <2>3 DEF Deployed!DeployedNext
<1>2. ASSUME NEW n \in Node, NEW c \in Client, Enqueue(n, c) PROVE Step
  <2>1. Deployed!Wait(c) /\ LockStatus[c] = "out"
    BY <1>2 DEF Enqueue, Deployed!Wait, LockStatus, InCS
  <2>2. Deployed!CallAt(c, n)
    BY <1>2, <2>1 DEF Enqueue, Deployed!CallAt
  <2> QED
    BY <2>2 DEF Deployed!DeployedNext
<1>3. ASSUME NEW n \in Node, NEW c \in Client, MayRelease(n, c)
      PROVE  phase[c] = "holding" /\ at[c] = n /\ PhaseAfterRelease(n, c) = "idle"
  BY <1>3 DEF MayRelease, HolderAgreement, InCS, PhaseAfterRelease
<1>4. ASSUME NEW n \in Node, waitQueue[n] # <<>>
      PROVE  /\ Head(waitQueue[n]) \in Client
             /\ phase[Head(waitQueue[n])] = "queued" /\ at[Head(waitQueue[n])] = n
  <2>1. waitQueue[n] \in Seq(Client) /\ Distinct(waitQueue[n])
    BY DEF Queues
  <2>2. Head(waitQueue[n]) \in Client /\ In(waitQueue[n], Head(waitQueue[n]))
    BY SMTT(30), <1>4, <2>1, TailDistinct
  <2> QED
    BY <2>2 DEF Queues
<1>5. ASSUME NEW n \in Node, NEW c \in Client, ReleaseToNext(n, c) PROVE Step
  <2>1. PICK h \in Client : h = Head(waitQueue[n]) /\ phase[h] = "queued" /\ at[h] = n
    BY <1>4, <1>5 DEF ReleaseToNext
  <2>2. /\ phase[c] = "holding" /\ at[c] = n /\ at' = at
        /\ phase' = [phase EXCEPT ![c] = "idle", ![h] = "granted"]
    BY <1>3, <1>5, <2>1 DEF ReleaseToNext
  <2>3. Deployed!HandOver(c, h)
    BY <2>1, <2>2 DEF Deployed!HandOver, LockStatus, InCS
  <2>4. Deployed!LeaveOrHandOver(c)
    BY <2>1, <2>2, <2>3 DEF Deployed!LeaveOrHandOver
  <2> QED
    BY <2>4 DEF Deployed!DeployedNext
<1>6. ASSUME NEW n \in Node, NEW c \in Client, ReleaseAndPass(n, c) PROVE Step
  <2>1. phase[c] = "holding" /\ phase' = [phase EXCEPT ![c] = "idle"] /\ at' = at
    BY <1>3, <1>6 DEF ReleaseAndPass
  <2>2. Deployed!Leave(c)
    BY <2>1 DEF Deployed!Leave, LockStatus, InCS
  <2>3. Deployed!LeaveOrHandOver(c)
    BY <2>1, <2>2 DEF Deployed!LeaveOrHandOver
  <2> QED
    BY <2>3 DEF Deployed!DeployedNext
<1>7. ASSUME NEW n \in Node, handleTokenReceive(n) PROVE Step
  <2>1. at' = at
    BY <1>7 DEF handleTokenReceive
  <2>2. CASE ReceiveIdle(n)
    BY <1>0, <2>1, <2>2 DEF ReceiveIdle, LockStatus, InCS
  <2>3. CASE ReceiveGrant(n)
    <3>1. PICK h \in Client : h = Head(waitQueue[n]) /\ phase[h] = "queued"
      BY <1>4, <2>3 DEF ReceiveGrant
    <3>2. \A d \in Client : ~InCS(d)
      <4>1. ~inCS[n] /\ TokenCh[n] # <<>>
        BY <1>7 DEF handleTokenReceive, TokenApart, CSOnlyWithToken
      <4> QED
        BY <4>1, IdleTokenMeansFree
    <3>3. phase' = [phase EXCEPT ![h] = "granted"]
      BY <2>3, <3>1 DEF ReceiveGrant
    <3>4. Deployed!Enter(h) /\ LockStatus[h] = "waiting"
      BY <3>1, <3>2, <3>3 DEF Deployed!Enter, Deployed!Free, LockStatus, InCS
    <3>5. Deployed!Admit(h)
      BY <2>1, <3>4 DEF Deployed!Admit
    <3> QED
      BY <3>5 DEF Deployed!DeployedNext
  <2> QED
    BY <1>7, <2>2, <2>3 DEF handleTokenReceive
<1>8. ASSUME NEW n \in Node, idlePass(n) \/ (\E i \in DOMAIN passing[n] : SendToken(n, i))
      PROVE  Step
  BY <1>0, <1>8 DEF idlePass, SendToken, PutToken, clientVars, LockStatus, InCS
<1>9. ASSUME NEW n \in Node, RingStep(n) PROVE Step
  BY <1>1, <1>2, <1>5, <1>6, <1>7, <1>8, <1>9 DEF RingStep, RequestAccess, ReleaseAccess
<1>10. ASSUME NEW c \in Client, Return(c) PROVE Step
  BY <1>0, <1>10 DEF Return, LockStatus, InCS
<1>11. ASSUME NEW n \in Node, NEW i \in DOMAIN passing[n], LoseToken(n, i) PROVE Step
  BY <1>0, <1>11 DEF LoseToken, clientVars, LockStatus, InCS
<1>12. ASSUME NEW n \in Node, Launch(n) PROVE Step
  BY <1>0, <1>12 DEF Launch, clientVars, LockStatus, InCS
<1>13. ASSUME NEW n \in Node, Exit(n) PROVE Step
  <2>1. /\ phase' = [c \in Client |-> IF at[c] = n THEN "idle" ELSE phase[c]]
        /\ at' = at
    BY <1>13 DEF Exit
  <2>2. LockStatus' = [c \in Client |-> IF at[c] = n THEN "out" ELSE LockStatus[c]]
    BY <2>1 DEF LockStatus, InCS
  <2>3. Deployed!Quit(n)
    BY <2>1, <2>2 DEF Deployed!Quit
  <2> QED
    BY <2>3 DEF Deployed!DeployedNext
<1>14. CASE UNCHANGED vars
  BY <1>0, <1>14 DEF vars, clientVars, LockStatus, InCS
<1> QED
  BY <1>9, <1>10, <1>11, <1>12, <1>13, <1>14, StepCases

(* The deployed lock implements the abstract lock with processes that end: *)
(* whatever dials fail and whatever is launched, ends and is launched      *)
(* again, the lowest ID's process apart, a section is given to one caller  *)
(* at a time, handed over only between callers of one process, and a       *)
(* process that ends takes no caller of another with it.                   *)
THEOREM DeployedLockImplementsMutex ==
    ASSUME LowestStartsOnce PROVE RPCSpec => ImplementsDeployedMutex
<1>1. RPCInit => Deployed!DeployedInit
  <2>1. 0 \in Node
    BY RingAssumption DEF Node
  <2> QED
    BY <2>1 DEF RPCInit, Deployed!DeployedInit, Deployed!MutexInit, LockStatus, InCS
<1>2. TypeOK /\ TypeOK' /\ TokenApart /\ CSOnlyWithToken /\ HolderAgreement /\ QueueAgreement
        /\ [RPCNext]_rpcVars
        => [Deployed!DeployedNext]_(Deployed!deployedVars)
  BY RPCStepImplements, QueuesAgree
<1> QED
  BY <1>1, <1>2, RPCTypeCorrect, RPCTokenApart, CSHolds, RPCAgreement, PTL
     DEF RPCSpec, ImplementsDeployedMutex, Deployed!DeployedSpec
=============================================================================
