---------------------------- MODULE TokenRingRPC ----------------------------
(***************************************************************************)
(* The lock as cmd/coordinator deploys it: one operating-system process    *)
(* per node, launched one after the other, and the token sent by a         *)
(* fire-and-forget call of internal/transport/transport.go.                *)
(*                                                                         *)
(* The managers are those of TokenRing.  What differs is around them: a    *)
(* process that is not up answers no dial, a dial that fails loses the     *)
(* token, and a process that ends takes with it its manager, its channels, *)
(* its goroutines and the callers at its terminal.  A process launched     *)
(* again starts from NewTokenRingManager: nothing is persisted.            *)
(*                                                                         *)
(* A definition named X_y is X with the fault y: the specification never   *)
(* uses it, and the properties are checked to tell it from X.              *)
(***************************************************************************)
EXTENDS TokenRing

CONSTANTS
    Relaunchable,   \* the nodes whose process may be launched again
    MayExit,        \* the nodes whose process may end
    DialMayFail     \* TRUE: a dial may fail although the peer is up

ASSUME DeploymentAssumption ==
    Relaunchable \subseteq Node /\ MayExit \subseteq Node /\ DialMayFail \in BOOLEAN

VARIABLE launched   \* the nodes whose process has ever been launched

rpcVars == <<vars, launched>>

-----------------------------------------------------------------------------
(* No process is up.                                                       *)
RPCInit ==
    /\ alive      = [n \in Node |-> FALSE]
    /\ stopClosed = [n \in Node |-> FALSE]
    /\ running    = [n \in Node |-> FALSE]
    /\ hasToken   = [n \in Node |-> FALSE]
    /\ seqNum     = [n \in Node |-> 0]
    /\ inCS       = [n \in Node |-> FALSE]
    /\ csHolder   = [n \in Node |-> NoClient]
    /\ waitQueue  = [n \in Node |-> <<>>]
    /\ TokenCh    = [n \in Node |-> <<>>]
    /\ passing    = [n \in Node |-> <<>>]
    /\ phase      = [c \in Client |-> "idle"]
    /\ at         = [c \in Client |-> 0]
    /\ launched   = {}

NewTokenRingManager_everyone(n) == hasToken' = [hasToken EXCEPT ![n] = TRUE]

(* NewTokenRingManager: the lowest ID starts with the token.               *)
NewTokenRingManager(n) == hasToken' = [hasToken EXCEPT ![n] = n = 0]

(* main: NewCoordinatorNode, StartRPC, SetupRPCComm and Start.  The rest   *)
(* of the manager has the zero values it had before the first launch or    *)
(* got from Exit.                                                          *)
Launch(n) ==
    /\ ~alive[n]
    /\ n \in launched => n \in Relaunchable
    /\ alive'    = [alive EXCEPT ![n] = TRUE]
    /\ running'  = [running EXCEPT ![n] = TRUE]
    /\ launched' = launched \cup {n}
    /\ NewTokenRingManager(n)
    /\ UNCHANGED <<stopClosed, seqNum, inCS, csHolder, waitQueue, TokenCh, passing, clientVars>>

(* Ctrl-C, "quit" or a crash.                                              *)
Exit(n) ==
    /\ n \in MayExit
    /\ alive[n]
    /\ alive'     = [alive EXCEPT ![n] = FALSE]
    /\ running'   = [running EXCEPT ![n] = FALSE]
    /\ hasToken'  = [hasToken EXCEPT ![n] = FALSE]
    /\ seqNum'    = [seqNum EXCEPT ![n] = 0]
    /\ inCS'      = [inCS EXCEPT ![n] = FALSE]
    /\ csHolder'  = [csHolder EXCEPT ![n] = NoClient]
    /\ waitQueue' = [waitQueue EXCEPT ![n] = <<>>]
    /\ TokenCh'   = [TokenCh EXCEPT ![n] = <<>>]
    /\ passing'   = [passing EXCEPT ![n] = <<>>]
    /\ phase'     = [c \in Client |-> IF at[c] = n THEN "idle" ELSE phase[c]]
    /\ UNCHANGED <<stopClosed, at, launched>>

-----------------------------------------------------------------------------
(* SendToken: dial, call, and nothing more.                                *)

(* A node is not among its own PeerAddrs: a ring of one has no client for  *)
(* its successor, itself.                                                  *)
Dials(n) == NextNode(n) # n

SendToken_retried(n, i) ==
    /\ Dials(n) /\ alive[NextNode(n)] /\ Len(TokenCh[NextNode(n)]) < TokenChCap
    /\ TokenCh' = [TokenCh EXCEPT ![NextNode(n)] = Append(@, passing[n][i].seq)]
    /\ UNCHANGED <<nodeVars, managerVars, passing, clientVars>>

(* The call reaches a process that is up, whose handler puts the token on  *)
(* its TokenCh.  Nobody asks first: "found" is of no use here.             *)
SendToken(n, i) == Dials(n) /\ alive[NextNode(n)] /\ PutToken(n, i)

(* rpcClient returns nil, or the dial or the call fails: the goroutine     *)
(* ends and nobody tries again.                                            *)
LoseToken(n, i) ==
    /\ ~Dials(n) \/ ~alive[NextNode(n)] \/ DialMayFail
    /\ passing' = [passing EXCEPT ![n] = RemoveAt(@, i)]
    /\ UNCHANGED <<nodeVars, managerVars, TokenCh, clientVars>>

CallPassToken(n) ==
    \E i \in DOMAIN passing[n] : SendToken(n, i) \/ LoseToken(n, i)

-----------------------------------------------------------------------------
RPCNext ==
    \/ \E n \in Node : Launch(n) \/ Exit(n)
    \/ /\ \/ \E n \in Node : \/ alive[n] /\ \E c \in Client : \/ RequestAccess(n, c)
                                                             \/ ReleaseAccess(n, c)
                             \/ handleTokenReceive(n)
                             \/ idlePass(n)
                             \/ CallPassToken(n)
          \/ \E c \in Client : Return(c)
       /\ UNCHANGED launched

RPCSpec == RPCInit /\ [][RPCNext]_rpcVars

-----------------------------------------------------------------------------
(* Tokens are born with the lowest ID's process and in no other way: while *)
(* that process stays up, a ring that has lost its token has lost it for   *)
(* good, and no launch, late call or crash elsewhere brings one back.      *)
TokenBornWithLowest ==
    [][TokenPlaces = {} /\ TokenPlaces' # {} => ~alive[0] /\ alive'[0]]_rpcVars

Deployed == INSTANCE DeployedMutex WITH status <- LockStatus, terminal <- at

(* However processes are launched and end, dials fail and tokens are lost, *)
(* the callers see the abstract lock, except that they end with their own  *)
(* process.                                                                *)
ImplementsDeployedMutex == Deployed!DeployedSpec

(* README and lock.go: the token always circulates.  Once every process    *)
(* has been launched and is up, there is a token.                          *)
TokenSurvivesStartup ==
    (\A n \in Node : alive[n]) => TokenPlaces # {}
=============================================================================
