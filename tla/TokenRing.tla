----------------------------- MODULE TokenRing -----------------------------
(***************************************************************************)
(* internal/lock/lock.go, with the in-process wiring and the simulated     *)
(* crash of internal/coordinator/coordinator.go.                           *)
(*                                                                         *)
(* One TokenRingManager per coordinator node.  The token is a message that *)
(* travels node by node around the ring; a node grants its critical        *)
(* section only while it holds the token.  Three kinds of goroutine run    *)
(* concurrently and meet at the manager's mutex and channels:              *)
(*   - the manager's loop run(), which takes tokens from TokenCh and, on   *)
(*     its ticker, passes an idle token on;                                *)
(*   - the goroutine passTokenLocked starts for each token it sends;       *)
(*   - the callers of AcquireLock and ReleaseLock, which may call any node.*)
(* The body of one mutex section is one action.  Resource names are left   *)
(* out: the manager stores them for display and never compares them.       *)
(*                                                                         *)
(* A definition named X_y is X with the fault y: the specification never   *)
(* uses it, and the properties are checked to tell it from X.              *)
(***************************************************************************)
EXTENDS Naturals, Sequences, SequencesExt, FiniteSets

CONSTANTS
    N,          \* number of coordinator nodes
    Client,     \* the distinct requester names
    NoClient,   \* csHolder = ""
    IntSpan,    \* number of values of an int (2^64 in Go): ++ wraps around
    MaxKills    \* bound: how many nodes may be killed

ASSUME RingAssumption  == N \in Nat \ {0}
ASSUME IntAssumption   == IntSpan \in Nat \ {0}
ASSUME NameAssumption  == NoClient \notin Client

(* A node is its position in ringOrder, which lists the IDs in increasing  *)
(* order, so that position 0 is the lowest ID.                             *)
Node   == 0 .. N - 1
SeqNum == 0 .. IntSpan - 1
TokenChCap == 10

(* What a goroutine of passTokenLocked knows: the number of the token it   *)
(* carries, and whether it has found the successor alive.                  *)
Carried == [seq : SeqNum, found : BOOLEAN]

VARIABLES
    alive,      \* CoordinatorNode.alive
    stopClosed, \* stopCh has been closed
    running,    \* the loop run() has not returned
    hasToken, seqNum, inCS, csHolder,
    waitQueue,  \* the queued callers, oldest first
    TokenCh,    \* tokens received and not yet handled
    passing,    \* passing[n]: the OnPassToken goroutines of n, with their tokens
    phase,      \* where client c is in its AcquireLock / ReleaseLock cycle
    at          \* the node c called last

managerVars == <<hasToken, seqNum, inCS, csHolder, waitQueue>>
nodeVars    == <<alive, stopClosed, running>>
clientVars  == <<phase, at>>
vars == <<nodeVars, managerVars, TokenCh, passing, clientVars>>

(* "queued": blocked on responseCh.  "granted": the critical section is    *)
(* the client's and the response is on its way.  "holding": AcquireLock    *)
(* has returned.                                                           *)
Phase == {"idle", "queued", "granted", "holding"}
InCS(c) == phase[c] \in {"granted", "holding"}

-----------------------------------------------------------------------------
NextNode(n) == (n + 1) % N

Init ==
    /\ alive      = [n \in Node |-> TRUE]
    /\ stopClosed = [n \in Node |-> FALSE]
    /\ running    = [n \in Node |-> TRUE]
    /\ hasToken   = [n \in Node |-> n = 0]
    /\ seqNum     = [n \in Node |-> 0]
    /\ inCS       = [n \in Node |-> FALSE]
    /\ csHolder   = [n \in Node |-> NoClient]
    /\ waitQueue  = [n \in Node |-> <<>>]
    /\ TokenCh    = [n \in Node |-> <<>>]
    /\ passing    = [n \in Node |-> <<>>]
    /\ phase      = [c \in Client |-> "idle"]
    /\ at         = [c \in Client |-> 0]

-----------------------------------------------------------------------------
(* Parts of the handlers.                                                  *)

GrantFirst_notRemoved(n) ==
    /\ inCS'     = [inCS EXCEPT ![n] = TRUE]
    /\ csHolder' = [csHolder EXCEPT ![n] = Head(waitQueue[n])]
    /\ UNCHANGED waitQueue

(* Grant n's critical section to the head of its wait queue.               *)
GrantFirst(n) ==
    /\ inCS'      = [inCS EXCEPT ![n] = TRUE]
    /\ csHolder'  = [csHolder EXCEPT ![n] = Head(waitQueue[n])]
    /\ waitQueue' = [waitQueue EXCEPT ![n] = Tail(@)]

(* The goroutine passTokenLocked starts, before it has asked anything.     *)
Carrier(seq) == [seq |-> seq, found |-> FALSE]

passTokenLocked_sameNumber(n) ==
    /\ hasToken' = [hasToken EXCEPT ![n] = FALSE]
    /\ passing'  = [passing EXCEPT ![n] = Append(@, Carrier(seqNum[n]))]
    /\ UNCHANGED seqNum

passTokenLocked_kept(n) ==
    LET seq == (seqNum[n] + 1) % IntSpan
    IN  /\ seqNum'  = [seqNum EXCEPT ![n] = seq]
        /\ passing' = [passing EXCEPT ![n] = Append(@, Carrier(seq))]
        /\ UNCHANGED hasToken

passTokenLocked_notSent(n) ==
    /\ seqNum'   = [seqNum EXCEPT ![n] = (@ + 1) % IntSpan]
    /\ hasToken' = [hasToken EXCEPT ![n] = FALSE]
    /\ UNCHANGED passing

passTokenLocked(n) ==
    LET seq == (seqNum[n] + 1) % IntSpan
    IN  /\ seqNum'   = [seqNum EXCEPT ![n] = seq]
        /\ hasToken' = [hasToken EXCEPT ![n] = FALSE]
        /\ passing'  = [passing EXCEPT ![n] = Append(@, Carrier(seq))]

-----------------------------------------------------------------------------
(* The callers.  A client has one call outstanding at a time.              *)

GrantAtOnce_noToken(n, c) ==
    /\ phase[c] = "idle"
    /\ ~inCS[n]
    /\ inCS'     = [inCS EXCEPT ![n] = TRUE]
    /\ csHolder' = [csHolder EXCEPT ![n] = c]
    /\ phase'    = [phase EXCEPT ![c] = "holding"]
    /\ at'       = [at EXCEPT ![c] = n]
    /\ UNCHANGED <<nodeVars, hasToken, seqNum, waitQueue, TokenCh, passing>>

GrantAtOnce_occupied(n, c) ==
    /\ phase[c] = "idle"
    /\ hasToken[n]
    /\ inCS'     = [inCS EXCEPT ![n] = TRUE]
    /\ csHolder' = [csHolder EXCEPT ![n] = c]
    /\ phase'    = [phase EXCEPT ![c] = "holding"]
    /\ at'       = [at EXCEPT ![c] = n]
    /\ UNCHANGED <<nodeVars, hasToken, seqNum, waitQueue, TokenCh, passing>>

(* RequestAccess, the early return: the token is here and idle.            *)
GrantAtOnce(n, c) ==
    /\ phase[c] = "idle"
    /\ hasToken[n] /\ ~inCS[n]
    /\ inCS'     = [inCS EXCEPT ![n] = TRUE]
    /\ csHolder' = [csHolder EXCEPT ![n] = c]
    /\ phase'    = [phase EXCEPT ![c] = "holding"]
    /\ at'       = [at EXCEPT ![c] = n]
    /\ UNCHANGED <<nodeVars, hasToken, seqNum, waitQueue, TokenCh, passing>>

Enqueue_noRequester(n, c) ==
    /\ phase[c] = "idle"
    /\ ~(hasToken[n] /\ ~inCS[n])
    /\ waitQueue' = [waitQueue EXCEPT ![n] = Append(@, NoClient)]
    /\ phase'     = [phase EXCEPT ![c] = "queued"]
    /\ at'        = [at EXCEPT ![c] = n]
    /\ UNCHANGED <<nodeVars, hasToken, seqNum, inCS, csHolder, TokenCh, passing>>

Enqueue_atFront(n, c) ==
    /\ phase[c] = "idle"
    /\ ~(hasToken[n] /\ ~inCS[n])
    /\ waitQueue' = [waitQueue EXCEPT ![n] = <<c>> \o @]
    /\ phase'     = [phase EXCEPT ![c] = "queued"]
    /\ at'        = [at EXCEPT ![c] = n]
    /\ UNCHANGED <<nodeVars, hasToken, seqNum, inCS, csHolder, TokenCh, passing>>

(* RequestAccess otherwise: append a csRequest and block on its channel.   *)
Enqueue(n, c) ==
    /\ phase[c] = "idle"
    /\ ~(hasToken[n] /\ ~inCS[n])
    /\ waitQueue' = [waitQueue EXCEPT ![n] = Append(@, c)]
    /\ phase'     = [phase EXCEPT ![c] = "queued"]
    /\ at'        = [at EXCEPT ![c] = n]
    /\ UNCHANGED <<nodeVars, hasToken, seqNum, inCS, csHolder, TokenCh, passing>>

RequestAccess(n, c) == GrantAtOnce(n, c) \/ Enqueue(n, c)

(* The response reaches the blocked caller: AcquireLock returns.           *)
Return(c) ==
    /\ phase[c] = "granted"
    /\ phase' = [phase EXCEPT ![c] = "holding"]
    /\ UNCHANGED <<nodeVars, managerVars, TokenCh, passing, at>>

(* A client whose release is accepted at the node it holds is done with    *)
(* the critical section.                                                   *)
PhaseAfterRelease(n, c) == IF phase[c] = "holding" /\ at[c] = n THEN "idle" ELSE phase[c]

MayRelease_anyone(n, c) == /\ phase[c] \in {"idle", "holding"}
                           /\ inCS[n]

(* ReleaseAccess, which any client that is not blocked may call at any     *)
(* node: it is refused, and changes nothing, unless csHolder is the caller.*)
MayRelease(n, c) == /\ phase[c] \in {"idle", "holding"}
                    /\ inCS[n]
                    /\ csHolder[n] = c

ReleaseToNext(n, c) ==
    /\ MayRelease(n, c)
    /\ waitQueue[n] # <<>>
    /\ GrantFirst(n)
    /\ phase' = [phase EXCEPT ![c] = PhaseAfterRelease(n, c),
                              ![Head(waitQueue[n])] = "granted"]
    /\ UNCHANGED <<nodeVars, hasToken, seqNum, TokenCh, passing, at>>

ReleaseAndPass(n, c) ==
    /\ MayRelease(n, c)
    /\ waitQueue[n] = <<>>
    /\ inCS'     = [inCS EXCEPT ![n] = FALSE]
    /\ csHolder' = [csHolder EXCEPT ![n] = NoClient]
    /\ passTokenLocked(n)
    /\ phase'    = [phase EXCEPT ![c] = PhaseAfterRelease(n, c)]
    /\ UNCHANGED <<nodeVars, waitQueue, TokenCh, at>>

ReleaseAccess(n, c) == ReleaseToNext(n, c) \/ ReleaseAndPass(n, c)

-----------------------------------------------------------------------------
(* The loop of node n.  After stopCh is closed select may still choose a   *)
(* ready token or tick, until it chooses stopCh and returns.               *)

ReceiveGrant(n) ==
    /\ waitQueue[n] # <<>>
    /\ GrantFirst(n)
    /\ phase' = [phase EXCEPT ![Head(waitQueue[n])] = "granted"]

ReceiveIdle_ignoresQueue(n) == UNCHANGED <<inCS, csHolder, waitQueue, phase>>

ReceiveIdle(n) ==
    /\ waitQueue[n] = <<>>
    /\ UNCHANGED <<inCS, csHolder, waitQueue, phase>>

handleTokenReceive(n) ==
    /\ running[n]
    /\ TokenCh[n] # <<>>
    /\ TokenCh'  = [TokenCh EXCEPT ![n] = Tail(@)]
    /\ hasToken' = [hasToken EXCEPT ![n] = TRUE]
    /\ seqNum'   = [seqNum EXCEPT ![n] = Head(TokenCh[n])]
    /\ ReceiveGrant(n) \/ ReceiveIdle(n)
    /\ UNCHANGED <<nodeVars, passing, at>>

idlePass_inUse(n) ==
    /\ running[n]
    /\ hasToken[n] /\ waitQueue[n] = <<>>
    /\ passTokenLocked(n)
    /\ UNCHANGED <<nodeVars, inCS, csHolder, waitQueue, TokenCh, clientVars>>

idlePass(n) ==
    /\ running[n]
    /\ hasToken[n] /\ ~inCS[n] /\ waitQueue[n] = <<>>
    /\ passTokenLocked(n)
    /\ UNCHANGED <<nodeVars, inCS, csHolder, waitQueue, TokenCh, clientVars>>

LoopExit(n) ==
    /\ running[n]
    /\ stopClosed[n]
    /\ running' = [running EXCEPT ![n] = FALSE]
    /\ UNCHANGED <<alive, stopClosed, managerVars, TokenCh, passing, clientVars>>

-----------------------------------------------------------------------------
(* The in-process OnPassToken asks whether the successor is alive and, if  *)
(* it is, sends on its TokenCh: two steps, and the successor may be killed *)
(* in between, or its loop return.  Found dead, the token is dropped: the  *)
(* goroutine finds no peer to send to and returns.                         *)

AskAlive(n, i) ==
    /\ ~passing[n][i].found
    /\ alive[NextNode(n)]
    /\ passing' = [passing EXCEPT ![n][i].found = TRUE]
    /\ UNCHANGED <<nodeVars, managerVars, TokenCh, clientVars>>

DropToken(n, i) ==
    /\ ~passing[n][i].found
    /\ ~alive[NextNode(n)]
    /\ passing' = [passing EXCEPT ![n] = RemoveAt(@, i)]
    /\ UNCHANGED <<nodeVars, managerVars, TokenCh, clientVars>>

(* The send on a channel of TokenChCap, which blocks while that is full.   *)
PutToken(n, i) ==
    /\ Len(TokenCh[NextNode(n)]) < TokenChCap
    /\ TokenCh' = [TokenCh EXCEPT ![NextNode(n)] = Append(@, passing[n][i].seq)]
    /\ passing' = [passing EXCEPT ![n] = RemoveAt(@, i)]
    /\ UNCHANGED <<nodeVars, managerVars, clientVars>>

DeliverToken(n, i) == passing[n][i].found /\ PutToken(n, i)

OnPassToken(n) ==
    \E i \in DOMAIN passing[n] : AskAlive(n, i) \/ DropToken(n, i) \/ DeliverToken(n, i)

-----------------------------------------------------------------------------
(* Kill clears alive under the coordinator's mutex and only then closes    *)
(* stopCh; nothing it does wakes a blocked caller or frees the lock.       *)

Kill(n) ==
    /\ alive[n]
    /\ Cardinality({m \in Node : ~alive[m]}) < MaxKills
    /\ alive' = [alive EXCEPT ![n] = FALSE]
    /\ UNCHANGED <<stopClosed, running, managerVars, TokenCh, passing, clientVars>>

Stop(n) ==
    /\ ~alive[n]
    /\ ~stopClosed[n]
    /\ stopClosed' = [stopClosed EXCEPT ![n] = TRUE]
    /\ UNCHANGED <<alive, running, managerVars, TokenCh, passing, clientVars>>

-----------------------------------------------------------------------------
Loop(n) == handleTokenReceive(n) \/ idlePass(n) \/ LoopExit(n)

Next ==
    \/ \E n \in Node, c \in Client : RequestAccess(n, c) \/ ReleaseAccess(n, c)
    \/ \E c \in Client : Return(c)
    \/ \E n \in Node : Loop(n) \/ OnPassToken(n) \/ Kill(n) \/ Stop(n)

Spec == Init /\ [][Next]_vars

(* Goroutines that can run do run: Go's scheduler serves every runnable    *)
(* goroutine, select picks at random among the ready cases, and the ticker *)
(* fires again and again.  What is assumed of the clients is that one that *)
(* has the lock releases it in the end.                                    *)
Fairness ==
    /\ \A n \in Node : /\ WF_vars(handleTokenReceive(n))
                       /\ WF_vars(idlePass(n))
                       /\ WF_vars(OnPassToken(n))
                       /\ WF_vars(LoopExit(n))
                       /\ WF_vars(Stop(n))
    /\ \A c \in Client : /\ WF_vars(Return(c))
                         /\ WF_vars(\E n \in Node : ReleaseAccess(n, c))

FairSpec == Spec /\ Fairness

-----------------------------------------------------------------------------
(* Type invariant of the managers, the channels and the callers.           *)
TypeOK ==
    /\ alive \in [Node -> BOOLEAN]
    /\ stopClosed \in [Node -> BOOLEAN]
    /\ running \in [Node -> BOOLEAN]
    /\ hasToken \in [Node -> BOOLEAN]
    /\ seqNum \in [Node -> SeqNum]
    /\ inCS \in [Node -> BOOLEAN]
    /\ csHolder \in [Node -> Client \cup {NoClient}]
    /\ waitQueue \in [Node -> Seq(Client)]
    /\ TokenCh \in [Node -> Seq(SeqNum)]
    /\ passing \in [Node -> Seq(Carried)]
    /\ phase \in [Client -> Phase]
    /\ at \in [Client -> Node]

(* Between the callers, over the whole cluster: at most one client is in   *)
(* the critical section, whichever nodes they called (lock.go's "Only one  *)
(* node can be in the critical section at a time").                        *)
MutualExclusion ==
    \A c, d \in Client : InCS(c) /\ InCS(d) => c = d

(* Every place a token is: held by a manager, waiting in a TokenCh or      *)
(* carried by a goroutine of passTokenLocked.                              *)
TokenPlaces ==
    {<<"held", n, 1>> : n \in {m \in Node : hasToken[m]}}
        \cup (UNION {{<<"TokenCh", n, i>> : i \in DOMAIN TokenCh[n]} : n \in Node})
        \cup (UNION {{<<"passing", n, i>> : i \in DOMAIN passing[n]} : n \in Node})

(* handleTokenReceive, idlePass and ReleaseAccess never duplicate the      *)
(* token, whatever they race with: "A single token circulates".            *)
OneToken == \A x, y \in TokenPlaces : x = y

(* A node in its critical section still has the token, so that idlePass    *)
(* and a second grant cannot take it away from under the holder.           *)
CSOnlyWithToken == \A n \in Node : inCS[n] => hasToken[n]

(* No lost wake-up: no request sits in the queue of a node that has the    *)
(* token and nobody in its critical section.  Such a request would block   *)
(* forever, and the token with it, since idlePass keeps a token that       *)
(* somebody waits for.                                                     *)
NoIdleWaiter ==
    \A n \in Node : hasToken[n] /\ ~inCS[n] => waitQueue[n] = <<>>

(* The managers and the callers agree on who is in the critical section,   *)
(* so that no stray ReleaseAccess ends the section of another client.      *)
HolderAgreement ==
    /\ \A n \in Node : inCS[n] <=> csHolder[n] # NoClient
    /\ \A n \in Node, c \in Client : csHolder[n] = c <=> InCS(c) /\ at[c] = n

(* A blocked caller is in exactly one queue, that of the node it called,   *)
(* exactly once: no request is lost and none is granted twice.             *)
QueueAgreement ==
    /\ \A n \in Node : \A i, j \in DOMAIN waitQueue[n] :
          waitQueue[n][i] = waitQueue[n][j] => i = j
    /\ \A n \in Node, c \in Client :
          (\E i \in DOMAIN waitQueue[n] : waitQueue[n][i] = c)
            <=> phase[c] = "queued" /\ at[c] = n

(* Nothing can bring the token to a caller that waits: the only places it  *)
(* is at, if any, are managers whose loop has returned, with nobody in     *)
(* their critical section, and the channels of such.                       *)
TokenStranded ==
    \A n \in Node : /\ hasToken[n] => ~running[n] /\ ~inCS[n]
                    /\ TokenCh[n] # <<>> => ~running[n]
                    /\ passing[n] = <<>>

(* "The token always circulates" as far as it is true: the token is lost   *)
(* or comes to rest only after a Kill.  Until then no request, release,    *)
(* tick or delivery, in whatever order they meet, loses it.                *)
TokenKeptUntilKill == TokenStranded => \E n \in Node : ~alive[n]

(* From the moment a node passes the token on to the moment it is back,    *)
(* its number grows, in the arithmetic of ints, by the other N - 1 hops of *)
(* one lap (on the first visit by n hops): no node is skipped or visited   *)
(* twice.                                                                  *)
OneLap ==
    [][\A n \in Node : ~hasToken[n] /\ hasToken'[n] =>
          \/ seqNum'[n] = (seqNum[n] + N - 1) % IntSpan
          \/ n # 0 /\ seqNum[n] = 0 /\ seqNum'[n] = n % IntSpan]_vars

(* No overtaking at one node: whoever enters the critical section there is *)
(* the oldest in its queue, or the queue is empty.                         *)
NoOvertaking ==
    [][\A c \in Client : ~InCS(c) /\ InCS(c)' =>
          waitQueue[at'[c]] = <<>> \/ Head(waitQueue[at'[c]]) = c]_vars

(* The lock as its callers see it.                                         *)
LockStatus ==
    [c \in Client |-> IF InCS(c) THEN "in" ELSE IF phase[c] = "queued" THEN "waiting" ELSE "out"]

Lock == INSTANCE Mutex WITH status <- LockStatus

(* AcquireLock and ReleaseLock implement the abstract lock.                *)
ImplementsMutex == Lock!MutexSpec

(* A caller queued where the token is gets the critical section, however   *)
(* many others keep asking at that node: its queue is first come, first    *)
(* served and the token stays until it is empty.                           *)
LocalQueueServed ==
    \A c \in Client :
        (phase[c] = "queued" /\ hasToken[at[c]]) ~> (phase[c] = "holding")

(* If from some time on no new requests are made, every blocked caller is  *)
(* served, unless kills have stranded the token: tokens, grants and        *)
(* responses never wait on one another in a circle, and RequestAccess,     *)
(* which has no timeout, hangs for no other reason.                        *)
RequestsStop ==
    <>[][~\E n \in Node, c \in Client : RequestAccess(n, c)]_vars
ServedUnlessStranded ==
    RequestsStop =>
        \A c \in Client : (phase[c] = "queued") ~> (phase[c] = "holding" \/ TokenStranded)

(* lock.go: "Fairness: Every node eventually receives the token            *)
(* (starvation-free)".                                                     *)
EveryNodeReceivesToken == \A n \in Node : []<>hasToken[n]

(* lock.go: "No deadlock: The token always circulates".                    *)
TokenAlwaysCirculates == TokenPlaces # {}
=============================================================================
