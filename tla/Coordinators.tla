---------------------------- MODULE Coordinators ----------------------------
(***************************************************************************)
(* internal/coordinator/coordinator.go, the part that joins the election   *)
(* of every node to its Raft log: the callbacks the election makes are     *)
(* those the log runs, ProposeChange asks the one and then calls the       *)
(* other, and a panic in the log ends both.  Each keeps a term and a       *)
(* notion of who leads of its own.                                         *)
(*                                                                         *)
(* A killed node (Kill) is one that takes no more steps.  The Token Ring   *)
(* and the election share nothing but the process.                         *)
(***************************************************************************)
EXTENDS Election

CONSTANT Proposal   \* the calls of ProposeChange, by what they propose

VARIABLES
    isLeader, currentTerm, log, commitIndex, nextIndex, matchIndex, applied,
    panicked, ran, requests, responses, phase, at, target,  \* as in RaftLog
    asked   \* the node whose IsLeader has answered the caller with true

(* The log is told of the victories by the election's own callbacks.       *)
Log == INSTANCE RaftLog
    WITH Term   <- 1..MaxTerm,
         NoNode <- None,
         won    <- {[leader |-> e.leader, term |-> e.term] : e \in elected},
         calls  <- callbacks

logVars == <<isLeader, currentTerm, log, commitIndex, nextIndex, matchIndex, applied,
             panicked, ran, requests, responses, phase, at, target>>
coordinatorVars == <<vars, logVars, asked>>

(* NewCoordinatorNode, at every node.                                      *)
CoordinatorInit ==
    /\ Init
    /\ Log!Init
    /\ asked = [p \in Proposal |-> None]

(* The election loop of n.                                                 *)
ElectionLoop(n) ==
    /\ \/ startElection(n)
       \/ sendHeartbeat(n)
       \/ \E req \in voteReqs : handleVoteRequest(n, req)
       \/ \E resp \in voteResps : handleVoteResponse(n, resp)
       \/ \E hb \in heartbeats : handleHeartbeat(n, hb)
    /\ UNCHANGED <<logVars, asked>>

(* ProposeChange at n: Election.IsLeader, which locks the election only    *)
(* for the answer ...                                                      *)
AskIsLeader(p, n) ==
    /\ phase[p] = "idle"
    /\ asked[p] = None
    /\ State[n] = "LEADER"
    /\ asked' = [asked EXCEPT ![p] = n]
    /\ UNCHANGED <<vars, logVars>>

(* ... and then RaftLog.ProposeEntry, which refuses when its own isLeader  *)
(* is false: the callback has not run yet, or another has since.           *)
Refuse(p) ==
    /\ phase[p] = "idle"
    /\ asked[p] # None
    /\ ~isLeader[asked[p]]
    /\ asked' = [asked EXCEPT ![p] = None]
    /\ UNCHANGED <<vars, logVars>>

(* The Raft log of n, which appends for callers that have asked there.     *)
LogSteps(n) ==
    /\ UNCHANGED <<vars, asked>>
    /\ Log!Run(n)
    /\ \A p \in Proposal : phase[p] = "idle" /\ phase'[p] # "idle" => asked[p] = n

CoordinatorNext ==
    \E n \in Node \ panicked :
        \/ ElectionLoop(n)
        \/ LogSteps(n)
        \/ \E p \in Proposal : AskIsLeader(p, n) \/ (asked[p] = n /\ Refuse(p))

CoordinatorSpec == CoordinatorInit /\ [][CoordinatorNext]_coordinatorVars

-----------------------------------------------------------------------------
(* EACH AS ALONE: the election is undisturbed by the log beside it, and    *)
(* the log gets from the election what Leadership promises, though it asks *)
(* again whether it leads, and of a field of its own.                      *)
ImplementsElection == Spec
ImplementsLog      == Log!Spec

(* STATE MACHINE SAFETY of the two together, as consensus.go:33-34 words   *)
(* it: no two nodes have applied different entries at one index.           *)
StateMachineSafety == Log!StateMachineSafety
=============================================================================
