----------------------------- MODULE Leadership -----------------------------
(***************************************************************************)
(* What the leader election promises the rest of a coordinator, and all it *)
(* lets the Raft log see: at most one node is elected in a term, and       *)
(* OnBecomeLeader and OnBecomeFollower are called only for a node that     *)
(* was, at it and at the others.  Election implements this specification.  *)
(* Nothing is promised about when a call is made, in which order, or of    *)
(* the log of the node that is elected.                                    *)
(***************************************************************************)
EXTENDS Naturals

CONSTANTS
    Node,   \* the coordinator nodes
    Term    \* the terms in which a node may be elected

ASSUME TermsArePositive == Term \subseteq Nat \ {0}

VARIABLES
    won,    \* every victory: who, in which term
    calls   \* every call made of OnBecomeLeader (leader = at) or OnBecomeFollower

leadershipVars == <<won, calls>>

Victory == [leader : Node, term : Term]
Call    == [at : Node, leader : Node, term : Term]

LeadershipInit == won = {} /\ calls = {}

(* n is elected in term t and its OnBecomeLeader is called.                *)
Win(n, t) ==
    /\ \A w \in won : w.term = t => w.leader = n
    /\ won'   = won \cup {[leader |-> n, term |-> t]}
    /\ calls' = calls \cup {[at |-> n, leader |-> n, term |-> t]}

(* n hears of the winner w and its OnBecomeFollower is called.             *)
Hear(n, w) ==
    /\ w.leader # n
    /\ calls' = calls \cup {[at |-> n, leader |-> w.leader, term |-> w.term]}
    /\ UNCHANGED won

LeadershipNext ==
    \E n \in Node : \/ \E t \in Term : Win(n, t)
                    \/ \E w \in won : Hear(n, w)

LeadershipSpec == LeadershipInit /\ [][LeadershipNext]_leadershipVars
=============================================================================
