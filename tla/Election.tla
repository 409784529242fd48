------------------------------ MODULE Election ------------------------------
(***************************************************************************)
(* internal/election/election.go: the Raft-style leader election that one  *)
(* ElectionNode per coordinator runs.                                      *)
(*                                                                         *)
(* All handlers run in the node's own loop, so that each is one action.    *)
(* Messages are sent by goroutines, one per message, and wait in channels: *)
(* they arrive in any order or, when a dial fails or the peer is dead, not *)
(* at all.  A message that is never handled stands for a lost one, and a   *)
(* node that takes no more steps for a killed one.  The transport never    *)
(* delivers a call twice.                                                  *)
(*                                                                         *)
(* Timers are left out: a node that is not leader may time out at any      *)
(* moment.  A leader sends its heartbeat on every tick and the receiver    *)
(* keeps no trace of how many it got, so that a heartbeat once sent stays  *)
(* in flight: handling a second copy does what handling the first did.     *)
(*                                                                         *)
(* A definition named X_y is X with the fault y: the specification never   *)
(* uses it, and the properties are checked to tell it from X.              *)
(***************************************************************************)
EXTENDS Integers, FiniteSets

CONSTANTS
    Node,       \* the coordinator nodes
    None,       \* VotedFor = -1, LeaderID = -1
    MaxTerm     \* bound: no election is started beyond this term

ASSUME NodeAssumption == IsFiniteSet(Node) /\ None \notin Node
ASSUME TermAssumption == MaxTerm \in Nat

VARIABLES
    CurrentTerm, VotedFor, State, voteCount, LeaderID,
    voteReqs, voteResps,    \* messages sent and not yet handled
    heartbeats,             \* messages sent
    callbacks,  \* calls made of OnBecomeLeader (leader = at) and OnBecomeFollower
    \* History, which no step reads:
    ballots,    \* every vote ever cast
    tally,      \* tally[n]: whose votes n has counted in its election
    elected     \* every victory: who, in which term, with whose votes

nodeState == <<CurrentTerm, VotedFor, State, voteCount, LeaderID>>
messages  == <<voteReqs, voteResps, heartbeats>>
history   == <<ballots, tally, elected>>
vars      == <<nodeState, messages, callbacks, history>>

NodeState == {"FOLLOWER", "CANDIDATE", "LEADER"}

VoteRequest  == [term : Nat, candidate : Node, to : Node]
VoteResponse == [term : Nat, granted : BOOLEAN, voter : Node, to : Node]
Heartbeat    == [term : Nat, leader : Node, to : Node]
Callback     == [at : Node, leader : Node, term : Nat]

Ballot(v, t, c) == [voter |-> v, term |-> t, candidate |-> c]

-----------------------------------------------------------------------------
(* NewElectionNode, at every node.                                         *)
Init ==
    /\ CurrentTerm = [n \in Node |-> 0]
    /\ VotedFor    = [n \in Node |-> None]
    /\ State       = [n \in Node |-> "FOLLOWER"]
    /\ voteCount   = [n \in Node |-> 0]
    /\ LeaderID    = [n \in Node |-> None]
    /\ voteReqs = {} /\ voteResps = {} /\ heartbeats = {}
    /\ callbacks = {}
    /\ ballots = {}
    /\ tally   = [n \in Node |-> {}]
    /\ elected = {}

-----------------------------------------------------------------------------
(* checkElectionTimeout of a node that has not heard of a leader in time.  *)
startElection(n) ==
    LET term == CurrentTerm[n] + 1
    IN  /\ State[n] # "LEADER"
        /\ term <= MaxTerm
        /\ CurrentTerm' = [CurrentTerm EXCEPT ![n] = term]
        /\ State'       = [State EXCEPT ![n] = "CANDIDATE"]
        /\ VotedFor'    = [VotedFor EXCEPT ![n] = n]
        /\ voteCount'   = [voteCount EXCEPT ![n] = 1]
        /\ voteReqs'    = voteReqs \cup
              {[term |-> term, candidate |-> n, to |-> p] : p \in Node \ {n}}
        /\ ballots'     = ballots \cup {Ballot(n, term, n)}
        /\ tally'       = [tally EXCEPT ![n] = {n}]
        /\ UNCHANGED <<LeaderID, voteResps, heartbeats, callbacks, elected>>

sendHeartbeat_candidate(n) ==
    /\ State[n] # "FOLLOWER"
    /\ heartbeats' = heartbeats \cup
          {[term |-> CurrentTerm[n], leader |-> n, to |-> p] : p \in Node \ {n}}
    /\ UNCHANGED <<nodeState, voteReqs, voteResps, callbacks, history>>

(* checkElectionTimeout of a leader.                                       *)
sendHeartbeat(n) ==
    /\ State[n] = "LEADER"
    /\ heartbeats' = heartbeats \cup
          {[term |-> CurrentTerm[n], leader |-> n, to |-> p] : p \in Node \ {n}}
    /\ UNCHANGED <<nodeState, voteReqs, voteResps, callbacks, history>>

-----------------------------------------------------------------------------
Respond(n, req, granted) ==
    /\ voteReqs'  = voteReqs \ {req}
    /\ voteResps' = voteResps \cup
          {[term |-> CurrentTerm'[n], granted |-> granted, voter |-> n, to |-> req.candidate]}

(* The first half of handleVoteRequest: a higher term makes the node a     *)
(* follower of nobody that has not voted.                                  *)
TermAfter(n, req) == IF req.term > CurrentTerm[n] THEN req.term ELSE CurrentTerm[n]
VoteAfter(n, req) == IF req.term > CurrentTerm[n] THEN None ELSE VotedFor[n]

StepDownIfHigher_equal(n, req) ==
    /\ CurrentTerm' = [CurrentTerm EXCEPT ![n] = TermAfter(n, req)]
    /\ State'    = [State EXCEPT ![n] = IF req.term >= CurrentTerm[n] THEN "FOLLOWER" ELSE @]
    /\ LeaderID' = [LeaderID EXCEPT ![n] = IF req.term >= CurrentTerm[n] THEN None ELSE @]

StepDownIfHigher(n, req) ==
    /\ CurrentTerm' = [CurrentTerm EXCEPT ![n] = TermAfter(n, req)]
    /\ State'    = [State EXCEPT ![n] = IF req.term > CurrentTerm[n] THEN "FOLLOWER" ELSE @]
    /\ LeaderID' = [LeaderID EXCEPT ![n] = IF req.term > CurrentTerm[n] THEN None ELSE @]

MayVote_again(n, req) == req.term >= CurrentTerm[n]

(* The second half: one vote per term, whoever asks first.                 *)
MayVote(n, req) == /\ req.term >= CurrentTerm[n]
                   /\ VoteAfter(n, req) \in {None, req.candidate}

GrantVote(n, req) ==
    /\ MayVote(n, req)
    /\ StepDownIfHigher(n, req)
    /\ VotedFor' = [VotedFor EXCEPT ![n] = req.candidate]
    /\ ballots'  = ballots \cup {Ballot(n, req.term, req.candidate)}
    /\ Respond(n, req, TRUE)

DenyVote(n, req) ==
    /\ ~MayVote(n, req)
    /\ StepDownIfHigher(n, req)
    /\ VotedFor' = [VotedFor EXCEPT ![n] = VoteAfter(n, req)]
    /\ Respond(n, req, FALSE)
    /\ UNCHANGED ballots

handleVoteRequest(n, req) ==
    /\ req.to = n
    /\ GrantVote(n, req) \/ DenyVote(n, req)
    /\ UNCHANGED <<voteCount, heartbeats, callbacks, tally, elected>>

-----------------------------------------------------------------------------
(* handleVoteResponse.                                                     *)

Majority == (Cardinality(Node) \div 2) + 1

LoseElection_minusOne(n, resp) ==
    /\ State[n] = "CANDIDATE"
    /\ resp.term > CurrentTerm[n]
    /\ CurrentTerm' = [CurrentTerm EXCEPT ![n] = resp.term]
    /\ State'       = [State EXCEPT ![n] = "FOLLOWER"]
    /\ VotedFor'    = [VotedFor EXCEPT ![n] = None]
    /\ voteCount'   = [voteCount EXCEPT ![n] = -1]
    /\ UNCHANGED <<LeaderID, callbacks, history>>

(* A higher term ends the candidacy.                                       *)
LoseElection(n, resp) ==
    /\ State[n] = "CANDIDATE"
    /\ resp.term > CurrentTerm[n]
    /\ CurrentTerm' = [CurrentTerm EXCEPT ![n] = resp.term]
    /\ State'       = [State EXCEPT ![n] = "FOLLOWER"]
    /\ VotedFor'    = [VotedFor EXCEPT ![n] = None]
    /\ voteCount'   = [voteCount EXCEPT ![n] = 0]
    /\ UNCHANGED <<LeaderID, callbacks, history>>

Counts_anyTerm(n, resp) == /\ State[n] = "CANDIDATE"
                           /\ resp.term <= CurrentTerm[n]
                           /\ resp.granted

(* A vote in the node's current election, but not yet a majority.          *)
Counts(n, resp) == /\ State[n] = "CANDIDATE"
                   /\ resp.term = CurrentTerm[n]
                   /\ resp.granted

CountVote(n, resp) ==
    /\ Counts(n, resp)
    /\ voteCount[n] + 1 < Majority
    /\ voteCount' = [voteCount EXCEPT ![n] = @ + 1]
    /\ tally'     = [tally EXCEPT ![n] = @ \cup {resp.voter}]
    /\ UNCHANGED <<CurrentTerm, VotedFor, State, LeaderID, callbacks, ballots, elected>>

(* The vote that makes a majority: becomeLeader.                           *)
becomeLeader(n, resp) ==
    /\ Counts(n, resp)
    /\ voteCount[n] + 1 >= Majority
    /\ voteCount' = [voteCount EXCEPT ![n] = @ + 1]
    /\ tally'     = [tally EXCEPT ![n] = @ \cup {resp.voter}]
    /\ State'     = [State EXCEPT ![n] = "LEADER"]
    /\ LeaderID'  = [LeaderID EXCEPT ![n] = n]
    /\ callbacks' = callbacks \cup {[at |-> n, leader |-> n, term |-> CurrentTerm[n]]}
    /\ elected'   = elected \cup
          {[leader |-> n, term |-> CurrentTerm[n], voters |-> tally[n] \cup {resp.voter}]}
    /\ UNCHANGED <<CurrentTerm, VotedFor, ballots>>

(* Any other response - denied, stale or of no candidate - is dropped.     *)
DropResponse(n, resp) ==
    /\ ~(State[n] = "CANDIDATE" /\ resp.term > CurrentTerm[n])
    /\ ~Counts(n, resp)
    /\ UNCHANGED <<nodeState, callbacks, history>>

handleVoteResponse(n, resp) ==
    /\ resp.to = n
    /\ voteResps' = voteResps \ {resp}
    /\ \/ LoseElection(n, resp)
       \/ CountVote(n, resp)
       \/ becomeLeader(n, resp)
       \/ DropResponse(n, resp)
    /\ UNCHANGED <<voteReqs, heartbeats>>

-----------------------------------------------------------------------------
Follow_forgetsVote(n, hb) ==
    /\ hb.term >= CurrentTerm[n]
    /\ CurrentTerm' = [CurrentTerm EXCEPT ![n] = hb.term]
    /\ VotedFor'    = [VotedFor EXCEPT ![n] = None]
    /\ State'       = [State EXCEPT ![n] = "FOLLOWER"]
    /\ LeaderID'    = [LeaderID EXCEPT ![n] = hb.leader]
    /\ voteCount'   = [voteCount EXCEPT ![n] = 0]
    /\ callbacks'   = IF State[n] = "FOLLOWER" /\ LeaderID[n] = hb.leader
                      THEN callbacks
                      ELSE callbacks \cup {[at |-> n, leader |-> hb.leader, term |-> hb.term]}

(* handleHeartbeat.  A follower that already follows this leader, in       *)
(* whatever term, does not call OnBecomeFollower again.                    *)
Follow(n, hb) ==
    /\ hb.term >= CurrentTerm[n]
    /\ CurrentTerm' = [CurrentTerm EXCEPT ![n] = hb.term]
    /\ VotedFor'    = [VotedFor EXCEPT ![n] = IF hb.term > CurrentTerm[n] THEN None ELSE @]
    /\ State'       = [State EXCEPT ![n] = "FOLLOWER"]
    /\ LeaderID'    = [LeaderID EXCEPT ![n] = hb.leader]
    /\ voteCount'   = [voteCount EXCEPT ![n] = 0]
    /\ callbacks'   = IF State[n] = "FOLLOWER" /\ LeaderID[n] = hb.leader
                      THEN callbacks
                      ELSE callbacks \cup {[at |-> n, leader |-> hb.leader, term |-> hb.term]}

IgnoreHeartbeat(n, hb) ==
    /\ hb.term < CurrentTerm[n]
    /\ UNCHANGED <<nodeState, callbacks>>

handleHeartbeat(n, hb) ==
    /\ hb.to = n
    /\ Follow(n, hb) \/ IgnoreHeartbeat(n, hb)
    /\ UNCHANGED <<messages, history>>

-----------------------------------------------------------------------------
Next ==
    \/ \E n \in Node : startElection(n) \/ sendHeartbeat(n)
    \/ \E req \in voteReqs : handleVoteRequest(req.to, req)
    \/ \E resp \in voteResps : handleVoteResponse(resp.to, resp)
    \/ \E hb \in heartbeats : handleHeartbeat(hb.to, hb)

Spec == Init /\ [][Next]_vars

(* The process of a node ends and is launched again: NewElectionNode, as   *)
(* neither the term nor the vote is on disk.                               *)
Relaunch(n) ==
    /\ CurrentTerm' = [CurrentTerm EXCEPT ![n] = 0]
    /\ VotedFor'    = [VotedFor EXCEPT ![n] = None]
    /\ State'       = [State EXCEPT ![n] = "FOLLOWER"]
    /\ voteCount'   = [voteCount EXCEPT ![n] = 0]
    /\ LeaderID'    = [LeaderID EXCEPT ![n] = None]
    /\ callbacks'   = {cb \in callbacks : cb.at # n}
    /\ voteReqs'    = {m \in voteReqs : m.to # n}
    /\ voteResps'   = {m \in voteResps : m.to # n}
    /\ heartbeats'  = {m \in heartbeats : m.to # n}
    /\ UNCHANGED history

RelaunchSpec == Init /\ [][Next \/ \E n \in Node : Relaunch(n)]_vars

-----------------------------------------------------------------------------
(* Type invariant.                                                         *)
TypeOK ==
    /\ CurrentTerm \in [Node -> Nat]
    /\ VotedFor \in [Node -> Node \cup {None}]
    /\ State \in [Node -> NodeState]
    /\ voteCount \in [Node -> Nat]
    /\ LeaderID \in [Node -> Node \cup {None}]
    /\ voteReqs \subseteq VoteRequest
    /\ voteResps \subseteq VoteResponse
    /\ heartbeats \subseteq Heartbeat
    /\ callbacks \subseteq Callback
    /\ ballots \subseteq [voter : Node, term : Nat, candidate : Node]
    /\ tally \in [Node -> SUBSET Node]
    /\ elected \subseteq [leader : Node, term : Nat, voters : SUBSET Node]

(* At most one leader is ever elected in a term, at whatever time its      *)
(* votes arrive: the README's "elected a single leader".                   *)
ElectionSafety ==
    \A e, f \in elected : e.term = f.term => e.leader = f.leader

(* No node votes for two candidates in a term, although a step-down, a     *)
(* heartbeat and a lost election all clear VotedFor.                       *)
OneVotePerTerm ==
    \A a, b \in ballots : a.voter = b.voter /\ a.term = b.term => a.candidate = b.candidate

(* voteCount is a bare counter; no voter is counted in it twice and no     *)
(* vote of an earlier election ends up in it, up to the one that makes the *)
(* majority.                                                               *)
EveryVoteCountedOnce ==
    \A n \in Node : State[n] # "FOLLOWER" =>
        /\ voteCount[n] = Cardinality(tally[n])
        /\ \A v \in tally[n] : Ballot(v, CurrentTerm[n], n) \in ballots

(* Whatever speaks for a leader - a node in state Leader, a heartbeat in   *)
(* flight, a callback about to tell the Raft log, a LeaderID shown to the  *)
(* user - speaks for one that was elected in the term it names.            *)
Elected(l, t) == \E e \in elected : e.leader = l /\ e.term = t
AuthorityIsElected ==
    /\ \A n \in Node : State[n] = "LEADER" => Elected(n, CurrentTerm[n])
    /\ \A hb \in heartbeats : Elected(hb.leader, hb.term)
    /\ \A cb \in callbacks : Elected(cb.leader, cb.term)
    /\ \A n \in Node : LeaderID[n] # None =>
          \E e \in elected : e.leader = LeaderID[n] /\ e.term <= CurrentTerm[n]

(* A leader is deposed only by a higher term, although handleHeartbeat     *)
(* steps down for a heartbeat of its own term as well.                     *)
DeposedOnlyByHigherTerm ==
    [][\A n \in Node : State[n] = "LEADER" /\ State'[n] # "LEADER"
          => CurrentTerm'[n] > CurrentTerm[n]]_vars

(* What the Raft log sees of all this is the abstract Leadership: a victory *)
(* is who won which term, and callbacks are the calls made.                *)
Abstract == INSTANCE Leadership
    WITH Term  <- 1..MaxTerm,
         won   <- {[leader |-> e.leader, term |-> e.term] : e \in elected},
         calls <- callbacks

(* The election implements it: OnBecomeLeader is called for one node in a  *)
(* term and OnBecomeFollower only about a node that won that term and is   *)
(* not the one that is told.  RaftLog is checked on top of Leadership.     *)
ImplementsLeadership == Abstract!LeadershipSpec
=============================================================================
