-------------------------- MODULE Election_proofs --------------------------
(***************************************************************************)
(* Proofs about Election, without relaunched processes, for every finite   *)
(* set of nodes and every bound on the terms.                              *)
(*                                                                         *)
(* The argument: a vote lasts as long as its term, so that nobody votes    *)
(* twice in a term (VoteInv); a vote is counted at most once, so that the  *)
(* counter of a candidate counts distinct voters (TallyInv); a winner has  *)
(* the votes of a majority (WinInv); two majorities share a voter.         *)
(***************************************************************************)
EXTENDS Election, FiniteSetTheorems, TLAPS

LEMMA TypeInductive ==
    ASSUME TypeOK, [Next]_vars
    PROVE  TypeOK'
<1> USE DEF TypeOK, NodeState
<1>1. ASSUME NEW n \in Node, startElection(n) PROVE TypeOK'
  BY <1>1 DEF startElection, VoteRequest, Ballot
<1>2. ASSUME NEW n \in Node, sendHeartbeat(n) PROVE TypeOK'
  BY <1>2 DEF sendHeartbeat, nodeState, history, Heartbeat
<1>3. ASSUME NEW req \in voteReqs, handleVoteRequest(req.to, req) PROVE TypeOK'
  <2> DEFINE n == req.to
  <2>1. n \in Node /\ req.term \in Nat /\ req.candidate \in Node
    BY DEF VoteRequest
  <2>2. TermAfter(n, req) \in Nat /\ VoteAfter(n, req) \in Node \cup {None}
    BY <2>1 DEF TermAfter, VoteAfter
  <2>3. /\ CurrentTerm' \in [Node -> Nat] /\ State' \in [Node -> NodeState]
        /\ LeaderID' \in [Node -> Node \cup {None}]
    <3>1. StepDownIfHigher(n, req)
      BY <1>3 DEF handleVoteRequest, GrantVote, DenyVote
    <3> QED
      BY <2>1, <2>2, <3>1 DEF StepDownIfHigher
  <2>4. VotedFor' \in [Node -> Node \cup {None}]
    BY <1>3, <2>1, <2>2 DEF handleVoteRequest, GrantVote, DenyVote
  <2>5. voteReqs' \subseteq VoteRequest /\ voteResps' \subseteq VoteResponse
    <3>1. \A granted \in BOOLEAN :
             [term |-> CurrentTerm'[n], granted |-> granted, voter |-> n, to |-> req.candidate]
               \in VoteResponse
      BY <2>1, <2>3 DEF VoteResponse
    <3> QED
      BY <1>3, <3>1 DEF handleVoteRequest, GrantVote, DenyVote, Respond
  <2>6. ballots' \subseteq [voter : Node, term : Nat, candidate : Node]
    <3>1. Ballot(n, req.term, req.candidate) \in [voter : Node, term : Nat, candidate : Node]
      BY <2>1 DEF Ballot
    <3> QED
      BY <1>3, <3>1 DEF handleVoteRequest, GrantVote, DenyVote
  <2> QED
    BY <1>3, <2>3, <2>4, <2>5, <2>6 DEF handleVoteRequest
<1>4. ASSUME NEW resp \in voteResps, handleVoteResponse(resp.to, resp) PROVE TypeOK'
  <2> DEFINE n == resp.to
  <2>1. n \in Node /\ resp.term \in Nat /\ resp.voter \in Node
    BY DEF VoteResponse
  <2>2. CASE LoseElection(n, resp)
    BY <1>4, <2>1, <2>2 DEF handleVoteResponse, LoseElection, history
  <2>3. CASE CountVote(n, resp)
    BY <1>4, <2>1, <2>3 DEF handleVoteResponse, CountVote
  <2>4. CASE becomeLeader(n, resp)
    BY <1>4, <2>1, <2>4 DEF handleVoteResponse, becomeLeader, Callback
  <2>5. CASE DropResponse(n, resp)
    BY <1>4, <2>5 DEF handleVoteResponse, DropResponse, nodeState, history
  <2> QED
    BY <1>4, <2>2, <2>3, <2>4, <2>5 DEF handleVoteResponse
<1>5. ASSUME NEW hb \in heartbeats, handleHeartbeat(hb.to, hb) PROVE TypeOK'
  <2> DEFINE n == hb.to
  <2>1. n \in Node /\ hb.term \in Nat /\ hb.leader \in Node
    BY DEF Heartbeat
  <2>2. CASE Follow(n, hb)
    BY <1>5, <2>1, <2>2 DEF handleHeartbeat, Follow, messages, history, Callback
  <2>3. CASE IgnoreHeartbeat(n, hb)
    BY <1>5, <2>3 DEF handleHeartbeat, IgnoreHeartbeat, messages, nodeState, history
  <2> QED
    BY <1>5, <2>2, <2>3 DEF handleHeartbeat
<1>6. CASE UNCHANGED vars
  BY <1>6 DEF vars, nodeState, messages, history
<1> QED
  BY <1>1, <1>2, <1>3, <1>4, <1>5, <1>6 DEF Next

(* Every handler keeps nodes, messages and history typed.                  *)
THEOREM TypeCorrect == Spec => []TypeOK
<1>1. Init => TypeOK
  BY DEF Init, TypeOK, NodeState
<1>2. TypeOK /\ [Next]_vars => TypeOK'
  BY TypeInductive
<1> QED
  BY <1>1, <1>2, PTL DEF Spec

-----------------------------------------------------------------------------
(* Votes.  A ballot is never ahead of its voter or its candidate and, in   *)
(* the voter's term, is what VotedFor says.  A request is for a vote not   *)
(* yet cast, a granting response for one that was.                         *)
BallotsCurrent ==
    \A b \in ballots : /\ b.term <= CurrentTerm[b.voter]
                       /\ b.term <= CurrentTerm[b.candidate]
                       /\ b.term = CurrentTerm[b.voter] => VotedFor[b.voter] = b.candidate

RequestsOpen ==
    \A req \in voteReqs : /\ req.term <= CurrentTerm[req.candidate]
                          /\ req.to # req.candidate
                          /\ Ballot(req.to, req.term, req.candidate) \notin ballots

ResponsesTrue ==
    \A resp \in voteResps :
        resp.granted => /\ Ballot(resp.voter, resp.term, resp.to) \in ballots
                        /\ resp.voter # resp.to

VoteInv == BallotsCurrent /\ RequestsOpen /\ ResponsesTrue /\ OneVotePerTerm

(* No term ever goes back.                                                 *)
LEMMA TermsGrow ==
    ASSUME TypeOK, [Next]_vars
    PROVE  \A n \in Node : CurrentTerm'[n] >= CurrentTerm[n]
<1> USE DEF TypeOK
<1>1. ASSUME NEW n \in Node, startElection(n) PROVE \A m \in Node : CurrentTerm'[m] >= CurrentTerm[m]
  BY <1>1 DEF startElection
<1>2. ASSUME NEW n \in Node, sendHeartbeat(n) PROVE \A m \in Node : CurrentTerm'[m] >= CurrentTerm[m]
  BY <1>2 DEF sendHeartbeat, nodeState
<1>3. ASSUME NEW req \in voteReqs, handleVoteRequest(req.to, req)
      PROVE  \A m \in Node : CurrentTerm'[m] >= CurrentTerm[m]
  <2>1. req.to \in Node /\ req.term \in Nat
    BY DEF VoteRequest
  <2> QED
    <3>1. StepDownIfHigher(req.to, req)
      BY <1>3 DEF handleVoteRequest, GrantVote, DenyVote
    <3> QED
      BY <2>1, <3>1 DEF StepDownIfHigher, TermAfter
<1>4. ASSUME NEW resp \in voteResps, handleVoteResponse(resp.to, resp)
      PROVE  \A m \in Node : CurrentTerm'[m] >= CurrentTerm[m]
  <2>1. resp.to \in Node /\ resp.term \in Nat
    BY DEF VoteResponse
  <2> QED
    BY <1>4, <2>1 DEF handleVoteResponse, LoseElection, CountVote, becomeLeader, DropResponse, nodeState
<1>5. ASSUME NEW hb \in heartbeats, handleHeartbeat(hb.to, hb)
      PROVE  \A m \in Node : CurrentTerm'[m] >= CurrentTerm[m]
  <2>1. hb.to \in Node /\ hb.term \in Nat
    BY DEF Heartbeat
  <2> QED
    BY <1>5, <2>1 DEF handleHeartbeat, Follow, IgnoreHeartbeat, nodeState
<1>6. CASE UNCHANGED vars
  BY <1>6 DEF vars, nodeState
<1> QED
  BY <1>1, <1>2, <1>3, <1>4, <1>5, <1>6 DEF Next

(* A step that casts no vote keeps VoteInv if VotedFor changes only where  *)
(* the term grows and no request or response is added.                     *)
LEMMA NoBallotStep ==
    ASSUME TypeOK, TypeOK', VoteInv,
           \A n \in Node : CurrentTerm'[n] >= CurrentTerm[n],
           \A n \in Node : CurrentTerm'[n] = CurrentTerm[n] => VotedFor'[n] = VotedFor[n],
           ballots' = ballots, voteReqs' \subseteq voteReqs,
           \A resp \in voteResps' : resp \in voteResps \/ ~resp.granted
    PROVE  VoteInv'
<1> USE DEF TypeOK, VoteRequest, VoteResponse
<1>1. BallotsCurrent'
  BY DEF VoteInv, BallotsCurrent
<1>2. RequestsOpen'
  <2> SUFFICES ASSUME NEW req \in voteReqs'
               PROVE  /\ req.term <= CurrentTerm'[req.candidate]
                      /\ req.to # req.candidate
                      /\ Ballot(req.to, req.term, req.candidate) \notin ballots'
    BY DEF RequestsOpen, Ballot
  <2>1. req \in voteReqs /\ req.candidate \in Node /\ req.term \in Nat
    OBVIOUS
  <2>2. /\ req.term <= CurrentTerm[req.candidate]
        /\ req.to # req.candidate
        /\ Ballot(req.to, req.term, req.candidate) \notin ballots
    BY <2>1 DEF VoteInv, RequestsOpen
  <2> QED
    BY <2>1, <2>2
<1>3. ResponsesTrue'
  BY DEF VoteInv, ResponsesTrue, Ballot
<1>4. OneVotePerTerm'
  BY DEF VoteInv, OneVotePerTerm
<1> QED
  BY <1>1, <1>2, <1>3, <1>4 DEF VoteInv

(* The term of a node that grants a vote is that of the request.           *)
LEMMA TermAfterGrant ==
    ASSUME NEW n, NEW req, CurrentTerm[n] \in Nat, req.term \in Nat, req.term >= CurrentTerm[n]
    PROVE  TermAfter(n, req) = req.term
BY DEF TermAfter

(* A term between two equal bounds.                                        *)
LEMMA Squeezed ==
    ASSUME NEW x \in Nat, NEW y \in Nat, NEW z \in Nat, x >= y, y >= z, x <= z
    PROVE  x = y /\ y = z
OBVIOUS

LEMMA VoteInductive ==
    ASSUME TypeOK, TypeOK', VoteInv, [Next]_vars
    PROVE  VoteInv'
<1> USE DEF TypeOK
<1>0. \A n \in Node : CurrentTerm'[n] >= CurrentTerm[n]
  BY TermsGrow
<1>1. ASSUME NEW n \in Node, startElection(n) PROVE VoteInv'
  <2> DEFINE t == CurrentTerm[n] + 1
             b == Ballot(n, t, n)
  <2>1. /\ CurrentTerm' = [CurrentTerm EXCEPT ![n] = t]
        /\ VotedFor' = [VotedFor EXCEPT ![n] = n]
        /\ ballots' = ballots \cup {b}
        /\ voteResps' = voteResps
        /\ t \in Nat /\ t > CurrentTerm[n]
    BY <1>1 DEF startElection
  <2>2. \A a \in ballots : a.voter = n \/ a.candidate = n => a.term < t
    BY <2>1 DEF VoteInv, BallotsCurrent
  <2>3. b.voter = n /\ b.term = t /\ b.candidate = n
    BY DEF Ballot
  <2>4. BallotsCurrent'
    BY <1>0, <2>1, <2>2, <2>3 DEF VoteInv, BallotsCurrent
  <2>5. RequestsOpen'
    <3> SUFFICES ASSUME NEW req \in voteReqs'
                 PROVE  /\ req.term <= CurrentTerm'[req.candidate]
                        /\ req.to # req.candidate
                        /\ Ballot(req.to, req.term, req.candidate) \notin ballots'
      BY DEF RequestsOpen, Ballot
    <3>1. CASE req \in voteReqs
      <4>1. /\ req.term <= CurrentTerm[req.candidate]
            /\ req.to # req.candidate
            /\ Ballot(req.to, req.term, req.candidate) \notin ballots
        BY <3>1 DEF VoteInv, RequestsOpen
      <4>2. Ballot(req.to, req.term, req.candidate) # b
        BY <4>1 DEF Ballot
      <4>3. req.candidate \in Node /\ req.term \in Nat
        BY <3>1 DEF VoteRequest
      <4> QED
        BY <1>0, <2>1, <4>1, <4>2, <4>3
    <3>2. CASE req \notin voteReqs
      <4>1. PICK p \in Node \ {n} : req = [term |-> t, candidate |-> n, to |-> p]
        BY <1>1, <3>2 DEF startElection
      <4>2. Ballot(req.to, req.term, req.candidate) # b
        BY <4>1 DEF Ballot
      <4>3. Ballot(req.to, req.term, req.candidate) \notin ballots
        BY <2>1, <2>2, <4>1 DEF Ballot
      <4> QED
        BY <2>1, <4>1, <4>2, <4>3
    <3> QED
      BY <3>1, <3>2
  <2>6. ResponsesTrue'
    BY <2>1 DEF VoteInv, ResponsesTrue, Ballot
  <2>7. OneVotePerTerm'
    BY <2>1, <2>2, <2>3 DEF VoteInv, OneVotePerTerm
  <2> QED
    BY <2>4, <2>5, <2>6, <2>7 DEF VoteInv
<1>2. ASSUME NEW n \in Node, sendHeartbeat(n) PROVE VoteInv'
  BY <1>0, <1>2, NoBallotStep DEF sendHeartbeat, nodeState, history
<1>3. ASSUME NEW req \in voteReqs, req.to \in Node, DenyVote(req.to, req) PROVE VoteInv'
  <2>1. req.term \in Nat
    BY DEF VoteRequest
  <2>2. ballots' = ballots /\ voteReqs' \subseteq voteReqs
    BY <1>3 DEF DenyVote, Respond
  <2>3. \A resp \in voteResps' : resp \in voteResps \/ ~resp.granted
    BY <1>3 DEF DenyVote, Respond
  <2>4. \A m \in Node : CurrentTerm'[m] = CurrentTerm[m] => VotedFor'[m] = VotedFor[m]
    BY <1>3, <2>1 DEF DenyVote, StepDownIfHigher, TermAfter, VoteAfter
  <2> QED
    BY <1>0, <2>2, <2>3, <2>4, NoBallotStep
<1>4. ASSUME NEW req \in voteReqs, req.to \in Node, GrantVote(req.to, req) PROVE VoteInv'
  <2> DEFINE n == req.to
             c == req.candidate
             t == req.term
             b == Ballot(n, t, c)
  <2>1. n \in Node /\ c \in Node /\ t \in Nat /\ n # c /\ t <= CurrentTerm[c] /\ b \notin ballots
    BY <1>4 DEF VoteRequest, VoteInv, RequestsOpen
  <2>2. /\ CurrentTerm' = [CurrentTerm EXCEPT ![n] = t]
        /\ VotedFor' = [VotedFor EXCEPT ![n] = c]
        /\ ballots' = ballots \cup {b}
        /\ voteReqs' = voteReqs \ {req}
        /\ voteResps' = voteResps \cup
              {[term |-> CurrentTerm'[n], granted |-> TRUE, voter |-> n, to |-> c]}
    <3>1. t >= CurrentTerm[n] /\ CurrentTerm[n] \in Nat /\ StepDownIfHigher(n, req)
      BY <1>4, <2>1 DEF GrantVote, MayVote
    <3>2. TermAfter(n, req) = t
      BY <2>1, <3>1, TermAfterGrant
    <3> QED
      BY <1>4, <3>1, <3>2 DEF GrantVote, StepDownIfHigher, Respond
  <2>3. t >= CurrentTerm[n] /\ CurrentTerm[n] \in Nat /\ (t = CurrentTerm[n] => VotedFor[n] \in {None, c})
    BY <1>4, <2>1 DEF GrantVote, MayVote, VoteAfter
  <2>4. \A a \in ballots : a.voter = n /\ a.term >= t => a.term = t /\ a.candidate = c
    <3> SUFFICES ASSUME NEW a \in ballots, a.voter = n, a.term >= t
                 PROVE  a.term = t /\ a.candidate = c
      OBVIOUS
    <3>1. a.term \in Nat /\ a.candidate \in Node /\ CurrentTerm[n] \in Nat
      BY <2>1
    <3>2. a.term <= CurrentTerm[n] /\ (a.term = CurrentTerm[n] => VotedFor[n] = a.candidate)
      BY DEF VoteInv, BallotsCurrent
    <3> QED
      <4>1. a.term = t /\ t = CurrentTerm[n]
        BY <2>1, <2>3, <3>1, <3>2, Squeezed
      <4> QED
        BY <2>3, <3>1, <3>2, <4>1, NodeAssumption
  <2>5. b.voter = n /\ b.term = t /\ b.candidate = c
    BY DEF Ballot
  <2>6. BallotsCurrent'
    <3> SUFFICES ASSUME NEW a \in ballots'
                 PROVE  /\ a.term <= CurrentTerm'[a.voter]
                        /\ a.term <= CurrentTerm'[a.candidate]
                        /\ a.term = CurrentTerm'[a.voter] => VotedFor'[a.voter] = a.candidate
      BY DEF BallotsCurrent
    <3>1. CASE a = b
      BY <1>0, <2>1, <2>2, <2>5, <3>1
    <3>2. CASE a \in ballots
      <4>1. /\ a.term \in Nat /\ a.voter \in Node /\ a.candidate \in Node
            /\ a.term <= CurrentTerm[a.voter] /\ a.term <= CurrentTerm[a.candidate]
            /\ a.term = CurrentTerm[a.voter] => VotedFor[a.voter] = a.candidate
        BY <3>2 DEF VoteInv, BallotsCurrent
      <4>2. CASE a.voter = n
        BY <1>0, <2>1, <2>2, <2>4, <3>2, <4>1, <4>2
      <4>3. CASE a.voter # n
        BY <1>0, <2>1, <2>2, <4>1, <4>3
      <4> QED
        BY <4>2, <4>3
    <3> QED
      BY <2>2, <3>1, <3>2
  <2>7. RequestsOpen'
    <3> SUFFICES ASSUME NEW r \in voteReqs'
                 PROVE  /\ r.term <= CurrentTerm'[r.candidate]
                        /\ r.to # r.candidate
                        /\ Ballot(r.to, r.term, r.candidate) \notin ballots'
      BY DEF RequestsOpen, Ballot
    <3>1. /\ r \in voteReqs /\ r # req /\ r \in VoteRequest /\ req \in VoteRequest
      BY <2>2
    <3>2. Ballot(r.to, r.term, r.candidate) # b
      BY <3>1 DEF Ballot, VoteRequest
    <3>3. /\ r.term <= CurrentTerm[r.candidate]
          /\ r.to # r.candidate
          /\ Ballot(r.to, r.term, r.candidate) \notin ballots
          /\ r.candidate \in Node /\ r.term \in Nat
      BY <3>1 DEF VoteInv, RequestsOpen, VoteRequest
    <3> QED
      BY <1>0, <2>2, <3>2, <3>3
  <2>8. ResponsesTrue'
    BY <2>1, <2>2 DEF VoteInv, ResponsesTrue, Ballot
  <2>9. OneVotePerTerm'
    BY <2>2, <2>4, <2>5 DEF VoteInv, OneVotePerTerm
  <2> QED
    BY <2>6, <2>7, <2>8, <2>9 DEF VoteInv
<1>5. ASSUME NEW resp \in voteResps, handleVoteResponse(resp.to, resp) PROVE VoteInv'
  <2>1. resp.to \in Node /\ resp.term \in Nat
    BY DEF VoteResponse
  <2>2. ballots' = ballots /\ voteReqs' = voteReqs /\ voteResps' \subseteq voteResps
    BY <1>5 DEF handleVoteResponse, LoseElection, CountVote, becomeLeader, DropResponse, history
  <2>3. \A m \in Node : CurrentTerm'[m] = CurrentTerm[m] => VotedFor'[m] = VotedFor[m]
    BY <1>5, <2>1
       DEF handleVoteResponse, LoseElection, CountVote, becomeLeader, DropResponse, nodeState
  <2> QED
    BY <1>0, <2>2, <2>3, NoBallotStep
<1>6. ASSUME NEW hb \in heartbeats, handleHeartbeat(hb.to, hb) PROVE VoteInv'
  <2>1. hb.to \in Node /\ hb.term \in Nat
    BY DEF Heartbeat
  <2>2. ballots' = ballots /\ voteReqs' = voteReqs /\ voteResps' = voteResps
    BY <1>6 DEF handleHeartbeat, messages, history
  <2>3. \A m \in Node : CurrentTerm'[m] = CurrentTerm[m] => VotedFor'[m] = VotedFor[m]
    BY <1>6, <2>1 DEF handleHeartbeat, Follow, IgnoreHeartbeat, nodeState
  <2> QED
    BY <1>0, <2>2, <2>3, NoBallotStep
<1>7. CASE UNCHANGED vars
  BY <1>0, <1>7, NoBallotStep DEF vars, nodeState, messages, history
<1>8. ASSUME NEW req \in voteReqs, handleVoteRequest(req.to, req) PROVE VoteInv'
  <2>1. req.to \in Node
    BY DEF VoteRequest
  <2> QED
    BY <1>3, <1>4, <1>8, <2>1 DEF handleVoteRequest
<1> QED
  BY <1>1, <1>2, <1>5, <1>6, <1>7, <1>8 DEF Next

LEMMA VoteInit == Init => VoteInv
BY DEF Init, VoteInv, BallotsCurrent, RequestsOpen, ResponsesTrue, OneVotePerTerm

LEMMA VoteInvariant == Spec => [](TypeOK /\ VoteInv)
<1>1. TypeOK /\ VoteInv /\ [Next]_vars => (TypeOK /\ VoteInv)'
  BY TypeInductive, VoteInductive
<1>2. Init => VoteInv
  BY VoteInit
<1> QED
  BY <1>1, <1>2, TypeCorrect, PTL DEF Spec

(* Nobody votes twice in a term, however many candidates ask and whatever  *)
(* clears VotedFor in between.                                             *)
THEOREM OneVotePerTermHolds == Spec => []OneVotePerTerm
<1>1. VoteInv => OneVotePerTerm
  BY DEF VoteInv
<1> QED
  BY <1>1, VoteInvariant, PTL

-----------------------------------------------------------------------------
(* Counting.  A granting response still in flight has not been counted.    *)
NotYetCounted ==
    \A resp \in voteResps :
        resp.granted /\ State[resp.to] = "CANDIDATE" /\ resp.term = CurrentTerm[resp.to]
            => resp.voter \notin tally[resp.to]

TallyInv == EveryVoteCountedOnce /\ NotYetCounted

(* A step that counts no vote keeps TallyInv if every candidate or leader  *)
(* after it was one before, in the same term, and it grants no vote.       *)
LEMMA NoCountStep ==
    ASSUME TypeOK, TallyInv,
           \A n \in Node : State'[n] # "FOLLOWER" =>
               /\ State[n] = State'[n] /\ CurrentTerm'[n] = CurrentTerm[n]
               /\ voteCount'[n] = voteCount[n] /\ tally'[n] = tally[n],
           ballots \subseteq ballots',
           \A resp \in voteResps' : resp \in voteResps \/ ~resp.granted
    PROVE  TallyInv'
<1> USE DEF TypeOK, VoteResponse
<1>1. EveryVoteCountedOnce'
  <2> SUFFICES ASSUME NEW n \in Node, State'[n] # "FOLLOWER"
               PROVE  /\ voteCount'[n] = Cardinality(tally'[n])
                      /\ \A v \in tally'[n] : Ballot(v, CurrentTerm'[n], n) \in ballots'
    BY DEF EveryVoteCountedOnce, Ballot
  <2>1. /\ State[n] = State'[n] /\ CurrentTerm'[n] = CurrentTerm[n]
        /\ voteCount'[n] = voteCount[n] /\ tally'[n] = tally[n]
    OBVIOUS
  <2>2. /\ voteCount[n] = Cardinality(tally[n])
        /\ \A v \in tally[n] : Ballot(v, CurrentTerm[n], n) \in ballots
    BY <2>1 DEF TallyInv, EveryVoteCountedOnce
  <2> QED
    BY <2>1, <2>2
<1>2. NotYetCounted'
  BY DEF TallyInv, NotYetCounted
<1> QED
  BY <1>1, <1>2 DEF TallyInv

LEMMA TallyInductive ==
    ASSUME TypeOK, TypeOK', VoteInv, TallyInv, [Next]_vars
    PROVE  TallyInv'
<1> USE DEF TypeOK
<1>1. ASSUME NEW n \in Node, startElection(n) PROVE TallyInv'
  <2> DEFINE t == CurrentTerm[n] + 1
  <2>1. /\ CurrentTerm' = [CurrentTerm EXCEPT ![n] = t]
        /\ State' = [State EXCEPT ![n] = "CANDIDATE"]
        /\ voteCount' = [voteCount EXCEPT ![n] = 1]
        /\ tally' = [tally EXCEPT ![n] = {n}]
        /\ ballots' = ballots \cup {Ballot(n, t, n)}
        /\ voteResps' = voteResps
        /\ t > CurrentTerm[n]
    BY <1>1 DEF startElection
  <2>2. EveryVoteCountedOnce'
    <3> SUFFICES ASSUME NEW m \in Node, State'[m] # "FOLLOWER"
                 PROVE  /\ voteCount'[m] = Cardinality(tally'[m])
                        /\ \A v \in tally'[m] : Ballot(v, CurrentTerm'[m], m) \in ballots'
      BY DEF EveryVoteCountedOnce, Ballot
    <3>1. CASE m = n
      <4>1. voteCount'[n] = 1 /\ tally'[n] = {n} /\ CurrentTerm'[n] = t
        BY <2>1
      <4>2. Cardinality({n}) = 1
        BY FS_Singleton
      <4> QED
        BY <2>1, <3>1, <4>1, <4>2
    <3>2. CASE m # n
      <4>1. /\ voteCount[m] = Cardinality(tally[m])
            /\ \A v \in tally[m] : Ballot(v, CurrentTerm[m], m) \in ballots
        BY <2>1, <3>2 DEF TallyInv, EveryVoteCountedOnce
      <4> QED
        BY <2>1, <3>2, <4>1
    <3> QED
      BY <3>1, <3>2
  <2>3. NotYetCounted'
    <3> SUFFICES ASSUME NEW resp \in voteResps, resp.granted,
                        State'[resp.to] = "CANDIDATE", resp.term = CurrentTerm'[resp.to]
                 PROVE  resp.voter \notin tally'[resp.to]
      BY <2>1 DEF NotYetCounted
    <3>1. resp.to \in Node /\ resp.voter \in Node /\ resp.term \in Nat
      BY DEF VoteResponse
    <3>2. resp.term <= CurrentTerm[resp.to]
      BY DEF VoteInv, ResponsesTrue, BallotsCurrent, Ballot
    <3>3. resp.to # n
      BY <2>1, <3>1, <3>2
    <3> QED
      BY <2>1, <3>1, <3>3 DEF TallyInv, NotYetCounted
  <2> QED
    BY <2>2, <2>3 DEF TallyInv
<1>2. ASSUME NEW n \in Node, sendHeartbeat(n) PROVE TallyInv'
  BY <1>2, NoCountStep DEF sendHeartbeat, nodeState, history
<1>3. ASSUME NEW req \in voteReqs, handleVoteRequest(req.to, req) PROVE TallyInv'
  <2> DEFINE n == req.to
  <2>1. n \in Node /\ req.candidate \in Node /\ req.term \in Nat
    BY DEF VoteRequest
  <2>2. \A m \in Node : State'[m] # "FOLLOWER" =>
           /\ State[m] = State'[m] /\ CurrentTerm'[m] = CurrentTerm[m]
           /\ voteCount'[m] = voteCount[m] /\ tally'[m] = tally[m]
    <3>1. StepDownIfHigher(n, req) /\ voteCount' = voteCount /\ tally' = tally
      BY <1>3 DEF handleVoteRequest, GrantVote, DenyVote
    <3> QED
      BY <2>1, <3>1 DEF StepDownIfHigher, TermAfter
  <2>3. CASE DenyVote(n, req)
    <3>1. ballots \subseteq ballots' /\ \A resp \in voteResps' : resp \in voteResps \/ ~resp.granted
      BY <2>3 DEF DenyVote, Respond
    <3> QED
      BY <2>2, <3>1, NoCountStep
  <2>4. CASE GrantVote(n, req)
    <3> DEFINE resp == [term |-> CurrentTerm'[n], granted |-> TRUE, voter |-> n, to |-> req.candidate]
    <3>1. /\ voteResps' = voteResps \cup {resp}
          /\ ballots \subseteq ballots'
          /\ Ballot(n, req.term, req.candidate) \notin ballots
      BY <2>4 DEF GrantVote, Respond, VoteInv, RequestsOpen
    <3>2. CurrentTerm'[n] = req.term
      BY <2>1, <2>4, TermAfterGrant DEF GrantVote, MayVote, StepDownIfHigher
    <3>3. EveryVoteCountedOnce'
      <4> SUFFICES ASSUME NEW m \in Node, State'[m] # "FOLLOWER"
                   PROVE  /\ voteCount'[m] = Cardinality(tally'[m])
                          /\ \A v \in tally'[m] : Ballot(v, CurrentTerm'[m], m) \in ballots'
        BY DEF EveryVoteCountedOnce, Ballot
      <4>1. /\ voteCount[m] = Cardinality(tally[m])
            /\ \A v \in tally[m] : Ballot(v, CurrentTerm[m], m) \in ballots
        BY <2>2 DEF TallyInv, EveryVoteCountedOnce
      <4> QED
        BY <2>2, <3>1, <4>1
    <3>4. ASSUME NEW r \in voteResps', r.granted,
                 State'[r.to] = "CANDIDATE", r.term = CurrentTerm'[r.to]
          PROVE  r.voter \notin tally'[r.to]
      <4>1. CASE r \in voteResps
        <5>1. r.to \in Node
          BY <4>1 DEF VoteResponse
        <5> QED
          BY <2>2, <3>4, <4>1, <5>1 DEF TallyInv, NotYetCounted
      <4>2. CASE r = resp
        <5>1. /\ State[req.candidate] = "CANDIDATE"
              /\ CurrentTerm[req.candidate] = req.term
              /\ tally'[req.candidate] = tally[req.candidate]
          BY <2>1, <2>2, <3>2, <3>4, <4>2
        <5>2. n \notin tally[req.candidate]
          BY <2>1, <3>1, <5>1 DEF TallyInv, EveryVoteCountedOnce
        <5> QED
          BY <4>2, <5>1, <5>2
      <4> QED
        BY <3>1, <3>4, <4>1, <4>2
    <3> QED
      BY <3>3, <3>4 DEF TallyInv, NotYetCounted
  <2> QED
    BY <1>3, <2>3, <2>4 DEF handleVoteRequest
<1>4. ASSUME NEW resp \in voteResps, handleVoteResponse(resp.to, resp) PROVE TallyInv'
  <2> DEFINE n == resp.to
  <2>1. n \in Node /\ resp.term \in Nat /\ resp.voter \in Node /\ voteResps' = voteResps \ {resp}
    BY <1>4 DEF VoteResponse, handleVoteResponse
  <2>2. CASE LoseElection(n, resp)
    BY <2>1, <2>2, NoCountStep DEF LoseElection, history
  <2>3. CASE CountVote(n, resp) \/ becomeLeader(n, resp)
    <3>1. /\ State[n] = "CANDIDATE" /\ resp.term = CurrentTerm[n] /\ resp.granted
          /\ voteCount' = [voteCount EXCEPT ![n] = @ + 1]
          /\ tally' = [tally EXCEPT ![n] = @ \cup {resp.voter}]
          /\ CurrentTerm' = CurrentTerm /\ ballots' = ballots
          /\ \A m \in Node : State'[m] = State[m] \/ (m = n /\ State'[m] = "LEADER")
      BY <2>1, <2>3 DEF CountVote, becomeLeader, Counts
    <3>2. EveryVoteCountedOnce'
      <4> SUFFICES ASSUME NEW m \in Node, State'[m] # "FOLLOWER"
                   PROVE  /\ voteCount'[m] = Cardinality(tally'[m])
                          /\ \A v \in tally'[m] : Ballot(v, CurrentTerm'[m], m) \in ballots'
        BY DEF EveryVoteCountedOnce, Ballot
      <4>1. /\ voteCount[m] = Cardinality(tally[m])
            /\ \A v \in tally[m] : Ballot(v, CurrentTerm[m], m) \in ballots
        BY <3>1 DEF TallyInv, EveryVoteCountedOnce
      <4>2. CASE m = n
        <5>1. resp.voter \notin tally[n]
          BY <3>1 DEF TallyInv, NotYetCounted
        <5>2. IsFiniteSet(tally[n])
          BY <2>1, FS_Subset, NodeAssumption
        <5>3. Cardinality(tally[n] \cup {resp.voter}) = Cardinality(tally[n]) + 1
          BY <5>1, <5>2, FS_AddElement
        <5>4. Ballot(resp.voter, CurrentTerm[n], n) \in ballots
          BY <3>1 DEF VoteInv, ResponsesTrue
        <5>5. /\ voteCount[n] = Cardinality(tally[n])
              /\ voteCount'[n] = voteCount[n] + 1
              /\ tally'[n] = tally[n] \cup {resp.voter}
          BY <2>1, <3>1, <4>1, <4>2
        <5>6. voteCount'[n] = Cardinality(tally'[n])
          BY <5>3, <5>5
        <5>7. \A v \in tally'[n] : Ballot(v, CurrentTerm[n], n) \in ballots
          BY <4>1, <4>2, <5>4, <5>5
        <5> QED
          BY <3>1, <4>2, <5>6, <5>7
      <4>3. CASE m # n
        BY <3>1, <4>1, <4>3
      <4> QED
        BY <4>2, <4>3
    <3>3. ASSUME NEW r \in voteResps', r.granted, State'[r.to] = "CANDIDATE", r.term = CurrentTerm'[r.to]
          PROVE  r.voter \notin tally'[r.to]
      <4>1. r \in voteResps /\ r # resp /\ r \in VoteResponse /\ resp \in VoteResponse
        BY <2>1, <3>3
      <4>2. r.voter \notin tally[r.to]
        <5>1. r.to \in Node
          BY <4>1 DEF VoteResponse
        <5>2. State[r.to] = "CANDIDATE" /\ r.term = CurrentTerm[r.to]
          BY <3>1, <3>3, <5>1
        <5> QED
          BY <3>3, <4>1, <5>2 DEF TallyInv, NotYetCounted
      <4>3. CASE r.to = n
        <5>1. r.term = resp.term /\ r.granted = resp.granted
          <6>1. r.granted = TRUE /\ resp.granted = TRUE
            BY <3>1, <3>3, <4>1 DEF VoteResponse
          <6> QED
            BY <3>1, <3>3, <4>3, <6>1
        <5>2. r.voter # resp.voter
          BY <4>1, <4>3, <5>1 DEF VoteResponse
        <5> QED
          BY <2>1, <3>1, <4>2, <4>3, <5>2
      <4>4. CASE r.to # n
        BY <2>1, <3>1, <4>1, <4>2, <4>4 DEF VoteResponse
      <4> QED
        BY <4>3, <4>4
    <3> QED
      BY <3>2, <3>3 DEF TallyInv, NotYetCounted
  <2>4. CASE DropResponse(n, resp)
    BY <2>1, <2>4, NoCountStep DEF DropResponse, nodeState, history
  <2> QED
    BY <1>4, <2>2, <2>3, <2>4 DEF handleVoteResponse
<1>5. ASSUME NEW hb \in heartbeats, handleHeartbeat(hb.to, hb) PROVE TallyInv'
  <2>1. hb.to \in Node
    BY DEF Heartbeat
  <2> QED
    BY <1>5, <2>1, NoCountStep
       DEF handleHeartbeat, Follow, IgnoreHeartbeat, messages, history, nodeState
<1>6. CASE UNCHANGED vars
  BY <1>6, NoCountStep DEF vars, nodeState, messages, history
<1> QED
  BY <1>1, <1>2, <1>3, <1>4, <1>5, <1>6 DEF Next

LEMMA TallyInvariant == Spec => []TallyInv
<1>1. Init => TallyInv
  BY DEF Init, TallyInv, EveryVoteCountedOnce, NotYetCounted
<1>2. TypeOK /\ TypeOK' /\ VoteInv /\ TallyInv /\ [Next]_vars => TallyInv'
  BY TallyInductive
<1> QED
  BY <1>1, <1>2, TypeCorrect, VoteInvariant, PTL DEF Spec

(* The bare counter counts distinct voters of the present election.        *)
THEOREM EveryVoteCountedOnceHolds == Spec => []EveryVoteCountedOnce
<1>1. TallyInv => EveryVoteCountedOnce
  BY DEF TallyInv
<1> QED
  BY <1>1, TallyInvariant, PTL

-----------------------------------------------------------------------------
(* Victories.  A winner has the votes of a majority.                       *)
WinInv ==
    \A e \in elected : /\ 2 * Cardinality(e.voters) > Cardinality(Node)
                       /\ \A v \in e.voters : Ballot(v, e.term, e.leader) \in ballots

(* handleVoteResponse's majority is more than half.                        *)
LEMMA MajorityMoreThanHalf ==
    ASSUME NEW k \in Nat, k >= Majority
    PROVE  2 * k > Cardinality(Node)
<1>1. Cardinality(Node) \in Nat
  BY FS_CardinalityType, NodeAssumption
<1>2. k >= (Cardinality(Node) \div 2) + 1
  BY DEF Majority
<1> QED
  BY <1>1, <1>2

LEMMA WinInductive ==
    ASSUME TypeOK, VoteInv, TallyInv, WinInv, [Next]_vars
    PROVE  WinInv'
<1> USE DEF TypeOK
<1>1. ASSUME elected' = elected, ballots \subseteq ballots' PROVE WinInv'
  BY <1>1 DEF WinInv, Ballot
<1>2. ASSUME NEW n \in Node, startElection(n) \/ sendHeartbeat(n) PROVE WinInv'
  BY <1>1, <1>2 DEF startElection, sendHeartbeat, history
<1>3. ASSUME NEW req \in voteReqs, handleVoteRequest(req.to, req) PROVE WinInv'
  BY <1>1, <1>3 DEF handleVoteRequest, GrantVote, DenyVote
<1>4. ASSUME NEW resp \in voteResps, handleVoteResponse(resp.to, resp) PROVE WinInv'
  <2> DEFINE n == resp.to
  <2>1. CASE becomeLeader(n, resp)
    <3> DEFINE won == [leader |-> n, term |-> CurrentTerm[n], voters |-> tally[n] \cup {resp.voter}]
    <3>1. /\ State[n] = "CANDIDATE" /\ resp.term = CurrentTerm[n] /\ resp.granted
          /\ voteCount[n] + 1 >= Majority
          /\ elected' = elected \cup {won} /\ ballots' = ballots
      BY <2>1 DEF becomeLeader, Counts
    <3>2. n \in Node
      BY DEF VoteResponse
    <3>3. /\ voteCount[n] = Cardinality(tally[n])
          /\ \A v \in tally[n] : Ballot(v, CurrentTerm[n], n) \in ballots
          /\ resp.voter \notin tally[n]
          /\ Ballot(resp.voter, CurrentTerm[n], n) \in ballots
      BY <3>1, <3>2 DEF TallyInv, EveryVoteCountedOnce, NotYetCounted, VoteInv, ResponsesTrue
    <3>4. IsFiniteSet(tally[n])
      BY <3>2, FS_Subset, NodeAssumption
    <3>5. /\ Cardinality(won.voters) = Cardinality(tally[n]) + 1
          /\ Cardinality(tally[n]) \in Nat
      BY <3>3, <3>4, FS_AddElement, FS_CardinalityType
    <3>6. 2 * Cardinality(won.voters) > Cardinality(Node)
      <4>1. Cardinality(won.voters) \in Nat /\ Cardinality(won.voters) >= Majority
        BY <3>1, <3>3, <3>5
      <4> QED
        BY <4>1, MajorityMoreThanHalf
    <3>7. \A v \in won.voters : Ballot(v, won.term, won.leader) \in ballots
      BY <3>3
    <3> QED
      BY <3>1, <3>6, <3>7 DEF WinInv, Ballot
  <2>2. CASE LoseElection(n, resp) \/ CountVote(n, resp) \/ DropResponse(n, resp)
    BY <1>1, <2>2 DEF LoseElection, CountVote, DropResponse, history
  <2> QED
    BY <1>4, <2>1, <2>2 DEF handleVoteResponse
<1>5. ASSUME NEW hb \in heartbeats, handleHeartbeat(hb.to, hb) PROVE WinInv'
  BY <1>1, <1>5 DEF handleHeartbeat, history
<1>6. CASE UNCHANGED vars
  BY <1>1, <1>6 DEF vars, history
<1> QED
  BY <1>2, <1>3, <1>4, <1>5, <1>6 DEF Next

LEMMA WinInvariant == Spec => []WinInv
<1>1. Init => WinInv
  BY DEF Init, WinInv
<1>2. TypeOK /\ VoteInv /\ TallyInv /\ WinInv /\ [Next]_vars => WinInv'
  BY WinInductive
<1> QED
  BY <1>1, <1>2, VoteInvariant, TallyInvariant, PTL DEF Spec

(* Two winners of a term would share a voter, who voted once.              *)
LEMMA MajoritiesAgree ==
    ASSUME TypeOK, OneVotePerTerm, WinInv
    PROVE  ElectionSafety
<1> SUFFICES ASSUME NEW e \in elected, NEW f \in elected, e.term = f.term
             PROVE  e.leader = f.leader
  BY DEF ElectionSafety
<1>1. e.voters \subseteq Node /\ f.voters \subseteq Node
  BY DEF TypeOK
<1>2. /\ Cardinality(Node) \in Nat
      /\ Cardinality(e.voters) \in Nat /\ Cardinality(f.voters) \in Nat
  BY <1>1, FS_Subset, FS_CardinalityType, NodeAssumption
<1>3. e.voters \cap f.voters # {}
  <2>1. Cardinality(e.voters) + Cardinality(f.voters) > Cardinality(Node)
    BY <1>2 DEF WinInv
  <2> QED
    BY <1>1, <2>1, FS_MajoritiesIntersect, NodeAssumption
<1>4. PICK v \in e.voters \cap f.voters : TRUE
  BY <1>3
<1>5. Ballot(v, e.term, e.leader) \in ballots /\ Ballot(v, f.term, f.leader) \in ballots
  BY <1>4 DEF WinInv
<1> QED
  BY <1>5 DEF OneVotePerTerm, Ballot

(* At most one leader per term, for any number of nodes.                   *)
THEOREM ElectionSafetyHolds == Spec => []ElectionSafety
<1>1. TypeOK /\ VoteInv /\ WinInv => ElectionSafety
  BY MajoritiesAgree DEF VoteInv
<1> QED
  BY <1>1, TypeCorrect, VoteInvariant, WinInvariant, PTL

-----------------------------------------------------------------------------
(* Authority.  A node whose State or LeaderID names a leader without a     *)
(* step having changed it still names one that was elected.                *)
LEMMA NoClaimStep ==
    ASSUME TypeOK, AuthorityIsElected,
           \A n \in Node : CurrentTerm'[n] >= CurrentTerm[n] /\ CurrentTerm'[n] \in Nat,
           \A n \in Node : State'[n] = "LEADER"
               => State[n] = "LEADER" /\ CurrentTerm'[n] = CurrentTerm[n],
           \A n \in Node : LeaderID'[n] \in {LeaderID[n], None},
           heartbeats' = heartbeats, callbacks' = callbacks, elected' = elected
    PROVE  AuthorityIsElected'
<1> USE DEF TypeOK
<1>1. \A n \in Node : State'[n] = "LEADER" => \E e \in elected' : e.leader = n /\ e.term = CurrentTerm'[n]
  BY DEF AuthorityIsElected, Elected
<1>2. ASSUME NEW n \in Node, LeaderID'[n] # None
      PROVE  \E e \in elected : e.leader = LeaderID'[n] /\ e.term <= CurrentTerm'[n]
  <2>1. PICK e \in elected : e.leader = LeaderID[n] /\ e.term <= CurrentTerm[n]
    BY <1>2 DEF AuthorityIsElected
  <2> QED
    BY <1>2, <2>1
<1> QED
  BY <1>1, <1>2 DEF AuthorityIsElected, Elected

LEMMA AuthorityInductive ==
    ASSUME TypeOK, TypeOK', AuthorityIsElected, [Next]_vars
    PROVE  AuthorityIsElected'
<1> USE DEF TypeOK
<1>0. \A n \in Node : CurrentTerm'[n] >= CurrentTerm[n] /\ CurrentTerm'[n] \in Nat
  BY TermsGrow
<1>1. ASSUME NEW n \in Node, startElection(n) PROVE AuthorityIsElected'
  BY <1>0, <1>1, NoClaimStep DEF startElection
<1>2. ASSUME NEW n \in Node, sendHeartbeat(n) PROVE AuthorityIsElected'
  <2>1. Elected(n, CurrentTerm[n])
    BY <1>2 DEF sendHeartbeat, AuthorityIsElected
  <2>2. \A hb \in heartbeats' : Elected(hb.leader, hb.term)
    BY <1>2, <2>1 DEF sendHeartbeat, AuthorityIsElected
  <2> QED
    BY <1>2, <2>2 DEF sendHeartbeat, nodeState, history, AuthorityIsElected, Elected
<1>3. ASSUME NEW req \in voteReqs, handleVoteRequest(req.to, req) PROVE AuthorityIsElected'
  <2>1. req.to \in Node /\ req.term \in Nat
    BY DEF VoteRequest
  <2>2. StepDownIfHigher(req.to, req)
    BY <1>3 DEF handleVoteRequest, GrantVote, DenyVote
  <2>3. \A n \in Node : State'[n] = "LEADER" => State[n] = "LEADER" /\ CurrentTerm'[n] = CurrentTerm[n]
    BY <2>1, <2>2 DEF StepDownIfHigher, TermAfter
  <2>4. \A n \in Node : LeaderID'[n] \in {LeaderID[n], None}
    BY <2>1, <2>2 DEF StepDownIfHigher
  <2> QED
    BY <1>0, <1>3, <2>3, <2>4, NoClaimStep DEF handleVoteRequest
<1>4. ASSUME NEW resp \in voteResps, handleVoteResponse(resp.to, resp) PROVE AuthorityIsElected'
  <2> DEFINE n == resp.to
  <2>1. n \in Node /\ heartbeats' = heartbeats
    BY <1>4 DEF VoteResponse, handleVoteResponse
  <2>2. CASE becomeLeader(n, resp)
    <3> DEFINE won == [leader |-> n, term |-> CurrentTerm[n], voters |-> tally[n] \cup {resp.voter}]
               cb == [at |-> n, leader |-> n, term |-> CurrentTerm[n]]
    <3>1. /\ State' = [State EXCEPT ![n] = "LEADER"]
          /\ LeaderID' = [LeaderID EXCEPT ![n] = n]
          /\ CurrentTerm' = CurrentTerm
          /\ callbacks' = callbacks \cup {cb}
          /\ elected' = elected \cup {won}
      BY <2>2 DEF becomeLeader
    <3>2. won \in elected' /\ won.leader = n /\ won.term = CurrentTerm[n] /\ won.term <= CurrentTerm'[n]
      BY <2>1, <3>1
    <3>3. ASSUME NEW m \in Node, State'[m] = "LEADER"
          PROVE  \E e \in elected' : e.leader = m /\ e.term = CurrentTerm'[m]
      <4>1. CASE m = n
        BY <3>1, <3>2, <4>1
      <4>2. CASE m # n
        <5>1. State[m] = "LEADER"
          BY <2>1, <3>1, <3>3, <4>2
        <5>2. PICK e \in elected : e.leader = m /\ e.term = CurrentTerm[m]
          BY <5>1 DEF AuthorityIsElected, Elected
        <5> QED
          BY <3>1, <5>2
      <4> QED
        BY <4>1, <4>2
    <3>4. /\ \A hb \in heartbeats' : \E e \in elected' : e.leader = hb.leader /\ e.term = hb.term
          /\ \A c \in callbacks' : \E e \in elected' : e.leader = c.leader /\ e.term = c.term
      <4>1. \A hb \in heartbeats : \E e \in elected : e.leader = hb.leader /\ e.term = hb.term
        BY DEF AuthorityIsElected, Elected
      <4>2. \A c \in callbacks : \E e \in elected : e.leader = c.leader /\ e.term = c.term
        BY DEF AuthorityIsElected, Elected
      <4>3. cb.leader = won.leader /\ cb.term = won.term
        OBVIOUS
      <4>4. \A c \in callbacks' : \E e \in elected' : e.leader = c.leader /\ e.term = c.term
        BY <3>1, <3>2, <4>2, <4>3
      <4> QED
        BY <2>1, <3>1, <4>1, <4>4
    <3>5. \A m \in Node : LeaderID'[m] # None =>
             \E e \in elected' : e.leader = LeaderID'[m] /\ e.term <= CurrentTerm'[m]
      BY <2>1, <3>1, <3>2 DEF AuthorityIsElected
    <3> QED
      BY <3>3, <3>4, <3>5 DEF AuthorityIsElected, Elected
  <2>3. CASE LoseElection(n, resp) \/ CountVote(n, resp) \/ DropResponse(n, resp)
    BY <1>0, <2>1, <2>3, NoClaimStep DEF LoseElection, CountVote, DropResponse, nodeState, history
  <2> QED
    BY <1>4, <2>2, <2>3 DEF handleVoteResponse
<1>5. ASSUME NEW hb \in heartbeats, handleHeartbeat(hb.to, hb) PROVE AuthorityIsElected'
  <2> DEFINE n == hb.to
  <2>1. /\ n \in Node /\ hb.term \in Nat /\ hb.leader \in Node
        /\ heartbeats' = heartbeats /\ elected' = elected
    BY <1>5 DEF Heartbeat, handleHeartbeat, messages, history
  <2>2. CASE IgnoreHeartbeat(n, hb)
    BY <1>0, <2>1, <2>2, NoClaimStep DEF IgnoreHeartbeat, nodeState
  <2>3. CASE Follow(n, hb)
    <3>1. PICK e \in elected : e.leader = hb.leader /\ e.term = hb.term
      BY DEF AuthorityIsElected, Elected
    <3>2. \A m \in Node : State'[m] = "LEADER" => m # n /\ State[m] = "LEADER" /\ CurrentTerm'[m] = CurrentTerm[m]
      BY <2>1, <2>3 DEF Follow
    <3>3. \A c \in callbacks' : c \in callbacks \/ (c.leader = hb.leader /\ c.term = hb.term)
      BY <2>3 DEF Follow
    <3>4. \A m \in Node : LeaderID'[m] # None =>
             \E f \in elected : f.leader = LeaderID'[m] /\ f.term <= CurrentTerm'[m]
      <4>1. LeaderID'[n] = hb.leader /\ CurrentTerm'[n] = hb.term
        BY <2>1, <2>3 DEF Follow
      <4>2. e.term <= CurrentTerm'[n]
        BY <2>1, <3>1, <4>1
      <4>3. \A m \in Node \ {n} : LeaderID'[m] = LeaderID[m] /\ CurrentTerm'[m] = CurrentTerm[m]
        BY <2>3 DEF Follow
      <4> QED
        BY <3>1, <4>1, <4>2, <4>3 DEF AuthorityIsElected
    <3> QED
      BY <2>1, <3>1, <3>2, <3>3, <3>4 DEF AuthorityIsElected, Elected
  <2> QED
    BY <1>5, <2>2, <2>3 DEF handleHeartbeat
<1>6. CASE UNCHANGED vars
  BY <1>6 DEF vars, nodeState, messages, history, AuthorityIsElected, Elected
<1> QED
  BY <1>1, <1>2, <1>3, <1>4, <1>5, <1>6 DEF Next

(* No node, heartbeat, callback or LeaderID speaks for an unelected node.  *)
THEOREM AuthorityIsElectedHolds == Spec => []AuthorityIsElected
<1>1. Init => AuthorityIsElected
  BY DEF Init, AuthorityIsElected
<1>2. TypeOK /\ TypeOK' /\ AuthorityIsElected /\ [Next]_vars => AuthorityIsElected'
  BY AuthorityInductive
<1> QED
  BY <1>1, <1>2, TypeCorrect, PTL DEF Spec

-----------------------------------------------------------------------------
HeartbeatsToOthers == \A hb \in heartbeats : hb.to # hb.leader

LEMMA HeartbeatsToOthersInvariant == Spec => []HeartbeatsToOthers
<1>1. Init => HeartbeatsToOthers
  BY DEF Init, HeartbeatsToOthers
<1>2. HeartbeatsToOthers /\ [Next]_vars => HeartbeatsToOthers'
  <2> SUFFICES ASSUME HeartbeatsToOthers, [Next]_vars PROVE HeartbeatsToOthers'
    OBVIOUS
  <2>1. ASSUME NEW n \in Node, sendHeartbeat(n) PROVE HeartbeatsToOthers'
    BY <2>1 DEF sendHeartbeat, HeartbeatsToOthers
  <2>2. ASSUME heartbeats' = heartbeats PROVE HeartbeatsToOthers'
    BY <2>2 DEF HeartbeatsToOthers
  <2> QED
    BY <2>1, <2>2
       DEF Next, startElection, handleVoteRequest, handleVoteResponse, handleHeartbeat,
           vars, messages
<1> QED
  BY <1>1, <1>2, PTL DEF Spec

LEMMA DeposedStep ==
    ASSUME TypeOK, ElectionSafety, AuthorityIsElected, HeartbeatsToOthers, [Next]_vars,
           NEW m \in Node, State[m] = "LEADER", State'[m] # "LEADER"
    PROVE  CurrentTerm'[m] > CurrentTerm[m]
<1> USE DEF TypeOK
<1>1. ASSUME NEW n \in Node, startElection(n) \/ sendHeartbeat(n)
      PROVE  FALSE
  BY <1>1 DEF startElection, sendHeartbeat, nodeState
<1>2. ASSUME NEW req \in voteReqs, handleVoteRequest(req.to, req)
      PROVE  CurrentTerm'[m] > CurrentTerm[m]
  <2>1. StepDownIfHigher(req.to, req) /\ req.to \in Node /\ req.term \in Nat
    BY <1>2 DEF handleVoteRequest, GrantVote, DenyVote, VoteRequest
  <2>2. m = req.to /\ req.term > CurrentTerm[m]
    BY <2>1 DEF StepDownIfHigher
  <2> QED
    BY <2>1, <2>2 DEF StepDownIfHigher, TermAfter
<1>3. ASSUME NEW resp \in voteResps, handleVoteResponse(resp.to, resp)
      PROVE  FALSE
  <2>1. resp.to \in Node
    BY DEF VoteResponse
  <2> QED
    BY <1>3, <2>1
       DEF handleVoteResponse, LoseElection, CountVote, becomeLeader, Counts, DropResponse, nodeState
<1>4. ASSUME NEW hb \in heartbeats, handleHeartbeat(hb.to, hb)
      PROVE  CurrentTerm'[m] > CurrentTerm[m]
  <2>1. hb.to \in Node /\ hb.leader \in Node /\ hb.term \in Nat
    BY DEF Heartbeat
  <2>2. m = hb.to /\ hb.term >= CurrentTerm[m] /\ CurrentTerm'[m] = hb.term
    BY <1>4, <2>1 DEF handleHeartbeat, Follow, IgnoreHeartbeat, nodeState
  <2>3. hb.term # CurrentTerm[m]
    <3> SUFFICES ASSUME hb.term = CurrentTerm[m] PROVE FALSE
      OBVIOUS
    <3>1. PICK e \in elected : e.leader = hb.leader /\ e.term = hb.term
      BY DEF AuthorityIsElected, Elected
    <3>2. PICK f \in elected : f.leader = m /\ f.term = CurrentTerm[m]
      BY DEF AuthorityIsElected, Elected
    <3>3. hb.leader = m
      BY <3>1, <3>2 DEF ElectionSafety
    <3> QED
      BY <2>2, <3>3 DEF HeartbeatsToOthers
  <2> QED
    BY <2>1, <2>2, <2>3
<1>5. ASSUME UNCHANGED vars PROVE FALSE
  BY <1>5 DEF vars, nodeState
<1> QED
  BY <1>1, <1>2, <1>3, <1>4, <1>5 DEF Next

(* A leader falls only to a higher term: the heartbeat of the same term    *)
(* that handleHeartbeat would obey is its own, and it is not sent to it.   *)
THEOREM DeposedOnlyByHigherTermHolds == Spec => DeposedOnlyByHigherTerm
<1>1. TypeOK /\ ElectionSafety /\ AuthorityIsElected /\ HeartbeatsToOthers /\ [Next]_vars
        => [\A n \in Node : State[n] = "LEADER" /\ State'[n] # "LEADER"
              => CurrentTerm'[n] > CurrentTerm[n]]_vars
  BY DeposedStep
<1> QED
  BY <1>1, TypeCorrect, ElectionSafetyHolds, AuthorityIsElectedHolds,
     HeartbeatsToOthersInvariant, PTL DEF Spec, DeposedOnlyByHigherTerm

-----------------------------------------------------------------------------
(* No message, node or election is in a term beyond the bound.             *)
TermsInRange ==
    /\ \A n \in Node : CurrentTerm[n] <= MaxTerm
    /\ \A n \in Node : State[n] # "FOLLOWER" => CurrentTerm[n] >= 1
    /\ \A m \in voteReqs \cup voteResps \cup heartbeats : m.term <= MaxTerm
    /\ \A hb \in heartbeats : hb.term >= 1

LEMMA TermsInRangeInvariant == Spec => []TermsInRange
<1>1. Init => TermsInRange
  BY TermAssumption DEF Init, TermsInRange
<1>2. TypeOK /\ TermsInRange /\ [Next]_vars => TermsInRange'
  <2> SUFFICES ASSUME TypeOK, TermsInRange, [Next]_vars PROVE TermsInRange'
    OBVIOUS
  <2> USE TermAssumption DEF TypeOK, TermsInRange
  <2>1. ASSUME NEW n \in Node, startElection(n) PROVE TermsInRange'
    BY <2>1 DEF startElection
  <2>2. ASSUME NEW n \in Node, sendHeartbeat(n) PROVE TermsInRange'
    BY <2>2 DEF sendHeartbeat, nodeState
  <2>3. ASSUME NEW req \in voteReqs, handleVoteRequest(req.to, req) PROVE TermsInRange'
    <3>1. req.to \in Node /\ req.term \in Nat /\ req.term <= MaxTerm
      BY DEF VoteRequest
    <3>2. /\ StepDownIfHigher(req.to, req)
          /\ \E g \in BOOLEAN : Respond(req.to, req, g)
          /\ heartbeats' = heartbeats
      BY <2>3 DEF handleVoteRequest, GrantVote, DenyVote
    <3>3. \A n \in Node : /\ CurrentTerm'[n] \in Nat /\ CurrentTerm'[n] <= MaxTerm
                          /\ State'[n] # "FOLLOWER" => CurrentTerm'[n] >= 1
      BY <3>1, <3>2 DEF StepDownIfHigher, TermAfter
    <3>4. \A m \in voteReqs' \cup voteResps' : m.term <= MaxTerm
      BY <3>1, <3>2, <3>3 DEF Respond
    <3> QED
      BY <3>2, <3>3, <3>4
  <2>4. ASSUME NEW resp \in voteResps, handleVoteResponse(resp.to, resp) PROVE TermsInRange'
    <3>1. resp.to \in Node /\ resp.term \in Nat /\ resp.term <= MaxTerm
      BY DEF VoteResponse
    <3> QED
      BY <2>4, <3>1
         DEF handleVoteResponse, LoseElection, CountVote, becomeLeader, Counts, DropResponse,
             nodeState
  <2>5. ASSUME NEW hb \in heartbeats, handleHeartbeat(hb.to, hb) PROVE TermsInRange'
    <3>1. hb.to \in Node /\ hb.term \in Nat /\ hb.term <= MaxTerm
      BY DEF Heartbeat
    <3>2. UNCHANGED messages
      BY <2>5 DEF handleHeartbeat, messages
    <3>3. \A n \in Node : /\ CurrentTerm'[n] <= MaxTerm
                          /\ State'[n] # "FOLLOWER" => CurrentTerm'[n] >= 1
      BY <2>5, <3>1 DEF handleHeartbeat, Follow, IgnoreHeartbeat, nodeState
    <3> QED
      BY <3>2, <3>3 DEF messages
  <2>6. ASSUME UNCHANGED vars PROVE TermsInRange'
    BY <2>6 DEF vars, nodeState, messages
  <2> QED
    BY <2>1, <2>2, <2>3, <2>4, <2>5, <2>6 DEF Next
<1> QED
  BY <1>1, <1>2, TypeCorrect, PTL DEF Spec

LEMMA LeadershipStep ==
    ASSUME TypeOK, TermsInRange, AuthorityIsElected, HeartbeatsToOthers, ElectionSafety',
           [Next]_vars
    PROVE  [Abstract!LeadershipNext]_(Abstract!leadershipVars)
<1> USE DEF TypeOK
<1> DEFINE victories == {[leader |-> e.leader, term |-> e.term] : e \in elected}
<1>1. ASSUME NEW resp \in voteResps, resp.to \in Node, becomeLeader(resp.to, resp)
      PROVE  \E t \in 1..MaxTerm : Abstract!Win(resp.to, t)
  <2> DEFINE n == resp.to
             mine == [leader |-> n, term |-> CurrentTerm[n], voters |-> tally[n] \cup {resp.voter}]
  <2>1. /\ elected' = elected \cup {mine}
        /\ mine.leader = n
        /\ mine.term = CurrentTerm[n]
    BY <1>1 DEF becomeLeader
  <2> HIDE DEF mine
  <2>2. \A f \in elected : f.term = CurrentTerm[n] => f.leader = n
    BY <2>1 DEF ElectionSafety
  <2>3. victories' = victories \cup {[leader |-> n, term |-> CurrentTerm[n]]}
    BY <2>1
  <2>4. callbacks' = callbacks \cup {[at |-> n, leader |-> n, term |-> CurrentTerm[n]]}
    BY <1>1 DEF becomeLeader
  <2>5. CurrentTerm[n] \in 1..MaxTerm
    BY <1>1, TermAssumption DEF becomeLeader, Counts, TermsInRange
  <2>6. PICK t \in 1..MaxTerm : t = CurrentTerm[n]
    BY <2>5
  <2> WITNESS t \in 1..MaxTerm
  <2> QED
    BY <2>2, <2>3, <2>4, <2>6 DEF Abstract!Win
<1>2. ASSUME NEW hb \in heartbeats, handleHeartbeat(hb.to, hb), callbacks' # callbacks
      PROVE  \E w \in victories : Abstract!Hear(hb.to, w)
  <2>1. /\ callbacks' = callbacks \cup {[at |-> hb.to, leader |-> hb.leader, term |-> hb.term]}
        /\ elected' = elected
    BY <1>2 DEF handleHeartbeat, Follow, IgnoreHeartbeat, history
  <2>2. PICK e \in elected : e.leader = hb.leader /\ e.term = hb.term
    BY DEF AuthorityIsElected, Elected
  <2>3. hb.leader # hb.to
    BY DEF HeartbeatsToOthers
  <2> WITNESS [leader |-> e.leader, term |-> e.term] \in victories
  <2> QED
    BY <2>1, <2>2, <2>3 DEF Abstract!Hear
<1>3. ASSUME callbacks' = callbacks, elected' = elected
      PROVE  UNCHANGED Abstract!leadershipVars
  BY <1>3 DEF Abstract!leadershipVars
<1>4. ASSUME NEW n \in Node, startElection(n) \/ sendHeartbeat(n)
      PROVE  callbacks' = callbacks /\ elected' = elected
  BY <1>4 DEF startElection, sendHeartbeat, history
<1>5. ASSUME NEW req \in voteReqs, handleVoteRequest(req.to, req)
      PROVE  callbacks' = callbacks /\ elected' = elected
  BY <1>5 DEF handleVoteRequest
<1>6. ASSUME NEW resp \in voteResps, handleVoteResponse(resp.to, resp), callbacks' # callbacks \/ elected' # elected
      PROVE  becomeLeader(resp.to, resp) /\ resp.to \in Node
  BY <1>6 DEF handleVoteResponse, LoseElection, CountVote, DropResponse, history, VoteResponse
<1>7. ASSUME NEW hb \in heartbeats, handleHeartbeat(hb.to, hb)
      PROVE  elected' = elected /\ hb.to \in Node
  BY <1>7 DEF handleHeartbeat, history, Heartbeat
<1>8. CASE UNCHANGED vars
  BY <1>3, <1>8 DEF vars, history
<1>9. CASE Next
  <2>1. CASE \E n \in Node : startElection(n) \/ sendHeartbeat(n)
    BY <1>3, <1>4, <2>1
  <2>2. CASE \E req \in voteReqs : handleVoteRequest(req.to, req)
    BY <1>3, <1>5, <2>2
  <2>3. ASSUME NEW resp \in voteResps, handleVoteResponse(resp.to, resp)
        PROVE  [Abstract!LeadershipNext]_(Abstract!leadershipVars)
    <3>1. CASE callbacks' = callbacks /\ elected' = elected
      BY <1>3, <3>1
    <3>2. CASE callbacks' # callbacks \/ elected' # elected
      <4>1. becomeLeader(resp.to, resp) /\ resp.to \in Node
        BY <1>6, <2>3, <3>2
      <4>2. \E t \in 1..MaxTerm : Abstract!Win(resp.to, t)
        BY <1>1, <4>1
      <4> QED
        BY <4>1, <4>2, Zenon DEF Abstract!LeadershipNext
    <3> QED
      BY <3>1, <3>2
  <2>4. ASSUME NEW hb \in heartbeats, handleHeartbeat(hb.to, hb)
        PROVE  [Abstract!LeadershipNext]_(Abstract!leadershipVars)
    BY <1>2, <1>3, <1>7, <2>4 DEF Abstract!LeadershipNext
  <2> QED
    BY <1>9, <2>1, <2>2, <2>3, <2>4 DEF Next
<1> QED
  BY <1>8, <1>9

(* The election implements the abstract leadership on which the Raft log   *)
(* is built: every step is a victory, a call about a victory, or neither.  *)
THEOREM ElectionImplementsLeadership == Spec => ImplementsLeadership
<1>1. Init => Abstract!LeadershipInit
  BY DEF Init, Abstract!LeadershipInit
<1>2. TypeOK /\ TermsInRange /\ AuthorityIsElected /\ HeartbeatsToOthers /\ ElectionSafety'
        /\ [Next]_vars => [Abstract!LeadershipNext]_(Abstract!leadershipVars)
  BY LeadershipStep
<1> QED
  BY <1>1, <1>2, TypeCorrect, TermsInRangeInvariant, AuthorityIsElectedHolds,
     HeartbeatsToOthersInvariant, ElectionSafetyHolds, PTL
     DEF Spec, ImplementsLeadership, Abstract!LeadershipSpec
=============================================================================
