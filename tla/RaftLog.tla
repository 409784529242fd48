------------------------------ MODULE RaftLog ------------------------------
(***************************************************************************)
(* internal/consensus/consensus.go: the replicated log of every            *)
(* coordinator, told who leads by an election that implements Leadership.  *)
(*                                                                         *)
(* Indices start at 1, so that each is one more than in the code and none  *)
(* is 0.  A proposal (change, key and value) is a member of Proposal that  *)
(* one caller proposes once.  The state machine, a routing table, is the   *)
(* sequence of the entries applied to it.                                  *)
(*                                                                         *)
(* Each request and each response is sent by a goroutine of its own: they  *)
(* arrive in any order, once, or, never handled, not at all.  Responses    *)
(* are taken from AppendEntriesRespCh by the callers that wait there in    *)
(* waitForMajority, whichever proposal they answer, and by nobody else.    *)
(* The body of one mutex section is one action.                            *)
(*                                                                         *)
(* A definition named X_y is X with the fault y: the specification never   *)
(* uses it, and the properties are checked to tell it from X.              *)
(***************************************************************************)
EXTENDS Leadership, Integers, Sequences, BagsExt, Bags, FiniteSets

CONSTANTS
    Proposal,   \* the calls of ProposeEntry, by what they propose
    NoNode      \* the node of a call that has not been made

ASSUME NodeAssumption == IsFiniteSet(Node) /\ NoNode \notin Node

VARIABLES
    isLeader, currentTerm, log, commitIndex, nextIndex, matchIndex,
    applied,    \* the entries applied, in order; lastApplied is its length
    panicked,   \* nodes whose process has died of an index out of range
    ran,        \* the callbacks that have run
    requests,   \* AppendEntries requests sent and not yet handled
    responses,  \* responses sent and not yet taken from AppendEntriesRespCh
    phase,      \* where the caller of ProposeEntry is
    at, target  \* the node it called and the index of its entry

raftVars == <<isLeader, currentTerm, log, commitIndex, nextIndex, matchIndex, applied>>
netVars  == <<requests, responses>>
callVars == <<phase, at, target>>
vars     == <<leadershipVars, raftVars, panicked, ran, netVars, callVars>>

Peers(n) == Node \ {n}
Majority == (Cardinality(Node) \div 2) + 1

(* "sending" and "notifying": about to send the first and the last round.  *)
(* "checking": has handled a response and not looked at commitIndex yet.   *)
Phase == {"idle", "sending", "waiting", "checking", "notifying", "committed", "failed"}

Entry == [term : Nat, index : Nat \ {0}, proposal : Proposal]
Request == [to : Node, term : Nat, leader : Node, prevIndex : Nat, prevTerm : Int,
            entries : Seq(Entry), commit : Nat]
Response == [to : Node, term : Nat, success : BOOLEAN, follower : Node, match : Nat]

-----------------------------------------------------------------------------
(* NewRaftLog at every node: the two maps are empty and read as 0, which   *)
(* is 1 here.                                                              *)
Init ==
    /\ LeadershipInit
    /\ isLeader    = [n \in Node |-> FALSE]
    /\ currentTerm = [n \in Node |-> 0]
    /\ log         = [n \in Node |-> <<>>]
    /\ commitIndex = [n \in Node |-> 0]
    /\ nextIndex   = [n \in Node |-> [m \in Node |-> 1]]
    /\ matchIndex  = [n \in Node |-> [m \in Node |-> 1]]
    /\ applied     = [n \in Node |-> <<>>]
    /\ panicked = {}
    /\ ran = {}
    /\ requests = EmptyBag
    /\ responses = EmptyBag
    /\ phase  = [p \in Proposal |-> "idle"]
    /\ at     = [p \in Proposal |-> NoNode]
    /\ target = [p \in Proposal |-> 0]

-----------------------------------------------------------------------------
(* The callbacks, each in a goroutine of its own.                          *)

BecomeLeader_lastIndex(call) ==
    /\ call.leader = call.at
    /\ isLeader'    = [isLeader EXCEPT ![call.at] = TRUE]
    /\ currentTerm' = [currentTerm EXCEPT ![call.at] = call.term]
    /\ nextIndex'   = [nextIndex EXCEPT ![call.at] = [m \in Node |-> Len(log[call.at])]]
    /\ matchIndex'  = [matchIndex EXCEPT ![call.at] = [m \in Node |-> 0]]

BecomeLeader_nextTerm(call) ==
    /\ call.leader = call.at
    /\ isLeader'    = [isLeader EXCEPT ![call.at] = TRUE]
    /\ currentTerm' = [currentTerm EXCEPT ![call.at] = call.term + 1]
    /\ nextIndex'   = [nextIndex EXCEPT ![call.at] = [m \in Node |-> Len(log[call.at]) + 1]]
    /\ matchIndex'  = [matchIndex EXCEPT ![call.at] = [m \in Node |-> 0]]

BecomeLeader(call) ==
    /\ call.leader = call.at
    /\ isLeader'    = [isLeader EXCEPT ![call.at] = TRUE]
    /\ currentTerm' = [currentTerm EXCEPT ![call.at] = call.term]
    /\ nextIndex'   = [nextIndex EXCEPT ![call.at] = [m \in Node |-> Len(log[call.at]) + 1]]
    /\ matchIndex'  = [matchIndex EXCEPT ![call.at] = [m \in Node |-> 0]]

BecomeFollower(call) ==
    /\ call.leader # call.at
    /\ isLeader'    = [isLeader EXCEPT ![call.at] = FALSE]
    /\ currentTerm' = [currentTerm EXCEPT ![call.at] = call.term]
    /\ UNCHANGED <<nextIndex, matchIndex>>

Callback(call) ==
    /\ call \in calls \ ran
    /\ ran' = ran \cup {call}
    /\ BecomeLeader(call) \/ BecomeFollower(call)
    /\ UNCHANGED <<leadershipVars, log, commitIndex, applied, panicked, netVars, callVars>>

-----------------------------------------------------------------------------
(* ProposeEntry.  ProposeChange has asked Election.IsLeader before, at any *)
(* time since the node was elected, so that isLeader is the only guard.    *)

AppendEntry(p, n) ==
    /\ phase[p] = "idle"
    /\ isLeader[n]
    /\ log' = [log EXCEPT ![n] = Append(@,
          [term |-> currentTerm[n], index |-> Len(@) + 1, proposal |-> p])]
    /\ phase'  = [phase EXCEPT ![p] = "sending"]
    /\ at'     = [at EXCEPT ![p] = n]
    /\ target' = [target EXCEPT ![p] = Len(log[n]) + 1]
    /\ UNCHANGED <<leadershipVars, isLeader, currentTerm, commitIndex, nextIndex, matchIndex,
                   applied, panicked, ran, netVars>>

AppendEntries_skipFirst(n, f, next) ==
    [to |-> f, term |-> currentTerm[n], leader |-> n,
     prevIndex |-> next - 1,
     prevTerm  |-> IF next - 1 \in DOMAIN log[n] THEN log[n][next - 1].term ELSE -1,
     entries   |-> SubSeq(log[n], next + 1, Len(log[n])),
     commit    |-> commitIndex[n]]

(* sendAppendEntriesTo: the request n sends f, with f's nextIndex next.    *)
AppendEntries(n, f, next) ==
    [to |-> f, term |-> currentTerm[n], leader |-> n,
     prevIndex |-> next - 1,
     prevTerm  |-> IF next - 1 \in DOMAIN log[n] THEN log[n][next - 1].term ELSE -1,
     entries   |-> SubSeq(log[n], next, Len(log[n])),
     commit    |-> commitIndex[n]]

sendAppendEntriesToAll(p) ==
    /\ phase[p] \in {"sending", "notifying"}
    /\ requests' = requests (+)
          SetToBag({AppendEntries(at[p], f, nextIndex[at[p]][f]) : f \in Peers(at[p])})
    /\ phase' = [phase EXCEPT ![p] = IF @ = "sending" THEN "waiting" ELSE "committed"]
    /\ UNCHANGED <<leadershipVars, raftVars, panicked, ran, responses, at, target>>

-----------------------------------------------------------------------------
(* handleAppendEntriesResponse, called in waitForMajority at node n.       *)

StepDown(n, resp) ==
    /\ resp.term > currentTerm[n]
    /\ isLeader'    = [isLeader EXCEPT ![n] = FALSE]
    /\ currentTerm' = [currentTerm EXCEPT ![n] = resp.term]
    /\ UNCHANGED <<commitIndex, nextIndex, matchIndex, requests>>

(* The nodes that n counts for the entry at i: itself and who matches.     *)
Holders(n, i, match) == {n} \cup {f \in Peers(n) : match[f] >= i}

Committable_minority(n, match) ==
    {i \in commitIndex[n] + 1 .. Len(log[n]) :
        /\ log[n][i].term = currentTerm[n]
        /\ Cardinality(Holders(n, i, match)) >= Majority - 1}

(* tryAdvanceCommitIndex takes the greatest of these.                      *)
Committable(n, match) ==
    {i \in commitIndex[n] + 1 .. Len(log[n]) :
        /\ log[n][i].term = currentTerm[n]
        /\ Cardinality(Holders(n, i, match)) >= Majority}

Replicated(n, resp) ==
    LET match == [matchIndex[n] EXCEPT ![resp.follower] = resp.match]
        ready == Committable(n, match)
    IN  /\ resp.term <= currentTerm[n]
        /\ resp.success
        /\ matchIndex'  = [matchIndex EXCEPT ![n] = match]
        /\ nextIndex'   = [nextIndex EXCEPT ![n][resp.follower] = resp.match + 1]
        /\ IF ready = {} THEN UNCHANGED commitIndex
           ELSE \E i \in ready : /\ \A j \in ready : j <= i
                                 /\ commitIndex' = [commitIndex EXCEPT ![n] = i]
        /\ UNCHANGED <<isLeader, currentTerm, requests>>

(* nextIndex backs off by one and the request is sent again at once.       *)
Retry(n, resp) ==
    LET next == IF nextIndex[n][resp.follower] > 1 THEN nextIndex[n][resp.follower] - 1 ELSE 1
    IN  /\ resp.term <= currentTerm[n]
        /\ ~resp.success
        /\ nextIndex' = [nextIndex EXCEPT ![n][resp.follower] = next]
        /\ requests'  = BagAdd(requests, AppendEntries(n, resp.follower, next))
        /\ UNCHANGED <<isLeader, currentTerm, commitIndex, matchIndex>>

handleAppendEntriesResponse(p, resp) ==
    /\ phase[p] = "waiting"
    /\ resp.to = at[p]
    /\ responses' = BagRemove(responses, resp)
    /\ StepDown(at[p], resp) \/ Replicated(at[p], resp) \/ Retry(at[p], resp)
    /\ phase' = [phase EXCEPT ![p] = "checking"]
    /\ UNCHANGED <<leadershipVars, log, applied, panicked, ran, at, target>>

Unapplied_again(n, l, i) == SubSeq(l, 1, i)

(* The entries of l up to i that n has not applied yet.                    *)
Unapplied(n, l, i) == SubSeq(l, Len(applied[n]) + 1, i)

(* applyCommitted would read beyond the end of the log.                    *)
OutOfRange(n) == commitIndex[n] > Len(applied[n]) /\ commitIndex[n] > Len(log[n])

Committed_notApplied(p) ==
    /\ phase[p] = "checking"
    /\ commitIndex[at[p]] >= target[p]
    /\ phase' = [phase EXCEPT ![p] = "notifying"]
    /\ UNCHANGED <<leadershipVars, raftVars, panicked, ran, netVars, at, target>>

(* waitForMajority, the look at commitIndex after each response.           *)
Committed(p) ==
    LET n == at[p]
    IN  /\ phase[p] = "checking"
        /\ commitIndex[n] >= target[p]
        /\ ~OutOfRange(n)
        /\ applied' = [applied EXCEPT ![n] = @ \o Unapplied(n, log[n], commitIndex[n])]
        /\ phase'   = [phase EXCEPT ![p] = "notifying"]
        /\ UNCHANGED <<leadershipVars, isLeader, currentTerm, log, commitIndex, nextIndex,
                       matchIndex, panicked, ran, netVars, at, target>>

(* r.log[r.lastApplied] panics and the process dies.                       *)
Panic(p) ==
    /\ phase[p] = "checking"
    /\ commitIndex[at[p]] >= target[p]
    /\ OutOfRange(at[p])
    /\ panicked' = panicked \cup {at[p]}
    /\ UNCHANGED <<leadershipVars, raftVars, ran, netVars, callVars>>

NotYet(p) ==
    /\ phase[p] = "checking"
    /\ commitIndex[at[p]] < target[p]
    /\ phase' = [phase EXCEPT ![p] = "waiting"]
    /\ UNCHANGED <<leadershipVars, raftVars, panicked, ran, netVars, at, target>>

(* ReplicationTimeout or Stop.  The entry stays in the log.                *)
Timeout(p) ==
    /\ phase[p] = "waiting"
    /\ phase' = [phase EXCEPT ![p] = "failed"]
    /\ UNCHANGED <<leadershipVars, raftVars, panicked, ran, netVars, at, target>>

-----------------------------------------------------------------------------
(* HandleAppendEntries.                                                    *)

Respond(req, term, success, match) ==
    /\ requests'  = BagRemove(requests, req)
    /\ responses' = BagAdd(responses,
          [to |-> req.leader, term |-> term, success |-> success,
           follower |-> req.to, match |-> match])

RejectStale(n, req) ==
    /\ req.term < currentTerm[n]
    /\ Respond(req, currentTerm[n], FALSE, 0)
    /\ UNCHANGED <<currentTerm, log, commitIndex, applied>>

RejectShort(n, req) ==
    /\ req.term >= currentTerm[n]
    /\ req.prevIndex > Len(log[n])
    /\ currentTerm' = [currentTerm EXCEPT ![n] = req.term]
    /\ Respond(req, req.term, FALSE, Len(log[n]))
    /\ UNCHANGED <<log, commitIndex, applied>>

(* The conflicting entry and all after it are deleted.                     *)
RejectMismatch(n, req) ==
    /\ req.term >= currentTerm[n]
    /\ req.prevIndex \in DOMAIN log[n]
    /\ log[n][req.prevIndex].term # req.prevTerm
    /\ currentTerm' = [currentTerm EXCEPT ![n] = req.term]
    /\ log' = [log EXCEPT ![n] = SubSeq(@, 1, req.prevIndex - 1)]
    /\ Respond(req, req.term, FALSE, req.prevIndex - 1)
    /\ UNCHANGED <<commitIndex, applied>>

(* The entries of req that l does not have: those from the first that is   *)
(* beyond l or conflicts with it.                                          *)
NewFrom(l, req) ==
    {i \in DOMAIN req.entries :
        req.prevIndex + i \in DOMAIN l => l[req.prevIndex + i].term # req.entries[i].term}

Merge_overwrite(l, req) == {SubSeq(l, 1, req.prevIndex) \o req.entries}

(* The log that results, as a set of one: l up to there, and then these    *)
(* entries; or l, if it has them all.                                      *)
Merge(l, req) ==
    LET new == NewFrom(l, req)
    IN  IF new = {} THEN {l}
        ELSE {SubSeq(l, 1, req.prevIndex + i - 1) \o SubSeq(req.entries, i, Len(req.entries)) :
                  i \in {j \in new : \A k \in new : j <= k}}

CommitAfter_needsEntries(n, req, l) ==
    IF req.commit <= commitIndex[n] \/ req.entries = <<>> THEN commitIndex[n]
    ELSE IF req.commit < Len(l) THEN req.commit ELSE Len(l)

CommitAfter(n, req, l) ==
    IF req.commit <= commitIndex[n] THEN commitIndex[n]
    ELSE IF req.commit < Len(l) THEN req.commit ELSE Len(l)

Accept(n, req) ==
    /\ req.term >= currentTerm[n]
    /\ req.prevIndex = 0 \/ /\ req.prevIndex \in DOMAIN log[n]
                            /\ log[n][req.prevIndex].term = req.prevTerm
    /\ currentTerm' = [currentTerm EXCEPT ![n] = req.term]
    /\ \E l \in Merge(log[n], req) :
          LET c == CommitAfter(n, req, l)
          IN  /\ log'         = [log EXCEPT ![n] = l]
              /\ commitIndex' = [commitIndex EXCEPT ![n] = c]
              /\ applied'     = [applied EXCEPT ![n] =
                    IF c > commitIndex[n] THEN @ \o Unapplied(n, l, c) ELSE @]
              /\ Respond(req, req.term, TRUE, Len(l))

HandleAppendEntries(n, req) ==
    /\ req.to = n
    /\ RejectStale(n, req) \/ RejectShort(n, req) \/ RejectMismatch(n, req) \/ Accept(n, req)
    /\ UNCHANGED <<leadershipVars, isLeader, nextIndex, matchIndex, panicked, ran, callVars>>

-----------------------------------------------------------------------------
Elections == LeadershipNext /\ UNCHANGED <<raftVars, panicked, ran, netVars, callVars>>

(* What the process of n does.                                             *)
Run(n) ==
    \/ \E call \in calls : call.at = n /\ Callback(call)
    \/ \E p \in Proposal : AppendEntry(p, n)
    \/ \E p \in Proposal :
        /\ at[p] = n
        /\ \/ sendAppendEntriesToAll(p)
           \/ \E resp \in BagToSet(responses) : handleAppendEntriesResponse(p, resp)
           \/ Committed(p)
           \/ Panic(p)
           \/ NotYet(p)
           \/ Timeout(p)
    \/ \E req \in BagToSet(requests) : HandleAppendEntries(n, req)

Next == Elections \/ \E n \in Node \ panicked : Run(n)

Spec == Init /\ [][Next]_vars

-----------------------------------------------------------------------------
(* The goroutines that carry a request run, and so do the callers after    *)
(* they have heard of the commitment: the in-process wiring with every     *)
(* node alive.  Nothing is asked of elections, proposals and responses.    *)
Fairness ==
    /\ \A n \in Node : WF_vars(\E req \in BagToSet(requests) : HandleAppendEntries(n, req))
    /\ \A p \in Proposal : WF_vars(phase[p] = "notifying" /\ sendAppendEntriesToAll(p))

FairSpec == Spec /\ Fairness

-----------------------------------------------------------------------------
(* TYPES: every field holds what its Go type and its use allow.            *)
TypeOK ==
    /\ won \subseteq Victory /\ calls \subseteq Call
    /\ isLeader \in [Node -> BOOLEAN]
    /\ currentTerm \in [Node -> Nat]
    /\ log \in [Node -> Seq(Entry)]
    /\ commitIndex \in [Node -> Nat]
    /\ nextIndex \in [Node -> [Node -> Nat \ {0}]]
    /\ matchIndex \in [Node -> [Node -> Nat]]
    /\ applied \in [Node -> Seq(Entry)]
    /\ panicked \subseteq Node
    /\ ran \subseteq calls
    /\ IsABag(requests) /\ BagToSet(requests) \subseteq Request
    /\ IsABag(responses) /\ BagToSet(responses) \subseteq Response
    /\ phase \in [Proposal -> Phase]
    /\ at \in [Proposal -> Node \cup {NoNode}]
    /\ target \in [Proposal -> Nat]

(* Every place in which an entry can be, with the index it has there.      *)
IsProposed(e, i) == e.index = i /\ phase[e.proposal] # "idle" /\ target[e.proposal] = i

(* ONE PLACE PER PROPOSAL, whoever leads: wherever an entry is - in a log, *)
(* in a request under way or among the applied - it is at the index at     *)
(* which ProposeEntry put it.  So no log has a proposal twice and no node  *)
(* applies one twice, however often requests are repeated, delayed, backed *)
(* off and merged, and whatever was truncated in between.                  *)
OnePlacePerProposal ==
    /\ \A n \in Node : /\ \A i \in DOMAIN log[n] : IsProposed(log[n][i], i)
                       /\ \A i \in DOMAIN applied[n] : IsProposed(applied[n][i], i)
    /\ \A req \in BagToSet(requests) : \A i \in DOMAIN req.entries :
          IsProposed(req.entries[i], req.prevIndex + i)

(* THE TERMS OF THE LOG WERE WON, whoever leads: the log keeps a term of   *)
(* its own, moved by callbacks, requests and responses in any order; still *)
(* no entry is made or sent and no response given in a term nobody won,    *)
(* and who takes proposals has won a term, though perhaps an earlier one.  *)
TermWon(t) == \E w \in won : w.term = t

LogTermsWon ==
    /\ \A n \in Node : /\ currentTerm[n] # 0 => TermWon(currentTerm[n])
                       /\ \A i \in DOMAIN log[n] : TermWon(log[n][i].term)
                       /\ isLeader[n] => \E w \in won : w.leader = n /\ w.term <= currentTerm[n]
    /\ \A req \in BagToSet(requests) :
          TermWon(req.term) /\ \A i \in DOMAIN req.entries : TermWon(req.entries[i].term)
    /\ \A resp \in BagToSet(responses) : TermWon(resp.term)

(* STATE MACHINE SAFETY, as consensus.go:33-34 words it: no two nodes have *)
(* applied different entries at one index.                                 *)
StateMachineSafety ==
    \A n, m \in Node : \A i \in DOMAIN applied[n] \cap DOMAIN applied[m] :
        applied[n][i] = applied[m][i]

(* All elections so far were won by one node.  It may have won several.    *)
OneLeader == \A v, w \in won : v.leader = w.leader

IsPrefixOf(s, t) == Len(s) <= Len(t) /\ \A i \in DOMAIN s : s[i] = t[i]

(* SAFETY UNDER ONE LEADER: as long as one node has won all elections, the *)
(* routing tables of all nodes are built from one sequence of entries: of  *)
(* any two nodes one has applied a prefix of what the other has, although  *)
(* requests and responses of all its terms arrive in any order, and its    *)
(* BecomeLeader callbacks too.  No process panics in applyCommitted.       *)
SafeUnderOneLeader ==
    OneLeader => /\ StateMachineSafety
                 /\ \A n, m \in Node : \/ IsPrefixOf(applied[n], applied[m])
                                       \/ IsPrefixOf(applied[m], applied[n])
                 /\ panicked = {}

(* DURABILITY UNDER ONE LEADER: when ProposeEntry has returned true, a     *)
(* majority of the nodes have the entry, and its node has applied it.      *)
CommittedOnMajority ==
    OneLeader => \A p \in Proposal : phase[p] \in {"notifying", "committed"} =>
        /\ target[p] \in DOMAIN applied[at[p]]
        /\ applied[at[p]][target[p]].proposal = p
        /\ \E Q \in SUBSET Node :
              /\ Cardinality(Q) >= Majority
              /\ \A n \in Q : /\ target[p] \in DOMAIN log[n]
                              /\ log[n][target[p]].proposal = p

(* NOTHING LOST: whoever leads, no step takes an entry out of a routing    *)
(* table or replaces one there; and while one node wins all elections, no  *)
(* step does so to a log, and none lowers a commitIndex: a request that    *)
(* was overtaken by a later one neither truncates the log nor takes a      *)
(* commitment back.                                                        *)
TakesNothingBack ==
    \A n \in Node : /\ IsPrefixOf(applied[n], applied'[n])
                    /\ OneLeader' => /\ IsPrefixOf(log[n], log'[n])
                                     /\ commitIndex'[n] >= commitIndex[n]

NothingLost == [][TakesNothingBack]_vars

(* The log as its callers and the readers of the routing tables see it:    *)
(* what the winner of the elections has committed, what every node has     *)
(* applied, and what has come of every call.                               *)
History ==
    IF won = {} THEN <<>>
    ELSE LET L == (CHOOSE v \in won : TRUE).leader
         IN  [i \in 1 .. commitIndex[L] |-> log[L][i].proposal]
Tables  == [n \in Node |-> [i \in DOMAIN applied[n] |-> applied[n][i].proposal]]
Outcome ==
    [p \in Proposal |-> IF phase[p] = "idle" THEN "none"
                        ELSE IF phase[p] = "committed" THEN "true"
                        ELSE IF phase[p] = "failed" THEN "false"
                        ELSE "pending"]

OneHistory == INSTANCE Journal WITH decided <- History, table <- Tables, outcome <- Outcome

(* ONE HISTORY: while one node wins all elections, ProposeEntry and the    *)
(* routing tables implement the abstract journal.                          *)
ImplementsJournal == OneHistory!JournalSpec

(* COMMITTED REACHES ALL: after one election and with no request lost, an  *)
(* entry for which ProposeEntry has returned true is applied everywhere:   *)
(* the one extra round is enough, whatever overtakes it.                   *)
CommittedReachesAll ==
    \A p \in Proposal :
        phase[p] = "committed" ~>
            \/ Cardinality(won) > 1
            \/ \A n \in Node : target[p] \in DOMAIN applied[n] /\ applied[n][target[p]].proposal = p
=============================================================================
