------------------------ MODULE Coordinators_proofs ------------------------
(***************************************************************************)
(* Proofs about Coordinators, for every finite set of nodes, every bound   *)
(* on the terms and every set of proposals: joined, the election and the   *)
(* Raft log each behave as they were specified alone, so that what was     *)
(* proved of them alone holds of both together.                            *)
(***************************************************************************)
EXTENDS Coordinators, Election_proofs

(* The theorems about RaftLog, for the log that is joined here.            *)
LogFacts == INSTANCE OneHistory_proofs
    WITH Term   <- 1..MaxTerm,
         NoNode <- None,
         won    <- {[leader |-> e.leader, term |-> e.term] : e \in elected},
         calls  <- callbacks

LEMMA ElectionStep ==
    ASSUME NEW n \in Node, ElectionLoop(n)
    PROVE  Next /\ UNCHANGED <<logVars, asked>>
BY DEF ElectionLoop, Next, handleVoteRequest, handleVoteResponse, handleHeartbeat

LEMMA OtherStep ==
    ASSUME NEW n \in Node, \/ LogSteps(n)
                           \/ \E p \in Proposal : AskIsLeader(p, n) \/ Refuse(p)
    PROVE  UNCHANGED vars
BY DEF LogSteps, AskIsLeader, Refuse

(* The election does not notice the log: what was proved of Election alone *)
(* holds with the log beside it.                                           *)
THEOREM CoordinatorsImplementElection == CoordinatorSpec => ImplementsElection
<1>1. CoordinatorInit => Init
  BY DEF CoordinatorInit
<1>2. [CoordinatorNext]_coordinatorVars => [Next]_vars
  BY ElectionStep, OtherStep DEF CoordinatorNext, coordinatorVars
<1> QED
  BY <1>1, <1>2, PTL DEF CoordinatorSpec, ImplementsElection, Spec

LEMMA ElectionFacts ==
    CoordinatorSpec => []TypeOK /\ []TermsInRange /\ []AuthorityIsElected
                       /\ []HeartbeatsToOthers /\ []ElectionSafety
<1> QED
  BY CoordinatorsImplementElection, TypeCorrect, TermsInRangeInvariant, AuthorityIsElectedHolds,
     HeartbeatsToOthersInvariant, ElectionSafetyHolds, PTL DEF ImplementsElection

-----------------------------------------------------------------------------
(* Leadership is one specification, whether the election implements it or  *)
(* the log builds on it.                                                   *)
LEMMA SameLeadership ==
    ASSUME [Abstract!LeadershipNext]_(Abstract!leadershipVars)
    PROVE  [Log!LeadershipNext]_(Log!leadershipVars)
BY DEF Abstract!LeadershipNext, Log!LeadershipNext, Abstract!Win, Log!Win, Abstract!Hear, Log!Hear,
       Abstract!leadershipVars, Log!leadershipVars

LEMMA LogStep ==
    ASSUME TypeOK, TermsInRange, AuthorityIsElected, HeartbeatsToOthers, ElectionSafety',
           [CoordinatorNext]_coordinatorVars
    PROVE  [Log!Next]_(Log!vars)
<1>1. ASSUME NEW n \in Node, ElectionLoop(n)
      PROVE  [Log!Next]_(Log!vars)
  <2>1. [Log!LeadershipNext]_(Log!leadershipVars)
    BY <1>1, ElectionStep, LeadershipStep, SameLeadership
  <2>2. UNCHANGED logVars
    BY <1>1, ElectionStep
  <2>3. UNCHANGED <<Log!raftVars, panicked, ran, Log!netVars, Log!callVars>>
    BY <2>2 DEF logVars, Log!raftVars, Log!netVars, Log!callVars
  <2>4. CASE Log!LeadershipNext
    BY <2>3, <2>4 DEF Log!Next, Log!Elections
  <2>5. CASE UNCHANGED Log!leadershipVars
    BY <2>3, <2>5 DEF Log!vars
  <2> QED
    BY <2>1, <2>4, <2>5
<1>2. ASSUME NEW n \in Node \ panicked, LogSteps(n)
      PROVE  [Log!Next]_(Log!vars)
  BY <1>2 DEF LogSteps, Log!Next
<1>3. ASSUME UNCHANGED <<vars, logVars>>
      PROVE  [Log!Next]_(Log!vars)
  <2>1. UNCHANGED <<callbacks, elected>>
    BY <1>3 DEF vars, history
  <2> QED
    BY <1>3, <2>1
       DEF logVars, Log!vars, Log!leadershipVars, Log!raftVars, Log!netVars, Log!callVars
<1>4. ASSUME NEW p \in Proposal, NEW n \in Node, AskIsLeader(p, n) \/ Refuse(p)
      PROVE  [Log!Next]_(Log!vars)
  BY <1>3, <1>4 DEF AskIsLeader, Refuse
<1>5. CASE UNCHANGED coordinatorVars
  BY <1>3, <1>5 DEF coordinatorVars
<1> QED
  BY <1>1, <1>2, <1>4, <1>5 DEF CoordinatorNext

(* The log gets from the election what it was specified to get: every      *)
(* behaviour of the two together is one of RaftLog.                        *)
THEOREM CoordinatorsImplementLog == CoordinatorSpec => ImplementsLog
<1>1. CoordinatorInit => Log!Init
  BY DEF CoordinatorInit
<1>2. TypeOK /\ TermsInRange /\ AuthorityIsElected /\ HeartbeatsToOthers /\ ElectionSafety'
        /\ [CoordinatorNext]_coordinatorVars => [Log!Next]_(Log!vars)
  BY LogStep
<1> QED
  BY <1>1, <1>2, ElectionFacts, PTL DEF CoordinatorSpec, ImplementsLog, Log!Spec

-----------------------------------------------------------------------------
(* RaftLog is one specification, whether it is joined to the election or   *)
(* proved about.                                                           *)
LEMMA SameNext == Log!Next <=> LogFacts!Next
BY DEF Log!LeadershipNext, LogFacts!LeadershipNext, Log!Win, LogFacts!Win,
       Log!Hear, LogFacts!Hear, Log!leadershipVars, LogFacts!leadershipVars,
       Log!Next, LogFacts!Next, Log!Elections, LogFacts!Elections, Log!Run, LogFacts!Run,
       Log!Callback, LogFacts!Callback, Log!BecomeLeader, LogFacts!BecomeLeader,
       Log!BecomeFollower, LogFacts!BecomeFollower, Log!AppendEntry, LogFacts!AppendEntry,
       Log!sendAppendEntriesToAll, LogFacts!sendAppendEntriesToAll,
       Log!AppendEntries, LogFacts!AppendEntries, Log!Peers, LogFacts!Peers,
       Log!handleAppendEntriesResponse, LogFacts!handleAppendEntriesResponse,
       Log!StepDown, LogFacts!StepDown, Log!Replicated, LogFacts!Replicated,
       Log!Retry, LogFacts!Retry, Log!Committable, LogFacts!Committable,
       Log!Holders, LogFacts!Holders, Log!Majority, LogFacts!Majority,
       Log!Committed, LogFacts!Committed, Log!Panic, LogFacts!Panic,
       Log!NotYet, LogFacts!NotYet, Log!Timeout, LogFacts!Timeout,
       Log!Unapplied, LogFacts!Unapplied, Log!OutOfRange, LogFacts!OutOfRange,
       Log!HandleAppendEntries, LogFacts!HandleAppendEntries,
       Log!RejectStale, LogFacts!RejectStale, Log!RejectShort, LogFacts!RejectShort,
       Log!RejectMismatch, LogFacts!RejectMismatch, Log!Accept, LogFacts!Accept,
       Log!Respond, LogFacts!Respond, Log!Merge, LogFacts!Merge,
       Log!NewFrom, LogFacts!NewFrom, Log!CommitAfter, LogFacts!CommitAfter,
       Log!vars, LogFacts!vars, Log!raftVars, LogFacts!raftVars,
       Log!netVars, LogFacts!netVars, Log!callVars, LogFacts!callVars,
       Log!Cardinality, LogFacts!Cardinality, Log!BagToSet, LogFacts!BagToSet,
       Log!BagAdd, LogFacts!BagAdd, Log!BagRemove, LogFacts!BagRemove,
       Log!SetToBag, LogFacts!SetToBag, Log!(+), LogFacts!(+)

LEMMA SameInit == Log!Init <=> LogFacts!Init
BY DEF Log!Init, LogFacts!Init, Log!LeadershipInit, LogFacts!LeadershipInit,
       Log!EmptyBag, LogFacts!EmptyBag, Log!SetToBag, LogFacts!SetToBag

LEMMA SameVars == Log!vars = LogFacts!vars
BY DEF Log!vars, LogFacts!vars, Log!leadershipVars, LogFacts!leadershipVars,
       Log!raftVars, LogFacts!raftVars, Log!netVars, LogFacts!netVars,
       Log!callVars, LogFacts!callVars

LEMMA SameVarsNext == Log!vars' = LogFacts!vars'
BY DEF Log!vars, LogFacts!vars, Log!leadershipVars, LogFacts!leadershipVars,
       Log!raftVars, LogFacts!raftVars, Log!netVars, LogFacts!netVars,
       Log!callVars, LogFacts!callVars

LEMMA SameSpec == Log!Spec <=> LogFacts!Spec
<1>1. [Log!Next]_(Log!vars) <=> [LogFacts!Next]_(LogFacts!vars)
  BY SameNext DEF Log!vars, LogFacts!vars, Log!leadershipVars, LogFacts!leadershipVars,
       Log!raftVars, LogFacts!raftVars, Log!netVars, LogFacts!netVars,
       Log!callVars, LogFacts!callVars
<1> QED
  BY <1>1, SameInit, PTL DEF Log!Spec, LogFacts!Spec

LEMMA SameTypes == Log!TypeOK <=> LogFacts!TypeOK
BY DEF Log!TypeOK, LogFacts!TypeOK, Log!Victory, LogFacts!Victory, Log!Call, LogFacts!Call,
       Log!Entry, LogFacts!Entry, Log!Request, LogFacts!Request,
       Log!Response, LogFacts!Response, Log!Phase, LogFacts!Phase,
       Log!IsABag, LogFacts!IsABag, Log!BagToSet, LogFacts!BagToSet

LEMMA SameProperties ==
    /\ Log!OnePlacePerProposal <=> LogFacts!OnePlacePerProposal
    /\ Log!SafeUnderOneLeader <=> LogFacts!SafeUnderOneLeader
    /\ Log!CommittedOnMajority <=> LogFacts!CommittedOnMajority
    /\ Log!LogTermsWon <=> LogFacts!LogTermsWon
BY DEF Log!LogTermsWon, LogFacts!LogTermsWon, Log!TermWon, LogFacts!TermWon, Log!OnePlacePerProposal, LogFacts!OnePlacePerProposal,
       Log!IsProposed, LogFacts!IsProposed,
       Log!SafeUnderOneLeader, LogFacts!SafeUnderOneLeader, Log!OneLeader, LogFacts!OneLeader,
       Log!StateMachineSafety, LogFacts!StateMachineSafety,
       Log!IsPrefixOf, LogFacts!IsPrefixOf,
       Log!CommittedOnMajority, LogFacts!CommittedOnMajority, Log!Majority, LogFacts!Majority,
       Log!Cardinality, LogFacts!Cardinality, Log!BagToSet, LogFacts!BagToSet

LEMMA SameSteps == Log!NothingLost <=> LogFacts!NothingLost
<1>1. Log!OneLeader' <=> LogFacts!OneLeader'
  BY DEF Log!OneLeader, LogFacts!OneLeader
<1>2. Log!TakesNothingBack <=> LogFacts!TakesNothingBack
  BY <1>1 DEF Log!TakesNothingBack, LogFacts!TakesNothingBack, Log!IsPrefixOf, LogFacts!IsPrefixOf
<1>3. [Log!TakesNothingBack]_(Log!vars) <=> [LogFacts!TakesNothingBack]_(LogFacts!vars)
  BY <1>2, SameVars, SameVarsNext
<1> QED
  BY <1>3, PTL DEF Log!NothingLost, LogFacts!NothingLost

(* The journal they are seen as is one journal.                            *)
LEMMA SameSight ==
    /\ Log!History = LogFacts!History /\ Log!History' = LogFacts!History'
    /\ Log!Tables = LogFacts!Tables /\ Log!Tables' = LogFacts!Tables'
    /\ Log!Outcome = LogFacts!Outcome /\ Log!Outcome' = LogFacts!Outcome'
BY DEF Log!History, LogFacts!History, Log!Tables, LogFacts!Tables, Log!Outcome, LogFacts!Outcome

LEMMA SameJournal == Log!ImplementsJournal <=> LogFacts!ImplementsJournal
<1>1. Log!OneHistory!JournalInit <=> LogFacts!OneHistory!JournalInit
  BY SameSight DEF Log!OneHistory!JournalInit, LogFacts!OneHistory!JournalInit
<1>2. Log!OneHistory!JournalNext <=> LogFacts!OneHistory!JournalNext
  BY SameSight DEF Log!OneHistory!JournalNext, LogFacts!OneHistory!JournalNext,
     Log!OneHistory!Propose, LogFacts!OneHistory!Propose,
     Log!OneHistory!Decide, LogFacts!OneHistory!Decide,
     Log!OneHistory!Apply, LogFacts!OneHistory!Apply,
     Log!OneHistory!Confirm, LogFacts!OneHistory!Confirm,
     Log!OneHistory!GiveUp, LogFacts!OneHistory!GiveUp
<1>3. /\ Log!OneHistory!journalVars = LogFacts!OneHistory!journalVars
      /\ Log!OneHistory!journalVars' = LogFacts!OneHistory!journalVars'
  BY SameSight DEF Log!OneHistory!journalVars, LogFacts!OneHistory!journalVars
<1>4. [Log!OneHistory!JournalNext]_(Log!OneHistory!journalVars)
        <=> [LogFacts!OneHistory!JournalNext]_(LogFacts!OneHistory!journalVars)
  BY <1>2, <1>3
<1> QED
  BY <1>1, <1>4, PTL
     DEF Log!ImplementsJournal, LogFacts!ImplementsJournal,
         Log!OneHistory!JournalSpec, LogFacts!OneHistory!JournalSpec

LEMMA SameLeader == Log!OneLeader <=> LogFacts!OneLeader
BY DEF Log!OneLeader, LogFacts!OneLeader

LEMMA LogAssumptions == LogFacts!NodeAssumption /\ LogFacts!TermsArePositive
BY NodeAssumption, TermAssumption
   DEF LogFacts!NodeAssumption, LogFacts!TermsArePositive, LogFacts!IsFiniteSet, IsFiniteSet

LEMMA LogKeepsTypes == LogFacts!Spec => []LogFacts!TypeOK
BY LogFacts!TypeCorrect, LogAssumptions

LEMMA LogKeepsPlaces == LogFacts!Spec => []LogFacts!OnePlacePerProposal
BY LogFacts!OnePlacePerProposalHolds, LogAssumptions

LEMMA LogIsSafe == LogFacts!Spec => []LogFacts!SafeUnderOneLeader
BY LogFacts!SafeUnderOneLeaderHolds, LogAssumptions

LEMMA LogIsDurable == LogFacts!Spec => []LogFacts!CommittedOnMajority
BY LogFacts!CommittedOnMajorityHolds, LogAssumptions

LEMMA LogLosesNothing == LogFacts!Spec => LogFacts!NothingLost
BY LogFacts!NothingLostHolds, LogAssumptions

LEMMA LogIsAJournal == LogFacts!Spec /\ []LogFacts!OneLeader => LogFacts!ImplementsJournal
BY LogFacts!LogImplementsJournal, LogAssumptions

(* Routing tables agree, no process panics and what ProposeEntry has       *)
(* confirmed is on a majority, as long as the election elects one node.    *)
THEOREM CoordinatorsAreSafe ==
    CoordinatorSpec => []Log!SafeUnderOneLeader /\ []Log!CommittedOnMajority
<1> QED
  BY CoordinatorsImplementLog, SameSpec, SameProperties, LogIsSafe, LogIsDurable, PTL
     DEF ImplementsLog

(* No proposal is ever in two places, whoever is elected.                  *)
THEOREM CoordinatorsProposeOnce == CoordinatorSpec => []Log!OnePlacePerProposal
<1> QED
  BY CoordinatorsImplementLog, SameSpec, SameProperties, LogKeepsPlaces, PTL DEF ImplementsLog

(* Election and log keep to their types side by side.                      *)
THEOREM CoordinatorsKeepTypes == CoordinatorSpec => []TypeOK /\ []Log!TypeOK
<1> QED
  BY CoordinatorsImplementElection, TypeCorrect, CoordinatorsImplementLog,
     SameSpec, SameTypes, LogKeepsTypes, PTL DEF ImplementsElection, ImplementsLog

LEMMA LogTermsAreWon == LogFacts!Spec => []LogFacts!LogTermsWon
BY LogFacts!LogTermsWonHolds, LogAssumptions

(* Although the election and the log keep a term each, no term is in the   *)
(* log of a node or under way between logs in which no node was elected.   *)
THEOREM CoordinatorsLogElectedTerms == CoordinatorSpec => []Log!LogTermsWon
<1> QED
  BY CoordinatorsImplementLog, SameSpec, SameProperties, LogTermsAreWon, PTL DEF ImplementsLog

(* No routing table loses an entry, and no log or commitment is taken back *)
(* as long as the election elects one node.                                *)
THEOREM CoordinatorsLoseNothing == CoordinatorSpec => Log!NothingLost
<1> QED
  BY CoordinatorsImplementLog, SameSpec, SameSteps, LogLosesNothing, PTL DEF ImplementsLog

(* While the election elects one node, callers of ProposeChange and        *)
(* readers of the routing tables see the abstract journal, whatever the    *)
(* election and the log do in the background.                              *)
THEOREM CoordinatorsImplementJournal ==
    CoordinatorSpec /\ []Log!OneLeader => Log!ImplementsJournal
<1> QED
  BY CoordinatorsImplementLog, SameSpec, SameLeader, SameJournal, LogIsAJournal, PTL
     DEF ImplementsLog
=============================================================================
