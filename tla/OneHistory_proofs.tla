-------------------------- MODULE OneHistory_proofs --------------------------
(***************************************************************************)
(* While one node wins all elections, the replicated log implements the    *)
(* abstract journal, for every number of nodes, terms and proposals.       *)
(***************************************************************************)
EXTENDS OneLeader_proofs

-----------------------------------------------------------------------------
(* The history is what the one winner has committed.                       *)

HistoryBy(L) == [i \in 1 .. commitIndex[L] |-> log[L][i].proposal]
HistoryInv   == \A L \in Node : Sole(L) => History = HistoryBy(L)

(* Nobody is told of a leader before there is one.                         *)
CallsAfterWins == \A call \in calls : won # {}

LEMMA CallsAfterWinsHolds == Spec => []CallsAfterWins
<1>1. Init => CallsAfterWins
  BY DEF Init, LeadershipInit, CallsAfterWins
<1>2. CallsAfterWins /\ [Next]_vars => CallsAfterWins'
  <2> SUFFICES ASSUME CallsAfterWins, [Next]_vars PROVE CallsAfterWins'
    OBVIOUS
  <2>1. CASE Elections
    BY <2>1 DEF Elections, LeadershipNext, Win, Hear, CallsAfterWins
  <2>2. ASSUME NEW n \in Node, Run(n) PROVE CallsAfterWins'
    <3>1. UNCHANGED <<won, calls>>
      BY <2>2 DEF Run, Callback, AppendEntry, sendAppendEntriesToAll,
                  handleAppendEntriesResponse, Committed, Panic, NotYet, Timeout,
                  HandleAppendEntries, leadershipVars
    <3> QED
      BY <3>1 DEF CallsAfterWins
  <2>3. CASE UNCHANGED vars
    BY <2>3 DEF vars, leadershipVars, CallsAfterWins
  <2> QED
    BY <2>1, <2>2, <2>3 DEF Next
<1> QED
  BY <1>1, <1>2, PTL DEF Spec

LEMMA HistoryFollows ==
    ASSUME TypeOK, OneLeaderInv, OnePlacePerProposal, CallsAfterWins
    PROVE  HistoryInv
<1> SUFFICES ASSUME NEW L \in Node, Sole(L) PROVE History = HistoryBy(L)
  BY DEF HistoryInv
<1>1. LeaderInv(L)
  BY DEF OneLeaderInv
<1>2. CASE won = {}
  <2>1. calls = {} /\ ran = {}
    BY <1>2 DEF CallsAfterWins, TypeOK
  <2>2. \A p \in Proposal : phase[p] = "idle"
    BY <1>1, <2>1 DEF LeaderInv, Authority, Begun
  <2>3. PICK l \in Seq(Entry) : l = log[L]
    BY LogTypes
  <2>4. DOMAIN l = {}
    <3> SUFFICES ASSUME NEW i \in DOMAIN l PROVE FALSE
      OBVIOUS
    <3>1. l[i].proposal \in Proposal
      <4>1. l[i] \in Entry
        OBVIOUS
      <4> QED
        BY <4>1 DEF Entry
    <3> QED
      BY <2>2, <2>3, <3>1 DEF OnePlacePerProposal, IsProposed
  <2>5. commitIndex[L] = 0
    <3>1. Len(l) = 0
      BY <2>4
    <3> QED
      BY <1>1, <2>3, <3>1, LogTypes DEF LeaderInv, CommitUnder
  <2>6. HistoryBy(L) = <<>>
    BY <2>5 DEF HistoryBy
  <2> QED
    BY <1>2, <2>6 DEF History
<1>3. CASE won # {}
  <2>1. (CHOOSE v \in won : TRUE) \in won
    BY <1>3
  <2>2. (CHOOSE v \in won : TRUE).leader = L
    BY <2>1 DEF Sole
  <2> QED
    BY <1>3, <2>2 DEF History, HistoryBy
<1> QED
  BY <1>2, <1>3

LEMMA HistoryInvHolds == Spec => []HistoryInv
<1>1. TypeOK /\ OneLeaderInv /\ OnePlacePerProposal /\ CallsAfterWins => HistoryInv
  BY HistoryFollows
<1> QED
  BY <1>1, TypeCorrect, OneLeaderInvHolds, OnePlacePerProposalHolds, CallsAfterWinsHolds, PTL

-----------------------------------------------------------------------------
(* How history, tables and outcomes change in a step.                      *)

LEMMA HistoryStays ==
    ASSUME TypeOK, TypeOK', NEW L \in Node, LeaderInv(L), Grown(L),
           commitIndex'[L] = commitIndex[L]
    PROVE  HistoryBy(L)' = HistoryBy(L)
<1>1. PICK c \in Nat : c = commitIndex[L]
  BY LogTypes
<1>2. PICK k \in Seq(Entry) : k = log[L]
  BY LogTypes
<1>3. PICK k2 \in Seq(Entry) : k2 = log'[L]
  BY LogTypesNext
<1>4. c <= Len(k) /\ IsPrefixOf(k, k2)
  BY <1>1, <1>2, <1>3 DEF LeaderInv, CommitUnder, Grown
<1>5. \A i \in 1 .. c : k2[i] = k[i]
  BY <1>4 DEF IsPrefixOf
<1>6. /\ HistoryBy(L) = [i \in 1 .. c |-> k[i].proposal]
      /\ HistoryBy(L)' = [i \in 1 .. c |-> k2[i].proposal]
  BY <1>1, <1>2, <1>3 DEF HistoryBy
<1> QED
  BY <1>5, <1>6

LEMMA FunctionIsSeq ==
    ASSUME NEW S, NEW k \in Nat, NEW f \in [1 .. k -> S]
    PROVE  f \in Seq(S) /\ Len(f) = k /\ DOMAIN f = 1 .. k
OBVIOUS

LEMMA HistoryDecides ==
    ASSUME TypeOK, TypeOK', NEW L \in Node, LeaderInv(L), LeaderInv(L)', Grown(L),
           OnePlacePerProposal', commitIndex[L] < commitIndex'[L],
           History = HistoryBy(L), History' = HistoryBy(L)',
           \A p \in Proposal : phase'[p] # "idle" => phase[p] # "idle",
           Tables' = Tables, Outcome' = Outcome
    PROVE  OneHistory!Decide
<1>1. PICK c \in Nat : c = commitIndex[L]
  BY LogTypes
<1>2. PICK c2 \in Nat : c2 = commitIndex'[L] /\ c < c2
  BY <1>1, LogTypesNext
<1>3. PICK k \in Seq(Entry) : k = log[L]
  BY LogTypes
<1>4. PICK k2 \in Seq(Entry) : k2 = log'[L]
  BY LogTypesNext
<1>5. /\ c <= Len(k) /\ c2 <= Len(k2) /\ IsPrefixOf(k, k2)
  BY <1>1, <1>2, <1>3, <1>4 DEF LeaderInv, CommitUnder, Grown
<1>6. /\ \A i \in DOMAIN k2 : /\ k2[i].proposal \in Proposal
                              /\ phase'[k2[i].proposal] # "idle"
      /\ \A i, j \in DOMAIN k2 : k2[i].proposal = k2[j].proposal => i = j
  <2>1. \A i \in DOMAIN k2 : k2[i].proposal \in Proposal
    <3> SUFFICES ASSUME NEW i \in DOMAIN k2 PROVE k2[i].proposal \in Proposal
      OBVIOUS
    <3>1. k2[i] \in Entry
      OBVIOUS
    <3> QED
      BY <3>1 DEF Entry
  <2> QED
    BY <1>4, <2>1 DEF OnePlacePerProposal, IsProposed
<1> DEFINE h == [i \in 1 .. c |-> k[i].proposal]
           g == [i \in 1 .. c2 |-> k2[i].proposal]
<1>7. History = h /\ History' = g
  BY <1>1, <1>2, <1>3, <1>4 DEF HistoryBy
<1>8. \A i \in 1 .. c : i \in DOMAIN k /\ k[i].proposal \in Proposal /\ k2[i] = k[i]
  <2> SUFFICES ASSUME NEW i \in 1 .. c
               PROVE  i \in DOMAIN k /\ k[i].proposal \in Proposal /\ k2[i] = k[i]
    OBVIOUS
  <2>1. i \in DOMAIN k
    BY <1>5
  <2>2. k[i] \in Entry
    BY <2>1
  <2> QED
    BY <1>5, <2>1, <2>2 DEF IsPrefixOf, Entry
<1>9. \A i \in 1 .. c2 : i \in DOMAIN k2
  BY <1>5
<1>10. h \in [1 .. c -> Proposal] /\ g \in [1 .. c2 -> Proposal]
  BY <1>6, <1>8, <1>9
<1>11. /\ g \in Seq(Proposal) /\ Len(g) = c2 /\ DOMAIN g = 1 .. c2
       /\ Len(h) = c /\ DOMAIN h = 1 .. c
  BY <1>10, FunctionIsSeq
<1>12. \A i \in 1 .. c : g[i] = h[i]
  BY <1>2, <1>8
<1>13. \A p \in Proposal : phase'[p] # "idle" => Outcome[p] # "none"
  BY DEF Outcome
<1>14. /\ \A i \in 1 .. c2 : Outcome[g[i]] # "none"
       /\ \A i, j \in 1 .. c2 : g[i] = g[j] => i = j
  BY <1>6, <1>9, <1>13
<1> HIDE DEF h, g
<1> QED
  BY <1>2, <1>7, <1>11, <1>12, <1>14 DEF OneHistory!Decide

(* A node that applies entries catches up with the history.                *)
LEMMA TableCatchesUp ==
    ASSUME TypeOK, TypeOK', NEW L \in Node, LeaderInv(L), LeaderInv(L)', Grown(L),
           commitIndex'[L] = commitIndex[L], History' = History, History' = HistoryBy(L)',
           NEW n \in Node, \A m \in Node : m # n => applied'[m] = applied[m],
           Len(applied[n]) <= Len(applied'[n]), Outcome' = Outcome
    PROVE  [OneHistory!JournalNext]_(OneHistory!journalVars)
<1>1. PICK a \in Seq(Entry) : a = applied[n]
  BY LogTypes
<1>2. PICK a2 \in Seq(Entry) : a2 = applied'[n]
  BY LogTypesNext
<1>3. PICK k2 \in Seq(Entry) : k2 = log'[L]
  BY LogTypesNext
<1>4. PICK c \in Nat : c = commitIndex'[L]
  BY LogTypesNext
<1>5. IsPrefixOf(a, k2) /\ IsPrefixOf(a2, k2) /\ Len(a2) <= c /\ Len(a) <= Len(a2)
  <2>1. /\ log[n] \in Seq(Entry) /\ log'[n] \in Seq(Entry)
        /\ commitIndex'[n] \in Nat
    BY LogTypes, LogTypesNext
  <2>2. IsPrefixOf(a, log[n]) /\ IsPrefixOf(log[n], log'[n]) /\ IsPrefixOf(log'[n], k2)
    BY <1>1, <1>3 DEF LeaderInv, AppliedUnder, Grown
  <2>3. IsPrefixOf(a2, log'[n]) /\ Len(a2) <= commitIndex'[n] /\ commitIndex'[n] <= c
    BY <1>2, <1>4 DEF LeaderInv, AppliedUnder, Grown
  <2>4. IsPrefixOf(a, k2)
    BY <2>1, <2>2, PrefixTransitive
  <2>5. IsPrefixOf(a2, k2)
    BY <2>1, <2>2, <2>3, PrefixTransitive
  <2>6. Len(a2) <= c /\ Len(a) <= Len(a2)
    BY <1>1, <1>2, <2>1, <2>3
  <2> QED
    BY <2>4, <2>5, <2>6
<1>6. c <= Len(k2)
  BY <1>3, <1>4 DEF LeaderInv, CommitUnder
<1> DEFINE h == [i \in 1 .. c |-> k2[i].proposal]
           t == [i \in DOMAIN a |-> a[i].proposal]
           t2 == [i \in DOMAIN a2 |-> a2[i].proposal]
<1>7. History = h
  BY <1>3, <1>4 DEF HistoryBy
<1>8. Tables[n] = t /\ Tables' = [Tables EXCEPT ![n] = t2]
  BY <1>1, <1>2 DEF Tables
<1>9. CASE Len(a2) = Len(a)
  <2>1. a2 = a
    <3>1. \A i \in 1 .. Len(a) : a2[i] = a[i]
      <4>1. DOMAIN a = 1 .. Len(a) /\ DOMAIN a2 = 1 .. Len(a)
        BY <1>9
      <4>2. \A i \in DOMAIN a : k2[i] = a[i]
        BY <1>5 DEF IsPrefixOf
      <4>3. \A i \in DOMAIN a2 : k2[i] = a2[i]
        BY <1>5 DEF IsPrefixOf
      <4> QED
        BY <4>1, <4>2, <4>3
    <3> QED
      BY <1>9, <3>1
  <2>2. Tables' = Tables
    <3>1. applied'[n] = applied[n]
      BY <1>1, <1>2, <2>1
    <3>2. \A m \in Node : applied'[m] = applied[m]
      BY <3>1
    <3> QED
      BY <3>2 DEF Tables
  <2> QED
    BY <2>2 DEF OneHistory!journalVars
<1>10. CASE Len(a) < Len(a2)
  <2> DEFINE j == Len(a2)
  <2>1. j \in Nat /\ j \in Len(a) + 1 .. c
    BY <1>5, <1>10
  <2>2. \A i \in 1 .. c : k2[i].proposal \in Proposal
    <3> SUFFICES ASSUME NEW i \in 1 .. c PROVE k2[i].proposal \in Proposal
      OBVIOUS
    <3>1. k2[i] \in Entry
      BY <1>6
    <3> QED
      BY <3>1 DEF Entry
  <2>3. h \in Seq(Proposal) /\ Len(h) = c /\ DOMAIN h = 1 .. c
    <3>1. h \in [1 .. c -> Proposal]
      BY <2>2
    <3> QED
      BY <3>1, FunctionIsSeq
  <2>4. t2 = SubSeq(h, 1, j)
    <3>1. SubSeq(h, 1, j) = [i \in 1 .. j |-> h[i]]
      <4> HIDE DEF h
      <4> QED
        BY <2>1, <2>3
    <3>2. \A i \in 1 .. j : i \in 1 .. c /\ a2[i] = k2[i]
      BY <1>5, <2>1 DEF IsPrefixOf
    <3>3. DOMAIN a2 = 1 .. j
      OBVIOUS
    <3> QED
      BY <3>1, <3>2, <3>3
  <2>5. Len(t) = Len(a)
    <3>1. \A i \in 1 .. Len(a) : a[i].proposal \in Proposal
      <4> SUFFICES ASSUME NEW i \in 1 .. Len(a) PROVE a[i].proposal \in Proposal
        OBVIOUS
      <4>1. a[i] \in Entry
        OBVIOUS
      <4> QED
        BY <4>1 DEF Entry
    <3>2. t \in [1 .. Len(a) -> Proposal]
      BY <3>1
    <3> QED
      BY <3>2, FunctionIsSeq
  <2>6. OneHistory!Apply(n)
    <3> HIDE DEF h, t, t2
    <3>1. /\ j \in Len(Tables[n]) + 1 .. Len(History)
          /\ Tables' = [Tables EXCEPT ![n] = SubSeq(History, 1, j)]
      BY <1>7, <1>8, <2>1, <2>3, <2>4, <2>5
    <3> QED
      BY <3>1 DEF OneHistory!Apply
  <2> QED
    BY <2>6 DEF OneHistory!JournalNext
<1> QED
  <2>1. Len(a) \in Nat /\ Len(a2) \in Nat
    OBVIOUS
  <2> QED
    BY <1>5, <1>9, <1>10, <2>1

(* Accept never takes back what is applied.                                *)
LEMMA AcceptApplies ==
    ASSUME TypeOK, TypeOK', NEW L \in Node, LeaderInv(L), NEW n \in Node,
           NEW req \in BagToSet(requests), RequestOf(L, req), Accept(n, req)
    PROVE  Len(applied[n]) <= Len(applied'[n])
<1>1. PICK l \in Merge(log[n], req) :
         LET c == CommitAfter(n, req, l)
         IN  /\ log' = [log EXCEPT ![n] = l]
             /\ applied' = [applied EXCEPT ![n] =
                   IF c > commitIndex[n] THEN @ \o Unapplied(n, l, c) ELSE @]
  BY DEF Accept
<1>2. PICK a \in Seq(Entry) : a = applied[n]
  BY LogTypes
<1>3. l \in Seq(Entry)
  BY <1>1 DEF TypeOK
<1>4. Len(l) \in Nat /\ req.commit \in Nat /\ commitIndex[n] \in Nat
  <2>1. req \in Request
    BY DEF TypeOK
  <2> QED
    BY <1>3, <2>1, LogTypes DEF Request
<1>5. PICK c \in Nat : c = CommitAfter(n, req, l)
  BY <1>4 DEF CommitAfter
<1>6. CASE c > commitIndex[n]
  <2>1. c <= Len(l)
    BY <1>5, <1>6, <1>4 DEF CommitAfter
  <2>2. PICK u \in Seq(Entry) : u = SubSeq(l, Len(a) + 1, c)
    <3>1. Len(a) + 1 \in Nat \ {0}
      OBVIOUS
    <3> QED
      BY <1>3, <2>1, <3>1, SliceFacts
  <2>3. applied'[n] = a \o u
    BY <1>1, <1>2, <1>5, <1>6, <2>2 DEF Unapplied, TypeOK
  <2> QED
    BY <1>2, <2>3
<1>7. CASE ~(c > commitIndex[n])
  <2>1. applied'[n] = applied[n]
    BY <1>1, <1>5, <1>7 DEF TypeOK
  <2> QED
    BY <1>2, <2>1
<1> QED
  BY <1>6, <1>7

-----------------------------------------------------------------------------
(* The steps, for L the one winner.                                        *)

LEMMA HistoryStep ==
    ASSUME TypeOK, TypeOK', OneLeaderInv, HistoryInv, HistoryInv', OnePlacePerProposal',
           [Next]_vars, NEW L \in Node, Sole(L)'
    PROVE  [OneHistory!JournalNext]_(OneHistory!journalVars)
<1> DEFINE Step == [OneHistory!JournalNext]_(OneHistory!journalVars)
<1>1. Sole(L) /\ LeaderInv(L)
  BY SoleBefore DEF OneLeaderInv
<1>2. LeaderInv(L)' /\ Grown(L)
  BY <1>1, LeaderStep
<1>3. History = HistoryBy(L) /\ History' = HistoryBy(L)'
  BY <1>1 DEF HistoryInv
<1>4. ASSUME commitIndex'[L] = commitIndex[L] PROVE History' = History
  BY <1>1, <1>2, <1>3, <1>4, HistoryStays
<1>5. ASSUME commitIndex'[L] = commitIndex[L], UNCHANGED <<applied, phase>> PROVE Step
  BY <1>4, <1>5 DEF OneHistory!journalVars, Tables, Outcome
<1>6. CASE Elections
  BY <1>5, <1>6 DEF Elections, raftVars, callVars
<1>7. ASSUME NEW call \in calls, Callback(call) PROVE Step
  BY <1>5, <1>7 DEF Callback, callVars
<1>8. ASSUME NEW p \in Proposal, NEW n \in Node, AppendEntry(p, n) PROVE Step
  <2>1. History' = History /\ Tables' = Tables
    BY <1>4, <1>8 DEF AppendEntry, Tables
  <2>2. /\ Outcome[p] = "none"
        /\ Outcome' = [Outcome EXCEPT ![p] = "pending"]
    BY <1>8 DEF AppendEntry, Outcome, TypeOK
  <2>3. OneHistory!Propose(p)
    BY <2>1, <2>2 DEF OneHistory!Propose
  <2> QED
    BY <2>3 DEF OneHistory!JournalNext
<1>9. ASSUME NEW p \in Proposal, sendAppendEntriesToAll(p) PROVE Step
  <2>1. History' = History /\ Tables' = Tables
    BY <1>4, <1>9 DEF sendAppendEntriesToAll, raftVars, Tables
  <2>2. CASE phase[p] = "sending"
    <3>1. Outcome' = Outcome
      BY <1>9, <2>2 DEF sendAppendEntriesToAll, Outcome, TypeOK
    <3> QED
      BY <2>1, <3>1 DEF OneHistory!journalVars
  <2>3. CASE phase[p] = "notifying"
    <3>1. /\ Outcome[p] = "pending"
          /\ Outcome' = [Outcome EXCEPT ![p] = "true"]
      BY <1>9, <2>3 DEF sendAppendEntriesToAll, Outcome, TypeOK
    <3>2. \E i \in DOMAIN Tables[L] : Tables[L][i] = p
      <4>1. /\ target[p] \in DOMAIN log[L] /\ log[L][target[p]].proposal = p
            /\ target[p] <= Len(applied[L])
        BY <1>1, <2>3 DEF LeaderInv, CallPlaced
      <4>2. target[p] \in DOMAIN applied[L]
        BY <4>1, LogTypes
      <4>3. applied[L][target[p]] = log[L][target[p]]
        <5>1. IsPrefixOf(applied[L], log[L])
          BY <1>1 DEF LeaderInv, AppliedUnder
        <5> QED
          BY <4>2, <5>1 DEF IsPrefixOf
      <4> QED
        BY <4>1, <4>2, <4>3 DEF Tables
    <3>3. OneHistory!Confirm(p)
      BY <2>1, <3>1, <3>2 DEF OneHistory!Confirm
    <3> QED
      BY <3>3 DEF OneHistory!JournalNext
  <2> QED
    BY <1>9, <2>2, <2>3 DEF sendAppendEntriesToAll
<1>10. ASSUME NEW p \in Proposal, NEW resp \in BagToSet(responses),
              handleAppendEntriesResponse(p, resp)
       PROVE  Step
  <2>1. /\ Tables' = Tables /\ Outcome' = Outcome
        /\ \A q \in Proposal : phase'[q] # "idle" => phase[q] # "idle"
    BY <1>10 DEF handleAppendEntriesResponse, Tables, Outcome, TypeOK
  <2>2. commitIndex[L] <= commitIndex'[L] /\ commitIndex[L] \in Nat /\ commitIndex'[L] \in Nat
    BY <1>2, LogTypes, LogTypesNext DEF Grown
  <2>3. CASE commitIndex'[L] = commitIndex[L]
    BY <1>4, <2>1, <2>3 DEF OneHistory!journalVars
  <2>4. CASE commitIndex[L] < commitIndex'[L]
    <3>1. OneHistory!Decide
      BY <1>1, <1>2, <1>3, <2>1, <2>4, HistoryDecides
    <3> QED
      BY <3>1 DEF OneHistory!JournalNext
  <2> QED
    BY <2>2, <2>3, <2>4
<1>11. ASSUME NEW p \in Proposal, Committed(p) PROVE Step
  <2>1. at[p] = L
    BY <1>1, <1>11 DEF Committed, LeaderInv, Authority
  <2>2. /\ commitIndex' = commitIndex /\ Outcome' = Outcome
        /\ \A m \in Node : m # L => applied'[m] = applied[m]
    BY <1>11, <2>1 DEF Committed, Outcome, TypeOK
  <2>3. Len(applied[L]) <= Len(applied'[L])
    <3>1. PICK a \in Seq(Entry) : a = applied[L]
      BY LogTypes
    <3>2. PICK k \in Seq(Entry) : k = log[L]
      BY LogTypes
    <3>3. PICK c \in Nat : c = commitIndex[L]
      BY LogTypes
    <3>4. c <= Len(k)
      BY <1>1, <3>2, <3>3 DEF LeaderInv, CommitUnder
    <3>5. PICK u \in Seq(Entry) : u = SubSeq(k, Len(a) + 1, c)
      <4>1. Len(a) + 1 \in Nat \ {0}
        OBVIOUS
      <4> QED
        BY <3>4, <4>1, SliceFacts
    <3>6. applied'[L] = a \o u
      BY <1>11, <2>1, <3>1, <3>2, <3>3, <3>5 DEF Committed, Unapplied, TypeOK
    <3> QED
      BY <3>1, <3>6
  <2> QED
    BY <1>1, <1>2, <1>3, <1>4, <2>2, <2>3, TableCatchesUp
<1>12. ASSUME NEW p \in Proposal, Panic(p) PROVE Step
  BY <1>5, <1>12 DEF Panic, raftVars, callVars
<1>13. ASSUME NEW p \in Proposal, NotYet(p) PROVE Step
  <2>1. Outcome' = Outcome /\ Tables' = Tables /\ History' = History
    BY <1>4, <1>13 DEF NotYet, raftVars, Outcome, Tables, TypeOK
  <2> QED
    BY <2>1 DEF OneHistory!journalVars
<1>14. ASSUME NEW p \in Proposal, Timeout(p) PROVE Step
  <2>1. /\ Outcome[p] = "pending" /\ Outcome' = [Outcome EXCEPT ![p] = "false"]
        /\ Tables' = Tables /\ History' = History
    BY <1>4, <1>14 DEF Timeout, raftVars, Outcome, Tables, TypeOK
  <2>2. OneHistory!GiveUp(p)
    BY <2>1 DEF OneHistory!GiveUp
  <2> QED
    BY <2>2 DEF OneHistory!JournalNext
<1>15. ASSUME NEW n \in Node, NEW req \in BagToSet(requests), HandleAppendEntries(n, req)
       PROVE  Step
  <2>1. UNCHANGED phase
    BY <1>15 DEF HandleAppendEntries, callVars
  <2>2. CASE RejectStale(n, req) \/ RejectShort(n, req) \/ RejectMismatch(n, req)
    BY <1>5, <2>1, <2>2 DEF RejectStale, RejectShort, RejectMismatch
  <2>3. CASE Accept(n, req)
    <3>1. RequestOf(L, req)
      BY <1>1 DEF LeaderInv
    <3>2. /\ commitIndex'[L] = commitIndex[L]
          /\ \A m \in Node : m # n => applied'[m] = applied[m]
      BY <1>1, <2>3, <3>1, AcceptUnder
    <3>3. Len(applied[n]) <= Len(applied'[n])
      BY <1>1, <2>3, <3>1, AcceptApplies
    <3>4. Outcome' = Outcome
      BY <2>1 DEF Outcome
    <3> QED
      BY <1>1, <1>2, <1>3, <1>4, <3>2, <3>3, <3>4, TableCatchesUp
  <2> QED
    BY <1>15, <2>2, <2>3 DEF HandleAppendEntries
<1>16. CASE UNCHANGED vars
  BY <1>5, <1>16 DEF vars, raftVars, callVars
<1>17. ASSUME NEW n \in Node, Run(n) PROVE Step
  BY <1>7, <1>8, <1>9, <1>10, <1>11, <1>12, <1>13, <1>14, <1>15, <1>17 DEF Run
<1> QED
  BY <1>6, <1>16, <1>17 DEF Next

(* Without a node nothing happens.                                         *)
LEMMA EmptyStep == Node = {} /\ [Next]_vars => UNCHANGED vars
BY DEF Next, Elections, LeadershipNext

LEMMA JournalStep ==
    ASSUME TypeOK, TypeOK', OneLeaderInv, HistoryInv, HistoryInv', OnePlacePerProposal',
           [Next]_vars, OneLeader'
    PROVE  [OneHistory!JournalNext]_(OneHistory!journalVars)
<1>1. CASE Node = {}
  <2>1. UNCHANGED vars
    BY <1>1, EmptyStep
  <2>2. History' = History /\ Tables' = Tables /\ Outcome' = Outcome
    BY <2>1 DEF vars, leadershipVars, raftVars, callVars, History, Tables, Outcome
  <2> QED
    BY <2>2 DEF OneHistory!journalVars
<1>2. CASE Node # {}
  <2>1. PICK L \in Node : Sole(L)'
    <3>1. CASE won' = {}
      BY <1>2, <3>1 DEF Sole
    <3>2. CASE won' # {}
      <4>1. PICK v \in won' : TRUE
        BY <3>2
      <4>2. v.leader \in Node /\ \A w \in won' : w.leader = v.leader
        BY <4>1 DEF TypeOK, Victory, OneLeader
      <4> QED
        BY <4>2 DEF Sole
    <3> QED
      BY <3>1, <3>2
  <2> QED
    BY <2>1, HistoryStep
<1> QED
  BY <1>1, <1>2

(* While one node wins all elections, however many, ProposeEntry and the   *)
(* routing tables implement the abstract journal: there is one history, it *)
(* only grows, every table is built from a beginning of it, and a call     *)
(* that returns true has its proposal in it.                               *)
THEOREM LogImplementsJournal == Spec /\ []OneLeader => ImplementsJournal
<1>1. Init => OneHistory!JournalInit
  <2> SUFFICES ASSUME Init PROVE OneHistory!JournalInit
    OBVIOUS
  <2>1. History = <<>>
    BY DEF Init, LeadershipInit, History
  <2>2. \A n \in Node : applied[n] = <<>>
    BY DEF Init
  <2>3. Tables = [n \in Node |-> <<>>]
    <3>1. ASSUME NEW n \in Node
          PROVE  [i \in DOMAIN applied[n] |-> applied[n][i].proposal] = <<>>
      <4>1. DOMAIN applied[n] = {}
        BY <2>2
      <4> QED
        BY <4>1
    <3> QED
      BY <3>1 DEF Tables
  <2>4. Outcome = [p \in Proposal |-> "none"]
    BY DEF Init, Outcome
  <2> QED
    BY <2>1, <2>3, <2>4 DEF OneHistory!JournalInit
<1>2. TypeOK /\ TypeOK' /\ OneLeaderInv /\ HistoryInv /\ HistoryInv' /\ OnePlacePerProposal'
        /\ OneLeader' /\ [Next]_vars
        => [OneHistory!JournalNext]_(OneHistory!journalVars)
  BY JournalStep
<1> QED
  BY <1>1, <1>2, TypeCorrect, OneLeaderInvHolds, HistoryInvHolds, OnePlacePerProposalHolds, PTL
     DEF Spec, ImplementsJournal, OneHistory!JournalSpec

(* Up to the moment a second node wins an election, every step is one of   *)
(* the abstract journal: what the implementation of it rests on is only    *)
(* what has been won so far.                                               *)
THEOREM JournalUntilRival ==
    Spec => [][OneLeader' => [OneHistory!JournalNext]_(OneHistory!journalVars)]_vars
<1>1. TypeOK /\ TypeOK' /\ OneLeaderInv /\ HistoryInv /\ HistoryInv' /\ OnePlacePerProposal'
        /\ [Next]_vars
        => [OneLeader' => [OneHistory!JournalNext]_(OneHistory!journalVars)]_vars
  BY JournalStep
<1> QED
  BY <1>1, TypeCorrect, OneLeaderInvHolds, HistoryInvHolds, OnePlacePerProposalHolds, PTL
     DEF Spec
=============================================================================
