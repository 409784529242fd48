--------------------------- MODULE OneLeader_proofs ---------------------------
(***************************************************************************)
(* What RaftLog keeps while one node wins all elections, however many, for *)
(* every number of nodes, terms and proposals: its routing tables agree,   *)
(* what is committed is on a majority, and no log loses an entry.          *)
(***************************************************************************)
EXTENDS RaftLog_proofs

-----------------------------------------------------------------------------
(* What the library proves of the sizes of finite sets.                    *)

Finite == INSTANCE FiniteSetTheorems

LEMMA SameSizes ==
    ASSUME NEW S
    PROVE  (Finite!IsFiniteSet(S) <=> IsFiniteSet(S)) /\ Finite!Cardinality(S) = Cardinality(S)
BY DEF Finite!IsFiniteSet, IsFiniteSet, Finite!Cardinality, Cardinality

LEMMA Subsets ==
    ASSUME NEW S, IsFiniteSet(S), NEW T \in SUBSET S
    PROVE  IsFiniteSet(T) /\ Cardinality(T) <= Cardinality(S)
BY SameSizes, Finite!FS_Subset

LEMMA Sizes ==
    ASSUME NEW S, IsFiniteSet(S)
    PROVE  Cardinality(S) \in Nat
BY SameSizes, Finite!FS_CardinalityType

-----------------------------------------------------------------------------
(* The invariant, for L the node that has won whatever was won so far.     *)

Sole(L)  == \A v \in won : v.leader = L
Begun(L) == \E call \in ran : call.at = L /\ call.leader = L

(* Only L is told that it leads, and only it is asked to propose.          *)
Authority(L) ==
    /\ \A call \in calls : call.leader = L
    /\ \A n \in Node : isLeader[n] => n = L /\ Begun(L)
    /\ \A p \in Proposal : phase[p] # "idle" => at[p] = L /\ Begun(L)

(* The log of m is the beginning of L's, and so is what m has applied.     *)
LogUnder(L, m) == IsPrefixOf(log[m], log[L])
CommitUnder(L, m) == commitIndex[m] <= Len(log[m]) /\ commitIndex[m] <= commitIndex[L]
AppliedUnder(m) == IsPrefixOf(applied[m], log[m]) /\ Len(applied[m]) <= commitIndex[m]

(* A request is a slice of L's log.                                        *)
RequestOf(L, req) ==
    /\ req.prevIndex <= Len(log[L])
    /\ req.prevIndex # 0 => req.prevTerm = log[L][req.prevIndex].term
    /\ \A i \in DOMAIN req.entries : /\ req.prevIndex + i \in DOMAIN log[L]
                                     /\ req.entries[i] = log[L][req.prevIndex + i]
    /\ req.commit <= commitIndex[L]

(* A follower never reports more than it has, nor does L believe it.       *)
ResponseTrue(resp) == resp.success => resp.match <= Len(log[resp.follower])
IndexesTrue(L) ==
    Begun(L) => \A m \in Node : /\ matchIndex[L][m] <= Len(log[m])
                                /\ nextIndex[L][m] <= Len(log[L]) + 1

(* What L has committed is in the logs of a majority.                      *)
HoldersOf(i) == {m \in Node : i <= Len(log[m])}
CommitHeld(L) == commitIndex[L] # 0 => Cardinality(HoldersOf(commitIndex[L])) >= Majority

(* A call's entry is where it was put, and applied when it is reported.    *)
CallPlaced(L, p) ==
    /\ phase[p] # "idle" => /\ target[p] \in DOMAIN log[L]
                            /\ log[L][target[p]].proposal = p
    /\ phase[p] \in {"notifying", "committed"} => target[p] <= Len(applied[L])

LeaderInv(L) ==
    /\ Authority(L)
    /\ \A m \in Node : LogUnder(L, m) /\ CommitUnder(L, m) /\ AppliedUnder(m)
    /\ \A req \in BagToSet(requests) : RequestOf(L, req)
    /\ \A resp \in BagToSet(responses) : ResponseTrue(resp)
    /\ IndexesTrue(L)
    /\ CommitHeld(L)
    /\ \A p \in Proposal : CallPlaced(L, p)
    /\ panicked = {}

OneLeaderInv == \A L \in Node : Sole(L) => LeaderInv(L)

-----------------------------------------------------------------------------
(* Prefixes.                                                               *)

LEMMA PrefixReflexive == ASSUME NEW s \in Seq(Entry) PROVE IsPrefixOf(s, s)
BY DEF IsPrefixOf

LEMMA PrefixTransitive ==
    ASSUME NEW s \in Seq(Entry), NEW t \in Seq(Entry), NEW u \in Seq(Entry),
           IsPrefixOf(s, t), IsPrefixOf(t, u)
    PROVE  IsPrefixOf(s, u)
<1>1. Len(s) \in Nat /\ Len(t) \in Nat /\ Len(u) \in Nat
  OBVIOUS
<1> QED
  BY <1>1 DEF IsPrefixOf

LEMMA PrefixAntisymmetric ==
    ASSUME NEW s \in Seq(Entry), NEW t \in Seq(Entry), IsPrefixOf(s, t), IsPrefixOf(t, s)
    PROVE  Len(s) = Len(t) /\ \A i \in DOMAIN s : s[i] = t[i]
BY DEF IsPrefixOf

(* Two prefixes of one sequence: the shorter one is a prefix of the other. *)
LEMMA PrefixesCompare ==
    ASSUME NEW s \in Seq(Entry), NEW t \in Seq(Entry), NEW u \in Seq(Entry),
           IsPrefixOf(s, u), IsPrefixOf(t, u)
    PROVE  /\ IsPrefixOf(s, t) \/ IsPrefixOf(t, s)
           /\ \A i \in DOMAIN s \cap DOMAIN t : s[i] = t[i]
<1>1. /\ Len(s) \in Nat /\ Len(t) \in Nat
      /\ DOMAIN s = 1..Len(s) /\ DOMAIN t = 1..Len(t)
  OBVIOUS
<1>2. CASE Len(s) <= Len(t)
  BY <1>1, <1>2 DEF IsPrefixOf
<1>3. CASE Len(t) <= Len(s)
  BY <1>1, <1>3 DEF IsPrefixOf
<1> QED
  BY <1>1, <1>2, <1>3

LEMMA LogTypes ==
    ASSUME TypeOK, NEW m \in Node
    PROVE  /\ log[m] \in Seq(Entry) /\ Len(log[m]) \in Nat /\ DOMAIN log[m] = 1..Len(log[m])
           /\ applied[m] \in Seq(Entry) /\ Len(applied[m]) \in Nat
           /\ DOMAIN applied[m] = 1..Len(applied[m])
           /\ commitIndex[m] \in Nat
           /\ \A n \in Node : matchIndex[m][n] \in Nat /\ nextIndex[m][n] \in Nat \ {0}
<1>1. log[m] \in Seq(Entry) /\ applied[m] \in Seq(Entry)
  BY DEF TypeOK
<1>2. /\ commitIndex[m] \in Nat
      /\ \A n \in Node : matchIndex[m][n] \in Nat /\ nextIndex[m][n] \in Nat \ {0}
  BY DEF TypeOK
<1> QED
  BY <1>1, <1>2

LEMMA LogTypesNext ==
    ASSUME TypeOK', NEW m \in Node
    PROVE  /\ log'[m] \in Seq(Entry) /\ Len(log'[m]) \in Nat
           /\ DOMAIN log'[m] = 1..Len(log'[m])
           /\ applied'[m] \in Seq(Entry) /\ Len(applied'[m]) \in Nat
           /\ commitIndex'[m] \in Nat
<1>1. log'[m] \in Seq(Entry) /\ applied'[m] \in Seq(Entry) /\ commitIndex'[m] \in Nat
  BY DEF TypeOK
<1> QED
  BY <1>1

-----------------------------------------------------------------------------
(* Steps that only make logs longer.                                       *)

Grown(L) ==
    \A m \in Node : /\ IsPrefixOf(log[m], log'[m])
                    /\ IsPrefixOf(log'[m], log'[L])
                    /\ commitIndex[m] <= commitIndex'[m]
                    /\ commitIndex'[m] <= Len(log'[m])
                    /\ commitIndex'[m] <= commitIndex'[L]

LEMMA GrownRequest ==
    ASSUME TypeOK, TypeOK', NEW L \in Node, Grown(L),
           NEW req \in Request, RequestOf(L, req)
    PROVE  RequestOf(L, req)'
<1>1. PICK l \in Seq(Entry) : l = log[L]
  BY DEF TypeOK
<1>2. PICK k \in Seq(Entry) : k = log'[L]
  BY DEF TypeOK
<1>3. PICK c \in Nat : c = commitIndex[L]
  BY DEF TypeOK
<1>4. PICK d \in Nat : d = commitIndex'[L]
  BY DEF TypeOK
<1>5. /\ Len(l) <= Len(k) /\ \A i \in 1..Len(l) : l[i] = k[i]
      /\ c <= d
  BY <1>1, <1>2, <1>3, <1>4 DEF Grown, IsPrefixOf
<1>6. req.prevIndex \in Nat /\ req.commit \in Nat
  BY DEF Request
<1>7. /\ req.prevIndex <= Len(l)
      /\ req.prevIndex # 0 => req.prevTerm = l[req.prevIndex].term
      /\ \A i \in DOMAIN req.entries : /\ req.prevIndex + i \in 1..Len(l)
                                       /\ req.entries[i] = l[req.prevIndex + i]
      /\ req.commit <= c
  BY <1>1, <1>3 DEF RequestOf
<1>8. /\ req.prevIndex <= Len(k)
      /\ req.prevIndex # 0 => req.prevTerm = k[req.prevIndex].term
      /\ \A i \in DOMAIN req.entries : /\ req.prevIndex + i \in 1..Len(k)
                                       /\ req.entries[i] = k[req.prevIndex + i]
      /\ req.commit <= d
  <2>1. req.prevIndex # 0 => req.prevIndex \in 1..Len(l)
    BY <1>6, <1>7
  <2>2. 1..Len(l) \subseteq 1..Len(k)
    BY <1>5
  <2> QED
    BY <1>5, <1>6, <1>7, <2>1, <2>2
<1>9. DOMAIN k = 1..Len(k)
  OBVIOUS
<1> QED
  BY <1>2, <1>4, <1>8, <1>9 DEF RequestOf

LEMMA GrownResponse ==
    ASSUME TypeOK, TypeOK', NEW L \in Node, Grown(L),
           NEW resp \in Response, ResponseTrue(resp)
    PROVE  ResponseTrue(resp)'
<1>1. resp.follower \in Node /\ resp.match \in Nat
  BY DEF Response
<1>2. PICK a \in Nat : a = Len(log[resp.follower])
  BY <1>1 DEF TypeOK
<1>3. PICK b \in Nat : b = Len(log'[resp.follower])
  BY <1>1 DEF TypeOK
<1>4. a <= b
  BY <1>1, <1>2, <1>3 DEF Grown, IsPrefixOf
<1> QED
  BY <1>1, <1>2, <1>3, <1>4 DEF ResponseTrue

LEMMA GrownIndexes ==
    ASSUME TypeOK, TypeOK', NEW L \in Node, Grown(L), IndexesTrue(L),
           UNCHANGED <<matchIndex, nextIndex>>, Begun(L)' => Begun(L)
    PROVE  IndexesTrue(L)'
<1> SUFFICES ASSUME Begun(L), NEW m \in Node
             PROVE  matchIndex[L][m] <= Len(log'[m]) /\ nextIndex[L][m] <= Len(log'[L]) + 1
  BY DEF IndexesTrue, Begun
<1>1. /\ Len(log[m]) \in Nat /\ Len(log'[m]) \in Nat /\ Len(log[L]) \in Nat
      /\ Len(log'[L]) \in Nat /\ matchIndex[L][m] \in Nat /\ nextIndex[L][m] \in Nat
  BY LogTypes, LogTypesNext
<1>2. Len(log[m]) <= Len(log'[m]) /\ Len(log[L]) <= Len(log'[L])
  BY DEF Grown, IsPrefixOf
<1>3. matchIndex[L][m] <= Len(log[m]) /\ nextIndex[L][m] <= Len(log[L]) + 1
  BY DEF IndexesTrue
<1> QED
  BY <1>1, <1>2, <1>3

(* More nodes have an entry, never fewer.                                  *)
LEMMA HoldersGrow ==
    ASSUME TypeOK, TypeOK', NEW L \in Node, Grown(L), NEW i \in Nat, NEW H \in SUBSET Node,
           \A m \in H : i <= Len(log[m])
    PROVE  /\ IsFiniteSet({m \in Node : i <= Len(log'[m])})
           /\ Cardinality(H) <= Cardinality({m \in Node : i <= Len(log'[m])})
<1> DEFINE K == {m \in Node : i <= Len(log'[m])}
<1>1. ASSUME NEW m \in H PROVE m \in K
  <2>1. Len(log[m]) \in Nat /\ Len(log'[m]) \in Nat
    BY LogTypes, LogTypesNext
  <2>2. Len(log[m]) <= Len(log'[m])
    BY DEF Grown, IsPrefixOf
  <2> QED
    BY <2>1, <2>2
<1>2. H \subseteq K /\ K \subseteq Node
  BY <1>1
<1> HIDE DEF K
<1>3. IsFiniteSet(K) /\ IsFiniteSet(H)
  BY <1>2, NodeAssumption, Subsets
<1>4. Cardinality(H) <= Cardinality(K)
  BY <1>2, <1>3, Subsets
<1> QED
  BY <1>3, <1>4 DEF K

LEMMA GrownHeld ==
    ASSUME TypeOK, TypeOK', NEW L \in Node, Grown(L), CommitHeld(L),
           commitIndex'[L] = commitIndex[L]
    PROVE  CommitHeld(L)'
<1>1. PICK c \in Nat : c = commitIndex[L]
  BY DEF TypeOK
<1>2. PICK H \in SUBSET Node : H = {m \in Node : c <= Len(log[m])}
  OBVIOUS
<1>3. PICK K : K = {m \in Node : c <= Len(log'[m])}
  OBVIOUS
<1>4. IsFiniteSet(H) /\ IsFiniteSet(K) /\ Cardinality(H) <= Cardinality(K)
  <2>1. \A m \in H : c <= Len(log[m])
    BY <1>2
  <2>2. IsFiniteSet(H)
    BY NodeAssumption, Subsets
  <2> QED
    BY <1>3, <2>1, <2>2, HoldersGrow
<1>5. Cardinality(H) \in Nat /\ Cardinality(K) \in Nat /\ Majority \in Nat
  BY <1>4, NodeAssumption, Sizes DEF Majority
<1>6. c # 0 => Cardinality(H) >= Majority
  BY <1>1, <1>2 DEF CommitHeld, HoldersOf
<1>7. c # 0 => Cardinality(K) >= Majority
  BY <1>4, <1>5, <1>6
<1> QED
  BY <1>1, <1>3, <1>7 DEF CommitHeld, HoldersOf, Majority

-----------------------------------------------------------------------------
(* What a step that only makes logs longer must show to keep LeaderInv.    *)

LEMMA AppliedStays ==
    ASSUME TypeOK, TypeOK', NEW L \in Node, Grown(L), NEW m \in Node,
           AppliedUnder(m), applied'[m] = applied[m]
    PROVE  AppliedUnder(m)'
<1>1. PICK a \in Seq(Entry) : a = applied[m]
  BY LogTypes
<1>2. PICK l \in Seq(Entry) : l = log[m]
  BY LogTypes
<1>3. PICK k \in Seq(Entry) : k = log'[m]
  BY LogTypesNext
<1>4. PICK c \in Nat : c = commitIndex[m]
  BY LogTypes
<1>5. PICK d \in Nat : d = commitIndex'[m]
  BY LogTypesNext
<1>6. IsPrefixOf(a, l) /\ IsPrefixOf(l, k) /\ Len(a) <= c /\ c <= d
  BY <1>1, <1>2, <1>3, <1>4, <1>5 DEF AppliedUnder, Grown
<1>7. IsPrefixOf(a, k) /\ Len(a) <= d
  <2>1. Len(a) \in Nat
    OBVIOUS
  <2> QED
    BY <1>6, <2>1, PrefixTransitive
<1> QED
  BY <1>1, <1>3, <1>5, <1>7 DEF AppliedUnder

LEMMA CallStays ==
    ASSUME TypeOK, TypeOK', NEW L \in Node, Grown(L), NEW p \in Proposal, CallPlaced(L, p),
           target'[p] = target[p], Len(applied[L]) <= Len(applied'[L]),
           phase[p] # "idle",
           phase'[p] \in {"notifying", "committed"} => phase[p] \in {"notifying", "committed"}
    PROVE  CallPlaced(L, p)'
<1>1. PICK l \in Seq(Entry) : l = log[L]
  BY LogTypes
<1>2. PICK k \in Seq(Entry) : k = log'[L]
  BY LogTypesNext
<1>3. PICK t \in Nat : t = target[p]
  BY DEF TypeOK
<1>4. Len(l) <= Len(k) /\ \A i \in 1..Len(l) : l[i] = k[i]
  BY <1>1, <1>2 DEF Grown, IsPrefixOf
<1>5. t \in DOMAIN k /\ k[t].proposal = p
  <2>1. t \in 1..Len(l) /\ l[t].proposal = p
    BY <1>1, <1>3 DEF CallPlaced
  <2> QED
    BY <1>4, <2>1
<1>6. phase'[p] \in {"notifying", "committed"} => t <= Len(applied'[L])
  <2>1. Len(applied[L]) \in Nat /\ Len(applied'[L]) \in Nat
    BY LogTypes, LogTypesNext
  <2>2. phase'[p] \in {"notifying", "committed"} => t <= Len(applied[L])
    BY <1>3 DEF CallPlaced
  <2> QED
    BY <2>1, <2>2
<1> QED
  BY <1>2, <1>3, <1>5, <1>6 DEF CallPlaced

LEMMA LeaderFrame ==
    ASSUME TypeOK, TypeOK', NEW L \in Node, LeaderInv(L), Authority(L)', Grown(L),
           NEW S, BagToSet(requests') \subseteq BagToSet(requests) \cup S,
           \A req \in S : RequestOf(L, req)',
           NEW T, BagToSet(responses') \subseteq BagToSet(responses) \cup T,
           \A resp \in T : ResponseTrue(resp)',
           \A m \in Node : applied'[m] = applied[m] \/ AppliedUnder(m)',
           IndexesTrue(L)',
           CommitHeld(L)',
           \A p \in Proposal : CallPlaced(L, p)',
           panicked' = panicked
    PROVE  LeaderInv(L)'
<1>1. \A m \in Node : LogUnder(L, m)' /\ CommitUnder(L, m)'
  BY DEF Grown, LogUnder, CommitUnder
<1>2. \A m \in Node : AppliedUnder(m)'
  BY AppliedStays DEF LeaderInv
<1>3. \A req \in BagToSet(requests') : RequestOf(L, req)'
  <2>1. \A req \in BagToSet(requests) : req \in Request /\ RequestOf(L, req)
    BY DEF LeaderInv, TypeOK
  <2>2. \A req \in BagToSet(requests) : RequestOf(L, req)'
    BY <2>1, GrownRequest
  <2> QED
    BY <2>2
<1>4. \A resp \in BagToSet(responses') : ResponseTrue(resp)'
  <2>1. \A resp \in BagToSet(responses) : resp \in Response /\ ResponseTrue(resp)
    BY DEF LeaderInv, TypeOK
  <2>2. \A resp \in BagToSet(responses) : ResponseTrue(resp)'
    BY <2>1, GrownResponse
  <2> QED
    BY <2>2
<1>5. panicked' = {}
  BY DEF LeaderInv
<1> QED
  BY <1>1, <1>2, <1>3, <1>4, <1>5 DEF LeaderInv

(* Steps that leave the logs, what is committed and what is applied alone. *)
LEMMA GrownUnchanged ==
    ASSUME TypeOK, NEW L \in Node, LeaderInv(L), UNCHANGED <<log, commitIndex>>
    PROVE  Grown(L)
<1> SUFFICES ASSUME NEW m \in Node
             PROVE  /\ IsPrefixOf(log[m], log[m]) /\ IsPrefixOf(log[m], log[L])
                    /\ commitIndex[m] <= commitIndex[m] /\ commitIndex[m] <= Len(log[m])
                    /\ commitIndex[m] <= commitIndex[L]
  BY DEF Grown
<1>1. IsPrefixOf(log[m], log[m]) /\ commitIndex[m] <= commitIndex[m]
  BY LogTypes, PrefixReflexive
<1> QED
  BY <1>1 DEF LeaderInv, LogUnder, CommitUnder

CallsKeepPhase ==
    \A p \in Proposal : /\ phase'[p] = phase[p] \/ phase[p] # "idle"
                        /\ target'[p] = target[p]
                        /\ phase'[p] \in {"notifying", "committed"}
                              => phase[p] \in {"notifying", "committed"}

LEMMA CallsStay ==
    ASSUME TypeOK, TypeOK', NEW L \in Node, LeaderInv(L), Grown(L), CallsKeepPhase,
           Len(applied[L]) <= Len(applied'[L])
    PROVE  \A p \in Proposal : CallPlaced(L, p)'
<1> TAKE p \in Proposal
<1>1. CallPlaced(L, p)
  BY DEF LeaderInv
<1>2. CASE phase[p] = "idle"
  BY <1>2 DEF CallPlaced, CallsKeepPhase
<1>3. CASE phase[p] # "idle"
  BY <1>1, <1>3, CallStays DEF CallsKeepPhase
<1> QED
  BY <1>2, <1>3

LEMMA LeaderQuiet ==
    ASSUME TypeOK, TypeOK', NEW L \in Node, LeaderInv(L), Authority(L)',
           UNCHANGED <<log, commitIndex, applied, panicked>>,
           NEW S, BagToSet(requests') \subseteq BagToSet(requests) \cup S,
           \A req \in S : RequestOf(L, req)',
           NEW T, BagToSet(responses') \subseteq BagToSet(responses) \cup T,
           \A resp \in T : ResponseTrue(resp)',
           IndexesTrue(L)', CallsKeepPhase
    PROVE  LeaderInv(L)'
<1>1. Grown(L)
  BY GrownUnchanged
<1>2. CommitHeld(L)'
  BY <1>1, GrownHeld DEF LeaderInv
<1>3. Len(applied[L]) <= Len(applied'[L])
  BY LogTypes
<1>4. \A p \in Proposal : CallPlaced(L, p)'
  BY <1>1, <1>3, CallsStay
<1> QED
  BY <1>1, <1>2, <1>4, LeaderFrame

LEMMA IndexesStay ==
    ASSUME TypeOK, TypeOK', NEW L \in Node, LeaderInv(L), Grown(L),
           UNCHANGED <<matchIndex, nextIndex>>, Begun(L)' => Begun(L)
    PROVE  IndexesTrue(L)'
BY GrownIndexes DEF LeaderInv

-----------------------------------------------------------------------------
(* The steps that leave the logs alone.                                    *)

LEMMA LeaderElections ==
    ASSUME TypeOK, TypeOK', NEW L \in Node, LeaderInv(L), Sole(L)', Elections
    PROVE  LeaderInv(L)'
<1>1. /\ UNCHANGED <<isLeader, log, commitIndex, applied, panicked, nextIndex, matchIndex>>
      /\ UNCHANGED <<ran, requests, responses, phase, at, target>>
  BY DEF Elections, raftVars, netVars, callVars
<1>2. \A call \in calls' : call.leader = L
  <2>1. ASSUME NEW n \in Node, NEW t \in Term, Win(n, t) PROVE \A call \in calls' : call.leader = L
    <3>1. n = L
      <4>1. PICK v : v = [leader |-> n, term |-> t]
        OBVIOUS
      <4>2. v \in won' /\ v.leader = n
        BY <2>1, <4>1 DEF Win
      <4> QED
        BY <4>2 DEF Sole
    <3> QED
      BY <2>1, <3>1 DEF Win, LeaderInv, Authority
  <2>2. ASSUME NEW n \in Node, NEW w \in won, Hear(n, w) PROVE \A call \in calls' : call.leader = L
    <3>1. w.leader = L
      BY <2>2 DEF Hear, Sole
    <3> QED
      BY <2>2, <3>1 DEF Hear, LeaderInv, Authority
  <2> QED
    BY <2>1, <2>2 DEF Elections, LeadershipNext
<1>3. Begun(L)' <=> Begun(L)
  BY <1>1 DEF Begun
<1>4. Authority(L)'
  BY <1>1, <1>2, <1>3 DEF LeaderInv, Authority
<1>5. IndexesTrue(L)'
  BY <1>1, <1>3, GrownUnchanged, IndexesStay
<1>6. CallsKeepPhase
  BY <1>1 DEF CallsKeepPhase
<1>7. PICK S : S = {}
  OBVIOUS
<1> QED
  BY <1>1, <1>4, <1>5, <1>6, <1>7, LeaderQuiet

LEMMA LeaderCallback ==
    ASSUME TypeOK, TypeOK', NEW L \in Node, LeaderInv(L), NEW call \in calls, Callback(call)
    PROVE  LeaderInv(L)'
<1>1. /\ UNCHANGED <<won, calls, log, commitIndex, applied, panicked>>
      /\ UNCHANGED <<requests, responses, phase, at, target>>
      /\ ran' = ran \cup {call}
  BY DEF Callback, leadershipVars, netVars, callVars
<1>2. call.leader = L /\ call.at \in Node
  BY DEF LeaderInv, Authority, TypeOK, Call
<1>3. Begun(L) => Begun(L)'
  BY <1>1 DEF Begun
<1>4. CallsKeepPhase
  BY <1>1 DEF CallsKeepPhase
<1>5. PICK S : S = {}
  OBVIOUS
<1>6. CASE BecomeLeader(call)
  <2>1. call.at = L /\ Begun(L)'
    BY <1>1, <1>2, <1>6 DEF BecomeLeader, Begun
  <2>2. \A n \in Node : isLeader'[n] => isLeader[n] \/ n = L
    BY <1>6, <2>1 DEF BecomeLeader, TypeOK
  <2>3. Authority(L)'
    BY <1>1, <2>1, <2>2 DEF LeaderInv, Authority
  <2>4. \A m \in Node : matchIndex'[L][m] = 0 /\ nextIndex'[L][m] = Len(log[L]) + 1
    BY <1>6, <2>1 DEF BecomeLeader, TypeOK
  <2>5. IndexesTrue(L)'
    BY <1>1, <2>4, LogTypes DEF IndexesTrue
  <2> QED
    BY <1>1, <1>4, <1>5, <2>3, <2>5, LeaderQuiet
<1>7. CASE BecomeFollower(call)
  <2>1. Begun(L)' => Begun(L)
    BY <1>1, <1>2, <1>7 DEF BecomeFollower, Begun
  <2>2. \A n \in Node : isLeader'[n] => isLeader[n]
    BY <1>2, <1>7 DEF BecomeFollower, TypeOK
  <2>3. Authority(L)'
    BY <1>1, <1>3, <2>2 DEF LeaderInv, Authority
  <2>4. UNCHANGED <<matchIndex, nextIndex>>
    BY <1>7 DEF BecomeFollower
  <2>5. IndexesTrue(L)'
    BY <1>1, <2>1, <2>4, GrownUnchanged, IndexesStay
  <2> QED
    BY <1>1, <1>4, <1>5, <2>3, <2>5, LeaderQuiet
<1> QED
  BY <1>6, <1>7 DEF Callback

(* What L sends is a slice of its log, as far as nextIndex is within it.   *)
LEMMA LeaderRequest ==
    ASSUME TypeOK, NEW L \in Node, LeaderInv(L), NEW f \in Node, NEW next \in Nat \ {0},
           next <= Len(log[L]) + 1,
           NEW r, r = AppendEntries(L, f, next)
    PROVE  RequestOf(L, r)
<1>1. /\ r.prevIndex = next - 1 /\ r.commit = commitIndex[L]
      /\ r.prevIndex \in DOMAIN log[L] => r.prevTerm = log[L][r.prevIndex].term
      /\ \A i \in DOMAIN r.entries :
            /\ r.prevIndex + i \in DOMAIN log[L]
            /\ r.entries[i] = log[L][r.prevIndex + i]
  BY AppendEntriesFacts
<1>2. Len(log[L]) \in Nat /\ DOMAIN log[L] = 1..Len(log[L]) /\ commitIndex[L] \in Nat
  BY LogTypes
<1>3. r.prevIndex <= Len(log[L]) /\ (r.prevIndex # 0 => r.prevIndex \in DOMAIN log[L])
  BY <1>1, <1>2
<1> QED
  BY <1>1, <1>2, <1>3 DEF RequestOf

LEMMA LeaderSend ==
    ASSUME TypeOK, TypeOK', NEW L \in Node, LeaderInv(L), NEW p \in Proposal,
           sendAppendEntriesToAll(p)
    PROVE  LeaderInv(L)'
<1>1. at[p] = L /\ Begun(L)
  BY DEF sendAppendEntriesToAll, LeaderInv, Authority
<1>2. /\ UNCHANGED <<won, calls, ran, isLeader, log, commitIndex, applied, panicked>>
      /\ UNCHANGED <<nextIndex, matchIndex, responses, at, target>>
  BY DEF sendAppendEntriesToAll, leadershipVars, raftVars
<1> DEFINE S == {AppendEntries(L, f, nextIndex[L][f]) : f \in Peers(L)}
<1>3. BagToSet(requests') = BagToSet(requests) \cup S
  BY <1>1, BagCupFacts DEF sendAppendEntriesToAll, TypeOK
<1>4. ASSUME NEW r \in S PROVE RequestOf(L, r)'
  <2>1. PICK f \in Node : r = AppendEntries(L, f, nextIndex[L][f])
    BY DEF Peers
  <2>2. PICK next \in Nat \ {0} : next = nextIndex[L][f]
    BY LogTypes
  <2>3. next <= Len(log[L]) + 1
    BY <1>1, <2>2 DEF LeaderInv, IndexesTrue
  <2>4. RequestOf(L, r)
    BY <2>1, <2>2, <2>3, LeaderRequest
  <2> QED
    BY <1>2, <2>4 DEF RequestOf
<1>5. \A q \in Proposal : \/ phase'[q] = phase[q]
                          \/ phase[q] = "sending" /\ phase'[q] = "waiting"
                          \/ phase[q] = "notifying" /\ phase'[q] = "committed"
  BY DEF sendAppendEntriesToAll, TypeOK
<1>6. CallsKeepPhase
  BY <1>2, <1>5 DEF CallsKeepPhase
<1>7. Begun(L)' <=> Begun(L)
  BY <1>2 DEF Begun
<1>8. Authority(L)'
  <2>1. \A q \in Proposal : phase'[q] # "idle" => phase[q] # "idle"
    BY <1>5
  <2> QED
    BY <1>2, <1>7, <2>1 DEF LeaderInv, Authority
<1>9. IndexesTrue(L)'
  BY <1>2, <1>7, GrownUnchanged, IndexesStay
<1>10. PICK T : T = {}
  OBVIOUS
<1> HIDE DEF S
<1> QED
  BY <1>2, <1>3, <1>4, <1>6, <1>8, <1>9, <1>10, LeaderQuiet

LEMMA LeaderWait ==
    ASSUME TypeOK, TypeOK', NEW L \in Node, LeaderInv(L), NEW p \in Proposal,
           Panic(p) \/ NotYet(p) \/ Timeout(p)
    PROVE  LeaderInv(L)'
<1>1. CASE Panic(p)
  <2>1. at[p] = L
    BY <1>1 DEF Panic, LeaderInv, Authority
  <2>2. commitIndex[L] <= Len(log[L]) /\ commitIndex[L] \in Nat /\ Len(log[L]) \in Nat
    BY LogTypes DEF LeaderInv, CommitUnder
  <2>3. FALSE
    BY <1>1, <2>1, <2>2 DEF Panic, OutOfRange
  <2> QED
    BY <2>3
<1>2. CASE NotYet(p) \/ Timeout(p)
  <2>1. /\ UNCHANGED <<won, calls, ran, isLeader, log, commitIndex, applied, panicked>>
        /\ UNCHANGED <<nextIndex, matchIndex, requests, responses, at, target>>
    BY <1>2 DEF NotYet, Timeout, leadershipVars, raftVars, netVars
  <2>2. \A q \in Proposal : \/ phase'[q] = phase[q]
                            \/ /\ phase[q] # "idle"
                               /\ phase'[q] \notin {"idle", "notifying", "committed"}
    BY <1>2 DEF NotYet, Timeout, TypeOK
  <2>3. CallsKeepPhase
    BY <2>1, <2>2 DEF CallsKeepPhase
  <2>4. Begun(L)' <=> Begun(L)
    BY <2>1 DEF Begun
  <2>5. Authority(L)'
    BY <2>1, <2>2, <2>4 DEF LeaderInv, Authority
  <2>6. IndexesTrue(L)'
    BY <2>1, <2>4, GrownUnchanged, IndexesStay
  <2>7. PICK S : S = {}
    OBVIOUS
  <2> QED
    BY <2>1, <2>3, <2>5, <2>6, <2>7, LeaderQuiet
<1> QED
  BY <1>1, <1>2

LEMMA LeaderCommitted ==
    ASSUME TypeOK, TypeOK', NEW L \in Node, LeaderInv(L), NEW p \in Proposal, Committed(p)
    PROVE  LeaderInv(L)'
<1>1. at[p] = L
  BY DEF Committed, LeaderInv, Authority
<1>2. /\ UNCHANGED <<won, calls, ran, isLeader, log, commitIndex, panicked>>
      /\ UNCHANGED <<nextIndex, matchIndex, requests, responses, at, target>>
  BY DEF Committed, leadershipVars, netVars
<1>3. PICK old \in Seq(Entry) : old = applied[L]
  BY LogTypes
<1>4. PICK l \in Seq(Entry) : l = log[L]
  BY LogTypes
<1>5. PICK i \in Nat : i = commitIndex[L]
  BY LogTypes
<1>6. PICK a : a = old \o SubSeq(l, Len(old) + 1, i)
  OBVIOUS
<1>7. applied' = [applied EXCEPT ![L] = a]
  BY <1>1, <1>3, <1>4, <1>5, <1>6 DEF Committed, Unapplied
<1>8. i <= Len(l) /\ IsPrefixOf(old, l) /\ Len(old) <= i
  BY <1>3, <1>4, <1>5 DEF LeaderInv, CommitUnder, AppliedUnder
<1>9. /\ a \in Seq(Entry)
      /\ Len(a) = IF i > Len(old) THEN i ELSE Len(old)
      /\ \A j \in DOMAIN a : a[j] = IF j <= Len(old) THEN old[j] ELSE l[j]
  BY <1>6, <1>8, ApplyFacts
<1>10. Len(a) = i /\ IsPrefixOf(a, l)
  <2>1. Len(a) = i
    BY <1>8, <1>9
  <2>2. ASSUME NEW j \in DOMAIN a PROVE a[j] = l[j]
    BY <1>8, <1>9, <2>2 DEF IsPrefixOf
  <2> QED
    BY <1>8, <2>1, <2>2 DEF IsPrefixOf
<1>11. applied'[L] = a /\ \A m \in Node : m # L => applied'[m] = applied[m]
  BY <1>7 DEF TypeOK
<1>12. ASSUME NEW m \in Node PROVE applied'[m] = applied[m] \/ AppliedUnder(m)'
  <2>1. CASE m = L
    <3>1. Len(a) <= i
      BY <1>10
    <3>2. applied'[m] = a /\ log'[m] = l /\ commitIndex'[m] = i
      BY <1>2, <1>4, <1>5, <1>11, <2>1
    <3> QED
      BY <1>10, <3>1, <3>2 DEF AppliedUnder
  <2> QED
    BY <1>11, <2>1
<1>13. Grown(L)
  BY <1>2, GrownUnchanged
<1>14. Begun(L)' <=> Begun(L)
  BY <1>2 DEF Begun
<1>15. phase' = [phase EXCEPT ![p] = "notifying"] /\ phase[p] = "checking" /\ i >= target[p]
  BY <1>1, <1>5 DEF Committed
<1>16. Authority(L)'
  <2>1. \A q \in Proposal : phase'[q] # "idle" => phase[q] # "idle"
    BY <1>15 DEF TypeOK
  <2> QED
    BY <1>2, <1>14, <2>1 DEF LeaderInv, Authority
<1>17. IndexesTrue(L)'
  BY <1>2, <1>13, <1>14, IndexesStay
<1>18. ASSUME NEW q \in Proposal PROVE CallPlaced(L, q)'
  <2>0. CallPlaced(L, q)
    BY DEF LeaderInv
  <2>1. Len(old) <= Len(a) /\ Len(old) \in Nat /\ Len(a) \in Nat
    BY <1>8, <1>10
  <2>2. CASE q = p
    <3>1. phase'[q] = "notifying" /\ target'[q] = target[q] /\ target[q] \in Nat
      BY <1>2, <1>15, <2>2 DEF TypeOK
    <3>2. target[q] \in DOMAIN log[L] /\ log[L][target[q]].proposal = q
      BY <1>15, <2>0, <2>2 DEF CallPlaced
    <3>3. target[q] <= Len(a)
      BY <1>10, <1>15, <2>2, <3>1
    <3> QED
      BY <1>2, <1>11, <3>1, <3>2, <3>3 DEF CallPlaced
  <2>3. CASE q # p
    <3>1. phase'[q] = phase[q] /\ target'[q] = target[q] /\ target[q] \in Nat
      BY <1>2, <1>15, <2>3 DEF TypeOK
    <3>2. phase[q] \in {"notifying", "committed"} => target[q] <= Len(a)
      BY <1>3, <2>0, <2>1, <3>1 DEF CallPlaced
    <3> QED
      BY <1>2, <1>11, <2>0, <3>1, <3>2 DEF CallPlaced
  <2> QED
    BY <2>2, <2>3
<1>19. CommitHeld(L)'
  BY <1>2, <1>13, GrownHeld DEF LeaderInv
<1>20. PICK S : S = {}
  OBVIOUS
<1>21. /\ BagToSet(requests') \subseteq BagToSet(requests) \cup S
       /\ BagToSet(responses') \subseteq BagToSet(responses) \cup S
       /\ panicked' = panicked
  BY <1>2
<1>22. (\A r \in S : RequestOf(L, r)') /\ \A r \in S : ResponseTrue(r)'
  BY <1>20
<1>23. \A m \in Node : applied'[m] = applied[m] \/ AppliedUnder(m)'
  BY <1>12
<1>24. \A q \in Proposal : CallPlaced(L, q)'
  BY <1>18
<1> QED
  BY <1>13, <1>16, <1>17, <1>19, <1>21, <1>22, <1>23, <1>24, LeaderFrame

(* A commitment rests on what a majority of the followers have reported.   *)
LEMMA CommitOnMajority ==
    ASSUME TypeOK, NEW L \in Node, NEW match \in [Node -> Nat],
           \A m \in Node : match[m] <= Len(log[m]),
           NEW i \in Committable(L, match)
    PROVE  /\ i \in Nat /\ commitIndex[L] < i /\ i <= Len(log[L])
           /\ Cardinality(HoldersOf(i)) >= Majority
<1>1. commitIndex[L] \in Nat /\ Len(log[L]) \in Nat
  BY LogTypes
<1>2. /\ i \in Nat /\ commitIndex[L] < i /\ i <= Len(log[L])
      /\ Cardinality(Holders(L, i, match)) >= Majority
  BY <1>1 DEF Committable
<1>3. Holders(L, i, match) \subseteq HoldersOf(i)
  <2>1. ASSUME NEW f \in Peers(L), match[f] >= i PROVE i <= Len(log[f])
    <3>1. f \in Node /\ match[f] \in Nat /\ Len(log[f]) \in Nat
      BY LogTypes DEF Peers
    <3> QED
      BY <1>2, <2>1, <3>1
  <2> QED
    BY <1>2, <2>1 DEF Holders, HoldersOf, Peers
<1>4. IsFiniteSet(HoldersOf(i)) /\ IsFiniteSet(Holders(L, i, match))
  <2>1. HoldersOf(i) \subseteq Node
    BY DEF HoldersOf
  <2> QED
    BY <1>3, <2>1, NodeAssumption, Subsets
<1>5. Cardinality(Holders(L, i, match)) <= Cardinality(HoldersOf(i))
  BY <1>3, <1>4, Subsets
<1>6. /\ Cardinality(Holders(L, i, match)) \in Nat /\ Cardinality(HoldersOf(i)) \in Nat
      /\ Majority \in Nat
  BY <1>4, NodeAssumption, Sizes DEF Majority
<1> QED
  BY <1>2, <1>5, <1>6

-----------------------------------------------------------------------------
(* The steps that make a log longer or commit.                             *)

LEMMA LeaderAppend ==
    ASSUME TypeOK, TypeOK', NEW L \in Node, LeaderInv(L), NEW p \in Proposal, NEW n \in Node,
           AppendEntry(p, n)
    PROVE  LeaderInv(L)' /\ Grown(L)
<1>1. n = L /\ Begun(L)
  BY DEF AppendEntry, LeaderInv, Authority
<1>2. /\ UNCHANGED <<won, calls, ran, isLeader, commitIndex, applied, panicked>>
      /\ UNCHANGED <<nextIndex, matchIndex, requests, responses>>
  BY DEF AppendEntry, leadershipVars, netVars
<1>3. PICK l \in Seq(Entry) : l = log[L]
  BY LogTypes
<1>4. PICK e : e = [term |-> currentTerm[L], index |-> Len(l) + 1, proposal |-> p]
  OBVIOUS
<1>5. PICK k : k = Append(l, e)
  OBVIOUS
<1>6. /\ log' = [log EXCEPT ![L] = k]
      /\ phase[p] = "idle" /\ phase' = [phase EXCEPT ![p] = "sending"]
      /\ at' = [at EXCEPT ![p] = L] /\ target' = [target EXCEPT ![p] = Len(l) + 1]
  BY <1>1, <1>3, <1>4, <1>5 DEF AppendEntry
<1>7. e \in Entry /\ e.proposal = p
  <2>1. currentTerm[L] \in Nat
    BY DEF TypeOK
  <2>2. Len(l) + 1 \in Nat \ {0}
    OBVIOUS
  <2> QED
    BY <1>4, <2>1, <2>2 DEF Entry
<1>8. /\ k \in Seq(Entry) /\ Len(l) \in Nat /\ Len(k) = Len(l) + 1
      /\ \A i \in 1..Len(l) : k[i] = l[i]
      /\ k[Len(l) + 1] = e
  BY <1>5, <1>7
<1>9. IsPrefixOf(l, k)
  BY <1>8 DEF IsPrefixOf
<1>10. log'[L] = k /\ \A m \in Node : m # L => log'[m] = log[m]
  BY <1>6 DEF TypeOK
<1>11. Grown(L)
  <2> SUFFICES ASSUME NEW m \in Node
               PROVE  /\ IsPrefixOf(log[m], log'[m]) /\ IsPrefixOf(log'[m], k)
                      /\ commitIndex[m] <= commitIndex[m] /\ commitIndex[m] <= Len(log'[m])
                      /\ commitIndex[m] <= commitIndex[L]
    BY <1>2, <1>10 DEF Grown
  <2>1. PICK s \in Seq(Entry) : s = log[m]
    BY LogTypes
  <2>2. PICK c \in Nat : c = commitIndex[m]
    BY LogTypes
  <2>3. IsPrefixOf(s, l) /\ c <= Len(s) /\ c <= commitIndex[L]
    BY <1>3, <2>1, <2>2 DEF LeaderInv, LogUnder, CommitUnder
  <2>4. CASE m = L
    <3>1. log'[m] = k /\ s = l
      BY <1>3, <1>10, <2>1, <2>4
    <3>2. IsPrefixOf(k, k) /\ c <= Len(k)
      BY <1>8, <2>3, <3>1, PrefixReflexive
    <3> QED
      BY <1>9, <2>1, <2>2, <2>3, <3>1, <3>2
  <2>5. CASE m # L
    <3>1. log'[m] = s
      BY <1>10, <2>1, <2>5
    <3>2. IsPrefixOf(s, s) /\ IsPrefixOf(s, k)
      BY <1>8, <1>9, <2>3, PrefixReflexive, PrefixTransitive
    <3> QED
      BY <2>1, <2>2, <2>3, <3>1, <3>2
  <2> QED
    BY <2>4, <2>5
<1>12. Begun(L)' <=> Begun(L)
  BY <1>2 DEF Begun
<1>13. Authority(L)'
  <2>1. ASSUME NEW q \in Proposal, phase'[q] # "idle"
        PROVE  at'[q] = L \/ (phase[q] # "idle" /\ at'[q] = at[q])
    BY <1>6, <2>1 DEF TypeOK
  <2> QED
    BY <1>1, <1>2, <1>12, <2>1 DEF LeaderInv, Authority
<1>14. IndexesTrue(L)'
  BY <1>2, <1>11, <1>12, IndexesStay
<1>15. CommitHeld(L)'
  BY <1>2, <1>11, GrownHeld DEF LeaderInv
<1>16. ASSUME NEW q \in Proposal PROVE CallPlaced(L, q)'
  <2>1. CASE q = p
    <3>1. phase'[q] = "sending" /\ target'[q] = Len(l) + 1
      BY <1>6, <2>1 DEF TypeOK
    <3>2. Len(l) + 1 \in DOMAIN k /\ k[Len(l) + 1].proposal = q
      BY <1>7, <1>8, <2>1
    <3> QED
      BY <1>10, <3>1, <3>2 DEF CallPlaced
  <2>2. CASE q # p
    <3>1. phase'[q] = phase[q] /\ target'[q] = target[q]
      BY <1>6, <2>2 DEF TypeOK
    <3>2. Len(applied[L]) <= Len(applied'[L])
      BY <1>2, LogTypes
    <3>3. CASE phase[q] = "idle"
      BY <3>1, <3>3 DEF CallPlaced
    <3>4. CASE phase[q] # "idle"
      BY <1>11, <3>1, <3>2, <3>4, CallStays DEF LeaderInv
    <3> QED
      BY <3>3, <3>4
  <2> QED
    BY <2>1, <2>2
<1>17. PICK S : S = {}
  OBVIOUS
<1>18. /\ BagToSet(requests') \subseteq BagToSet(requests) \cup S
       /\ BagToSet(responses') \subseteq BagToSet(responses) \cup S
       /\ panicked' = panicked
  BY <1>2
<1>19. (\A r \in S : RequestOf(L, r)') /\ \A r \in S : ResponseTrue(r)'
  BY <1>17
<1>20. \A m \in Node : applied'[m] = applied[m] \/ AppliedUnder(m)'
  BY <1>2
<1>21. \A q \in Proposal : CallPlaced(L, q)'
  BY <1>16
<1>22. LeaderInv(L)'
  BY <1>11, <1>13, <1>14, <1>15, <1>18, <1>19, <1>20, <1>21, LeaderFrame
<1> QED
  BY <1>11, <1>22

(* L believes a follower, and commits what a majority of them has.         *)
LEMMA LeaderReplicated ==
    ASSUME TypeOK, TypeOK', NEW L \in Node, LeaderInv(L), Begun(L),
           NEW resp \in Response, ResponseTrue(resp), Replicated(L, resp),
           UNCHANGED <<log, applied>>
    PROVE  Grown(L) /\ IndexesTrue(L)' /\ CommitHeld(L)'
<1>1. resp.success /\ resp.follower \in Node /\ resp.match \in Nat
  BY DEF Replicated, Response
<1>2. PICK f \in Node : f = resp.follower
  BY <1>1
<1>3. PICK r \in Nat : r = resp.match
  BY <1>1
<1>4. PICK match : match = [matchIndex[L] EXCEPT ![f] = r]
  OBVIOUS
<1>5. r <= Len(log[f])
  BY <1>1, <1>2, <1>3 DEF ResponseTrue
<1>6. match \in [Node -> Nat] /\ \A m \in Node : match[m] <= Len(log[m])
  <2>1. matchIndex[L] \in [Node -> Nat] /\ \A m \in Node : matchIndex[L][m] <= Len(log[m])
    BY DEF TypeOK, LeaderInv, IndexesTrue
  <2> QED
    BY <1>4, <1>5, <2>1
<1>7. PICK c \in Nat : c = commitIndex[L]
  BY LogTypes
<1>8. PICK ready : ready = Committable(L, match)
  OBVIOUS
<1>9. /\ matchIndex' = [matchIndex EXCEPT ![L] = match]
      /\ nextIndex' = [nextIndex EXCEPT ![L][f] = r + 1]
      /\ ready = {} => commitIndex' = commitIndex
      /\ ready # {} => \E i \in ready : commitIndex' = [commitIndex EXCEPT ![L] = i]
  BY <1>2, <1>3, <1>4, <1>8 DEF Replicated
<1>10. IndexesTrue(L)'
  <2> SUFFICES ASSUME NEW m \in Node
               PROVE  matchIndex'[L][m] <= Len(log[m]) /\ nextIndex'[L][m] <= Len(log[L]) + 1
    BY DEF IndexesTrue
  <2>1. matchIndex'[L] = match
    BY <1>9 DEF TypeOK
  <2>2. nextIndex'[L][m] = IF m = f THEN r + 1 ELSE nextIndex[L][m]
    BY <1>9 DEF TypeOK
  <2>3. nextIndex[L][m] <= Len(log[L]) + 1
    BY DEF LeaderInv, IndexesTrue
  <2>4. Len(log[f]) <= Len(log[L])
    BY DEF LeaderInv, LogUnder, IsPrefixOf
  <2>5. Len(log[f]) \in Nat /\ Len(log[L]) \in Nat
    BY LogTypes
  <2>6. r + 1 <= Len(log[L]) + 1
    BY <1>5, <2>4, <2>5
  <2> QED
    BY <1>6, <2>1, <2>2, <2>3, <2>6
<1>11. CASE ready = {}
  <2>1. Grown(L)
    BY <1>9, <1>11, GrownUnchanged
  <2>2. CommitHeld(L)'
    BY <1>9, <1>11, <2>1, GrownHeld DEF LeaderInv
  <2> QED
    BY <1>10, <2>1, <2>2
<1>12. CASE ready # {}
  <2>1. PICK i \in ready : commitIndex' = [commitIndex EXCEPT ![L] = i]
    BY <1>9, <1>12
  <2>2. /\ i \in Nat /\ c < i /\ i <= Len(log[L])
        /\ Cardinality(HoldersOf(i)) >= Majority
    BY <1>6, <1>7, <1>8, CommitOnMajority
  <2>3. commitIndex'[L] = i /\ \A m \in Node : m # L => commitIndex'[m] = commitIndex[m]
    BY <2>1 DEF TypeOK
  <2>4. Grown(L)
    <3> SUFFICES ASSUME NEW m \in Node
                 PROVE  /\ IsPrefixOf(log[m], log[m]) /\ IsPrefixOf(log[m], log[L])
                        /\ commitIndex[m] <= commitIndex'[m]
                        /\ commitIndex'[m] <= Len(log[m])
                        /\ commitIndex'[m] <= i
      BY <2>3 DEF Grown
    <3>1. IsPrefixOf(log[m], log[m]) /\ IsPrefixOf(log[m], log[L])
      BY LogTypes, PrefixReflexive DEF LeaderInv, LogUnder
    <3>2. /\ commitIndex[m] \in Nat /\ commitIndex[m] <= c
          /\ commitIndex[m] <= Len(log[m])
      BY <1>7, LogTypes DEF LeaderInv, CommitUnder
    <3>3. CASE m = L
      BY <1>7, <2>2, <2>3, <3>1, <3>2, <3>3
    <3>4. CASE m # L
      BY <2>2, <2>3, <3>1, <3>2, <3>4
    <3> QED
      BY <3>3, <3>4
  <2>5. CommitHeld(L)'
    <3>1. HoldersOf(i) = {m \in Node : i <= Len(log'[m])}
      BY DEF HoldersOf
    <3> QED
      BY <2>2, <2>3, <3>1 DEF CommitHeld, HoldersOf, Majority
  <2> QED
    BY <1>10, <2>4, <2>5
<1> QED
  BY <1>11, <1>12

(* The caller of ProposeEntry at L handles a response.                     *)
LEMMA LeaderResponse ==
    ASSUME TypeOK, TypeOK', NEW L \in Node, LeaderInv(L), NEW p \in Proposal,
           NEW resp \in BagToSet(responses), handleAppendEntriesResponse(p, resp)
    PROVE  LeaderInv(L)' /\ Grown(L)
<1>1. at[p] = L /\ Begun(L)
  BY DEF handleAppendEntriesResponse, LeaderInv, Authority
<1>2. /\ UNCHANGED <<won, calls, ran, log, applied, panicked, at, target>>
      /\ phase[p] = "waiting" /\ phase' = [phase EXCEPT ![p] = "checking"]
  BY DEF handleAppendEntriesResponse, leadershipVars
<1>3. resp \in Response /\ ResponseTrue(resp)
  BY DEF TypeOK, LeaderInv
<1>4. BagToSet(responses') \subseteq BagToSet(responses)
  BY BagRemoveFacts DEF handleAppendEntriesResponse, TypeOK
<1>5. \A q \in Proposal : \/ phase'[q] = phase[q]
                          \/ phase[q] = "waiting" /\ phase'[q] = "checking"
  BY <1>2 DEF TypeOK
<1>6. CallsKeepPhase
  BY <1>2, <1>5 DEF CallsKeepPhase
<1>7. Begun(L)' <=> Begun(L)
  BY <1>2 DEF Begun
<1>8. ASSUME \A n \in Node : isLeader'[n] => isLeader[n] PROVE Authority(L)'
  <2>1. \A q \in Proposal : phase'[q] # "idle" => phase[q] # "idle"
    BY <1>5
  <2> QED
    BY <1>2, <1>7, <1>8, <2>1 DEF LeaderInv, Authority
<1>9. PICK T : T = {}
  OBVIOUS
<1>10. (\A r \in T : RequestOf(L, r)') /\ \A r \in T : ResponseTrue(r)'
  BY <1>9
<1>11. BagToSet(responses') \subseteq BagToSet(responses) \cup T
  BY <1>4
<1>12. CASE StepDown(L, resp)
  <2>1. UNCHANGED <<commitIndex, nextIndex, matchIndex, requests>>
    BY <1>12 DEF StepDown
  <2>2. \A n \in Node : isLeader'[n] => isLeader[n]
    BY <1>12 DEF StepDown, TypeOK
  <2>3. Authority(L)'
    BY <1>8, <2>2
  <2>4. Grown(L)
    BY <1>2, <2>1, GrownUnchanged
  <2>5. IndexesTrue(L)'
    BY <1>7, <2>1, <2>4, IndexesStay
  <2>6. BagToSet(requests') \subseteq BagToSet(requests) \cup T
    BY <2>1
  <2>7. UNCHANGED <<log, commitIndex, applied, panicked>>
    BY <1>2, <2>1
  <2>8. LeaderInv(L)'
    BY <1>6, <1>10, <1>11, <2>3, <2>5, <2>6, <2>7, LeaderQuiet
  <2> QED
    BY <2>4, <2>8
<1>13. CASE Replicated(L, resp)
  <2>1. UNCHANGED <<isLeader, requests>>
    BY <1>13 DEF Replicated
  <2>2. Authority(L)'
    BY <1>8, <2>1
  <2>3. Grown(L) /\ IndexesTrue(L)' /\ CommitHeld(L)'
    BY <1>1, <1>2, <1>3, <1>13, LeaderReplicated
  <2>4. BagToSet(requests') \subseteq BagToSet(requests) \cup T
    BY <2>1
  <2>5. Len(applied[L]) <= Len(applied'[L])
    BY <1>2, LogTypes
  <2>6. \A q \in Proposal : CallPlaced(L, q)'
    BY <1>6, <2>3, <2>5, CallsStay
  <2>7. /\ \A m \in Node : applied'[m] = applied[m] \/ AppliedUnder(m)'
        /\ panicked' = panicked
    BY <1>2
  <2>8. LeaderInv(L)'
    BY <1>10, <1>11, <2>2, <2>3, <2>4, <2>6, <2>7, LeaderFrame
  <2> QED
    BY <2>3, <2>8
<1>14. CASE Retry(L, resp)
  <2>1. PICK f \in Node : f = resp.follower
    BY <1>3 DEF Response
  <2>2. PICK now \in Nat \ {0} : now = nextIndex[L][f]
    BY LogTypes
  <2>3. PICK next \in Nat \ {0} : next = IF now > 1 THEN now - 1 ELSE 1
    OBVIOUS
  <2>4. next <= Len(log[L]) + 1
    <3>1. now <= Len(log[L]) + 1
      BY <1>1, <2>2 DEF LeaderInv, IndexesTrue
    <3>2. Len(log[L]) \in Nat
      BY LogTypes
    <3> QED
      BY <2>3, <3>1, <3>2
  <2>5. PICK r : r = AppendEntries(L, f, next)
    OBVIOUS
  <2>6. /\ nextIndex' = [nextIndex EXCEPT ![L][f] = next]
        /\ requests' = BagAdd(requests, r)
        /\ UNCHANGED <<isLeader, commitIndex, matchIndex>>
    BY <1>14, <2>1, <2>2, <2>3, <2>5 DEF Retry
  <2>7. PICK S : S = {r}
    OBVIOUS
  <2>8. BagToSet(requests') \subseteq BagToSet(requests) \cup S
    BY <2>6, <2>7, BagAddFacts DEF TypeOK
  <2>9. RequestOf(L, r)
    BY <2>4, <2>5, LeaderRequest
  <2>10. \A req \in S : RequestOf(L, req)'
    BY <1>2, <2>6, <2>7, <2>9 DEF RequestOf
  <2>11. Authority(L)'
    BY <1>8, <2>6
  <2>12. Grown(L)
    BY <1>2, <2>6, GrownUnchanged
  <2>13. IndexesTrue(L)'
    <3> SUFFICES ASSUME NEW m \in Node
                 PROVE  matchIndex'[L][m] <= Len(log'[m]) /\ nextIndex'[L][m] <= Len(log'[L]) + 1
      BY DEF IndexesTrue
    <3>1. nextIndex'[L][m] = IF m = f THEN next ELSE nextIndex[L][m]
      BY <2>6 DEF TypeOK
    <3>2. matchIndex[L][m] <= Len(log[m]) /\ nextIndex[L][m] <= Len(log[L]) + 1
      BY <1>1 DEF LeaderInv, IndexesTrue
    <3> QED
      BY <1>2, <2>4, <2>6, <3>1, <3>2
  <2>14. UNCHANGED <<log, commitIndex, applied, panicked>>
    BY <1>2, <2>6
  <2>15. LeaderInv(L)'
    BY <1>6, <1>10, <1>11, <2>8, <2>10, <2>11, <2>13, <2>14, LeaderQuiet
  <2> QED
    BY <2>12, <2>15
<1> QED
  BY <1>1, <1>12, <1>13, <1>14 DEF handleAppendEntriesResponse

(* The log that results from L's request is between the old one and L's.   *)
LEMMA MergeUnder ==
    ASSUME NEW s \in Seq(Entry), NEW k \in Seq(Entry), IsPrefixOf(s, k),
           NEW req \in Request, req.prevIndex <= Len(s), NEW l \in Merge(s, req),
           \A i \in DOMAIN req.entries : /\ req.prevIndex + i \in DOMAIN k
                                         /\ req.entries[i] = k[req.prevIndex + i]
    PROVE  l \in Seq(Entry) /\ IsPrefixOf(s, l) /\ IsPrefixOf(l, k)
<1>1. req.prevIndex \in Nat /\ req.entries \in Seq(Entry)
  BY DEF Request
<1>2. \A i \in DOMAIN s : i \in DOMAIN k /\ s[i] = k[i]
  BY DEF IsPrefixOf
<1>3. /\ l \in Seq(Entry)
      /\ \A j \in DOMAIN l :
            \/ j \in DOMAIN s /\ l[j] = s[j]
            \/ /\ j - req.prevIndex \in DOMAIN req.entries
               /\ l[j] = req.entries[j - req.prevIndex]
      /\ (\A i \in DOMAIN req.entries : req.prevIndex + i \in DOMAIN s
             => s[req.prevIndex + i].term = req.entries[i].term) => IsPrefixOf(s, l)
  BY MergeFacts
<1>4. IsPrefixOf(s, l)
  BY <1>2, <1>3
<1>5. ASSUME NEW j \in DOMAIN l PROVE j \in DOMAIN k /\ l[j] = k[j]
  <2>1. CASE j \in DOMAIN s /\ l[j] = s[j]
    BY <1>2, <2>1
  <2>2. CASE /\ j - req.prevIndex \in DOMAIN req.entries
             /\ l[j] = req.entries[j - req.prevIndex]
    <3>1. j \in Int /\ req.prevIndex + (j - req.prevIndex) = j
      BY <1>1, <1>3
    <3> QED
      BY <2>2, <3>1
  <2> QED
    BY <1>3, <2>1, <2>2
<1>6. Len(l) <= Len(k)
  <2>1. Len(l) \in Nat /\ Len(k) \in Nat /\ DOMAIN l = 1..Len(l) /\ DOMAIN k = 1..Len(k)
    BY <1>3
  <2>2. CASE Len(l) = 0
    BY <2>1, <2>2
  <2>3. CASE Len(l) # 0
    <3>1. Len(l) \in DOMAIN l
      BY <2>1, <2>3
    <3>2. Len(l) \in DOMAIN k
      BY <1>5, <3>1
    <3> QED
      BY <2>1, <3>2
  <2> QED
    BY <2>2, <2>3
<1> QED
  BY <1>3, <1>4, <1>5, <1>6 DEF IsPrefixOf

(* A node accepts a request of L: its log, its commitIndex and its table   *)
(* grow, within L's.                                                       *)
LEMMA AcceptUnder ==
    ASSUME TypeOK, TypeOK', NEW L \in Node, LeaderInv(L), NEW n \in Node,
           NEW req \in BagToSet(requests), RequestOf(L, req), Accept(n, req)
    PROVE  /\ Grown(L)
           /\ commitIndex'[L] = commitIndex[L]
           /\ \A m \in Node : m # n => applied'[m] = applied[m]
           /\ AppliedUnder(n)'
           /\ Len(applied[L]) <= Len(applied'[L])
           /\ Respond(req, req.term, TRUE, Len(log'[n]))
<1>1. req \in Request /\ req.prevIndex \in Nat /\ req.commit \in Nat
  BY DEF TypeOK, Request
<1>2. PICK s \in Seq(Entry) : s = log[n]
  BY LogTypes
<1>3. PICK k \in Seq(Entry) : k = log[L]
  BY LogTypes
<1>4. PICK b \in Nat : b = commitIndex[n]
  BY LogTypes
<1>5. PICK h \in Nat : h = commitIndex[L]
  BY LogTypes
<1>6. PICK old \in Seq(Entry) : old = applied[n]
  BY LogTypes
<1>7. /\ IsPrefixOf(s, k) /\ b <= Len(s) /\ b <= h
      /\ IsPrefixOf(old, s) /\ Len(old) <= b
  BY <1>2, <1>3, <1>4, <1>5, <1>6 DEF LeaderInv, LogUnder, CommitUnder, AppliedUnder
<1>8. PICK l \in Seq(Entry), c \in Nat, a \in Seq(Entry) :
         /\ log' = [log EXCEPT ![n] = l] /\ l \in Merge(log[n], req)
         /\ commitIndex' = [commitIndex EXCEPT ![n] = c] /\ c = CommitAfter(n, req, l)
         /\ applied' = [applied EXCEPT ![n] = a]
         /\ Len(a) = IF c > commitIndex[n] /\ c > Len(applied[n])
                     THEN c ELSE Len(applied[n])
         /\ \A j \in DOMAIN a : a[j] = IF j <= Len(applied[n]) THEN applied[n][j] ELSE l[j]
         /\ Len(a) > Len(applied[n]) => Len(a) <= Len(l)
         /\ Respond(req, req.term, TRUE, Len(l))
  BY AcceptFacts
<1>9. req.prevIndex <= Len(s)
  BY <1>1, <1>2 DEF Accept
<1>10. IsPrefixOf(s, l) /\ IsPrefixOf(l, k)
  <2>1. \A i \in DOMAIN req.entries : /\ req.prevIndex + i \in DOMAIN k
                                      /\ req.entries[i] = k[req.prevIndex + i]
    BY <1>3 DEF RequestOf
  <2>2. l \in Merge(s, req)
    BY <1>2, <1>8
  <2> QED
    BY <1>1, <1>7, <1>9, <2>1, <2>2, MergeUnder
<1>11. Len(s) \in Nat /\ Len(l) \in Nat /\ Len(s) <= Len(l)
  BY <1>10 DEF IsPrefixOf
<1>12. b <= c /\ c <= Len(l) /\ c <= h
  <2>1. req.commit <= h
    BY <1>5 DEF RequestOf
  <2>2. c = IF req.commit <= b THEN b
            ELSE IF req.commit < Len(l) THEN req.commit ELSE Len(l)
    BY <1>4, <1>8 DEF CommitAfter
  <2>3. CASE req.commit <= b
    BY <1>7, <1>11, <2>2, <2>3
  <2>4. CASE ~(req.commit <= b)
    BY <1>1, <1>7, <1>11, <2>1, <2>2, <2>4
  <2> QED
    BY <2>3, <2>4
<1>13. /\ log'[n] = l /\ \A m \in Node : m # n => log'[m] = log[m]
       /\ commitIndex'[n] = c /\ \A m \in Node : m # n => commitIndex'[m] = commitIndex[m]
       /\ applied'[n] = a /\ \A m \in Node : m # n => applied'[m] = applied[m]
  BY <1>8 DEF TypeOK
<1>14. commitIndex'[L] = h
  <2>1. CASE n = L
    BY <1>4, <1>5, <1>12, <1>13, <2>1
  <2>2. CASE n # L
    BY <1>5, <1>13, <2>2
  <2> QED
    BY <2>1, <2>2
<1>15. PICK top \in Seq(Entry) : top = log'[L]
  BY LogTypesNext
<1>16. IsPrefixOf(k, top) /\ IsPrefixOf(l, top)
  <2>1. CASE n = L
    BY <1>2, <1>3, <1>10, <1>13, <1>15, <2>1, PrefixReflexive
  <2>2. CASE n # L
    BY <1>3, <1>10, <1>13, <1>15, <2>2, PrefixReflexive
  <2> QED
    BY <2>1, <2>2
<1>17. Grown(L)
  <2> SUFFICES ASSUME NEW m \in Node
               PROVE  /\ IsPrefixOf(log[m], log'[m]) /\ IsPrefixOf(log'[m], top)
                      /\ commitIndex[m] <= commitIndex'[m]
                      /\ commitIndex'[m] <= Len(log'[m]) /\ commitIndex'[m] <= h
    BY <1>14, <1>15 DEF Grown
  <2>1. CASE m = n
    BY <1>2, <1>4, <1>10, <1>12, <1>13, <1>16, <2>1
  <2>2. CASE m # n
    <3>1. log'[m] = log[m] /\ commitIndex'[m] = commitIndex[m]
      BY <1>13, <2>2
    <3>2. PICK r \in Seq(Entry) : r = log[m]
      BY LogTypes
    <3>3. PICK d \in Nat : d = commitIndex[m]
      BY LogTypes
    <3>4. IsPrefixOf(r, k) /\ d <= Len(r) /\ d <= h
      BY <1>3, <1>5, <3>2, <3>3 DEF LeaderInv, LogUnder, CommitUnder
    <3>5. IsPrefixOf(r, r) /\ IsPrefixOf(r, top)
      BY <1>16, <3>4, PrefixReflexive, PrefixTransitive
    <3> QED
      BY <3>1, <3>2, <3>3, <3>4, <3>5
  <2> QED
    BY <2>1, <2>2
<1>18. IsPrefixOf(old, l)
  BY <1>7, <1>10, PrefixTransitive
<1>19. /\ Len(a) = IF c > b /\ c > Len(old) THEN c ELSE Len(old)
       /\ \A j \in DOMAIN a : a[j] = IF j <= Len(old) THEN old[j] ELSE l[j]
  BY <1>4, <1>6, <1>8
<1>20. /\ Len(old) \in Nat /\ Len(a) \in Nat /\ Len(old) <= Len(a)
       /\ Len(a) <= c /\ Len(a) <= Len(l)
  <2>1. Len(old) \in Nat /\ Len(a) \in Nat /\ Len(l) \in Nat
    OBVIOUS
  <2>2. CASE c > b /\ c > Len(old)
    BY <1>12, <1>19, <2>1, <2>2
  <2>3. CASE ~(c > b /\ c > Len(old))
    BY <1>7, <1>12, <1>19, <2>1, <2>3
  <2> QED
    BY <2>2, <2>3
<1>21. IsPrefixOf(a, l)
  <2>1. ASSUME NEW j \in DOMAIN a PROVE a[j] = l[j]
    <3>1. CASE j <= Len(old)
      <4>1. j \in DOMAIN old
        BY <1>20, <2>1, <3>1
      <4> QED
        BY <1>18, <1>19, <2>1, <3>1, <4>1 DEF IsPrefixOf
    <3>2. CASE ~(j <= Len(old))
      BY <1>19, <2>1, <3>2
    <3> QED
      BY <3>1, <3>2
  <2> QED
    BY <1>20, <2>1 DEF IsPrefixOf
<1>22. AppliedUnder(n)'
  BY <1>13, <1>20, <1>21 DEF AppliedUnder
<1>23. Len(applied[L]) <= Len(applied'[L])
  <2>1. CASE n = L
    BY <1>6, <1>13, <1>20, <2>1
  <2>2. CASE n # L
    BY <1>13, <2>2, LogTypes
  <2> QED
    BY <2>1, <2>2
<1> QED
  BY <1>5, <1>8, <1>13, <1>14, <1>17, <1>22, <1>23

LEMMA LeaderHandle ==
    ASSUME TypeOK, TypeOK', NEW L \in Node, LeaderInv(L), NEW n \in Node,
           NEW req \in BagToSet(requests), HandleAppendEntries(n, req)
    PROVE  LeaderInv(L)' /\ Grown(L)
<1>1. /\ UNCHANGED <<won, calls, ran, isLeader, nextIndex, matchIndex, panicked>>
      /\ UNCHANGED <<phase, at, target>>
      /\ req.to = n
  BY DEF HandleAppendEntries, leadershipVars, callVars
<1>2. RequestOf(L, req) /\ req \in Request
  BY DEF LeaderInv, TypeOK
<1>3. Begun(L)' <=> Begun(L)
  BY <1>1 DEF Begun
<1>4. Authority(L)'
  BY <1>1, <1>3 DEF LeaderInv, Authority
<1>5. CallsKeepPhase
  BY <1>1 DEF CallsKeepPhase
<1>6. PICK S : S = {}
  OBVIOUS
<1>7. \A r \in S : RequestOf(L, r)'
  BY <1>6
<1>8. CASE RejectStale(n, req) \/ RejectShort(n, req)
  <2>1. UNCHANGED <<log, commitIndex, applied, panicked>>
    BY <1>1, <1>8 DEF RejectStale, RejectShort
  <2>2. PICK term, match : Respond(req, term, FALSE, match)
    BY <1>8 DEF RejectStale, RejectShort
  <2>3. PICK resp : resp = [to |-> req.leader, term |-> term, success |-> FALSE,
                            follower |-> req.to, match |-> match]
    OBVIOUS
  <2>4. PICK T : T = {resp}
    OBVIOUS
  <2>5. /\ BagToSet(requests') \subseteq BagToSet(requests) \cup S
        /\ BagToSet(responses') \subseteq BagToSet(responses) \cup T
    <3>1. requests' = BagRemove(requests, req) /\ responses' = BagAdd(responses, resp)
      BY <2>2, <2>3 DEF Respond
    <3>2. IsABag(requests) /\ IsABag(responses)
      BY DEF TypeOK
    <3>3. BagToSet(requests') \subseteq BagToSet(requests)
      BY <3>1, <3>2, BagRemoveFacts
    <3>4. BagToSet(responses') = BagToSet(responses) \cup {resp}
      BY <3>1, <3>2, BagAddFacts
    <3> QED
      BY <2>4, <3>3, <3>4
  <2>6. \A r \in T : ResponseTrue(r)'
    <3>1. \A r \in T : ~r.success
      BY <2>3, <2>4
    <3> QED
      BY <3>1 DEF ResponseTrue
  <2>7. Grown(L)
    BY <2>1, GrownUnchanged
  <2>8. IndexesTrue(L)'
    BY <1>1, <1>3, <2>7, IndexesStay
  <2>9. LeaderInv(L)'
    BY <1>4, <1>5, <1>7, <2>1, <2>5, <2>6, <2>8, LeaderQuiet
  <2> QED
    BY <2>7, <2>9
<1>9. CASE RejectMismatch(n, req)
  <2>1. req.prevIndex \in DOMAIN log[n] /\ log[n][req.prevIndex].term # req.prevTerm
    BY <1>9 DEF RejectMismatch
  <2>2. req.prevIndex # 0
    BY <2>1, LogTypes
  <2>3. req.prevTerm = log[L][req.prevIndex].term
    BY <1>2, <2>2 DEF RequestOf
  <2>4. log[n][req.prevIndex] = log[L][req.prevIndex]
    BY <2>1 DEF LeaderInv, LogUnder, IsPrefixOf
  <2> QED
    BY <2>1, <2>3, <2>4
<1>10. CASE Accept(n, req)
  <2>1. /\ Grown(L)
        /\ commitIndex'[L] = commitIndex[L]
        /\ \A m \in Node : m # n => applied'[m] = applied[m]
        /\ AppliedUnder(n)'
        /\ Len(applied[L]) <= Len(applied'[L])
        /\ Respond(req, req.term, TRUE, Len(log'[n]))
    BY <1>2, <1>10, AcceptUnder
  <2>2. PICK resp : resp = [to |-> req.leader, term |-> req.term, success |-> TRUE,
                            follower |-> n, match |-> Len(log'[n])]
    OBVIOUS
  <2>3. PICK T : T = {resp}
    OBVIOUS
  <2>4. /\ BagToSet(requests') \subseteq BagToSet(requests) \cup S
        /\ BagToSet(responses') \subseteq BagToSet(responses) \cup T
    <3>1. requests' = BagRemove(requests, req) /\ responses' = BagAdd(responses, resp)
      BY <1>1, <2>1, <2>2 DEF Respond
    <3>2. IsABag(requests) /\ IsABag(responses)
      BY DEF TypeOK
    <3>3. BagToSet(requests') \subseteq BagToSet(requests)
      BY <3>1, <3>2, BagRemoveFacts
    <3>4. BagToSet(responses') = BagToSet(responses) \cup {resp}
      BY <3>1, <3>2, BagAddFacts
    <3> QED
      BY <2>3, <3>3, <3>4
  <2>5. \A r \in T : ResponseTrue(r)'
    <3>1. \A r \in T : r.follower = n /\ r.match = Len(log'[n])
      BY <2>2, <2>3
    <3>2. Len(log'[n]) \in Nat
      BY LogTypesNext
    <3> QED
      BY <3>1, <3>2 DEF ResponseTrue
  <2>6. \A m \in Node : applied'[m] = applied[m] \/ AppliedUnder(m)'
    <3> TAKE m \in Node
    <3>1. CASE m = n
      BY <2>1, <3>1 DEF AppliedUnder
    <3> QED
      BY <2>1, <3>1
  <2>7. IndexesTrue(L)'
    BY <1>1, <1>3, <2>1, IndexesStay
  <2>8. CommitHeld(L)'
    BY <2>1, GrownHeld DEF LeaderInv
  <2>9. \A p \in Proposal : CallPlaced(L, p)'
    BY <1>5, <2>1, CallsStay
  <2>10. panicked' = panicked
    BY <1>1
  <2>11. LeaderInv(L)'
    BY <1>4, <1>7, <2>1, <2>4, <2>5, <2>6, <2>7, <2>8, <2>9, <2>10, LeaderFrame
  <2> QED
    BY <2>1, <2>11
<1> QED
  BY <1>8, <1>9, <1>10 DEF HandleAppendEntries

-----------------------------------------------------------------------------
(* The invariant is inductive, and logs and commitments only grow.         *)

LEMMA LeaderUnchanged ==
    ASSUME TypeOK, TypeOK', NEW L \in Node, LeaderInv(L), UNCHANGED vars
    PROVE  LeaderInv(L)' /\ Grown(L)
<1>1. /\ UNCHANGED <<won, calls, ran, isLeader, log, commitIndex, applied, panicked>>
      /\ UNCHANGED <<nextIndex, matchIndex, requests, responses, phase, at, target>>
  BY DEF vars, leadershipVars, raftVars, netVars, callVars
<1>2. Grown(L)
  BY <1>1, GrownUnchanged
<1>3. Begun(L)' <=> Begun(L)
  BY <1>1 DEF Begun
<1>4. Authority(L)'
  BY <1>1, <1>3 DEF LeaderInv, Authority
<1>5. IndexesTrue(L)'
  BY <1>1, <1>2, <1>3, IndexesStay
<1>6. CallsKeepPhase
  BY <1>1 DEF CallsKeepPhase
<1>7. PICK S : S = {}
  OBVIOUS
<1>8. /\ BagToSet(requests') \subseteq BagToSet(requests) \cup S
      /\ BagToSet(responses') \subseteq BagToSet(responses) \cup S
      /\ UNCHANGED <<log, commitIndex, applied, panicked>>
  BY <1>1
<1>9. (\A r \in S : RequestOf(L, r)') /\ \A r \in S : ResponseTrue(r)'
  BY <1>7
<1>10. LeaderInv(L)'
  BY <1>4, <1>5, <1>6, <1>8, <1>9, LeaderQuiet
<1> QED
  BY <1>2, <1>10

LEMMA LeaderStep ==
    ASSUME TypeOK, TypeOK', [Next]_vars, NEW L \in Node, LeaderInv(L), Sole(L)'
    PROVE  LeaderInv(L)' /\ Grown(L)
<1>1. CASE UNCHANGED vars
  BY <1>1, LeaderUnchanged
<1>2. CASE Elections
  <2>1. UNCHANGED <<log, commitIndex>>
    BY <1>2 DEF Elections, raftVars
  <2> QED
    BY <1>2, <2>1, LeaderElections, GrownUnchanged
<1>3. ASSUME NEW n \in Node, Run(n) PROVE LeaderInv(L)' /\ Grown(L)
  <2>1. ASSUME NEW call \in calls, Callback(call) PROVE LeaderInv(L)' /\ Grown(L)
    <3>1. UNCHANGED <<log, commitIndex>>
      BY <2>1 DEF Callback
    <3> QED
      BY <2>1, <3>1, LeaderCallback, GrownUnchanged
  <2>2. ASSUME NEW p \in Proposal, AppendEntry(p, n) PROVE LeaderInv(L)' /\ Grown(L)
    BY <2>2, LeaderAppend
  <2>3. ASSUME NEW p \in Proposal, sendAppendEntriesToAll(p) PROVE LeaderInv(L)' /\ Grown(L)
    <3>1. UNCHANGED <<log, commitIndex>>
      BY <2>3 DEF sendAppendEntriesToAll, raftVars
    <3> QED
      BY <2>3, <3>1, LeaderSend, GrownUnchanged
  <2>4. ASSUME NEW p \in Proposal, NEW resp \in BagToSet(responses),
               handleAppendEntriesResponse(p, resp)
        PROVE  LeaderInv(L)' /\ Grown(L)
    BY <2>4, LeaderResponse
  <2>5. ASSUME NEW p \in Proposal, Committed(p) PROVE LeaderInv(L)' /\ Grown(L)
    <3>1. UNCHANGED <<log, commitIndex>>
      BY <2>5 DEF Committed
    <3> QED
      BY <2>5, <3>1, LeaderCommitted, GrownUnchanged
  <2>6. ASSUME NEW p \in Proposal, Panic(p) \/ NotYet(p) \/ Timeout(p)
        PROVE  LeaderInv(L)' /\ Grown(L)
    <3>1. UNCHANGED <<log, commitIndex>>
      BY <2>6 DEF Panic, NotYet, Timeout, raftVars
    <3> QED
      BY <2>6, <3>1, LeaderWait, GrownUnchanged
  <2>7. ASSUME NEW req \in BagToSet(requests), HandleAppendEntries(n, req)
        PROVE  LeaderInv(L)' /\ Grown(L)
    BY <2>7, LeaderHandle
  <2> QED
    BY <1>3, <2>1, <2>2, <2>3, <2>4, <2>5, <2>6, <2>7 DEF Run
<1> QED
  BY <1>1, <1>2, <1>3 DEF Next

LEMMA SoleBefore ==
    ASSUME [Next]_vars, NEW L \in Node, Sole(L)'
    PROVE  Sole(L)
<1>1. won \subseteq won'
  <2>1. CASE UNCHANGED vars
    BY <2>1 DEF vars, leadershipVars
  <2>2. CASE Elections
    BY <2>2 DEF Elections, LeadershipNext, Win, Hear
  <2>3. ASSUME NEW n \in Node, Run(n) PROVE won' = won
    BY <2>3 DEF Run, Callback, AppendEntry, sendAppendEntriesToAll, handleAppendEntriesResponse,
                Committed, Panic, NotYet, Timeout, HandleAppendEntries, leadershipVars
  <2> QED
    BY <2>1, <2>2, <2>3 DEF Next
<1> QED
  BY <1>1 DEF Sole

LEMMA OneLeaderInit == Init => OneLeaderInv
<1> SUFFICES ASSUME Init, NEW L \in Node PROVE LeaderInv(L)
  BY DEF OneLeaderInv
<1>0. PICK e : e = <<>>
  OBVIOUS
<1>1. e \in Seq(Entry) /\ Len(e) = 0
  BY <1>0, EmptySeq
<1>2. IsPrefixOf(e, e) /\ 0 <= Len(e) /\ Len(e) <= 0
  <2>1. IsPrefixOf(e, e)
    BY <1>1, PrefixReflexive
  <2>2. 0 <= Len(e) /\ Len(e) <= 0
    BY <1>1
  <2> QED
    BY <2>1, <2>2
<1>3. \A m \in Node : log[m] = e /\ applied[m] = e /\ commitIndex[m] = 0
  BY <1>0 DEF Init
<1>4. ASSUME NEW m \in Node PROVE LogUnder(L, m) /\ CommitUnder(L, m) /\ AppliedUnder(m)
  <2>1. log[m] = e /\ log[L] = e /\ applied[m] = e /\ commitIndex[m] = 0 /\ commitIndex[L] = 0
    BY <1>3
  <2>2. 0 <= 0
    OBVIOUS
  <2>3. LogUnder(L, m)
    BY <1>2, <2>1 DEF LogUnder
  <2>4. CommitUnder(L, m)
    BY <1>2, <2>1, <2>2 DEF CommitUnder
  <2>5. AppliedUnder(m)
    BY <1>2, <2>1 DEF AppliedUnder
  <2> QED
    BY <2>3, <2>4, <2>5
<1>5. BagToSet(requests) = {} /\ BagToSet(responses) = {}
  BY EmptyBagFacts DEF Init
<1>6. ~Begun(L)
  BY DEF Begun, Init
<1>7. Authority(L)
  BY DEF Authority, Init, LeadershipInit
<1>8. IndexesTrue(L)
  BY <1>6 DEF IndexesTrue
<1>9. CommitHeld(L)
  BY <1>3 DEF CommitHeld
<1>10. \A p \in Proposal : CallPlaced(L, p)
  BY DEF CallPlaced, Init
<1>11. panicked = {}
  BY DEF Init
<1> QED
  BY <1>4, <1>5, <1>7, <1>8, <1>9, <1>10, <1>11 DEF LeaderInv

LEMMA OneLeaderInductive == TypeOK /\ OneLeaderInv /\ [Next]_vars => OneLeaderInv'
<1> SUFFICES ASSUME TypeOK, OneLeaderInv, [Next]_vars, NEW L \in Node, Sole(L)'
             PROVE  LeaderInv(L)'
  BY DEF OneLeaderInv
<1>1. TypeOK'
  BY TypeInductive
<1>2. LeaderInv(L)
  BY SoleBefore DEF OneLeaderInv
<1> QED
  BY <1>1, <1>2, LeaderStep

LEMMA OneLeaderInvHolds == Spec => []OneLeaderInv
BY OneLeaderInit, OneLeaderInductive, TypeCorrect, PTL DEF Spec

(* No caller is under way where there is no node.                          *)
Peopled == Node = {} => \A p \in Proposal : phase[p] = "idle"

LEMMA PeopledHolds == Spec => []Peopled
<1>1. Init => Peopled
  BY DEF Init, Peopled
<1>2. Peopled /\ [Next]_vars => Peopled'
  BY DEF Peopled, Next, Elections, vars, callVars
<1> QED
  BY <1>1, <1>2, PTL DEF Spec

LEMMA SoleExists ==
    ASSUME TypeOK, OneLeader, Node # {}
    PROVE  \E L \in Node : Sole(L)
<1>1. CASE won = {}
  BY <1>1 DEF Sole
<1>2. CASE won # {}
  <2>1. PICK v \in won : TRUE
    BY <1>2
  <2>2. v.leader \in Node /\ Sole(v.leader)
    BY DEF TypeOK, Victory, OneLeader, Sole
  <2> QED
    BY <2>2
<1> QED
  BY <1>1, <1>2

-----------------------------------------------------------------------------
(* The theorems.                                                           *)

LEMMA SafeFollows == TypeOK /\ OneLeaderInv => SafeUnderOneLeader
<1> SUFFICES ASSUME TypeOK, OneLeaderInv, OneLeader
             PROVE  /\ StateMachineSafety
                    /\ \A n, m \in Node : \/ IsPrefixOf(applied[n], applied[m])
                                          \/ IsPrefixOf(applied[m], applied[n])
                    /\ panicked = {}
  BY DEF SafeUnderOneLeader
<1>1. CASE Node = {}
  BY <1>1 DEF StateMachineSafety, TypeOK
<1>2. CASE Node # {}
  <2>1. PICK L \in Node : LeaderInv(L)
    BY <1>2, SoleExists DEF OneLeaderInv
  <2>2. ASSUME NEW n \in Node PROVE IsPrefixOf(applied[n], log[L])
    <3>1. PICK a \in Seq(Entry) : a = applied[n]
      BY LogTypes
    <3>2. PICK s \in Seq(Entry) : s = log[n]
      BY LogTypes
    <3>3. PICK k \in Seq(Entry) : k = log[L]
      BY LogTypes
    <3>4. IsPrefixOf(a, s) /\ IsPrefixOf(s, k)
      BY <2>1, <3>1, <3>2, <3>3 DEF LeaderInv, LogUnder, AppliedUnder
    <3>5. IsPrefixOf(a, k)
      BY <3>4, PrefixTransitive
    <3> QED
      BY <3>1, <3>3, <3>5
  <2>3. ASSUME NEW n \in Node, NEW m \in Node
        PROVE  /\ IsPrefixOf(applied[n], applied[m]) \/ IsPrefixOf(applied[m], applied[n])
               /\ \A i \in DOMAIN applied[n] \cap DOMAIN applied[m] :
                     applied[n][i] = applied[m][i]
    <3>1. /\ applied[n] \in Seq(Entry) /\ applied[m] \in Seq(Entry) /\ log[L] \in Seq(Entry)
          /\ IsPrefixOf(applied[n], log[L]) /\ IsPrefixOf(applied[m], log[L])
      BY <2>2, LogTypes
    <3> QED
      BY <3>1, PrefixesCompare
  <2>4. panicked = {}
    BY <2>1 DEF LeaderInv
  <2> QED
    BY <2>3, <2>4 DEF StateMachineSafety
<1> QED
  BY <1>1, <1>2

(* While one node wins all elections, the routing tables of all nodes are  *)
(* built from one sequence of entries and no process panics, whatever its  *)
(* terms, and however its requests, responses and callbacks are delayed.   *)
THEOREM SafeUnderOneLeaderHolds == Spec => []SafeUnderOneLeader
<1> QED
  BY SafeFollows, OneLeaderInvHolds, TypeCorrect, PTL

LEMMA MajorityFollows == TypeOK /\ OneLeaderInv /\ Peopled => CommittedOnMajority
<1> SUFFICES ASSUME TypeOK, OneLeaderInv, Peopled, OneLeader,
                    NEW p \in Proposal, phase[p] \in {"notifying", "committed"}
             PROVE  /\ target[p] \in DOMAIN applied[at[p]]
                    /\ applied[at[p]][target[p]].proposal = p
                    /\ \E Q \in SUBSET Node :
                          /\ Cardinality(Q) >= Majority
                          /\ \A n \in Q : /\ target[p] \in DOMAIN log[n]
                                          /\ log[n][target[p]].proposal = p
  BY DEF CommittedOnMajority
<1>1. Node # {}
  BY DEF Peopled
<1>2. PICK L \in Node : LeaderInv(L)
  BY <1>1, SoleExists DEF OneLeaderInv
<1>3. at[p] = L
  BY <1>2 DEF LeaderInv, Authority
<1>4. PICK k \in Seq(Entry) : k = log[L]
  BY LogTypes
<1>5. PICK a \in Seq(Entry) : a = applied[L]
  BY LogTypes
<1>6. PICK c \in Nat : c = commitIndex[L]
  BY LogTypes
<1>7. PICK t \in Nat : t = target[p]
  BY DEF TypeOK
<1>8. t \in DOMAIN k /\ k[t].proposal = p /\ t <= Len(a)
  BY <1>2, <1>4, <1>5, <1>7 DEF LeaderInv, CallPlaced
<1>9. IsPrefixOf(a, k) /\ Len(a) <= c
  BY <1>2, <1>4, <1>5, <1>6 DEF LeaderInv, AppliedUnder
<1>10. t \in DOMAIN a /\ a[t].proposal = p
  BY <1>8, <1>9 DEF IsPrefixOf
<1>11. c # 0 /\ t <= c
  BY <1>8, <1>9
<1>12. PICK Q : Q = HoldersOf(c)
  OBVIOUS
<1>13. Q \in SUBSET Node /\ Cardinality(Q) >= Majority
  BY <1>2, <1>6, <1>11, <1>12 DEF LeaderInv, CommitHeld, HoldersOf
<1>14. ASSUME NEW n \in Q PROVE t \in DOMAIN log[n] /\ log[n][t].proposal = p
  <2>1. n \in Node /\ c <= Len(log[n])
    BY <1>12 DEF HoldersOf
  <2>2. PICK s \in Seq(Entry) : s = log[n]
    BY <2>1, LogTypes
  <2>3. IsPrefixOf(s, k)
    BY <1>2, <1>4, <2>1, <2>2 DEF LeaderInv, LogUnder
  <2>4. t \in DOMAIN s
    BY <1>8, <1>11, <2>1, <2>2
  <2> QED
    BY <1>8, <2>2, <2>3, <2>4 DEF IsPrefixOf
<1> QED
  BY <1>3, <1>5, <1>7, <1>10, <1>13, <1>14

(* While one node wins all elections, what ProposeEntry reports as done is *)
(* applied at its node and in the logs of a majority, and stays there.     *)
THEOREM CommittedOnMajorityHolds == Spec => []CommittedOnMajority
<1> QED
  BY MajorityFollows, OneLeaderInvHolds, PeopledHolds, TypeCorrect, PTL

LEMMA NothingLostFollows ==
    ASSUME TypeOK, OneLeaderInv, [Next]_vars, OneLeader'
    PROVE  \A n \in Node : IsPrefixOf(log[n], log'[n]) /\ commitIndex'[n] >= commitIndex[n]
<1>1. CASE Node = {}
  BY <1>1
<1>2. CASE Node # {}
  <2>1. TypeOK'
    BY TypeInductive
  <2>2. PICK L \in Node : Sole(L)'
    <3>1. CASE won' = {}
      BY <1>2, <3>1 DEF Sole
    <3>2. CASE won' # {}
      <4>1. PICK v \in won' : TRUE
        BY <3>2
      <4>2. v.leader \in Node /\ \A w \in won' : w.leader = v.leader
        BY <2>1 DEF TypeOK, Victory, OneLeader
      <4> QED
        BY <4>2 DEF Sole
    <3> QED
      BY <3>1, <3>2
  <2>3. LeaderInv(L)
    BY <2>2, SoleBefore DEF OneLeaderInv
  <2>4. Grown(L)
    BY <2>1, <2>2, <2>3, LeaderStep
  <2>5. \A n \in Node : commitIndex[n] \in Nat /\ commitIndex'[n] \in Nat
    BY <2>1, LogTypes, LogTypesNext
  <2> QED
    BY <2>4, <2>5 DEF Grown
<1> QED
  BY <1>1, <1>2

(* No routing table loses or changes an entry, whoever leads; and while    *)
(* one node wins all elections no log does, and no commitIndex decreases,  *)
(* whatever overtakes what.                                                *)
THEOREM NothingLostHolds == Spec => NothingLost
<1>1. TypeOK /\ OneLeaderInv /\ [Next]_vars => [TakesNothingBack]_vars
  <2> SUFFICES ASSUME TypeOK, OneLeaderInv, [Next]_vars, NEW n \in Node
               PROVE  /\ IsPrefixOf(applied[n], applied'[n])
                      /\ OneLeader' => /\ IsPrefixOf(log[n], log'[n])
                                       /\ commitIndex'[n] >= commitIndex[n]
    BY DEF TakesNothingBack
  <2>1. IsPrefixOf(applied[n], applied'[n])
    BY AppliedGrows
  <2>2. ASSUME OneLeader'
        PROVE  IsPrefixOf(log[n], log'[n]) /\ commitIndex'[n] >= commitIndex[n]
    BY <2>2, NothingLostFollows
  <2> QED
    BY <2>1, <2>2
<1> QED
  BY <1>1, OneLeaderInvHolds, TypeCorrect, PTL DEF Spec, NothingLost
=============================================================================
