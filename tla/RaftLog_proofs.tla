--------------------------- MODULE RaftLog_proofs ---------------------------
(***************************************************************************)
(* Theorems about RaftLog for every number of nodes, terms and proposals.  *)
(***************************************************************************)
EXTENDS RaftLog, TLAPS, SequenceTheorems

-----------------------------------------------------------------------------
(* Bags: what adding and removing a message does to the messages there are. *)

LEMMA BagAddFacts ==
    ASSUME NEW B, NEW x, IsABag(B)
    PROVE  IsABag(BagAdd(B, x)) /\ BagToSet(BagAdd(B, x)) = BagToSet(B) \cup {x}
BY DEF BagAdd, IsABag, BagToSet

LEMMA BagRemoveFacts ==
    ASSUME NEW B, NEW x, IsABag(B)
    PROVE  IsABag(BagRemove(B, x)) /\ BagToSet(BagRemove(B, x)) \subseteq BagToSet(B)
BY DEF BagRemove, IsABag, BagToSet

LEMMA BagCupFacts ==
    ASSUME NEW B, NEW S, IsABag(B)
    PROVE  IsABag(B (+) SetToBag(S)) /\ BagToSet(B (+) SetToBag(S)) = BagToSet(B) \cup S
BY DEF IsABag, BagToSet, SetToBag, (+)

LEMMA EmptyBagFacts == IsABag(EmptyBag) /\ BagToSet(EmptyBag) = {}
BY DEF EmptyBag, IsABag, BagToSet, SetToBag

-----------------------------------------------------------------------------
(* What the operators of the model return.                                 *)

LEMMA SliceFacts ==
    ASSUME NEW s \in Seq(Entry), NEW a \in Nat \ {0}, NEW b \in Nat, b <= Len(s) \/ b < a
    PROVE  /\ SubSeq(s, a, b) \in Seq(Entry)
           /\ Len(SubSeq(s, a, b)) = IF a <= b THEN b - a + 1 ELSE 0
           /\ DOMAIN SubSeq(s, a, b) = 1 .. Len(SubSeq(s, a, b))
           /\ \A i \in DOMAIN SubSeq(s, a, b) : SubSeq(s, a, b)[i] = s[a + i - 1]
<1>1. \A i \in a..b : s[i] \in Entry
  OBVIOUS
<1>2. /\ SubSeq(s, a, b) \in Seq(Entry)
      /\ Len(SubSeq(s, a, b)) = IF a <= b THEN b - a + 1 ELSE 0
      /\ \A i \in 1 .. b - a + 1 : SubSeq(s, a, b)[i] = s[a + i - 1]
  BY <1>1, SubSeqProperties
<1> QED
  BY <1>2

LEMMA JoinFacts ==
    ASSUME NEW s \in Seq(Entry), NEW t \in Seq(Entry)
    PROVE  /\ s \o t \in Seq(Entry)
           /\ Len(s \o t) = Len(s) + Len(t)
           /\ DOMAIN (s \o t) = 1 .. Len(s) + Len(t)
           /\ \A i \in DOMAIN (s \o t) :
                 (s \o t)[i] = IF i <= Len(s) THEN s[i] ELSE t[i - Len(s)]
<1>1. /\ s \o t \in Seq(Entry)
      /\ Len(s \o t) = Len(s) + Len(t)
      /\ \A i \in 1 .. Len(s) + Len(t) :
            (s \o t)[i] = IF i <= Len(s) THEN s[i] ELSE t[i - Len(s)]
  BY ConcatProperties
<1>2. DOMAIN (s \o t) = 1 .. Len(s \o t)
  BY <1>1, LenProperties
<1> QED
  BY <1>1, <1>2

(* An entry of the merged log comes from the old log or from the request,  *)
(* in its place; nothing of the old log goes unless a term conflicts.      *)
LEMMA MergeFacts ==
    ASSUME NEW l \in Seq(Entry), NEW req \in Request, req.prevIndex <= Len(l),
           NEW m \in Merge(l, req)
    PROVE  /\ m \in Seq(Entry)
           /\ \A j \in DOMAIN m :
                 \/ j \in DOMAIN l /\ m[j] = l[j]
                 \/ /\ j - req.prevIndex \in DOMAIN req.entries
                    /\ m[j] = req.entries[j - req.prevIndex]
           /\ (\A i \in DOMAIN req.entries : req.prevIndex + i \in DOMAIN l
                  => l[req.prevIndex + i].term = req.entries[i].term) => IsPrefixOf(l, m)
<1> DEFINE prev == req.prevIndex
           es   == req.entries
           new  == NewFrom(l, req)
<1>1. prev \in Nat /\ es \in Seq(Entry)
  BY DEF Request
<1>2. CASE new = {}
  BY <1>2 DEF Merge, IsPrefixOf
<1>3. CASE new # {}
  <2>1. PICK i \in new : /\ \A k \in new : i <= k
                         /\ m = SubSeq(l, 1, prev + i - 1) \o SubSeq(es, i, Len(es))
    BY <1>3 DEF Merge
  <2>2. i \in 1..Len(es)
    BY <1>1, <2>1 DEF NewFrom
  <2>3. prev + i - 1 <= Len(l)
    <3>1. CASE i = 1
      BY <1>1, <3>1
    <3>2. CASE i # 1
      <4>1. i - 1 \in DOMAIN es
        BY <1>1, <2>2, <3>2
      <4>2. i - 1 \notin new
        <5> HIDE DEF new
        <5> QED
          BY <2>1, <2>2
      <4>3. prev + (i - 1) \in DOMAIN l
        BY <4>1, <4>2 DEF NewFrom
      <4> QED
        BY <1>1, <2>2, <4>3
    <3> QED
      BY <3>1, <3>2
  <2> DEFINE front == SubSeq(l, 1, prev + i - 1)
             back  == SubSeq(es, i, Len(es))
  <2>4. /\ front \in Seq(Entry)
        /\ Len(front) = prev + i - 1
        /\ \A j \in 1..Len(front) : front[j] = l[j]
    BY <1>1, <2>2, <2>3, SliceFacts
  <2>5. /\ back \in Seq(Entry)
        /\ Len(back) = Len(es) - i + 1
        /\ \A j \in 1..Len(back) : back[j] = es[i + j - 1]
    BY <1>1, <2>2, SliceFacts
  <2>6. /\ m \in Seq(Entry)
        /\ DOMAIN m = 1 .. prev + Len(es)
        /\ Len(m) = prev + Len(es)
        /\ \A j \in DOMAIN m : m[j] = IF j <= Len(front) THEN front[j] ELSE back[j - Len(front)]
    <3>1. m = front \o back
      BY <2>1
    <3> HIDE DEF front, back
    <3>2. /\ m \in Seq(Entry)
          /\ Len(m) = Len(front) + Len(back)
          /\ DOMAIN m = 1 .. Len(front) + Len(back)
          /\ \A j \in DOMAIN m : m[j] = IF j <= Len(front) THEN front[j] ELSE back[j - Len(front)]
      BY <2>4, <2>5, <3>1, JoinFacts
    <3>3. Len(front) + Len(back) = prev + Len(es)
      BY SMTT(30), <1>1, <2>2, <2>4, <2>5
    <3> QED
      BY <3>2, <3>3
  <2> HIDE DEF front, back
  <2>7. ASSUME NEW j \in DOMAIN m
        PROVE  \/ j \in DOMAIN l /\ m[j] = l[j]
               \/ j - prev \in DOMAIN es /\ m[j] = es[j - prev]
    <3>1. CASE j <= Len(front)
      BY <1>1, <2>2, <2>3, <2>4, <2>6, <2>7, <3>1
    <3>2. CASE j > Len(front)
      <4>1. j \in 1 .. prev + Len(es) /\ j > prev + i - 1
        BY <2>4, <2>6, <3>2
      <4>2. m[j] = back[j - (prev + i - 1)]
        BY <1>1, <2>2, <2>4, <2>6, <3>2, <4>1
      <4>3. j - (prev + i - 1) \in 1..Len(back)
        BY SMTT(30), <1>1, <2>2, <2>5, <4>1
      <4>4. m[j] = es[i + (j - (prev + i - 1)) - 1]
        BY <2>5, <4>2, <4>3
      <4>5. i + (j - (prev + i - 1)) - 1 = j - prev
        BY <1>1, <2>2, <4>1
      <4>6. j - prev \in 1..Len(es)
        BY SMTT(30), <1>1, <2>2, <4>1
      <4> QED
        BY <1>1, <4>4, <4>5, <4>6
    <3> QED
      BY <1>1, <2>2, <2>4, <2>6, <2>7, <3>1, <3>2
  <2>8. ASSUME \A k \in DOMAIN es : prev + k \in DOMAIN l => l[prev + k].term = es[k].term
        PROVE  IsPrefixOf(l, m)
    <3>1. Len(l) = prev + i - 1
      <4>1. prev + i \notin DOMAIN l
        BY <1>1, <2>1, <2>2, <2>8 DEF NewFrom
      <4> QED
        BY <1>1, <2>2, <2>3, <4>1
    <3> QED
      BY <1>1, <2>2, <2>4, <2>6, <3>1 DEF IsPrefixOf
  <2> QED
    BY <2>6, <2>7, <2>8
<1> QED
  BY <1>2, <1>3

LEMMA AppendEntriesType ==
    ASSUME TypeOK, NEW n \in Node, NEW f \in Node, NEW next \in Nat \ {0}
    PROVE  AppendEntries(n, f, next) \in Request
<1>1. log[n] \in Seq(Entry) /\ Len(log[n]) \in Nat
  BY DEF TypeOK
<1>2. SubSeq(log[n], next, Len(log[n])) \in Seq(Entry)
  <2>1. \A i \in next..Len(log[n]) : log[n][i] \in Entry
    BY <1>1
  <2> QED
    BY <1>1, <2>1, SubSeqProperties
<1>3. next - 1 \in DOMAIN log[n] => log[n][next - 1].term \in Nat
  <2> SUFFICES ASSUME next - 1 \in DOMAIN log[n] PROVE log[n][next - 1] \in Entry
    BY DEF Entry
  <2> QED
    BY <1>1
<1>4. currentTerm[n] \in Nat /\ commitIndex[n] \in Nat /\ next - 1 \in Nat
  BY DEF TypeOK
<1>5. (IF next - 1 \in DOMAIN log[n] THEN log[n][next - 1].term ELSE -1) \in Int
  BY <1>3
<1> QED
  BY <1>2, <1>4, <1>5 DEF AppendEntries, Request

LEMMA RespondType ==
    ASSUME TypeOK, NEW req \in BagToSet(requests), NEW term \in Nat, NEW success \in BOOLEAN,
           NEW match \in Nat, Respond(req, term, success, match)
    PROVE  /\ IsABag(requests') /\ BagToSet(requests') \subseteq Request
           /\ IsABag(responses') /\ BagToSet(responses') \subseteq Response
<1> DEFINE resp == [to |-> req.leader, term |-> term, success |-> success,
                    follower |-> req.to, match |-> match]
<1>1. resp \in Response
  BY DEF TypeOK, Request, Response
<1>2. responses' = BagAdd(responses, resp) /\ requests' = BagRemove(requests, req)
  BY DEF Respond
<1> HIDE DEF resp
<1> QED
  BY <1>1, <1>2, BagAddFacts, BagRemoveFacts DEF TypeOK

LEMMA CommitAfterType ==
    ASSUME TypeOK, NEW n \in Node, NEW req \in Request, NEW l \in Seq(Entry)
    PROVE  /\ CommitAfter(n, req, l) \in Nat
           /\ CommitAfter(n, req, l) > commitIndex[n] => CommitAfter(n, req, l) <= Len(l)
<1>1. commitIndex[n] \in Nat /\ req.commit \in Nat /\ Len(l) \in Nat
  BY DEF TypeOK, Request
<1> QED
  BY <1>1 DEF CommitAfter

(* What is applied is appended, in place.                                  *)
LEMMA ApplyFacts ==
    ASSUME NEW old \in Seq(Entry), NEW l \in Seq(Entry), NEW i \in Nat,
           i <= Len(l) \/ i <= Len(old)
    PROVE  /\ old \o SubSeq(l, Len(old) + 1, i) \in Seq(Entry)
           /\ Len(old \o SubSeq(l, Len(old) + 1, i)) = IF i > Len(old) THEN i ELSE Len(old)
           /\ \A j \in DOMAIN (old \o SubSeq(l, Len(old) + 1, i)) :
                (old \o SubSeq(l, Len(old) + 1, i))[j] = IF j <= Len(old) THEN old[j] ELSE l[j]
<1> DEFINE new == SubSeq(l, Len(old) + 1, i)
           first == Len(old) + 1
<1>1. first \in Nat \ {0} /\ (i <= Len(l) \/ i < first) /\ Len(old) \in Nat
  OBVIOUS
<1>2. new = SubSeq(l, first, i)
  OBVIOUS
<1> HIDE DEF new, first
<1>3. /\ new \in Seq(Entry)
      /\ Len(new) = IF first <= i THEN i - first + 1 ELSE 0
      /\ DOMAIN new = 1..Len(new)
      /\ \A j \in DOMAIN new : new[j] = l[first + j - 1]
  BY <1>1, <1>2, SliceFacts
<1>4. /\ old \o new \in Seq(Entry)
      /\ Len(old \o new) = Len(old) + Len(new)
      /\ DOMAIN (old \o new) = 1 .. Len(old) + Len(new)
      /\ \A j \in DOMAIN (old \o new) :
            (old \o new)[j] = IF j <= Len(old) THEN old[j] ELSE new[j - Len(old)]
  BY <1>3, JoinFacts
<1>5. Len(new) = IF i > Len(old) THEN i - Len(old) ELSE 0
  BY <1>1, <1>3 DEF first
<1>6. ASSUME NEW j \in DOMAIN (old \o new), ~(j <= Len(old)) PROVE (old \o new)[j] = l[j]
  <2>1. j \in Int /\ j - Len(old) \in 1..Len(new) /\ first + (j - Len(old)) - 1 = j
    BY <1>1, <1>3, <1>4, <1>6 DEF first
  <2> QED
    BY <1>3, <1>4, <1>6, <2>1
<1>7. Len(old \o new) = IF i > Len(old) THEN i ELSE Len(old)
  BY <1>1, <1>4, <1>5
<1>8. \A j \in DOMAIN (old \o new) : (old \o new)[j] = IF j <= Len(old) THEN old[j] ELSE l[j]
  BY <1>4, <1>6
<1> QED
  BY <1>4, <1>7, <1>8 DEF new

-----------------------------------------------------------------------------
(* Type correctness.                                                       *)

LEMMA TypeElections == TypeOK /\ Elections => TypeOK'
<1> SUFFICES ASSUME TypeOK, Elections PROVE TypeOK'
  OBVIOUS
<1>1. won' \subseteq Victory /\ calls' \subseteq Call
  BY DEF TypeOK, Elections, LeadershipNext, Win, Hear, Victory, Call
<1>2. calls \subseteq calls'
  BY DEF Elections, LeadershipNext, Win, Hear
<1> QED
  BY <1>1, <1>2 DEF TypeOK, Elections, raftVars, netVars, callVars

LEMMA TypeCallback ==
    ASSUME TypeOK, NEW call \in calls, Callback(call)
    PROVE  TypeOK'
<1>1. call \in Call /\ call.at \in Node /\ call.term \in Nat
  BY TermsArePositive DEF TypeOK, Call
<1>2. Len(log[call.at]) + 1 \in Nat \ {0}
  <2>1. log[call.at] \in Seq(Entry)
    BY <1>1 DEF TypeOK
  <2> QED
    BY <2>1
<1>3. /\ isLeader' \in [Node -> BOOLEAN]
      /\ currentTerm' \in [Node -> Nat]
      /\ nextIndex' \in [Node -> [Node -> Nat \ {0}]]
      /\ matchIndex' \in [Node -> [Node -> Nat]]
  <2>1. CASE BecomeLeader(call)
    <3>1. [m \in Node |-> Len(log[call.at]) + 1] \in [Node -> Nat \ {0}]
      BY <1>2
    <3>2. [m \in Node |-> 0] \in [Node -> Nat]
      OBVIOUS
    <3> QED
      BY <1>1, <2>1, <3>1, <3>2 DEF BecomeLeader, TypeOK
  <2>2. CASE BecomeFollower(call)
    BY <1>1, <2>2 DEF BecomeFollower, TypeOK
  <2> QED
    BY <2>1, <2>2 DEF Callback
<1> QED
  BY <1>3 DEF TypeOK, Callback, leadershipVars, netVars, callVars

LEMMA TypeAppend ==
    ASSUME TypeOK, NEW n \in Node, NEW p \in Proposal, AppendEntry(p, n)
    PROVE  TypeOK'
<1> DEFINE e == [term |-> currentTerm[n], index |-> Len(log[n]) + 1, proposal |-> p]
<1>1. e \in Entry
  BY DEF TypeOK, Entry
<1>2. Append(log[n], e) \in Seq(Entry)
  BY <1>1 DEF TypeOK
<1>3. log' \in [Node -> Seq(Entry)]
  BY <1>2 DEF AppendEntry, TypeOK
<1>4. /\ phase' \in [Proposal -> Phase]
      /\ at' \in [Proposal -> Node \cup {NoNode}]
      /\ target' \in [Proposal -> Nat]
  BY DEF AppendEntry, TypeOK, Phase
<1> QED
  BY <1>3, <1>4 DEF TypeOK, AppendEntry, leadershipVars, netVars

LEMMA TypeSend ==
    ASSUME TypeOK, NEW p \in Proposal, at[p] \in Node, sendAppendEntriesToAll(p)
    PROVE  TypeOK'
<1> DEFINE S == {AppendEntries(at[p], f, nextIndex[at[p]][f]) : f \in Peers(at[p])}
<1>1. S \subseteq Request
  <2> SUFFICES ASSUME NEW f \in Node
               PROVE  AppendEntries(at[p], f, nextIndex[at[p]][f]) \in Request
    BY DEF Peers
  <2>1. nextIndex[at[p]][f] \in Nat \ {0}
    BY DEF TypeOK
  <2> QED
    BY <2>1, AppendEntriesType
<1>2. requests' = requests (+) SetToBag(S)
  BY DEF sendAppendEntriesToAll
<1> HIDE DEF S
<1>3. IsABag(requests') /\ BagToSet(requests') \subseteq Request
  BY <1>1, <1>2, BagCupFacts DEF TypeOK
<1>4. phase' \in [Proposal -> Phase]
  BY DEF sendAppendEntriesToAll, TypeOK, Phase
<1> QED
  BY <1>3, <1>4 DEF TypeOK, sendAppendEntriesToAll, leadershipVars, raftVars

LEMMA TypeResponse ==
    ASSUME TypeOK, NEW p \in Proposal, at[p] \in Node, NEW resp \in BagToSet(responses),
           handleAppendEntriesResponse(p, resp)
    PROVE  TypeOK'
<1> DEFINE n == at[p]
<1>1. resp \in Response /\ resp.term \in Nat /\ resp.match \in Nat /\ resp.follower \in Node
  BY DEF TypeOK, Response
<1>2. IsABag(responses') /\ BagToSet(responses') \subseteq Response
  BY BagRemoveFacts DEF TypeOK, handleAppendEntriesResponse
<1>3. phase' \in [Proposal -> Phase]
  BY DEF handleAppendEntriesResponse, TypeOK, Phase
<1> DEFINE Rest == /\ isLeader' \in [Node -> BOOLEAN]
                   /\ currentTerm' \in [Node -> Nat]
                   /\ commitIndex' \in [Node -> Nat]
                   /\ nextIndex' \in [Node -> [Node -> Nat \ {0}]]
                   /\ matchIndex' \in [Node -> [Node -> Nat]]
                   /\ IsABag(requests') /\ BagToSet(requests') \subseteq Request
<1>4. CASE StepDown(n, resp)
  <2>1. Rest
    BY <1>1, <1>4 DEF StepDown, TypeOK
  <2> QED
    BY <1>2, <1>3, <2>1 DEF TypeOK, handleAppendEntriesResponse, leadershipVars
<1>5. CASE Replicated(n, resp)
  <2> DEFINE match == [matchIndex[n] EXCEPT ![resp.follower] = resp.match]
  <2>1. Committable(n, match) \subseteq Nat
    BY DEF Committable, TypeOK
  <2>2. commitIndex' \in [Node -> Nat]
    BY <1>5, <2>1 DEF Replicated, TypeOK
  <2>3. match \in [Node -> Nat] /\ resp.match + 1 \in Nat \ {0}
    <3>1. matchIndex[n] \in [Node -> Nat]
      BY DEF TypeOK
    <3> QED
      BY <1>1, <3>1
  <2>4. matchIndex' \in [Node -> [Node -> Nat]] /\ nextIndex' \in [Node -> [Node -> Nat \ {0}]]
    BY <1>1, <1>5, <2>3 DEF Replicated, TypeOK
  <2>5. Rest
    BY <1>5, <2>2, <2>4 DEF Replicated, TypeOK
  <2> QED
    BY <1>2, <1>3, <2>5 DEF TypeOK, handleAppendEntriesResponse, leadershipVars
<1>6. CASE Retry(n, resp)
  <2>1. PICK next \in Nat \ {0} :
           /\ nextIndex' = [nextIndex EXCEPT ![n][resp.follower] = next]
           /\ requests'  = BagAdd(requests, AppendEntries(n, resp.follower, next))
    <3>1. nextIndex[n][resp.follower] \in Nat \ {0}
      BY <1>1 DEF TypeOK
    <3> DEFINE next == IF nextIndex[n][resp.follower] > 1
                       THEN nextIndex[n][resp.follower] - 1 ELSE 1
    <3>2. next \in Nat \ {0}
      BY <3>1
    <3>3. /\ nextIndex' = [nextIndex EXCEPT ![n][resp.follower] = next]
          /\ requests'  = BagAdd(requests, AppendEntries(n, resp.follower, next))
      BY <1>6 DEF Retry
    <3> HIDE DEF next
    <3> QED
      BY <3>2, <3>3
  <2>2. AppendEntries(n, resp.follower, next) \in Request
    BY <1>1, AppendEntriesType
  <2>3. IsABag(requests') /\ BagToSet(requests') \subseteq Request
    BY <2>1, <2>2, BagAddFacts DEF TypeOK
  <2>4. nextIndex' \in [Node -> [Node -> Nat \ {0}]]
    BY <1>1, <2>1 DEF TypeOK
  <2>5. Rest
    BY <1>6, <2>3, <2>4 DEF Retry, TypeOK
  <2> QED
    BY <1>2, <1>3, <2>5 DEF TypeOK, handleAppendEntriesResponse, leadershipVars
<1> QED
  BY <1>4, <1>5, <1>6 DEF handleAppendEntriesResponse

LEMMA TypeCaller ==
    ASSUME TypeOK, NEW p \in Proposal, at[p] \in Node,
           Committed(p) \/ Panic(p) \/ NotYet(p) \/ Timeout(p)
    PROVE  TypeOK'
<1> DEFINE n == at[p]
<1>1. CASE Committed(p)
  <2>1. commitIndex[n] \in Nat /\ (commitIndex[n] <= Len(log[n]) \/ commitIndex[n] <= Len(applied[n]))
    BY <1>1 DEF TypeOK, Committed, OutOfRange
  <2>2. applied[n] \o Unapplied(n, log[n], commitIndex[n]) \in Seq(Entry)
    BY <2>1, ApplyFacts DEF TypeOK, Unapplied
  <2>3. applied' \in [Node -> Seq(Entry)] /\ phase' \in [Proposal -> Phase]
    BY <1>1, <2>2 DEF Committed, TypeOK, Phase
  <2> QED
    BY <1>1, <2>3 DEF TypeOK, Committed, leadershipVars, netVars
<1>2. CASE Panic(p)
  BY <1>2 DEF TypeOK, Panic, leadershipVars, raftVars, netVars, callVars
<1>3. CASE NotYet(p) \/ Timeout(p)
  <2>1. phase' \in [Proposal -> Phase]
    BY <1>3 DEF NotYet, Timeout, TypeOK, Phase
  <2> QED
    BY <1>3, <2>1 DEF TypeOK, NotYet, Timeout, leadershipVars, raftVars, netVars
<1> QED
  BY <1>1, <1>2, <1>3

LEMMA TypeRequest ==
    ASSUME TypeOK, NEW n \in Node, NEW req \in BagToSet(requests), HandleAppendEntries(n, req)
    PROVE  TypeOK'
<1>1. req \in Request /\ req.term \in Nat /\ req.prevIndex \in Nat
  BY DEF TypeOK, Request
<1>2. log[n] \in Seq(Entry) /\ Len(log[n]) \in Nat /\ currentTerm[n] \in Nat
  BY DEF TypeOK
<1> DEFINE Net  == /\ IsABag(requests') /\ BagToSet(requests') \subseteq Request
                   /\ IsABag(responses') /\ BagToSet(responses') \subseteq Response
           Rest == /\ currentTerm' \in [Node -> Nat]
                   /\ log' \in [Node -> Seq(Entry)]
                   /\ commitIndex' \in [Node -> Nat]
                   /\ applied' \in [Node -> Seq(Entry)]
<1>3. CASE RejectStale(n, req)
  <2>1. Net
    BY <1>2, <1>3, RespondType DEF RejectStale
  <2>2. Rest
    BY <1>3 DEF RejectStale, TypeOK
  <2> QED
    BY <2>1, <2>2 DEF TypeOK, HandleAppendEntries, leadershipVars, callVars
<1>4. CASE RejectShort(n, req)
  <2>1. Net
    BY <1>1, <1>2, <1>4, RespondType DEF RejectShort
  <2>2. Rest
    BY <1>1, <1>4 DEF RejectShort, TypeOK
  <2> QED
    BY <2>1, <2>2 DEF TypeOK, HandleAppendEntries, leadershipVars, callVars
<1>5. CASE RejectMismatch(n, req)
  <2>1. req.prevIndex \in 1..Len(log[n])
    BY <1>2, <1>5 DEF RejectMismatch
  <2>2. Net
    <3>1. req.prevIndex - 1 \in Nat
      BY <2>1
    <3>2. Respond(req, req.term, FALSE, req.prevIndex - 1)
      BY <1>5 DEF RejectMismatch
    <3> QED
      BY <1>1, <3>1, <3>2, RespondType
  <2>3. SubSeq(log[n], 1, req.prevIndex - 1) \in Seq(Entry)
    BY <1>2, <2>1, SliceFacts
  <2>4. Rest
    BY <1>1, <1>5, <2>3 DEF RejectMismatch, TypeOK
  <2> QED
    BY <2>2, <2>4 DEF TypeOK, HandleAppendEntries, leadershipVars, callVars
<1>6. CASE Accept(n, req)
  <2>1. req.prevIndex <= Len(log[n])
    BY <1>1, <1>2, <1>6 DEF Accept
  <2>2. PICK l \in Merge(log[n], req) :
           LET c == CommitAfter(n, req, l)
           IN  /\ log'         = [log EXCEPT ![n] = l]
               /\ commitIndex' = [commitIndex EXCEPT ![n] = c]
               /\ applied'     = [applied EXCEPT ![n] =
                     IF c > commitIndex[n] THEN @ \o Unapplied(n, l, c) ELSE @]
               /\ Respond(req, req.term, TRUE, Len(l))
    BY <1>6 DEF Accept
  <2>3. l \in Seq(Entry) /\ Len(l) \in Nat
    BY <1>1, <1>2, <2>1, MergeFacts
  <2> DEFINE c == CommitAfter(n, req, l)
  <2>4. c \in Nat /\ (c > commitIndex[n] => c <= Len(l))
    BY <1>1, <2>3, CommitAfterType
  <2>5. c > commitIndex[n] => applied[n] \o Unapplied(n, l, c) \in Seq(Entry)
    <3>1. applied[n] \in Seq(Entry) /\ l \in Seq(Entry) /\ c \in Nat
      BY <2>3, <2>4 DEF TypeOK
    <3> HIDE DEF c
    <3> SUFFICES ASSUME c <= Len(l) PROVE applied[n] \o Unapplied(n, l, c) \in Seq(Entry)
      BY <2>4
    <3> QED
      BY <3>1, ApplyFacts DEF Unapplied
  <2>6. Net
    BY <1>1, <2>2, <2>3, RespondType
  <2>7. currentTerm' \in [Node -> Nat]
    BY <1>1, <1>6 DEF Accept, TypeOK
  <2> HIDE DEF c
  <2>8. /\ log' = [log EXCEPT ![n] = l]
        /\ commitIndex' = [commitIndex EXCEPT ![n] = c]
        /\ applied' = [applied EXCEPT ![n] =
              IF c > commitIndex[n] THEN applied[n] \o Unapplied(n, l, c) ELSE applied[n]]
    BY <2>2 DEF c, TypeOK
  <2>9. Rest
    BY <2>3, <2>4, <2>5, <2>7, <2>8 DEF TypeOK
  <2> QED
    BY <2>6, <2>9 DEF TypeOK, HandleAppendEntries, leadershipVars, callVars
<1> QED
  BY <1>3, <1>4, <1>5, <1>6 DEF HandleAppendEntries

LEMMA TypeInductive == TypeOK /\ [Next]_vars => TypeOK'
<1> SUFFICES ASSUME TypeOK, [Next]_vars PROVE TypeOK'
  OBVIOUS
<1>1. CASE Elections
  BY <1>1, TypeElections
<1>2. ASSUME NEW n \in Node, Run(n) PROVE TypeOK'
  BY <1>2, TypeCallback, TypeAppend, TypeSend, TypeResponse, TypeCaller, TypeRequest DEF Run
<1>3. CASE UNCHANGED vars
  BY <1>3 DEF TypeOK, vars, leadershipVars, raftVars, netVars, callVars
<1> QED
  BY <1>1, <1>2, <1>3 DEF Next

LEMMA TypeInit == Init => TypeOK
<1> SUFFICES ASSUME Init PROVE TypeOK
  OBVIOUS
<1>1. IsABag(requests) /\ BagToSet(requests) = {} /\ IsABag(responses) /\ BagToSet(responses) = {}
  BY EmptyBagFacts DEF Init
<1>2. <<>> \in Seq(Entry)
  OBVIOUS
<1> QED
  BY <1>1, <1>2 DEF Init, LeadershipInit, TypeOK, Phase

(* Every field of every node, message and call keeps to its type, however  *)
(* nodes are elected and messages are delayed.                             *)
THEOREM TypeCorrect == Spec => []TypeOK
<1> QED
  BY TypeInit, TypeInductive, PTL DEF Spec

-----------------------------------------------------------------------------
(* What the steps do, in the terms of the proofs that follow.              *)

(* A request carries a slice of the log of its sender, in place.           *)
LEMMA AppendEntriesFacts ==
    ASSUME TypeOK, NEW n \in Node, NEW f \in Node, NEW next \in Nat \ {0},
           NEW r, r = AppendEntries(n, f, next)
    PROVE  /\ r.to = f /\ r.leader = n /\ r.prevIndex = next - 1 /\ r.commit = commitIndex[n]
           /\ r.prevIndex \in DOMAIN log[n] => r.prevTerm = log[n][r.prevIndex].term
           /\ \A i \in DOMAIN r.entries :
                 /\ r.prevIndex + i \in DOMAIN log[n]
                 /\ r.entries[i] = log[n][r.prevIndex + i]
<1>1. log[n] \in Seq(Entry) /\ Len(log[n]) \in Nat
  BY DEF TypeOK
<1>2. /\ r.to = f /\ r.leader = n /\ r.prevIndex = next - 1 /\ r.commit = commitIndex[n]
      /\ r.prevIndex \in DOMAIN log[n] => r.prevTerm = log[n][r.prevIndex].term
      /\ r.entries = SubSeq(log[n], next, Len(log[n]))
  BY DEF AppendEntries
<1> DEFINE len == Len(log[n])
<1>3. \A i \in next..len : log[n][i] \in Entry
  BY <1>1
<1>4. /\ r.entries \in Seq(Entry)
      /\ Len(r.entries) = IF next <= len THEN len - next + 1 ELSE 0
      /\ \A i \in 1 .. len - next + 1 : r.entries[i] = log[n][next + i - 1]
  BY <1>1, <1>2, <1>3, SubSeqProperties
<1>5. ASSUME NEW i \in DOMAIN r.entries
      PROVE  r.prevIndex + i \in DOMAIN log[n] /\ r.entries[i] = log[n][r.prevIndex + i]
  <2>1. i \in 1 .. len - next + 1
    BY <1>1, <1>4, <1>5
  <2>2. next + i - 1 = r.prevIndex + i /\ next + i - 1 \in 1..len
    BY <1>1, <1>2, <2>1
  <2> QED
    BY SMTT(30), <1>1, <1>4, <2>1, <2>2
<1> QED
  BY <1>2, <1>5

LEMMA AcceptFacts ==
    ASSUME TypeOK, NEW n \in Node, NEW req \in BagToSet(requests), Accept(n, req)
    PROVE  \E l \in Seq(Entry), c \in Nat, a \in Seq(Entry) :
              /\ log' = [log EXCEPT ![n] = l] /\ l \in Merge(log[n], req)
              /\ commitIndex' = [commitIndex EXCEPT ![n] = c] /\ c = CommitAfter(n, req, l)
              /\ applied' = [applied EXCEPT ![n] = a]
              /\ Len(a) = IF c > commitIndex[n] /\ c > Len(applied[n])
                          THEN c ELSE Len(applied[n])
              /\ \A j \in DOMAIN a : a[j] = IF j <= Len(applied[n]) THEN applied[n][j] ELSE l[j]
              /\ Len(a) > Len(applied[n]) => Len(a) <= Len(l)
              /\ Respond(req, req.term, TRUE, Len(l))
<1>1. req \in Request /\ req.prevIndex \in Nat
  BY DEF TypeOK, Request
<1>2. /\ log[n] \in Seq(Entry) /\ Len(log[n]) \in Nat /\ commitIndex[n] \in Nat
      /\ applied[n] \in Seq(Entry) /\ Len(applied[n]) \in Nat
  BY DEF TypeOK
<1>3. req.prevIndex <= Len(log[n])
  BY <1>1, <1>2 DEF Accept
<1>4. PICK l \in Merge(log[n], req) :
         LET c == CommitAfter(n, req, l)
         IN  /\ log'         = [log EXCEPT ![n] = l]
             /\ commitIndex' = [commitIndex EXCEPT ![n] = c]
             /\ applied'     = [applied EXCEPT ![n] =
                   IF c > commitIndex[n] THEN @ \o Unapplied(n, l, c) ELSE @]
             /\ Respond(req, req.term, TRUE, Len(l))
  BY DEF Accept
<1>5. l \in Seq(Entry) /\ Len(l) \in Nat
  BY <1>1, <1>2, <1>3, MergeFacts
<1>6. PICK c \in Nat : c = CommitAfter(n, req, l)
  BY <1>1, <1>5, CommitAfterType
<1>7. c > commitIndex[n] => c <= Len(l)
  BY <1>1, <1>5, <1>6, CommitAfterType
<1>8. PICK a : a = IF c > commitIndex[n] THEN applied[n] \o Unapplied(n, l, c) ELSE applied[n]
  OBVIOUS
<1>9. /\ log' = [log EXCEPT ![n] = l]
      /\ commitIndex' = [commitIndex EXCEPT ![n] = c]
      /\ applied' = [applied EXCEPT ![n] = a]
      /\ Respond(req, req.term, TRUE, Len(l))
  BY <1>4, <1>6, <1>8 DEF TypeOK
<1>10. CASE c > commitIndex[n]
  <2>1. a = applied[n] \o Unapplied(n, l, c)
    BY <1>8, <1>10
  <2>2. c <= Len(l) \/ c <= Len(applied[n])
    BY <1>7, <1>10
  <2>3. /\ a \in Seq(Entry)
        /\ Len(a) = IF c > Len(applied[n]) THEN c ELSE Len(applied[n])
        /\ \A j \in DOMAIN a : a[j] = IF j <= Len(applied[n]) THEN applied[n][j] ELSE l[j]
    <3>1. applied[n] \in Seq(Entry) /\ l \in Seq(Entry)
      BY <1>2, <1>5
    <3> QED
      BY <2>1, <2>2, <3>1, ApplyFacts DEF Unapplied
  <2>4. Len(a) > Len(applied[n]) => Len(a) <= Len(l)
    BY <1>2, <1>7, <1>10, <2>3
  <2> QED
    BY ZenonT(30), <1>4, <1>5, <1>6, <1>7, <1>9, <1>10, <2>3, <2>4
<1>11. CASE ~(c > commitIndex[n])
  <2>1. a = applied[n]
    BY <1>8, <1>11
  <2>2. Len(a) = Len(applied[n]) /\ ~(Len(a) > Len(applied[n])) /\ a \in Seq(Entry)
    BY <1>2, <2>1
  <2>3. \A j \in DOMAIN a : a[j] = IF j <= Len(applied[n]) THEN applied[n][j] ELSE l[j]
    BY <1>2, <2>1
  <2> QED
    BY <1>4, <1>5, <1>6, <1>7, <1>9, <1>11, <2>2, <2>3
<1> QED
  BY <1>10, <1>11

(* A call, once made, keeps its node and its index.                        *)
CallsKept ==
    \A p \in Proposal : phase[p] # "idle" =>
        phase'[p] # "idle" /\ at'[p] = at[p] /\ target'[p] = target[p]

LEMMA CallsAreKept == TypeOK /\ [Next]_vars => CallsKept
<1> SUFFICES ASSUME TypeOK, [Next]_vars PROVE CallsKept
  OBVIOUS
<1> USE DEF TypeOK, CallsKept
<1>1. CASE Elections \/ UNCHANGED vars
  BY <1>1 DEF Elections, vars, callVars
<1>2. ASSUME NEW n \in Node, Run(n) PROVE CallsKept
  <2>1. ASSUME NEW call \in calls, Callback(call) PROVE CallsKept
    BY <2>1 DEF Callback, callVars
  <2>2. ASSUME NEW p \in Proposal, AppendEntry(p, n) PROVE CallsKept
    BY <2>2 DEF AppendEntry
  <2>3. ASSUME NEW p \in Proposal, sendAppendEntriesToAll(p) PROVE CallsKept
    BY <2>3 DEF sendAppendEntriesToAll
  <2>4. ASSUME NEW p \in Proposal, NEW resp \in BagToSet(responses),
               handleAppendEntriesResponse(p, resp)
        PROVE  CallsKept
    BY <2>4 DEF handleAppendEntriesResponse
  <2>5. ASSUME NEW p \in Proposal, Committed(p) \/ Panic(p) \/ NotYet(p) \/ Timeout(p)
        PROVE  CallsKept
    BY <2>5 DEF Committed, Panic, NotYet, Timeout, callVars
  <2>6. ASSUME NEW req \in BagToSet(requests), HandleAppendEntries(n, req) PROVE CallsKept
    BY <2>6 DEF HandleAppendEntries, callVars
  <2> QED
    BY <1>2, <2>1, <2>2, <2>3, <2>4, <2>5, <2>6 DEF Run
<1> QED
  BY <1>1, <1>2 DEF Next

-----------------------------------------------------------------------------
(* One place per proposal.                                                 *)

LogsProposed(n)   == \A i \in DOMAIN log[n] : IsProposed(log[n][i], i)
AppliedProposed(n) == \A i \in DOMAIN applied[n] : IsProposed(applied[n][i], i)
ReqProposed(req)  == \A i \in DOMAIN req.entries : IsProposed(req.entries[i], req.prevIndex + i)

LEMMA PlaceParts ==
    OnePlacePerProposal <=> /\ \A n \in Node : LogsProposed(n) /\ AppliedProposed(n)
                            /\ \A req \in BagToSet(requests) : ReqProposed(req)
BY DEF OnePlacePerProposal, LogsProposed, AppliedProposed, ReqProposed

LEMMA ProposedKept ==
    ASSUME CallsKept, NEW e \in Entry, NEW i, IsProposed(e, i)
    PROVE  IsProposed(e, i)'
BY DEF CallsKept, IsProposed, Entry

LEMMA RequestsKept ==
    ASSUME TypeOK, CallsKept, OnePlacePerProposal, NEW req \in BagToSet(requests)
    PROVE  ReqProposed(req)'
<1>1. req.entries \in Seq(Entry)
  BY DEF TypeOK, Request
<1>2. \A i \in DOMAIN req.entries : req.entries[i] \in Entry
  BY <1>1
<1> QED
  BY <1>2, ProposedKept DEF OnePlacePerProposal, ReqProposed
(* What a step must do to keep every entry in its place.                   *)
LEMMA PlaceFrame ==
    ASSUME TypeOK, CallsKept, OnePlacePerProposal,
           NEW S, BagToSet(requests') \subseteq BagToSet(requests) \cup S,
           \A req \in S : ReqProposed(req)',
           \A n \in Node : log'[n] = log[n] \/ LogsProposed(n)',
           \A n \in Node : applied'[n] = applied[n] \/ AppliedProposed(n)'
    PROVE  OnePlacePerProposal'
<1>1. ASSUME NEW s \in Seq(Entry), \A i \in DOMAIN s : IsProposed(s[i], i)
      PROVE  \A i \in DOMAIN s : IsProposed(s[i], i)'
  <2>1. \A i \in DOMAIN s : s[i] \in Entry
    OBVIOUS
  <2> QED
    BY <1>1, <2>1, ProposedKept
<1>2. ASSUME NEW n \in Node PROVE LogsProposed(n)'
  <2>1. CASE log'[n] = log[n]
    <3>1. PICK s \in Seq(Entry) : s = log[n]
      BY DEF TypeOK
    <3>2. \A i \in DOMAIN s : IsProposed(s[i], i)
      BY <3>1 DEF OnePlacePerProposal
    <3>3. \A i \in DOMAIN s : IsProposed(s[i], i)'
      BY <1>1, <3>2
    <3> QED
      BY <2>1, <3>1, <3>3 DEF LogsProposed, IsProposed
  <2> QED
    BY <2>1
<1>3. ASSUME NEW n \in Node PROVE AppliedProposed(n)'
  <2>1. CASE applied'[n] = applied[n]
    <3>1. PICK s \in Seq(Entry) : s = applied[n]
      BY DEF TypeOK
    <3>2. \A i \in DOMAIN s : IsProposed(s[i], i)
      BY <3>1 DEF OnePlacePerProposal
    <3>3. \A i \in DOMAIN s : IsProposed(s[i], i)'
      BY <1>1, <3>2
    <3> QED
      BY <2>1, <3>1, <3>3 DEF AppliedProposed, IsProposed
  <2> QED
    BY <2>1
<1>4. \A req \in BagToSet(requests') : ReqProposed(req)'
  BY RequestsKept
<1> QED
  BY <1>2, <1>3, <1>4 DEF OnePlacePerProposal, LogsProposed, AppliedProposed, ReqProposed, IsProposed

LEMMA PlaceSameRequests ==
    ASSUME TypeOK, CallsKept, OnePlacePerProposal,
           BagToSet(requests') \subseteq BagToSet(requests),
           \A n \in Node : log'[n] = log[n] \/ LogsProposed(n)',
           \A n \in Node : applied'[n] = applied[n] \/ AppliedProposed(n)'
    PROVE  OnePlacePerProposal'
<1>1. PICK S : S = {}
  OBVIOUS
<1>2. BagToSet(requests') \subseteq BagToSet(requests) \cup S
  OBVIOUS
<1>3. \A req \in S : ReqProposed(req)'
  BY <1>1
<1> QED
  BY <1>2, <1>3, PlaceFrame

(* A request is in place if the log of its sender is.                      *)
LEMMA PlaceRequest ==
    ASSUME TypeOK, CallsKept, OnePlacePerProposal,
           NEW n \in Node, NEW f \in Node, NEW next \in Nat \ {0},
           NEW r, r = AppendEntries(n, f, next)
    PROVE  ReqProposed(r)'
<1>1. PICK s \in Seq(Entry) : s = log[n]
  BY DEF TypeOK
<1>2. \A i \in DOMAIN r.entries : r.prevIndex + i \in DOMAIN s /\ r.entries[i] = s[r.prevIndex + i]
  BY <1>1, AppendEntriesFacts
<1>3. ASSUME NEW j \in DOMAIN s PROVE IsProposed(s[j], j)'
  <2>1. s[j] \in Entry
    OBVIOUS
  <2>2. IsProposed(s[j], j)
    BY <1>1 DEF OnePlacePerProposal
  <2> QED
    BY <2>1, <2>2, ProposedKept
<1>4. ASSUME NEW i \in DOMAIN r.entries PROVE IsProposed(r.entries[i], r.prevIndex + i)'
  BY <1>2, <1>3
<1> QED
  BY <1>4 DEF ReqProposed

LEMMA PlaceAppend ==
    ASSUME TypeOK, CallsKept, OnePlacePerProposal,
           NEW p \in Proposal, NEW n \in Node, AppendEntry(p, n)
    PROVE  OnePlacePerProposal'
<1>1. PICK s \in Seq(Entry) : s = log[n]
  BY DEF TypeOK
<1> DEFINE len == Len(s)
<1>2. PICK e : e = [term |-> currentTerm[n], index |-> len + 1, proposal |-> p]
  OBVIOUS
<1>3. e \in Entry /\ len \in Nat
  BY <1>2 DEF TypeOK, Entry
<1>4. log'[n] = Append(s, e) /\ phase'[p] = "sending" /\ target'[p] = len + 1
  BY <1>1, <1>2 DEF AppendEntry, TypeOK
<1>5. /\ \A m \in Node : m # n => log'[m] = log[m]
      /\ applied' = applied /\ requests' = requests
  BY DEF AppendEntry, TypeOK, netVars
<1>6. ASSUME NEW i \in DOMAIN Append(s, e) PROVE IsProposed(Append(s, e)[i], i)'
  <2>1. CASE i \in DOMAIN s
    <3>1. Append(s, e)[i] = s[i] /\ s[i] \in Entry
      BY <1>3, <2>1
    <3>2. IsProposed(s[i], i)
      BY <1>1, <2>1 DEF OnePlacePerProposal
    <3>3. IsProposed(s[i], i)'
      BY <3>1, <3>2, ProposedKept
    <3> QED
      BY <3>1, <3>3
  <2>2. CASE i \notin DOMAIN s
    <3>1. i = len + 1 /\ Append(s, e)[i] = e
      BY <1>3, <1>6, <2>2
    <3> QED
      BY <1>2, <1>4, <3>1 DEF IsProposed
  <2> QED
    BY <2>1, <2>2
<1>7. ASSUME NEW m \in Node, log'[m] # log[m] PROVE LogsProposed(m)'
  <2>1. m = n
    BY <1>5, <1>7
  <2> QED
    BY <1>4, <1>6, <2>1 DEF LogsProposed, IsProposed
<1> QED
  BY <1>5, <1>7, PlaceFrame

LEMMA PlaceSend ==
    ASSUME TypeOK, CallsKept, OnePlacePerProposal,
           NEW p \in Proposal, at[p] \in Node, sendAppendEntriesToAll(p)
    PROVE  OnePlacePerProposal'
<1> DEFINE S == {AppendEntries(at[p], f, nextIndex[at[p]][f]) : f \in Peers(at[p])}
<1>1. BagToSet(requests') = BagToSet(requests) \cup S
  BY BagCupFacts DEF sendAppendEntriesToAll, TypeOK
<1>2. ASSUME NEW r \in S PROVE ReqProposed(r)'
  <2>1. PICK f \in Node : r = AppendEntries(at[p], f, nextIndex[at[p]][f])
    BY DEF Peers
  <2>2. nextIndex[at[p]][f] \in Nat \ {0}
    BY DEF TypeOK
  <2> QED
    BY <2>1, <2>2, PlaceRequest
<1>3. log' = log /\ applied' = applied
  BY DEF sendAppendEntriesToAll, raftVars
<1> HIDE DEF S
<1> QED
  BY <1>1, <1>2, <1>3, PlaceFrame

LEMMA PlaceResponse ==
    ASSUME TypeOK, CallsKept, OnePlacePerProposal,
           NEW p \in Proposal, at[p] \in Node, NEW resp \in BagToSet(responses),
           handleAppendEntriesResponse(p, resp)
    PROVE  OnePlacePerProposal'
<1> DEFINE n == at[p]
           f == resp.follower
           next == IF nextIndex[n][f] > 1 THEN nextIndex[n][f] - 1 ELSE 1
<1>1. log' = log /\ applied' = applied /\ f \in Node
  BY DEF handleAppendEntriesResponse, TypeOK, Response
<1>2. next \in Nat \ {0}
  <2>1. nextIndex[n][f] \in Nat \ {0}
    BY <1>1 DEF TypeOK
  <2> QED
    BY <2>1
<1>3. CASE Retry(n, resp)
  <2>1. PICK r : r = AppendEntries(n, f, next)
    OBVIOUS
  <2>2. BagToSet(requests') = BagToSet(requests) \cup {r}
    BY <1>3, <2>1, BagAddFacts DEF Retry, TypeOK
  <2>3. ReqProposed(r)'
    BY <1>1, <1>2, <2>1, PlaceRequest
  <2>4. PICK S : S = {r}
    OBVIOUS
  <2>5. \A req \in S : ReqProposed(req)'
    BY <2>3, <2>4 DEF ReqProposed, IsProposed
  <2> QED
    BY <1>1, <2>2, <2>4, <2>5, PlaceFrame
<1>4. CASE StepDown(n, resp) \/ Replicated(n, resp)
  <2>1. requests' = requests
    BY <1>4 DEF StepDown, Replicated
  <2> QED
    BY <1>1, <2>1, PlaceSameRequests
<1> QED
  BY <1>3, <1>4 DEF handleAppendEntriesResponse

LEMMA PlaceCommitted ==
    ASSUME TypeOK, CallsKept, OnePlacePerProposal,
           NEW p \in Proposal, at[p] \in Node, Committed(p)
    PROVE  OnePlacePerProposal'
<1>1. PICK n \in Node : n = at[p]
  OBVIOUS
<1>2. PICK old \in Seq(Entry) : old = applied[n]
  BY DEF TypeOK
<1>3. PICK l \in Seq(Entry) : l = log[n]
  BY DEF TypeOK
<1>4. PICK i \in Nat : i = commitIndex[n]
  BY DEF TypeOK
<1>5. PICK a : a = old \o SubSeq(l, Len(old) + 1, i)
  OBVIOUS
<1>6. applied' = [applied EXCEPT ![n] = a] /\ log' = log /\ requests' = requests
  BY <1>1, <1>2, <1>3, <1>4, <1>5 DEF Committed, Unapplied, netVars
<1>7. i <= Len(l) \/ i <= Len(old)
  BY <1>1, <1>2, <1>3, <1>4 DEF Committed, OutOfRange
<1>8. /\ a \in Seq(Entry)
      /\ Len(a) = IF i > Len(old) THEN i ELSE Len(old)
      /\ \A j \in DOMAIN a : a[j] = IF j <= Len(old) THEN old[j] ELSE l[j]
  BY <1>5, <1>7, ApplyFacts
<1>9. ASSUME NEW j \in DOMAIN a PROVE IsProposed(a[j], j)'
  <2>1. CASE j <= Len(old)
    <3>1. j \in DOMAIN old /\ a[j] = old[j] /\ old[j] \in Entry
      BY <1>8, <1>9, <2>1
    <3>2. IsProposed(old[j], j)
      BY <1>2, <3>1 DEF OnePlacePerProposal
    <3>3. IsProposed(old[j], j)'
      BY <3>1, <3>2, ProposedKept
    <3> QED
      BY <3>1, <3>3
  <2>2. CASE ~(j <= Len(old))
    <3>1. j \in DOMAIN l /\ a[j] = l[j] /\ l[j] \in Entry
      BY <1>7, <1>8, <1>9, <2>2
    <3>2. IsProposed(l[j], j)
      BY <1>3, <3>1 DEF OnePlacePerProposal
    <3>3. IsProposed(l[j], j)'
      BY <3>1, <3>2, ProposedKept
    <3> QED
      BY <3>1, <3>3
  <2> QED
    BY <2>1, <2>2
<1>10. ASSUME NEW m \in Node, applied'[m] # applied[m] PROVE AppliedProposed(m)'
  <2>1. m = n /\ applied'[m] = a
    BY <1>6, <1>10 DEF TypeOK
  <2> QED
    BY <1>9, <2>1 DEF AppliedProposed, IsProposed
<1> QED
  BY <1>6, <1>10, PlaceSameRequests

LEMMA PlaceMerge ==
    ASSUME TypeOK, CallsKept, OnePlacePerProposal,
           NEW n \in Node, NEW req \in BagToSet(requests), req.prevIndex <= Len(log[n]),
           NEW l \in Merge(log[n], req), NEW j \in DOMAIN l
    PROVE  l[j] \in Entry /\ IsProposed(l[j], j)'
<1>1. req \in Request /\ req.prevIndex \in Nat /\ req.entries \in Seq(Entry)
  BY DEF TypeOK, Request
<1>2. PICK s \in Seq(Entry) : s = log[n]
  BY DEF TypeOK
<1>3. /\ l \in Seq(Entry)
      /\ \/ j \in DOMAIN s /\ l[j] = s[j]
         \/ /\ j - req.prevIndex \in DOMAIN req.entries
            /\ l[j] = req.entries[j - req.prevIndex]
  BY <1>1, <1>2, MergeFacts
<1>4. l[j] \in Entry /\ j \in Nat
  BY <1>3
<1>5. CASE j \in DOMAIN s /\ l[j] = s[j]
  BY <1>2, <1>4, <1>5, ProposedKept DEF OnePlacePerProposal
<1>6. ASSUME j - req.prevIndex \in DOMAIN req.entries,
             l[j] = req.entries[j - req.prevIndex]
      PROVE  IsProposed(l[j], j)'
  <2>1. req.prevIndex + (j - req.prevIndex) = j
    BY <1>1, <1>4
  <2>2. IsProposed(l[j], j)
    BY <1>6, <2>1 DEF OnePlacePerProposal
  <2> QED
    BY <1>4, <2>2, ProposedKept
<1> QED
  BY <1>3, <1>4, <1>5, <1>6

LEMMA PlaceAccept ==
    ASSUME TypeOK, CallsKept, OnePlacePerProposal,
           NEW n \in Node, NEW req \in BagToSet(requests), Accept(n, req)
    PROVE  OnePlacePerProposal'
<1>1. req.prevIndex \in Nat /\ log[n] \in Seq(Entry)
  BY DEF TypeOK, Request
<1>2. req.prevIndex <= Len(log[n])
  BY <1>1 DEF Accept
<1>3. PICK l \in Seq(Entry), c \in Nat, a \in Seq(Entry) :
         /\ log' = [log EXCEPT ![n] = l] /\ l \in Merge(log[n], req)
         /\ commitIndex' = [commitIndex EXCEPT ![n] = c] /\ c = CommitAfter(n, req, l)
         /\ applied' = [applied EXCEPT ![n] = a]
         /\ Len(a) = IF c > commitIndex[n] /\ c > Len(applied[n])
                     THEN c ELSE Len(applied[n])
         /\ \A j \in DOMAIN a : a[j] = IF j <= Len(applied[n]) THEN applied[n][j] ELSE l[j]
         /\ Len(a) > Len(applied[n]) => Len(a) <= Len(l)
         /\ Respond(req, req.term, TRUE, Len(l))
  BY AcceptFacts
<1>4. \A j \in DOMAIN l : IsProposed(l[j], j)'
  BY <1>2, <1>3, PlaceMerge
<1>5. ASSUME NEW j \in DOMAIN a PROVE IsProposed(a[j], j)'
  <2>1. PICK old \in Seq(Entry) : old = applied[n]
    BY DEF TypeOK
  <2>2. CASE j <= Len(old)
    <3>1. j \in DOMAIN old /\ a[j] = old[j] /\ old[j] \in Entry
      BY <1>3, <1>5, <2>1, <2>2
    <3>2. IsProposed(old[j], j)
      BY <2>1, <3>1 DEF OnePlacePerProposal
    <3>3. IsProposed(old[j], j)'
      BY <3>1, <3>2, ProposedKept
    <3> QED
      BY <3>1, <3>3
  <2>3. CASE ~(j <= Len(old))
    <3>1. Len(a) > Len(old) /\ j \in DOMAIN l
      BY <1>3, <1>5, <2>1, <2>3
    <3>2. a[j] = l[j]
      BY <1>3, <1>5, <2>1, <2>3
    <3> QED
      BY <1>4, <3>1, <3>2
  <2> QED
    BY <2>2, <2>3
<1>6. ASSUME NEW m \in Node, log'[m] # log[m] PROVE LogsProposed(m)'
  <2>1. m = n /\ log'[m] = l
    BY <1>3, <1>6 DEF TypeOK
  <2> QED
    BY <1>4, <2>1 DEF LogsProposed, IsProposed
<1>7. ASSUME NEW m \in Node, applied'[m] # applied[m] PROVE AppliedProposed(m)'
  <2>1. m = n /\ applied'[m] = a
    BY <1>3, <1>7 DEF TypeOK
  <2> QED
    BY <1>5, <2>1 DEF AppliedProposed, IsProposed
<1>8. BagToSet(requests') \subseteq BagToSet(requests)
  BY <1>3, BagRemoveFacts DEF Respond, TypeOK
<1> QED
  BY <1>6, <1>7, <1>8, PlaceSameRequests

LEMMA PlaceReject ==
    ASSUME TypeOK, CallsKept, OnePlacePerProposal,
           NEW n \in Node, NEW req \in BagToSet(requests),
           RejectStale(n, req) \/ RejectShort(n, req) \/ RejectMismatch(n, req)
    PROVE  OnePlacePerProposal'
<1>1. BagToSet(requests') \subseteq BagToSet(requests) /\ applied' = applied
  BY BagRemoveFacts DEF Respond, TypeOK, RejectStale, RejectShort, RejectMismatch
<1>2. CASE RejectMismatch(n, req)
  <2>1. PICK s \in Seq(Entry) : s = log[n]
    BY DEF TypeOK
  <2>2. PICK k \in Nat : k = req.prevIndex - 1 /\ k <= Len(s)
    <3>1. req.prevIndex \in DOMAIN s
      BY <1>2, <2>1 DEF RejectMismatch
    <3> QED
      BY <3>1
  <2>3. PICK t : t = SubSeq(s, 1, k)
    OBVIOUS
  <2>4. log' = [log EXCEPT ![n] = t]
    BY <1>2, <2>1, <2>2, <2>3 DEF RejectMismatch
  <2>5. ASSUME NEW i \in DOMAIN t PROVE IsProposed(t[i], i)'
    <3>1. i \in DOMAIN s /\ t[i] = s[i]
      BY <2>2, <2>3, <2>5
    <3>2. s[i] \in Entry /\ IsProposed(s[i], i)
      BY <2>1, <3>1 DEF OnePlacePerProposal
    <3>3. IsProposed(s[i], i)'
      BY <3>2, ProposedKept
    <3> QED
      BY <3>1, <3>3
  <2>6. ASSUME NEW m \in Node, log'[m] # log[m] PROVE LogsProposed(m)'
    <3>1. m = n /\ log'[m] = t
      BY <2>4, <2>6 DEF TypeOK
    <3> QED
      BY <2>5, <3>1 DEF LogsProposed, IsProposed
  <2> QED
    BY <1>1, <2>6, PlaceSameRequests
<1>3. CASE RejectStale(n, req) \/ RejectShort(n, req)
  <2>1. log' = log
    BY <1>3 DEF RejectStale, RejectShort
  <2> QED
    BY <1>1, <2>1, PlaceSameRequests
<1> QED
  BY <1>2, <1>3

LEMMA PlaceInductive == TypeOK /\ OnePlacePerProposal /\ [Next]_vars => OnePlacePerProposal'
<1> SUFFICES ASSUME TypeOK, OnePlacePerProposal, [Next]_vars PROVE OnePlacePerProposal'
  OBVIOUS
<1>0. CallsKept
  BY CallsAreKept
<1>1. ASSUME UNCHANGED <<log, applied, requests>> PROVE OnePlacePerProposal'
  BY <1>0, <1>1, PlaceSameRequests
<1>2. CASE Elections \/ UNCHANGED vars
  BY <1>1, <1>2 DEF Elections, vars, raftVars, netVars
<1>3. ASSUME NEW n \in Node, Run(n) PROVE OnePlacePerProposal'
  <2>1. ASSUME NEW call \in calls, Callback(call) PROVE OnePlacePerProposal'
    BY <1>1, <2>1 DEF Callback, netVars
  <2>2. ASSUME NEW p \in Proposal, AppendEntry(p, n) PROVE OnePlacePerProposal'
    BY <1>0, <2>2, PlaceAppend
  <2>3. ASSUME NEW p \in Proposal, at[p] = n, sendAppendEntriesToAll(p) PROVE OnePlacePerProposal'
    BY <1>0, <2>3, PlaceSend
  <2>4. ASSUME NEW p \in Proposal, at[p] = n, NEW resp \in BagToSet(responses),
               handleAppendEntriesResponse(p, resp)
        PROVE  OnePlacePerProposal'
    BY <1>0, <2>4, PlaceResponse
  <2>5. ASSUME NEW p \in Proposal, at[p] = n, Committed(p) PROVE OnePlacePerProposal'
    BY <1>0, <2>5, PlaceCommitted
  <2>6. ASSUME NEW p \in Proposal, Panic(p) \/ NotYet(p) \/ Timeout(p) PROVE OnePlacePerProposal'
    BY <1>1, <2>6 DEF Panic, NotYet, Timeout, raftVars, netVars
  <2>7. ASSUME NEW req \in BagToSet(requests), HandleAppendEntries(n, req)
        PROVE  OnePlacePerProposal'
    BY <1>0, <2>7, PlaceReject, PlaceAccept DEF HandleAppendEntries
  <2> QED
    BY <1>3, <2>1, <2>2, <2>3, <2>4, <2>5, <2>6, <2>7 DEF Run
<1> QED
  BY <1>2, <1>3 DEF Next

LEMMA PlaceInit == Init => OnePlacePerProposal
BY EmptyBagFacts DEF Init, OnePlacePerProposal

(* An entry is in one place only, at the index at which ProposeEntry put   *)
(* it, whoever leads, in how many terms, and whatever is truncated.        *)
THEOREM OnePlacePerProposalHolds == Spec => []OnePlacePerProposal
<1>1. TypeOK /\ OnePlacePerProposal /\ [Next]_vars => OnePlacePerProposal'
  BY PlaceInductive
<1> QED
  BY <1>1, PlaceInit, TypeCorrect, PTL DEF Spec
-----------------------------------------------------------------------------
(* What was applied stays, whoever leads.                                  *)

LEMMA AppliedGrows ==
    ASSUME TypeOK, [Next]_vars, NEW m \in Node
    PROVE  IsPrefixOf(applied[m], applied'[m])
<1>0. applied[m] \in Seq(Entry) /\ IsPrefixOf(applied[m], applied[m])
  BY DEF TypeOK, IsPrefixOf
<1>1. CASE applied' = applied
  BY <1>0, <1>1
<1>2. CASE Elections \/ UNCHANGED vars
  BY <1>1, <1>2 DEF Elections, vars, raftVars
<1>3. ASSUME NEW n \in Node, Run(n) PROVE IsPrefixOf(applied[m], applied'[m])
  <2>1. CASE \/ \E call \in calls : Callback(call)
             \/ \E p \in Proposal : AppendEntry(p, n)
             \/ \E p \in Proposal :
                   \/ sendAppendEntriesToAll(p)
                   \/ \E resp \in BagToSet(responses) : handleAppendEntriesResponse(p, resp)
                   \/ Panic(p) \/ NotYet(p) \/ Timeout(p)
    BY <1>1, <2>1 DEF Callback, AppendEntry, sendAppendEntriesToAll, handleAppendEntriesResponse,
                      Panic, NotYet, Timeout, raftVars
  <2>2. ASSUME NEW p \in Proposal, at[p] = n, Committed(p)
        PROVE  IsPrefixOf(applied[m], applied'[m])
    <3>1. PICK old \in Seq(Entry), l \in Seq(Entry), i \in Nat :
             old = applied[n] /\ l = log[n] /\ i = commitIndex[n]
      BY DEF TypeOK
    <3>2. PICK a : a = old \o SubSeq(l, Len(old) + 1, i)
      OBVIOUS
    <3>3. applied' = [applied EXCEPT ![n] = a]
      BY <2>2, <3>1, <3>2 DEF Committed, Unapplied
    <3>4. i <= Len(l) \/ i <= Len(old)
      BY <2>2, <3>1 DEF Committed, OutOfRange
    <3>5. /\ a \in Seq(Entry)
          /\ Len(a) = IF i > Len(old) THEN i ELSE Len(old)
          /\ \A j \in DOMAIN a : a[j] = IF j <= Len(old) THEN old[j] ELSE l[j]
      BY <3>2, <3>4, ApplyFacts
    <3>6. IsPrefixOf(old, a)
      BY <3>5 DEF IsPrefixOf
    <3> QED
      BY <1>0, <3>1, <3>3, <3>6 DEF TypeOK
  <2>3. ASSUME NEW req \in BagToSet(requests), Accept(n, req)
        PROVE  IsPrefixOf(applied[m], applied'[m])
    <3>1. PICK l \in Seq(Entry), c \in Nat, a \in Seq(Entry) :
             /\ log' = [log EXCEPT ![n] = l] /\ l \in Merge(log[n], req)
             /\ commitIndex' = [commitIndex EXCEPT ![n] = c] /\ c = CommitAfter(n, req, l)
             /\ applied' = [applied EXCEPT ![n] = a]
             /\ Len(a) = IF c > commitIndex[n] /\ c > Len(applied[n])
                         THEN c ELSE Len(applied[n])
             /\ \A j \in DOMAIN a : a[j] = IF j <= Len(applied[n]) THEN applied[n][j] ELSE l[j]
             /\ Len(a) > Len(applied[n]) => Len(a) <= Len(l)
             /\ Respond(req, req.term, TRUE, Len(l))
      BY <2>3, AcceptFacts
    <3>2. PICK old \in Seq(Entry) : old = applied[n]
      BY DEF TypeOK
    <3>3. Len(a) >= Len(old)
      <4>1. Len(a) = IF c > commitIndex[n] /\ c > Len(old) THEN c ELSE Len(old)
        BY <3>1, <3>2
      <4>2. Len(old) \in Nat
        OBVIOUS
      <4> QED
        BY <4>1, <4>2
    <3>4. IsPrefixOf(old, a)
      BY <3>1, <3>2, <3>3 DEF IsPrefixOf
    <3> QED
      BY <1>0, <3>1, <3>2, <3>4 DEF TypeOK
  <2>4. CASE \E req \in BagToSet(requests) :
                RejectStale(n, req) \/ RejectShort(n, req) \/ RejectMismatch(n, req)
    BY <1>1, <2>4 DEF RejectStale, RejectShort, RejectMismatch
  <2> QED
    BY <1>3, <2>1, <2>2, <2>3, <2>4 DEF Run, HandleAppendEntries
<1> QED
  BY <1>2, <1>3 DEF Next

-----------------------------------------------------------------------------
(* The terms of the log.  Strengthened by what the election promises of    *)
(* its calls, and by the callers' nodes having a term: a caller passed the *)
(* guard isLeader, and no term goes back to 0.                             *)

CallsWon == \A call \in calls : \E w \in won : w.leader = call.leader /\ w.term = call.term

CallersHaveTerms ==
    \A p \in Proposal : \A n \in Node : phase[p] # "idle" /\ at[p] = n => currentTerm[n] # 0

TermsInv == LogTermsWon /\ CallsWon /\ CallersHaveTerms

LeaderWon(n)  == isLeader[n] => \E w \in won : w.leader = n /\ w.term <= currentTerm[n]
EntriesWon(s) == \A i \in DOMAIN s : TermWon(s[i].term)
RequestWon(req) == TermWon(req.term) /\ EntriesWon(req.entries)

LEMMA TermsParts ==
    LogTermsWon <=>
        /\ \A n \in Node : /\ currentTerm[n] # 0 => TermWon(currentTerm[n])
                           /\ EntriesWon(log[n])
                           /\ LeaderWon(n)
        /\ \A req \in BagToSet(requests) : RequestWon(req)
        /\ \A resp \in BagToSet(responses) : TermWon(resp.term)
BY DEF LogTermsWon, EntriesWon, LeaderWon, RequestWon

(* Victories only add to what was won.                                     *)
LEMMA TermsElections ==
    ASSUME TypeOK, TermsInv, Elections
    PROVE  TermsInv'
<1>1. won \subseteq won' /\ UNCHANGED <<raftVars, netVars, callVars>>
  BY DEF Elections, LeadershipNext, Win, Hear
<1>2. ASSUME NEW call \in calls'
      PROVE  \E w \in won' : w.leader = call.leader /\ w.term = call.term
  <2>1. CASE call \in calls
    BY <1>1, <2>1 DEF TermsInv, CallsWon
  <2>2. ASSUME NEW n \in Node, NEW t \in Term, Win(n, t), call \notin calls
        PROVE  \E w \in won' : w.leader = call.leader /\ w.term = call.term
    <3>1. call = [at |-> n, leader |-> n, term |-> t] /\ [leader |-> n, term |-> t] \in won'
      BY <1>2, <2>2 DEF Win
    <3> QED
      BY <3>1
  <2>3. ASSUME NEW n \in Node, NEW w \in won, Hear(n, w), call \notin calls
        PROVE  w \in won' /\ w.leader = call.leader /\ w.term = call.term
    BY <1>2, <2>3 DEF Hear
  <2> QED
    BY <2>1, <2>2, <2>3 DEF Elections, LeadershipNext
<1> QED
  BY <1>1, <1>2
     DEF TermsInv, LogTermsWon, TermWon, CallsWon, CallersHaveTerms, raftVars, netVars, callVars

(* What a step of a node may do.                                           *)
TermsTaken ==
    \A n \in Node : \/ currentTerm'[n] = currentTerm[n]
                    \/ currentTerm'[n] # 0 /\ TermWon(currentTerm'[n])
LogsTaken == \A n \in Node : log'[n] = log[n] \/ EntriesWon(log'[n])
LeadersTaken ==
    \A n \in Node : isLeader'[n] =>
        \/ isLeader[n] /\ currentTerm'[n] >= currentTerm[n]
        \/ \E w \in won : w.leader = n /\ w.term <= currentTerm'[n]
RequestsSent ==
    \A req \in BagToSet(requests') : req \in BagToSet(requests) \/ RequestWon(req)
ResponsesSent ==
    \A resp \in BagToSet(responses') : resp \in BagToSet(responses) \/ TermWon(resp.term)

LEMMA TermsFrame ==
    ASSUME TypeOK, TermsInv, UNCHANGED leadershipVars, TermsTaken, LogsTaken, LeadersTaken,
           RequestsSent, ResponsesSent, CallersHaveTerms'
    PROVE  TermsInv'
<1>1. won' = won /\ calls' = calls
  BY DEF leadershipVars
<1>2. CallsWon'
  BY <1>1 DEF TermsInv, CallsWon
<1>3. \A n \in Node : currentTerm'[n] # 0 => TermWon(currentTerm'[n])
  BY DEF TermsInv, LogTermsWon, TermsTaken
<1>4. \A n \in Node : EntriesWon(log'[n])
  BY DEF TermsInv, LogTermsWon, EntriesWon, LogsTaken
<1>5. ASSUME NEW n \in Node, isLeader'[n]
      PROVE  \E w \in won : w.leader = n /\ w.term <= currentTerm'[n]
  <2>1. CASE isLeader[n] /\ currentTerm'[n] = currentTerm[n]
    BY <2>1 DEF TermsInv, LogTermsWon
  <2>2. CASE isLeader[n] /\ currentTerm'[n] >= currentTerm[n] /\ currentTerm'[n] # currentTerm[n]
    <3>1. PICK w \in won : w.leader = n /\ w.term <= currentTerm[n]
      BY <2>2 DEF TermsInv, LogTermsWon
    <3>2. PICK v \in won : v.term = currentTerm'[n]
      BY <2>2 DEF TermsTaken, TermWon
    <3>3. w.term \in Nat /\ currentTerm[n] \in Nat /\ currentTerm'[n] \in Nat
      BY <3>2, TermsArePositive DEF TypeOK, Victory
    <3> QED
      BY <2>2, <3>1, <3>3
  <2> QED
    BY <1>5, <2>1, <2>2 DEF LeadersTaken
<1>6. \A req \in BagToSet(requests') : RequestWon(req)
  BY TermsParts DEF TermsInv, RequestsSent
<1>7. \A resp \in BagToSet(responses') : TermWon(resp.term)
  BY DEF TermsInv, LogTermsWon, ResponsesSent
<1> QED
  BY <1>1, <1>2, <1>3, <1>4, <1>5, <1>6, <1>7
     DEF TermsInv, LogTermsWon, EntriesWon, RequestWon, TermWon

(* The log, the terms and who leads change in some steps only.             *)
LEMMA TermsSame ==
    ASSUME TypeOK, currentTerm' = currentTerm, isLeader' = isLeader
    PROVE  TermsTaken /\ LeadersTaken
<1>1. ASSUME NEW n \in Node PROVE currentTerm'[n] = currentTerm[n] /\ currentTerm'[n] >= currentTerm[n]
  <2>1. currentTerm[n] \in Nat
    BY DEF TypeOK
  <2> QED
    BY <2>1
<1>2. TermsTaken
  BY <1>1 DEF TermsTaken
<1> QED
  BY <1>1, <1>2 DEF LeadersTaken

LEMMA TermsSet ==
    ASSUME TypeOK, NEW n \in Node, NEW t, t # 0, TermWon(t),
           currentTerm' = [currentTerm EXCEPT ![n] = t]
    PROVE  TermsTaken
<1>1. ASSUME NEW m \in Node, m = n PROVE currentTerm'[m] # 0 /\ TermWon(currentTerm'[m])
  <2>1. currentTerm'[m] = t
    BY <1>1 DEF TypeOK
  <2> QED
    BY <2>1
<1>2. ASSUME NEW m \in Node, m # n PROVE currentTerm'[m] = currentTerm[m]
  BY <1>2 DEF TypeOK
<1> QED
  BY <1>1, <1>2 DEF TermsTaken

LEMMA TermsCallback ==
    ASSUME TypeOK, TermsInv, NEW call \in calls, Callback(call)
    PROVE  TermsInv'
<1>1. PICK w \in won : w.leader = call.leader /\ w.term = call.term
  BY DEF TermsInv, CallsWon
<1>2. call.at \in Node /\ call.term \in Nat /\ call.term # 0 /\ TermWon(call.term)
  BY <1>1, TermsArePositive DEF TypeOK, Call, TermWon
<1>3. /\ currentTerm' = [currentTerm EXCEPT ![call.at] = call.term]
      /\ \/ isLeader' = [isLeader EXCEPT ![call.at] = FALSE]
         \/ call.leader = call.at /\ isLeader' = [isLeader EXCEPT ![call.at] = TRUE]
      /\ UNCHANGED <<leadershipVars, log, netVars, callVars>>
  BY DEF Callback, BecomeLeader, BecomeFollower
<1>4. currentTerm \in [Node -> Nat] /\ isLeader \in [Node -> BOOLEAN]
  BY DEF TypeOK
<1>5. TermsTaken /\ LeadersTaken
  <2>1. TermsTaken
    BY <1>2, <1>3, <1>4, TermsSet
  <2>2. ASSUME NEW n \in Node, isLeader'[n], n = call.at
        PROVE  w.leader = n /\ w.term <= currentTerm'[n]
    BY <1>1, <1>2, <1>3, <1>4, <2>2
  <2>3. ASSUME NEW n \in Node, isLeader'[n], n # call.at
        PROVE  isLeader[n] /\ currentTerm'[n] >= currentTerm[n]
    BY <1>3, <1>4, <2>3
  <2> QED
    BY <2>1, <2>2, <2>3 DEF LeadersTaken
<1>6. CallersHaveTerms'
  BY <1>2, <1>3, <1>4 DEF TermsInv, CallersHaveTerms, callVars
<1>7. UNCHANGED leadershipVars /\ LogsTaken /\ RequestsSent /\ ResponsesSent
  BY <1>3 DEF netVars, LogsTaken, RequestsSent, ResponsesSent
<1> QED
  BY <1>5, <1>6, <1>7, TermsFrame

LEMMA TermsAppend ==
    ASSUME TypeOK, TermsInv, NEW p \in Proposal, NEW n \in Node, AppendEntry(p, n)
    PROVE  TermsInv'
<1>1. PICK s \in Seq(Entry) : s = log[n]
  BY DEF TypeOK
<1>2. PICK e : e = [term |-> currentTerm[n], index |-> Len(s) + 1, proposal |-> p]
  OBVIOUS
<1>3. currentTerm[n] \in Nat /\ currentTerm[n] # 0 /\ TermWon(currentTerm[n])
  <2>1. PICK w \in won : w.term <= currentTerm[n]
    BY DEF AppendEntry, TermsInv, LogTermsWon
  <2>2. w.term \in Nat \ {0} /\ currentTerm[n] \in Nat
    BY TermsArePositive DEF TypeOK, Victory
  <2> QED
    BY <2>1, <2>2 DEF TermsInv, LogTermsWon
<1>4. log' = [log EXCEPT ![n] = Append(s, e)]
  BY <1>1, <1>2 DEF AppendEntry
<1>5. EntriesWon(Append(s, e))
  <2> SUFFICES ASSUME NEW i \in DOMAIN Append(s, e) PROVE TermWon(Append(s, e)[i].term)
    BY DEF EntriesWon
  <2>1. e \in Entry
    BY <1>2, <1>3 DEF Entry
  <2>2. CASE i \in DOMAIN s
    <3>1. Append(s, e)[i] = s[i]
      BY <2>1, <2>2
    <3> QED
      BY <1>1, <2>2, <3>1 DEF TermsInv, LogTermsWon
  <2>3. CASE i \notin DOMAIN s
    <3>1. Append(s, e)[i] = e
      BY <2>1, <2>3
    <3> QED
      BY <1>2, <1>3, <3>1
  <2> QED
    BY <2>2, <2>3
<1>6. /\ UNCHANGED leadershipVars /\ currentTerm' = currentTerm /\ isLeader' = isLeader
      /\ requests' = requests /\ responses' = responses
  BY DEF AppendEntry, netVars
<1>7. LogsTaken
  BY <1>4, <1>5 DEF TypeOK, LogsTaken
<1>8. CallersHaveTerms'
  BY <1>3, <1>6 DEF TermsInv, CallersHaveTerms, AppendEntry, TypeOK
<1>9. RequestsSent /\ ResponsesSent
  BY <1>6 DEF RequestsSent, ResponsesSent
<1> QED
  BY <1>6, <1>7, <1>8, <1>9, TermsSame, TermsFrame

(* A request is in a won term if its sender is.                            *)
LEMMA TermsRequest ==
    ASSUME TypeOK, TermsInv, NEW n \in Node, currentTerm[n] # 0,
           NEW f \in Node, NEW next \in Nat \ {0}, NEW r, r = AppendEntries(n, f, next)
    PROVE  RequestWon(r)
<1>1. r.term = currentTerm[n]
  BY DEF AppendEntries
<1>2. \A i \in DOMAIN r.entries : r.prevIndex + i \in DOMAIN log[n]
                                 /\ r.entries[i] = log[n][r.prevIndex + i]
  BY AppendEntriesFacts
<1> QED
  BY <1>1, <1>2 DEF RequestWon, EntriesWon, TermsInv, LogTermsWon

LEMMA TermsSend ==
    ASSUME TypeOK, TermsInv, NEW p \in Proposal, at[p] \in Node, sendAppendEntriesToAll(p)
    PROVE  TermsInv'
<1> DEFINE S == {AppendEntries(at[p], f, nextIndex[at[p]][f]) : f \in Peers(at[p])}
<1>1. BagToSet(requests') = BagToSet(requests) \cup S
  BY BagCupFacts DEF sendAppendEntriesToAll, TypeOK
<1>2. currentTerm[at[p]] # 0
  BY DEF sendAppendEntriesToAll, TermsInv, CallersHaveTerms
<1>3. ASSUME NEW r \in S PROVE RequestWon(r)
  <2>1. PICK f \in Node : r = AppendEntries(at[p], f, nextIndex[at[p]][f])
    BY DEF Peers
  <2>2. nextIndex[at[p]][f] \in Nat \ {0}
    BY DEF TypeOK
  <2> QED
    BY <1>2, <2>1, <2>2, TermsRequest
<1>4. /\ UNCHANGED leadershipVars /\ currentTerm' = currentTerm /\ isLeader' = isLeader
      /\ log' = log /\ responses' = responses
  BY DEF sendAppendEntriesToAll, raftVars
<1>5. CallersHaveTerms'
  BY <1>4 DEF TermsInv, CallersHaveTerms, sendAppendEntriesToAll, TypeOK
<1> HIDE DEF S
<1>6. LogsTaken /\ RequestsSent /\ ResponsesSent
  BY <1>1, <1>3, <1>4 DEF LogsTaken, RequestsSent, ResponsesSent
<1> QED
  BY <1>4, <1>5, <1>6, TermsSame, TermsFrame

LEMMA TermsResponse ==
    ASSUME TypeOK, TermsInv, NEW p \in Proposal, at[p] \in Node,
           NEW resp \in BagToSet(responses), handleAppendEntriesResponse(p, resp)
    PROVE  TermsInv'
<1> DEFINE n == at[p]
           f == resp.follower
           next == IF nextIndex[n][f] > 1 THEN nextIndex[n][f] - 1 ELSE 1
<1>1. /\ UNCHANGED leadershipVars /\ log' = log /\ f \in Node /\ resp.term \in Nat
      /\ BagToSet(responses') \subseteq BagToSet(responses)
  BY BagRemoveFacts DEF handleAppendEntriesResponse, TypeOK, Response
<1>2. /\ currentTerm \in [Node -> Nat] /\ isLeader \in [Node -> BOOLEAN]
      /\ currentTerm[n] # 0 /\ TermWon(resp.term)
  BY DEF TypeOK, handleAppendEntriesResponse, TermsInv, LogTermsWon, CallersHaveTerms
<1>3. phase' = [phase EXCEPT ![p] = "checking"] /\ at' = at /\ phase[p] = "waiting"
  BY DEF handleAppendEntriesResponse
<1>4. CASE StepDown(n, resp)
  <2>1. /\ currentTerm' = [currentTerm EXCEPT ![n] = resp.term] /\ resp.term > currentTerm[n]
        /\ isLeader' = [isLeader EXCEPT ![n] = FALSE] /\ requests' = requests
    BY <1>4 DEF StepDown
  <2>2. TermsTaken
    <3>1. n \in Node /\ resp.term # 0 /\ TermWon(resp.term)
      BY <1>1, <1>2, <2>1
    <3> HIDE DEF n
    <3> QED
      BY <2>1, <3>1, TermsSet
  <2>3. LeadersTaken
    BY <1>1, <1>2, <2>1 DEF LeadersTaken
  <2>4. ASSUME NEW q \in Proposal, NEW m \in Node, phase'[q] # "idle", at'[q] = m
        PROVE  currentTerm'[m] # 0
    <3>1. phase[q] # "idle" /\ at[q] = m
      BY <1>3, <2>4 DEF TypeOK
    <3>2. currentTerm[m] # 0
      BY <3>1 DEF TermsInv, CallersHaveTerms
    <3>3. resp.term # 0
      BY <1>1, <1>2, <2>1
    <3> HIDE DEF n
    <3> QED
      BY <1>2, <2>1, <3>2, <3>3
  <2>5. LogsTaken /\ RequestsSent /\ ResponsesSent
    BY <1>1, <2>1 DEF LogsTaken, RequestsSent, ResponsesSent
  <2> QED
    BY <1>1, <2>2, <2>3, <2>4, <2>5, TermsFrame DEF CallersHaveTerms
<1>5. CASE Replicated(n, resp) \/ Retry(n, resp)
  <2>1. currentTerm' = currentTerm /\ isLeader' = isLeader
    BY <1>5 DEF Replicated, Retry
  <2>2. CallersHaveTerms'
    BY <1>3, <2>1 DEF TermsInv, CallersHaveTerms, TypeOK
  <2>3. RequestsSent
    <3>1. CASE Replicated(n, resp)
      BY <3>1 DEF Replicated, RequestsSent
    <3>2. CASE Retry(n, resp)
      <4>1. PICK r : r = AppendEntries(n, f, next)
        OBVIOUS
      <4>2. BagToSet(requests') = BagToSet(requests) \cup {r}
        BY <3>2, <4>1, BagAddFacts DEF Retry, TypeOK
      <4>3. next \in Nat \ {0}
        <5>1. nextIndex[n][f] \in Nat \ {0}
          BY <1>1 DEF TypeOK
        <5> QED
          BY <5>1
      <4>4. RequestWon(r)
        BY <1>1, <1>2, <4>1, <4>3, TermsRequest
      <4> QED
        BY <4>2, <4>4 DEF RequestsSent
    <3> QED
      BY <1>5, <3>1, <3>2
  <2>4. LogsTaken /\ ResponsesSent
    BY <1>1 DEF LogsTaken, ResponsesSent
  <2> QED
    BY <1>1, <2>1, <2>2, <2>3, <2>4, TermsSame, TermsFrame
<1> QED
  BY <1>4, <1>5 DEF handleAppendEntriesResponse

LEMMA TermsCommitted ==
    ASSUME TypeOK, TermsInv, NEW p \in Proposal, Committed(p) \/ Panic(p) \/ NotYet(p) \/ Timeout(p)
    PROVE  TermsInv'
<1>1. /\ UNCHANGED leadershipVars /\ currentTerm' = currentTerm /\ isLeader' = isLeader
      /\ log' = log /\ requests' = requests /\ responses' = responses /\ at' = at
  BY DEF Committed, Panic, NotYet, Timeout, raftVars, netVars, callVars
<1>2. ASSUME NEW q \in Proposal, phase'[q] # "idle" PROVE phase[q] # "idle"
  BY <1>2 DEF Committed, Panic, NotYet, Timeout, callVars, TypeOK
<1>4. CallersHaveTerms'
  BY <1>1, <1>2 DEF TermsInv, CallersHaveTerms
<1>3. LogsTaken /\ RequestsSent /\ ResponsesSent
  BY <1>1 DEF LogsTaken, RequestsSent, ResponsesSent
<1> QED
  BY <1>1, <1>3, <1>4, TermsSame, TermsFrame

(* The follower adopts the term of the request, or refuses in its own.     *)
LEMMA TermsRespond ==
    ASSUME TypeOK, TermsInv, NEW n \in Node, NEW req \in BagToSet(requests), req.to = n,
           NEW t \in Nat, NEW ok \in BOOLEAN, NEW match \in Nat,
           Respond(req, t, ok, match), TermWon(t)
    PROVE  RequestsSent /\ ResponsesSent
<1>1. PICK r : r = [to |-> req.leader, term |-> t, success |-> ok,
                    follower |-> req.to, match |-> match]
  OBVIOUS
<1>2. BagToSet(responses') = BagToSet(responses) \cup {r}
  BY <1>1, BagAddFacts DEF Respond, TypeOK
<1>3. BagToSet(requests') \subseteq BagToSet(requests)
  BY BagRemoveFacts DEF Respond, TypeOK
<1> QED
  BY <1>1, <1>2, <1>3 DEF RequestsSent, ResponsesSent

(* The request's term was won, and 0 never is.                             *)
LEMMA TermsOfRequest ==
    ASSUME TypeOK, TermsInv, NEW req \in BagToSet(requests)
    PROVE  req.term \in Nat /\ req.term # 0 /\ RequestWon(req)
<1>1. RequestWon(req) /\ req.term \in Nat
  BY TermsParts DEF TermsInv, TypeOK, Request
<1>2. PICK w \in won : w.term = req.term
  BY <1>1 DEF RequestWon, TermWon
<1> QED
  BY <1>1, <1>2, TermsArePositive DEF TypeOK, Victory

LEMMA TermsAdopt ==
    ASSUME TypeOK, TermsInv, NEW n \in Node, NEW req \in BagToSet(requests),
           req.term >= currentTerm[n],
           currentTerm' = [currentTerm EXCEPT ![n] = req.term],
           UNCHANGED <<isLeader, callVars>>
    PROVE  TermsTaken /\ LeadersTaken /\ CallersHaveTerms'
<1>1. req.term \in Nat /\ req.term # 0 /\ TermWon(req.term)
  BY TermsOfRequest DEF RequestWon
<1>2. currentTerm \in [Node -> Nat]
  BY DEF TypeOK
<1>3. TermsTaken
  BY <1>1, TermsSet
<1>4. \A m \in Node : currentTerm'[m] >= currentTerm[m]
  BY <1>1, <1>2
<1>5. LeadersTaken
  BY <1>4 DEF LeadersTaken
<1>6. CallersHaveTerms'
  BY <1>1, <1>2 DEF TermsInv, CallersHaveTerms, callVars
<1> QED
  BY <1>3, <1>5, <1>6

(* What is merged is from a log or from a request.                         *)
LEMMA TermsMerge ==
    ASSUME TypeOK, TermsInv, NEW n \in Node, NEW req \in BagToSet(requests),
           NEW l \in Merge(log[n], req), Accept(n, req)
    PROVE  EntriesWon(l)
<1>0. req \in Request /\ req.prevIndex <= Len(log[n])
  <2>1. log[n] \in Seq(Entry) /\ Len(log[n]) \in Nat /\ req \in Request
    BY DEF TypeOK
  <2> QED
    BY <2>1 DEF Accept
<1>1. PICK s \in Seq(Entry), es \in Seq(Entry), k \in Nat :
         s = log[n] /\ es = req.entries /\ k = req.prevIndex
  BY <1>0 DEF TypeOK, Request
<1>2. EntriesWon(s) /\ EntriesWon(es)
  BY <1>1, TermsParts DEF TermsInv, RequestWon
<1>3. ASSUME NEW i \in DOMAIN l
      PROVE  TermWon(l[i].term)
  <2>1. (i \in DOMAIN s /\ l[i] = s[i]) \/ (i - k \in DOMAIN es /\ l[i] = es[i - k])
    BY <1>0, <1>1, <1>3, MergeFacts
  <2> QED
    BY <1>2, <2>1 DEF EntriesWon
<1> QED
  BY <1>3 DEF EntriesWon

LEMMA TermsHandle ==
    ASSUME TypeOK, TermsInv, NEW n \in Node, NEW req \in BagToSet(requests),
           HandleAppendEntries(n, req)
    PROVE  TermsInv'
<1>1. /\ UNCHANGED <<leadershipVars, isLeader, callVars>> /\ req.to = n
      /\ req \in Request /\ req.prevIndex \in Nat
  BY DEF HandleAppendEntries, TypeOK, Request
<1>2. req.term \in Nat /\ req.term # 0 /\ TermWon(req.term)
  BY TermsOfRequest DEF RequestWon
<1>3. PICK s \in Seq(Entry) : s = log[n] /\ Len(s) \in Nat /\ currentTerm[n] \in Nat
  BY DEF TypeOK
<1>4. EntriesWon(s)
  BY <1>3, TermsParts DEF TermsInv
<1>5. CASE RejectStale(n, req)
  <2>1. /\ currentTerm' = currentTerm /\ log' = log
        /\ Respond(req, currentTerm[n], FALSE, 0) /\ req.term < currentTerm[n]
    BY <1>5 DEF RejectStale
  <2>2. TermWon(currentTerm[n])
    <3>1. currentTerm[n] # 0
      BY <1>2, <1>3, <2>1
    <3> QED
      BY <3>1 DEF TermsInv, LogTermsWon
  <2>3. RequestsSent /\ ResponsesSent
    BY <1>1, <1>3, <2>1, <2>2, TermsRespond
  <2>4. CallersHaveTerms' /\ LogsTaken /\ UNCHANGED leadershipVars
    BY <1>1, <2>1 DEF TermsInv, CallersHaveTerms, callVars, LogsTaken
  <2> QED
    BY <1>1, <2>1, <2>3, <2>4, TermsSame, TermsFrame
<1>6. ASSUME req.term >= currentTerm[n], currentTerm' = [currentTerm EXCEPT ![n] = req.term],
             NEW l, EntriesWon(l), log' = [log EXCEPT ![n] = l],
             NEW ok \in BOOLEAN, NEW match \in Nat, Respond(req, req.term, ok, match)
      PROVE  TermsInv'
  <2>1. TermsTaken /\ LeadersTaken /\ CallersHaveTerms'
    BY <1>1, <1>6, TermsAdopt
  <2>2. RequestsSent /\ ResponsesSent
    BY <1>1, <1>2, <1>6, TermsRespond
  <2>3. \A m \in Node : log'[m] = IF m = n THEN l ELSE log[m]
    BY <1>6 DEF TypeOK
  <2>4. LogsTaken /\ UNCHANGED leadershipVars
    BY <1>1, <1>6, <2>3 DEF LogsTaken
  <2> QED
    BY <2>1, <2>2, <2>4, TermsFrame
<1>7. CASE RejectShort(n, req)
  <2>1. log' = [log EXCEPT ![n] = s]
    BY <1>3, <1>7 DEF RejectShort, TypeOK
  <2> QED
    BY <1>3, <1>4, <1>6, <1>7, <2>1 DEF RejectShort
<1>8. CASE RejectMismatch(n, req)
  <2>1. PICK k \in Nat : k = req.prevIndex - 1 /\ k <= Len(s)
    <3>1. req.prevIndex \in DOMAIN s
      BY <1>3, <1>8 DEF RejectMismatch
    <3> QED
      BY <3>1
  <2>2. PICK l : l = SubSeq(s, 1, k)
    OBVIOUS
  <2>3. \A i \in DOMAIN l : i \in DOMAIN s /\ l[i] = s[i]
    BY <2>1, <2>2
  <2>4. EntriesWon(l)
    BY <1>4, <2>3 DEF EntriesWon
  <2>5. log' = [log EXCEPT ![n] = l] /\ Respond(req, req.term, FALSE, k)
    BY <1>3, <1>8, <2>1, <2>2 DEF RejectMismatch
  <2> QED
    BY <1>6, <1>8, <2>1, <2>4, <2>5 DEF RejectMismatch
<1>9. CASE Accept(n, req)
  <2>1. PICK l \in Seq(Entry) : /\ log' = [log EXCEPT ![n] = l] /\ l \in Merge(log[n], req)
                                /\ Respond(req, req.term, TRUE, Len(l))
    BY <1>9, AcceptFacts
  <2>2. EntriesWon(l)
    BY <1>9, <2>1, TermsMerge
  <2>3. Len(l) \in Nat /\ TRUE \in BOOLEAN
    OBVIOUS
  <2>4. req.term >= currentTerm[n] /\ currentTerm' = [currentTerm EXCEPT ![n] = req.term]
    BY <1>9 DEF Accept
  <2> QED
    BY <1>6, <2>1, <2>2, <2>3, <2>4
<1> QED
  BY <1>5, <1>7, <1>8, <1>9 DEF HandleAppendEntries

LEMMA TermsInductive == TypeOK /\ TermsInv /\ [Next]_vars => TermsInv'
<1> SUFFICES ASSUME TypeOK, TermsInv, [Next]_vars PROVE TermsInv'
  OBVIOUS
<1>1. CASE UNCHANGED vars
  BY <1>1 DEF vars, leadershipVars, raftVars, netVars, callVars,
              TermsInv, LogTermsWon, TermWon, CallsWon, CallersHaveTerms
<1>2. CASE Elections
  BY <1>2, TermsElections
<1>3. ASSUME NEW n \in Node, Run(n) PROVE TermsInv'
  <2>1. ASSUME NEW call \in calls, Callback(call) PROVE TermsInv'
    BY <2>1, TermsCallback
  <2>2. ASSUME NEW p \in Proposal, AppendEntry(p, n) PROVE TermsInv'
    BY <2>2, TermsAppend
  <2>3. ASSUME NEW p \in Proposal, at[p] = n, sendAppendEntriesToAll(p) PROVE TermsInv'
    BY <2>3, TermsSend
  <2>4. ASSUME NEW p \in Proposal, at[p] = n, NEW resp \in BagToSet(responses),
               handleAppendEntriesResponse(p, resp)
        PROVE  TermsInv'
    BY <2>4, TermsResponse
  <2>5. ASSUME NEW p \in Proposal, Committed(p) \/ Panic(p) \/ NotYet(p) \/ Timeout(p)
        PROVE  TermsInv'
    BY <2>5, TermsCommitted
  <2>6. ASSUME NEW req \in BagToSet(requests), HandleAppendEntries(n, req) PROVE TermsInv'
    BY <2>6, TermsHandle
  <2> QED
    BY <1>3, <2>1, <2>2, <2>3, <2>4, <2>5, <2>6 DEF Run
<1> QED
  BY <1>1, <1>2, <1>3 DEF Next

LEMMA TermsInit == Init => TermsInv
BY EmptyBagFacts DEF Init, LeadershipInit, TermsInv, LogTermsWon, CallsWon, CallersHaveTerms

(* Every term at a node, in an entry, in a request or in a response was    *)
(* won in an election, and a leader of the log has won one, whoever leads, *)
(* however many callbacks, requests and responses are late.                *)
THEOREM LogTermsWonHolds == Spec => []LogTermsWon
<1>1. TypeOK /\ TermsInv /\ [Next]_vars => TermsInv'
  BY TermsInductive
<1>2. TermsInv => LogTermsWon
  BY DEF TermsInv
<1> QED
  BY <1>1, <1>2, TermsInit, TypeCorrect, PTL DEF Spec
=============================================================================
