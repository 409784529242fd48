------------------------------ MODULE Journal ------------------------------
(***************************************************************************)
(* What the replicated log promises the callers of ProposeEntry and the    *)
(* readers of the routing tables while one node wins the elections, with   *)
(* no terms, no indices and no messages: there is one history of decided   *)
(* proposals, which only grows; every node's table has been built from a   *)
(* beginning of it; and a call that returns true has its proposal in the   *)
(* history and in a table.  Nothing is promised about a call that returns  *)
(* false: its proposal may be decided later all the same.                  *)
(***************************************************************************)
EXTENDS Naturals, Sequences

CONSTANTS Node, Proposal

VARIABLES
    decided,    \* the history, oldest proposal first
    table,      \* table[n]: the proposals applied at n, in order
    outcome     \* what the call that makes proposal p has come to

journalVars == <<decided, table, outcome>>

JournalInit ==
    /\ decided = <<>>
    /\ table   = [n \in Node |-> <<>>]
    /\ outcome = [p \in Proposal |-> "none"]

Propose(p) ==
    /\ outcome[p] = "none"
    /\ outcome' = [outcome EXCEPT ![p] = "pending"]
    /\ UNCHANGED <<decided, table>>

(* Proposals that have been made, none of them twice, join the history.    *)
Decide ==
    /\ decided' \in Seq(Proposal)
    /\ Len(decided) < Len(decided')
    /\ \A i \in DOMAIN decided : decided'[i] = decided[i]
    /\ \A i \in DOMAIN decided' : outcome[decided'[i]] # "none"
    /\ \A i, j \in DOMAIN decided' : decided'[i] = decided'[j] => i = j
    /\ UNCHANGED <<table, outcome>>

(* The table of n catches up with the history, by any number of proposals. *)
Apply(n) ==
    /\ \E k \in Len(table[n]) + 1 .. Len(decided) :
          table' = [table EXCEPT ![n] = SubSeq(decided, 1, k)]
    /\ UNCHANGED <<decided, outcome>>

(* The call returns true.                                                  *)
Confirm(p) ==
    /\ outcome[p] = "pending"
    /\ \E n \in Node : \E i \in DOMAIN table[n] : table[n][i] = p
    /\ outcome' = [outcome EXCEPT ![p] = "true"]
    /\ UNCHANGED <<decided, table>>

(* The call returns false, whatever becomes of its proposal.               *)
GiveUp(p) ==
    /\ outcome[p] = "pending"
    /\ outcome' = [outcome EXCEPT ![p] = "false"]
    /\ UNCHANGED <<decided, table>>

JournalNext ==
    \/ \E p \in Proposal : Propose(p) \/ Confirm(p) \/ GiveUp(p)
    \/ Decide
    \/ \E n \in Node : Apply(n)

JournalSpec == JournalInit /\ [][JournalNext]_journalVars
=============================================================================
