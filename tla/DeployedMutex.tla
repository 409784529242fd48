--------------------------- MODULE DeployedMutex ---------------------------
(***************************************************************************)
(* What the lock promises when every node is a process that may end: the   *)
(* abstract lock, in which a call is made at a terminal, a section is      *)
(* handed over at one terminal only, and a process that ends takes the     *)
(* callers at its terminal with it, waiting or in the critical section,    *)
(* and no others.  Nothing is promised about a section whose client was    *)
(* taken so: it may never be entered again.                                *)
(***************************************************************************)
EXTENDS Mutex

CONSTANT Node

VARIABLE terminal   \* terminal[c]: where client c made its last call

deployedVars == <<mutexVars, terminal>>

DeployedInit == MutexInit /\ terminal \in [Client -> Node]

(* The call is made at n, and blocks or gets the critical section at once. *)
CallAt(c, n) == /\ status[c] = "out"
                /\ Wait(c) \/ Enter(c)
                /\ terminal' = [terminal EXCEPT ![c] = n]

Admit(c) == /\ status[c] = "waiting"
            /\ Enter(c)
            /\ UNCHANGED terminal

LeaveOrHandOver(c) == /\ \/ Leave(c)
                         \/ \E d \in Client : terminal[d] = terminal[c] /\ HandOver(c, d)
                      /\ UNCHANGED terminal

(* The process behind terminal n ends.                                     *)
Quit(n) == /\ status' = [c \in Client |-> IF terminal[c] = n THEN "out" ELSE status[c]]
           /\ UNCHANGED terminal

DeployedNext ==
    \/ \E c \in Client : \/ \E n \in Node : CallAt(c, n)
                         \/ Admit(c)
                         \/ LeaveOrHandOver(c)
    \/ \E n \in Node : Quit(n)

DeployedSpec == DeployedInit /\ [][DeployedNext]_deployedVars
=============================================================================
