------------------------------- MODULE Mutex -------------------------------
(***************************************************************************)
(* What the distributed lock promises its callers, with no token, no ring  *)
(* and no node: AcquireLock blocks a client until the critical section is  *)
(* its own, and one client has it at a time.  TokenRing implements this    *)
(* specification whatever order tokens, requests, releases and crashes     *)
(* come in.  Nothing is promised about who is next: ReleaseAccess prefers  *)
(* the releaser's own node, so the lock is not fair between nodes.         *)
(***************************************************************************)
CONSTANT Client

VARIABLE status    \* status[c]: what client c's last call has come to

mutexVars == <<status>>

MutexInit == status = [c \in Client |-> "out"]

Free == \A c \in Client : status[c] # "in"

(* The caller blocks in AcquireLock.                                       *)
Wait(c) == /\ status[c] = "out"
           /\ status' = [status EXCEPT ![c] = "waiting"]

(* The critical section is free and goes to a caller, who may have waited. *)
Enter(c) == /\ Free
            /\ status[c] \in {"out", "waiting"}
            /\ status' = [status EXCEPT ![c] = "in"]

Leave(c) == /\ status[c] = "in"
            /\ status' = [status EXCEPT ![c] = "out"]

(* One call ends c's critical section and starts d's.                      *)
HandOver(c, d) == /\ status[c] = "in"
                  /\ status[d] = "waiting"
                  /\ status' = [status EXCEPT ![c] = "out", ![d] = "in"]

MutexNext == \E c \in Client : \/ Wait(c)
                               \/ Enter(c)
                               \/ Leave(c)
                               \/ \E d \in Client : HandOver(c, d)

MutexSpec == MutexInit /\ [][MutexNext]_mutexVars
=============================================================================
