------------------------------- MODULE MCChat -------------------------------
(* Chat for TLC: clients, messages and servers are interchangeable.        *)
EXTENDS Chat, TLC

ChatSymmetry == Permutations(Client) \cup Permutations(Message) \cup Permutations(Server)
=============================================================================
