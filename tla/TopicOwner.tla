----------------------------- MODULE TopicOwner -----------------------------
(***************************************************************************)
(* What the topic registry promises, without the trie, the hash tables and *)
(* the clients' memory: a topic belongs to the client whose subscribe the  *)
(* broker handled first, for the life of the process.  Nothing takes a     *)
(* topic away: not an unsubscribe, not a second subscriber, not the        *)
(* owner's departure.                                                      *)
(***************************************************************************)
EXTENDS Naturals

CONSTANT Topics

VARIABLE owner     \* owner[t]: the id of t's client, 0 while t is free

Free == {t \in Topics : owner[t] = 0}

Init == owner = [t \in Topics |-> 0]

(* One client claims some of the free topics. *)
Claim ==
  /\ owner' \in [Topics -> Nat]
  /\ \A t \in Topics \ Free : owner'[t] = owner[t]
  /\ \A t, u \in Free : owner'[t] # 0 /\ owner'[u] # 0 => owner'[t] = owner'[u]

Spec == Init /\ [][Claim]_owner

=============================================================================
