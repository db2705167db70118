------------------------------ MODULE MCBroker ------------------------------
(* Finite instance of Broker.  The messages are "net..." and "n" followed  *)
(* by a byte iconv refuses.  The topics are "n" and "net", "n" with that   *)
(* byte, which the trie takes for "n", and "n-t", which the trie refuses.  *)
EXTENDS Broker, TLC

CONSTANTS f1, f2, f3, f4, a1, a2, n, net, n_x, n_t, m1, m2

MCFds        == {f1, f2, f3, f4}
MCTwoFds     == {f1, f2}
MCAddrs      == {a1, a2}
MCTopics     == {n, net, n_x, n_t}
MCStorable   == {n, net, n_x}
MCKeyOf      == [t \in MCTopics |-> IF t = n_x THEN n ELSE t]
MCMsgs       == {m1, m2}
MCSize       == m1 :> 1 @@ m2 :> 1
MCPrefixesOf == m1 :> <<n, net>> @@ m2 :> <<n, n_x>>

Subscribe(T) == [op |-> "subscribe", topics |-> T]

MCRequests     == {Subscribe({n, n_x, net, n_t})}
MCOneTopic     == {Subscribe({n})}
MCLiveRequests == {[op |-> "ping", topics |-> {}], Subscribe({n})}

(* No definition tells one descriptor or one address from another. *)
MCSymmetry == Permutations(MCFds) \cup Permutations(MCAddrs)
=============================================================================
