----------------------------- MODULE OrderedMap -----------------------------
(***************************************************************************)
(* What ght_hash_table.h promises, without buckets, chains and counters: a *)
(* map that remembers the order of insertion.  Looking up, replacing and   *)
(* rehashing do not touch the order.  A table with bounded buckets may     *)
(* drop one entry for the sake of the one inserted.                        *)
(***************************************************************************)
EXTENDS SequencesExt

CONSTANTS Keys, Data

VARIABLE order     \* entries [key, data], the oldest first

Entry == [key : Keys, data : Data]

Has(old, k) == \E e \in Range(old) : e.key = k

Init == order = <<>>

(* The steps from the order "old" to the order "new". *)
Add(old, new) ==
  /\ new # <<>> /\ Last(new) \in Entry
  /\ ~Has(old, Last(new).key)
  /\ \/ Front(new) = old
     \/ \E i \in DOMAIN old : Front(new) = RemoveAt(old, i)

Change(old, new) ==
  \E i \in DOMAIN old, d \in Data : new = [old EXCEPT ![i].data = d]

Drop(old, new) == \E i \in DOMAIN old : new = RemoveAt(old, i)

Clear(new) == new = <<>>

Next ==
  \E old \in {order}, new \in {order'} :
    Add(old, new) \/ Change(old, new) \/ Drop(old, new) \/ Clear(new)

Spec == Init /\ [][Next]_order

=============================================================================
