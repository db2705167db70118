--------------------------- MODULE MCGhtHashTable ---------------------------
(* Finite instance of GhtHashTable: four keys, three of them in one bucket *)
(* of every table, so that the fourth insertion rehashes a table of one.   *)
EXTENDS GhtHashTable, TLC

CONSTANTS k1, k2, k3, k4, d1, d2

MCKeys == {k1, k2, k3, k4}
MCHash == k1 :> 1 @@ k2 :> 0 @@ k3 :> 0 @@ k4 :> 0
MCPairs == (MCKeys \X {d1}) \cup {<<k1, d2>>}

(* The keys k2, k3 and k4 differ in nothing. *)
MCSymmetry == Permutations({k2, k3, k4})
=============================================================================
